--------------------------- MODULE XorbRetrieval ---------------------------
(***************************************************************************)
(* How the tasks of file terms get the data of their xorb blocks. The      *)
(* first task of a block looks into the chunk cache and otherwise          *)
(* downloads the block, while the others wait for its result. The blocks   *)
(* of one query share their URLs, which expire: a download that is refused *)
(* asks for new ones, under a lock that the other downloads wait for.      *)
(***************************************************************************)
EXTENDS ChunkCache

CONSTANTS
  Blocks,
  Connections,   \* permits of the download concurrency controller
  Cases          \* what each user needs, 1 + retry_max_attempts, and two bounds: how
                 \* often URLs expire and how often the process restarts

ASSUME RetrievalAssumption ==
  /\ Cases \subseteq [want : [Users -> Items], block : [Users -> Blocks],
                      attempts : Nat \ {0}, expiries : Nat, restarts : Nat]
  /\ \A c \in Cases, u, v \in Users : c.block[u] = c.block[v] => c.want[u] = c.want[v]
  /\ Connections \in Nat \ {0}

VARIABLES
  case,          \* the member of Cases
  data,          \* XorbBlock::data, and the task that initialises it
  phase,         \* per user, the step of retrieve_data
  attempt,       \* per user, requests made by its RetryWrapper
  last_id,       \* per user, last_acquisition_id of its XorbURLProvider
  id,            \* the acquisition id of the current URLs
  locked,        \* the writer of xorb_block_retrieval_urls is refetching
  expired,       \* the server refuses URLs with an id below this one
  free,          \* connection permits
  restarts

uvars == <<id, locked, expired>>
rvars == <<case, data, phase, attempt, last_id, free, restarts>>
vars == <<cvars, rvars, uvars>>

InitRetrieval(d, p, a, l, f) ==
  /\ d = [b \in Blocks |-> "empty"]
  /\ p = [u \in Users |-> "idle"]
  /\ a = [u \in Users |-> 0]
  /\ l = [u \in Users |-> 0]
  /\ f = Connections

Init ==
  /\ case \in Cases /\ want = case.want
  /\ EmptyCache
  /\ InitRetrieval(data, phase, attempt, last_id, free)
  /\ id = 0 /\ locked = FALSE /\ expired = 0 /\ restarts = 0

PhaseIs(u, p) == phase[u] = p
Enter(u, p) == phase' = [phase EXCEPT ![u] = p]

-----------------------------------------------------------------------------
\* OnceCell::get_or_try_init: one task at a time runs the initialisation. A
\* failure leaves the cell empty, and a task that has waited runs its own.
Claim(u) ==
  /\ PhaseIs(u, "idle")
  /\ data[case.block[u]] = "empty"
  /\ data' = [data EXCEPT ![case.block[u]] = "busy"]
  /\ Enter(u, "cache")
  /\ BeginGet(u)
  /\ UNCHANGED <<attempt, last_id, free, case, restarts, uvars>>

SeeData(u) ==
  /\ PhaseIs(u, "idle")
  /\ data[case.block[u]] = "ready"
  /\ Enter(u, "ready")
  /\ UNCHANGED <<cvars, data, attempt, last_id, free, case, restarts, uvars>>

\* An error of the cache counts as a miss.
AfterCache(u) ==
  /\ PhaseIs(u, "cache")
  /\ \/ /\ job[u].at \in {"hit", "damaged"}
        /\ data' = [data EXCEPT ![case.block[u]] = "ready"]
        /\ Enter(u, "ready")
     \/ /\ job[u].at = "miss"
        /\ Enter(u, "permit") /\ UNCHANGED data
  /\ EndJob(u, "idle")
  /\ UNCHANGED <<files, checked>> /\ UnchangedIndex
  /\ UNCHANGED <<attempt, last_id, free, case, restarts, uvars>>

acquire_download_permit(u) ==
  /\ PhaseIs(u, "permit") /\ free > 0
  /\ free' = free - 1
  /\ Enter(u, "request")
  /\ UNCHANGED <<cvars, data, attempt, last_id, case, restarts, uvars>>

-----------------------------------------------------------------------------
\* get_file_term_data. Each attempt takes the URL anew.
retrieve_url(u) ==
  /\ PhaseIs(u, "request") /\ ~locked
  /\ last_id' = [last_id EXCEPT ![u] = id]
  /\ Enter(u, "sent")
  /\ UNCHANGED <<cvars, data, attempt, free, case, restarts, uvars>>

Leave(u, cell, p) ==
  /\ free' = free + 1
  /\ data' = [data EXCEPT ![case.block[u]] = cell]
  /\ Enter(u, p)

\* The block is stored in the cache by a task that nobody waits for.
Succeed(u) ==
  /\ PhaseIs(u, "sent")
  /\ Leave(u, "ready", "ready")
  /\ BeginPut(u)
  /\ UNCHANGED <<attempt, last_id, case, restarts, uvars>>

FailFatally(u) ==
  /\ PhaseIs(u, "sent")
  /\ Leave(u, "empty", "failed")
  /\ UNCHANGED <<cvars, attempt, last_id, case, restarts, uvars>>

\* run_and_process after a retryable error
Retry(u) ==
  /\ attempt' = [attempt EXCEPT ![u] = @ + 1]
  /\ IF attempt[u] + 1 < case.attempts
       THEN Enter(u, "request") /\ UNCHANGED <<data, free>>
       ELSE Leave(u, "empty", "failed")
  /\ UNCHANGED <<cvars, last_id, case, restarts>>

FailTransiently(u) == PhaseIs(u, "sent") /\ Retry(u) /\ UNCHANGED uvars

Refuse(u) ==
  /\ PhaseIs(u, "sent") /\ last_id[u] < expired
  /\ Enter(u, "refresh")
  /\ UNCHANGED <<cvars, data, attempt, last_id, free, case, restarts, uvars>>

-----------------------------------------------------------------------------
\* refresh_retrieval_urls: nothing to do if the URLs are no longer those that were
\* refused, which is looked at before and after waiting for the lock.
CheckId(u) ==
  /\ PhaseIs(u, "refresh") /\ ~locked
  /\ IF id # last_id[u]
       THEN Retry(u)
       ELSE Enter(u, "relock") /\ UNCHANGED <<cvars, data, attempt, last_id, free, case, restarts>>
  /\ UNCHANGED uvars

\* Mutant: the id is not looked at again after waiting for the lock.
LockUnchecked(u) ==
  /\ PhaseIs(u, "relock") /\ ~locked
  /\ Enter(u, "refetch") /\ locked' = TRUE
  /\ UNCHANGED <<cvars, data, attempt, last_id, free, case, restarts, id, expired>>

LockUrls(u) ==
  /\ PhaseIs(u, "relock") /\ ~locked
  /\ IF id # last_id[u]
       THEN Retry(u) /\ UNCHANGED locked
       ELSE /\ Enter(u, "refetch") /\ locked' = TRUE
            /\ UNCHANGED <<cvars, data, attempt, last_id, free, case, restarts>>
  /\ UNCHANGED <<id, expired>>

Refetch(u) ==
  /\ PhaseIs(u, "refetch")
  /\ id' = id + 1 /\ locked' = FALSE
  /\ Retry(u)
  /\ UNCHANGED expired

\* An error, or a reconstruction that does not fit: fatal for this download.
FailRefetch(u) ==
  /\ PhaseIs(u, "refetch")
  /\ locked' = FALSE
  /\ Leave(u, "empty", "failed")
  /\ UNCHANGED <<cvars, attempt, last_id, case, restarts, id, expired>>

\* The server: URLs expire with time.
Expire ==
  /\ expired = id /\ expired < case.expiries
  /\ expired' = id + 1
  /\ UNCHANGED <<cvars, rvars, id, locked>>

-----------------------------------------------------------------------------
Restart ==
  /\ restarts < case.restarts
  /\ RestartCache
  /\ InitRetrieval(data', phase', attempt', last_id', free')
  /\ id' = 0 /\ locked' = FALSE /\ expired' = 0
  /\ restarts' = restarts + 1 /\ UNCHANGED case

UserStep(u) ==
  \/ Claim(u) \/ SeeData(u) \/ AfterCache(u) \/ acquire_download_permit(u)
  \/ retrieve_url(u) \/ Succeed(u) \/ Refuse(u)
  \/ CheckId(u) \/ LockUrls(u) \/ Refetch(u)
UserFails(u) == FailFatally(u) \/ FailTransiently(u) \/ FailRefetch(u)
StoreStep(u) == CacheStep(u) /\ UNCHANGED <<rvars, uvars>>
StoreFails(u) == CacheFails(u) /\ UNCHANGED <<rvars, uvars>>

Next ==
  \/ \E u \in Users : UserStep(u) \/ UserFails(u) \/ StoreStep(u) \/ StoreFails(u)
  \/ Expire \/ Restart

Fairness == \A u \in Users : WF_vars(UserStep(u)) /\ WF_vars(StoreStep(u))
Spec == Init /\ [][Next]_vars /\ Fairness

-----------------------------------------------------------------------------
\* Downloads that are refused at once refetch the URLs once: they are only ever
\* replaced when the server has refused those that are current.
OnlyRefusedReplaced == [][id' = id + 1 => id < expired]_id

\* Every task of a term gets its data or an error, however often URLs expire, the
\* task it waits for fails, or the cache hands out items without a file; and every
\* task that stores a block ends.
RetrievalEnds ==
  \A u \in Users :
    /\ PhaseIs(u, "idle") ~> (phase[u] \in {"ready", "failed"})
    /\ job[u].writing ~> ~job[u].writing
=============================================================================
