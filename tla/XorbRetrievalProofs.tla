------------------------ MODULE XorbRetrievalProofs ------------------------
(***************************************************************************)
(* Proofs about the chunk cache and the URLs of xorb blocks, for any       *)
(* number of tasks, items, blocks, connections and restarts.               *)
(***************************************************************************)
EXTENDS XorbRetrieval, TLAPS

Safety == Init /\ [][Next]_vars

-----------------------------------------------------------------------------
(***************************************************************************)
(* The chunk cache. A file is damaged only while no process runs, so       *)
(* within one process damage does not appear: a file that is damaged now   *)
(* was so when the process started.                                        *)
(***************************************************************************)
Places == {"idle", "find", "open", "opened", "remove", "delete", "look", "validate", "write",
           "lock", "evicted", "hit", "damaged", "miss", "stored"}
Cells == [item : Items \cup {NoCell.item}, origin : {"none", "put", "load"}]
Jobs == [at : Places, cell : Cells, content : Contents, evicted : SUBSET Items,
         writing : BOOLEAN]

CacheTypes ==
  /\ want \in [Users -> Items]
  /\ files \in [Items -> Contents]
  /\ items \subseteq [item : Items, origin : {"put", "load"}]
  /\ checked \subseteq Items
  /\ job \in [Users -> Jobs]
  /\ \A u \in Users : job[u].at \in {"open", "opened"} => job[u].cell.item \in Items

\* Neither an item that a put has made, nor one whose checksum was found right, nor one
\* that a get has opened and is about to find right has a damaged file.
NoDamage ==
  /\ \A c \in items : c.origin = "put" => files[c.item] # "bad"
  /\ \A i \in checked : files[i] # "bad"
  /\ \A u \in Users :
       job[u].at = "opened" /\ job[u].content = "good" => files[job[u].cell.item] # "bad"

CacheInv == CacheTypes /\ NoDamage

\* What every step but a restart does to the files.
NoNewDamage == \A i \in Items : files'[i] = "bad" => files[i] = "bad"

\* A step of one user that damages no file, and trusts only items that are intact.
LEMMA CacheStepKeeps ==
  ASSUME CacheInv, NEW u \in Users, NEW j \in Jobs, job' = [job EXCEPT ![u] = j],
         want' = want,
         files' \in [Items -> Contents], NoNewDamage,
         items' \subseteq [item : Items, origin : {"put", "load"}],
         \A c \in items' : c.origin = "put" => c \in items \/ files'[c.item] # "bad",
         checked' \subseteq Items,
         \A i \in checked' : i \in checked \/ files'[i] # "bad",
         j.at \in {"open", "opened"} => j.cell.item \in Items,
         j.at = "opened" /\ j.content = "good" => files'[j.cell.item] # "bad"
  PROVE  CacheInv'
<1>1. job' \in [Users -> Jobs] /\ job'[u] = j /\ \A v \in Users \ {u} : job'[v] = job[v]
  BY DEF CacheInv, CacheTypes
<1>2. CacheTypes'
  BY <1>1 DEF CacheInv, CacheTypes
<1>3. ASSUME NEW c \in items', c.origin = "put"
      PROVE  files'[c.item] # "bad"
  <2>1. c.item \in Items
    OBVIOUS
  <2> QED
    BY <1>3, <2>1 DEF CacheInv, NoDamage, NoNewDamage
<1>4. ASSUME NEW i \in checked'
      PROVE  files'[i] # "bad"
  BY <1>4 DEF CacheInv, NoDamage, NoNewDamage
<1>5. ASSUME NEW v \in Users, job'[v].at = "opened", job'[v].content = "good"
      PROVE  files'[job'[v].cell.item] # "bad"
  BY <1>1, <1>5 DEF CacheInv, CacheTypes, NoDamage, NoNewDamage
<1> QED
  BY <1>2, <1>3, <1>4, <1>5 DEF CacheInv, NoDamage

\* The records that the steps of a user leave behind.
LEMMA JobsHave ==
  ASSUME NEW a \in Places, NEW w \in BOOLEAN
  PROVE  /\ Job(a, NoCell, "absent", {}, w) \in Jobs
         /\ Job(a, NoCell, "absent", {}, w).at = a
         /\ \A j \in Jobs : /\ [j EXCEPT !.at = a] \in Jobs
                            /\ [j EXCEPT !.at = a].at = a
                            /\ [j EXCEPT !.at = a].cell = j.cell
                            /\ [j EXCEPT !.at = a].content = j.content
  BY DEF Job, NoCell, Cell, Jobs, Cells, Contents

\* A step that only moves a user on, and neither into nor past the opening of a file.
LEMMA OnlyMoves ==
  ASSUME CacheInv, NEW u \in Users, NEW j \in Jobs, job' = [job EXCEPT ![u] = j],
         UNCHANGED <<files, checked>>, UnchangedIndex, j.at \notin {"open", "opened"}
  PROVE  CacheInv'
  BY CacheStepKeeps, Zenon DEF CacheInv, CacheTypes, UnchangedIndex, NoNewDamage

\* The same when a file is deleted or cut short.
LEMMA OnlyDeletes ==
  ASSUME CacheInv, NEW u \in Users, NEW j \in Jobs, job' = [job EXCEPT ![u] = j],
         NEW i, NEW content \in {"absent", "short"}, files' = [files EXCEPT ![i] = content],
         UNCHANGED checked, UnchangedIndex, j.at \notin {"open", "opened"}
  PROVE  CacheInv'
<1>1. files' \in [Items -> Contents] /\ NoNewDamage
  BY Zenon DEF CacheInv, CacheTypes, NoNewDamage, Contents
<1> QED
  BY <1>1, CacheStepKeeps, Zenon DEF CacheInv, CacheTypes, UnchangedIndex

LEMMA GotoIs ==
  ASSUME CacheInv, NEW u \in Users, NEW a \in Places, Goto(u, a)
  PROVE  \E j \in Jobs : job' = [job EXCEPT ![u] = j] /\ j.at = a
<1>1. job[u] \in Jobs
  BY DEF CacheInv, CacheTypes
<1>2. [job[u] EXCEPT !.at = a] \in Jobs /\ [job[u] EXCEPT !.at = a].at = a
  BY <1>1, JobsHave, Zenon
<1>3. job' = [job EXCEPT ![u] = [job[u] EXCEPT !.at = a]]
  BY DEF Goto
<1> QED
  BY <1>2, <1>3, Zenon

LEMMA EndJobIs ==
  ASSUME NEW u \in Users, NEW a \in Places, EndJob(u, a)
  PROVE  \E j \in Jobs : job' = [job EXCEPT ![u] = j] /\ j.at = a
  BY JobsHave, Zenon DEF EndJob

\* A get: what it opens and finds good is not damaged, as long as it is read.
LEMMA GetKeeps ==
  ASSUME CacheInv, NEW u \in Users, GetStep(u)
  PROVE  CacheInv'
<1> USE DEF Places
<1>1. CASE Find(u)
  <2>1. CASE find_match(want[u]) = {} /\ EndJob(u, "miss")
    BY <1>1, <2>1, EndJobIs, OnlyMoves, SMTT(30) DEF Find
  <2>2. ASSUME NEW c \in find_match(want[u]),
               job' = [job EXCEPT ![u].at = "open", ![u].cell = c]
        PROVE  CacheInv'
    <3>1. c.item \in Items /\ c \in Cells
      BY DEF CacheInv, CacheTypes, find_match, Cells
    <3>2. PICK j \in Jobs : j = [job[u] EXCEPT !.at = "open", !.cell = c]
      BY <3>1, ZenonT(40) DEF CacheInv, CacheTypes, Jobs
    <3>3. j.at = "open" /\ j.cell = c
      BY <3>2 DEF CacheInv, CacheTypes, Jobs
    <3>4. job' = [job EXCEPT ![u] = j]
      BY <2>2, <3>2, Zenon
    <3> QED
      BY <1>1, <3>1, <3>3, <3>4, CacheStepKeeps, Zenon
      DEF Find, CacheInv, CacheTypes, UnchangedIndex, NoNewDamage
  <2> QED
    BY <1>1, <2>1, <2>2 DEF Find
<1>2. CASE Open(u)
  <2> DEFINE content == files[job[u].cell.item]
             to == IF content = "absent" THEN "remove" ELSE "opened"
  <2>1. job[u].cell.item \in Items /\ content \in Contents /\ to \in Places
    BY <1>2 DEF Open, JobIs, CacheInv, CacheTypes
  <2>2. job' = [job EXCEPT ![u].at = to, ![u].content = content]
    BY <1>2 DEF Open
  <2> HIDE DEF content, to
  <2>3. PICK j \in Jobs : j = [job[u] EXCEPT !.at = to, !.content = content]
    BY <2>1, ZenonT(40) DEF CacheInv, CacheTypes, Jobs
  <2>4. j.at = to /\ j.content = content /\ j.cell = job[u].cell
    BY <2>3 DEF CacheInv, CacheTypes, Jobs
  <2>5. job' = [job EXCEPT ![u] = j]
    BY <2>2, <2>3, Zenon
  <2>6. j.content = "good" => files[j.cell.item] # "bad"
    BY <2>4 DEF content
  <2> QED
    BY <1>2, <2>1, <2>4, <2>5, <2>6, CacheStepKeeps, ZenonT(40)
    DEF Open, CacheInv, CacheTypes, UnchangedIndex, NoNewDamage
<1>3. CASE ReadFile(u)
  <2> DEFINE c == job[u].cell
  <2>1. c.item \in Items /\ job[u].at = "opened"
    BY <1>3 DEF ReadFile, JobIs, CacheInv, CacheTypes
  <2>2. checked' \subseteq Items /\ \A i \in checked' : i \in checked \/ files'[i] # "bad"
    <3>1. CASE checked' = checked
      BY <3>1 DEF CacheInv, CacheTypes
    <3>2. CASE /\ checked' = checked \cup {c.item}
               /\ c.origin = "load"
               /\ is_verified(c) \/ job[u].content = "good"
      <4>1. c.item \in checked \/ files[c.item] # "bad"
        BY <2>1, <3>2 DEF is_verified, CacheInv, NoDamage
      <4> QED
        BY <1>3, <2>1, <3>2, <4>1 DEF ReadFile, CacheInv, CacheTypes
    <3> QED
      BY <1>3, <3>1, <3>2 DEF ReadFile
  <2>3. PICK j \in Jobs : job' = [job EXCEPT ![u] = j] /\ j.at \notin {"open", "opened"}
    <3>1. \E a \in {"damaged", "hit", "miss"} : EndJob(u, a) \/ Goto(u, "remove")
      BY <1>3 DEF ReadFile
    <3> QED
      BY <3>1, GotoIs, EndJobIs
  <2> QED
    BY <1>3, <2>2, <2>3, CacheStepKeeps, Zenon
    DEF ReadFile, CacheInv, CacheTypes, UnchangedIndex, NoNewDamage
<1> QED
  BY <1>1, <1>2, <1>3 DEF GetStep

\* Removing an item takes it out of the index and deletes its file.
LEMMA RemoveKeeps ==
  ASSUME CacheInv, NEW u \in Users, RemoveStep(u) \/ FailDelete(u)
  PROVE  CacheInv'
<1> USE DEF Places
<1>1. Resume(u) \in {"look", "find"}
  BY DEF Resume
<1>2. CASE remove_item(u)
  <2>1. PICK j \in Jobs : job' = [job EXCEPT ![u] = j] /\ j.at \notin {"open", "opened"}
    BY <1>1, <1>2, GotoIs DEF remove_item
  <2>2. items' \subseteq items
    BY <1>2 DEF remove_item
  <2> QED
    BY <1>2, <2>1, <2>2, CacheStepKeeps, Zenon DEF remove_item, CacheInv, CacheTypes, NoNewDamage
<1>3. CASE DeleteFile(u)
  <2>1. PICK j \in Jobs : job' = [job EXCEPT ![u] = j] /\ j.at \notin {"open", "opened"}
    BY <1>1, <1>3, GotoIs DEF DeleteFile
  <2> QED
    BY <1>3, <2>1, OnlyDeletes, Zenon DEF DeleteFile
<1>4. CASE FailDelete(u)
  <2>1. PICK j \in Jobs : job' = [job EXCEPT ![u] = j] /\ j.at \notin {"open", "opened"}
    BY <1>4, EndJobIs DEF FailDelete
  <2> QED
    BY <1>4, <2>1, OnlyDeletes, Zenon DEF FailDelete
<1> QED
  BY <1>2, <1>3, <1>4 DEF RemoveStep

\* A put stores a good file under the lock, before anybody can find the item.
LEMMA CommitKeeps ==
  ASSUME CacheInv, NEW u \in Users, Commit(u)
  PROVE  CacheInv'
<1> USE DEF Places
<1>1. PICK E \in Evictions(Capacity - Len(want[u])) :
        /\ items' = (items \ E) \cup {Cell(want[u], "put")}
        /\ IF E = {} THEN EndJob(u, "stored")
           ELSE job' = [job EXCEPT ![u].at = "evicted", ![u].evicted = ItemsOf(E)]
  BY DEF Commit
<1>2. want[u] \in Items /\ files' = [files EXCEPT ![want[u]] = "good"]
      /\ want' = want /\ checked' = checked
  BY DEF Commit, CacheInv, CacheTypes
<1>3. files' \in [Items -> Contents] /\ NoNewDamage /\ files'[want[u]] = "good"
  BY <1>2 DEF CacheInv, CacheTypes, NoNewDamage, Contents
<1>4. items' \subseteq [item : Items, origin : {"put", "load"}]
  BY <1>1, <1>2 DEF Cell, CacheInv, CacheTypes
<1>5. \A c \in items' : c \in items \/ files'[c.item] # "bad"
  BY <1>1, <1>3 DEF Cell
<1>6. PICK j \in Jobs : job' = [job EXCEPT ![u] = j] /\ j.at \notin {"open", "opened"}
  <2>1. CASE E = {}
    BY <1>1, <2>1, EndJobIs
  <2>2. CASE E # {}
    <3>1. ItemsOf(E) \in SUBSET Items
      BY DEF ItemsOf, Evictions, CacheInv, CacheTypes
    <3>2. PICK j \in Jobs : j = [job[u] EXCEPT !.at = "evicted", !.evicted = ItemsOf(E)]
      BY <3>1, ZenonT(40) DEF CacheInv, CacheTypes, Jobs
    <3>3. j.at = "evicted"
      BY <3>2 DEF CacheInv, CacheTypes, Jobs
    <3>4. job' = [job EXCEPT ![u] = j]
      BY <1>1, <2>2, <3>2, Zenon
    <3> QED
      BY <3>3, <3>4, Zenon
  <2> QED
    BY <2>1, <2>2
<1> QED
  BY <1>2, <1>3, <1>4, <1>5, <1>6, CacheStepKeeps, Zenon DEF CacheInv, CacheTypes

LEMMA EvictedKeeps ==
  ASSUME CacheInv, NEW u \in Users, DeleteEvicted(u) \/ FailEvicted(u)
  PROVE  CacheInv'
<1> USE DEF Places
<1>1. CASE DeleteEvicted(u)
  <2>1. PICK i \in job[u].evicted :
          /\ files' = [files EXCEPT ![i] = "absent"]
          /\ IF job[u].evicted = {i} THEN EndJob(u, "stored")
             ELSE job' = [job EXCEPT ![u].evicted = @ \ {i}]
    BY <1>1, Zenon DEF DeleteEvicted
  <2>2. PICK j \in Jobs : job' = [job EXCEPT ![u] = j] /\ j.at \notin {"open", "opened"}
    <3>1. CASE job[u].evicted = {i}
      BY <2>1, <3>1, EndJobIs
    <3>2. CASE job[u].evicted # {i}
      <4>1. PICK j \in Jobs : j = [job[u] EXCEPT !.evicted = job[u].evicted \ {i}]
        BY ZenonT(40) DEF CacheInv, CacheTypes, Jobs
      <4>2. j.at = "evicted"
        BY <1>1, <4>1 DEF DeleteEvicted, JobIs, CacheInv, CacheTypes, Jobs
      <4>3. job' = [job EXCEPT ![u] = j]
        BY <2>1, <3>2, <4>1
      <4> QED
        BY <4>2, <4>3, Zenon
    <3> QED
      BY <3>1, <3>2
  <2> QED
    BY <1>1, <2>1, <2>2, OnlyDeletes, Zenon DEF DeleteEvicted
<1>2. CASE FailEvicted(u)
  <2>1. PICK j \in Jobs : job' = [job EXCEPT ![u] = j] /\ j.at \notin {"open", "opened"}
    BY <1>2, EndJobIs DEF FailEvicted
  <2>2. CASE files' = files
    BY <1>2, <2>1, <2>2, OnlyMoves, Zenon DEF FailEvicted
  <2>3. CASE files' # files
    <3>1. PICK i \in job[u].evicted : files' = [files EXCEPT ![i] = "absent"]
      BY <1>2, <2>3 DEF FailEvicted
    <3> QED
      BY <1>2, <2>1, <3>1, OnlyDeletes, Zenon DEF FailEvicted
  <2> QED
    BY <2>2, <2>3
<1> QED
  BY <1>1, <1>2

LEMMA PutKeeps ==
  ASSUME CacheInv, NEW u \in Users, PutStep(u) \/ FailWrite(u)
  PROVE  CacheInv'
<1> USE DEF Places
<1>1. CASE Look(u)
  <2>1. ASSUME NEW c \in find_match(want[u]),
               job' = [job EXCEPT ![u].at = "validate", ![u].cell = c]
        PROVE  CacheInv'
    <3>1. c \in Cells
      BY DEF CacheInv, CacheTypes, find_match, Cells
    <3>2. PICK j \in Jobs : j = [job[u] EXCEPT !.at = "validate", !.cell = c]
      BY <3>1, ZenonT(40) DEF CacheInv, CacheTypes, Jobs
    <3>3. j.at = "validate"
      BY <3>2 DEF CacheInv, CacheTypes, Jobs
    <3>4. job' = [job EXCEPT ![u] = j]
      BY <2>1, <3>2, Zenon
    <3> QED
      BY <1>1, <3>3, <3>4, OnlyMoves, Zenon DEF Look
  <2>2. CASE EndJob(u, "stored") \/ Goto(u, "write")
    BY <1>1, <2>2, EndJobIs, GotoIs, OnlyMoves DEF Look
  <2> QED
    BY <1>1, <2>1, <2>2 DEF Look
<1>2. CASE validate_match(u) \/ Write(u) \/ AbortWrite(u)
  <2>1. \/ EndJob(u, "stored") \/ Goto(u, "remove") \/ Goto(u, "lock")
    BY <1>2 DEF validate_match, Write, AbortWrite
  <2>2. PICK j \in Jobs : job' = [job EXCEPT ![u] = j] /\ j.at \notin {"open", "opened"}
    BY <2>1, EndJobIs, GotoIs
  <2> QED
    BY <1>2, <2>2, OnlyMoves, Zenon DEF validate_match, Write, AbortWrite
<1>3. CASE FailWrite(u)
  <2>1. PICK j \in Jobs : job' = [job EXCEPT ![u] = j] /\ j.at \notin {"open", "opened"}
    BY <1>3, EndJobIs DEF FailWrite
  <2>2. CASE files' = files
    BY <1>3, <2>1, <2>2, OnlyMoves, Zenon DEF FailWrite
  <2>3. CASE files' = [files EXCEPT ![want[u]] = "short"]
    BY <1>3, <2>1, <2>3, OnlyDeletes, Zenon DEF FailWrite
  <2> QED
    BY <1>3, <2>2, <2>3 DEF FailWrite
<1> QED
  BY <1>1, <1>2, <1>3, CommitKeeps, EvictedKeeps DEF PutStep

\* A new process trusts nothing of what it finds.
LEMMA RestartKeeps ==
  ASSUME CacheInv, RestartCache
  PROVE  CacheInv'
<1> USE DEF Places
<1>1. PICK f \in Remains : Initialize(f)
  BY DEF RestartCache
<1>2. f \in [Items -> Contents]
  BY DEF Remains
<1>3. PICK visited \in SUBSET {i \in Items : f[i] # "absent"} :
        /\ items' = Loaded({i \in visited : f[i] # "short" /\ Len(i) <= Capacity})
        /\ files' = [i \in Items |-> IF i \in visited /\ f[i] = "short" THEN "absent" ELSE f[i]]
  BY <1>1, Zenon DEF Initialize
<1>4. \A c \in items' : c \in [item : Items, origin : {"put", "load"}] /\ c.origin # "put"
  BY <1>3 DEF Loaded, Cell
<1>5. files' \in [Items -> Contents]
  BY <1>2, <1>3 DEF Contents
<1>6. \A u \in Users : job'[u] \in Jobs /\ job'[u].at = "idle"
  BY JobsHave, ZenonT(40) DEF RestartCache
<1>7. job' \in [Users -> Jobs] /\ want' = want /\ checked' = {}
  BY <1>6, Zenon DEF RestartCache
<1> QED
  BY <1>4, <1>5, <1>6, <1>7 DEF CacheInv, CacheTypes, NoDamage

\* The steps of retrieve_data that start a get or a put, or take the result of a get.
LEMMA CallsKeep ==
  ASSUME CacheInv, NEW u \in Users, Claim(u) \/ AfterCache(u) \/ Succeed(u)
  PROVE  CacheInv'
<1> USE DEF Places
<1>1. PICK j \in Jobs : job' = [job EXCEPT ![u] = j] /\ j.at \notin {"open", "opened"}
  <2>1. CASE Claim(u)
    BY <2>1, JobsHave, ZenonT(40) DEF Claim, BeginGet
  <2>2. CASE AfterCache(u)
    BY <2>2, EndJobIs DEF AfterCache
  <2>3. CASE Succeed(u)
    BY <2>3, JobsHave, ZenonT(40) DEF Succeed, BeginPut
  <2> QED
    BY <2>1, <2>2, <2>3
<1>2. UNCHANGED <<files, checked>> /\ UnchangedIndex
  BY Zenon DEF Claim, AfterCache, Succeed, BeginGet, BeginPut
<1> QED
  BY <1>1, <1>2, OnlyMoves, Zenon

LEMMA CacheUnchanged ==
  ASSUME CacheInv, UNCHANGED cvars
  PROVE  CacheInv'
  BY DEF cvars, CacheInv, CacheTypes, NoDamage

LEMMA CacheInvInit == Init => CacheInv
<1> SUFFICES ASSUME Init PROVE CacheInv
  OBVIOUS
<1>1. want \in [Users -> Items]
  BY RetrievalAssumption DEF Init
<1>2. \A u \in Users : job[u] \in Jobs /\ job[u].at = "idle"
  BY JobsHave, ZenonT(40) DEF Init, EmptyCache, Places
<1>3. job \in [Users -> Jobs]
  BY <1>2, Zenon DEF Init, EmptyCache
<1>4. files \in [Items -> Contents] /\ items = {} /\ checked = {}
  BY DEF Init, EmptyCache, Contents
<1> QED
  BY <1>1, <1>2, <1>3, <1>4 DEF CacheInv, CacheTypes, NoDamage

LEMMA CacheInvStep == CacheInv /\ [Next]_vars => CacheInv'
<1> SUFFICES ASSUME CacheInv, [Next]_vars PROVE CacheInv'
  OBVIOUS
<1>1. ASSUME NEW u \in Users, UserStep(u) \/ UserFails(u)
      PROVE  CacheInv'
  <2>1. CASE Claim(u) \/ AfterCache(u) \/ Succeed(u)
    BY <2>1, CallsKeep
  <2>2. CASE ~(Claim(u) \/ AfterCache(u) \/ Succeed(u))
    <3>1. UNCHANGED cvars
      BY <1>1, <2>2 DEF UserStep, UserFails, SeeData, acquire_download_permit, retrieve_url,
         Refuse, CheckId, LockUrls, Refetch, FailFatally, FailTransiently, FailRefetch, Retry
    <3> QED
      BY <3>1, CacheUnchanged
  <2> QED
    BY <2>1, <2>2
<1>2. ASSUME NEW u \in Users, StoreStep(u) \/ StoreFails(u)
      PROVE  CacheInv'
  BY <1>2, GetKeeps, RemoveKeeps, PutKeeps, EvictedKeeps
  DEF StoreStep, StoreFails, CacheStep, CacheFails
<1>3. CASE Expire \/ UNCHANGED vars
  BY <1>3, CacheUnchanged DEF Expire, vars
<1>4. CASE Restart
  BY <1>4, RestartKeeps DEF Restart
<1> QED
  BY <1>1, <1>2, <1>3, <1>4 DEF Next

\* An item that get reads without computing its checksum has no damaged file
\* (disk.rs:340), for any number of tasks, items and restarts.
THEOREM TrustedItemsIntact == Safety => []TrustedIsIntact
<1>1. Init => CacheInv
  BY CacheInvInit
<1>2. CacheInv /\ [Next]_vars => CacheInv'
  BY CacheInvStep
<1>3. CacheInv => TrustedIsIntact
  BY DEF CacheInv, CacheTypes, NoDamage, TrustedIsIntact, is_verified
<1> QED
  BY <1>1, <1>2, <1>3, PTL DEF Safety

-----------------------------------------------------------------------------
(***************************************************************************)
(* The URLs. A download that wants to replace them was refused with the id *)
(* it remembers; the lock, and looking at the id under it, make that the   *)
(* id of the current ones.                                                 *)
(***************************************************************************)
Phases == {"idle", "cache", "permit", "request", "sent", "refresh", "relock", "refetch",
           "ready", "failed"}

UrlInv ==
  /\ id \in Nat /\ expired \in Nat
  /\ last_id \in [Users -> Nat]
  /\ phase \in [Users -> Phases]
  /\ \A u \in Users : phase[u] \in {"refresh", "relock", "refetch"} => last_id[u] < expired
  /\ \A u \in Users : phase[u] = "refetch" => locked /\ last_id[u] = id
  /\ \A u, v \in Users : phase[u] = "refetch" /\ phase[v] = "refetch" => u = v

\* A step that takes a user to a place outside of the refresh.
LEMMA LeavesRefresh ==
  ASSUME UrlInv, NEW u \in Users, NEW p \in Phases \ {"refresh", "relock", "refetch"}, Enter(u, p),
         last_id' \in [Users -> Nat], \A v \in Users \ {u} : last_id'[v] = last_id[v],
         UNCHANGED uvars
  PROVE  UrlInv'
  BY Zenon DEF UrlInv, Enter, Phases, uvars

LEMMA RetryEnters ==
  ASSUME NEW u \in Users, Retry(u)
  PROVE  (Enter(u, "request") \/ Enter(u, "failed")) /\ last_id' = last_id
  BY DEF Retry, Leave

LEMMA UserKeepsUrls ==
  ASSUME UrlInv, NEW u \in Users, UserStep(u) \/ UserFails(u)
  PROVE  UrlInv'
<1> USE DEF Phases
<1>1. CASE \/ Claim(u) \/ SeeData(u) \/ AfterCache(u) \/ acquire_download_permit(u)
           \/ Succeed(u) \/ FailFatally(u)
  <2>1. \E p \in {"cache", "ready", "permit", "request", "failed"} : Enter(u, p)
    BY <1>1 DEF Claim, SeeData, AfterCache, acquire_download_permit, Succeed, FailFatally, Leave
  <2>2. last_id' = last_id /\ UNCHANGED uvars
    BY <1>1 DEF Claim, SeeData, AfterCache, acquire_download_permit, Succeed, FailFatally
  <2> QED
    BY <2>1, <2>2, LeavesRefresh DEF UrlInv
<1>2. CASE retrieve_url(u)
  BY <1>2, LeavesRefresh DEF retrieve_url, UrlInv
<1>3. CASE FailTransiently(u)
  BY <1>3, RetryEnters, LeavesRefresh DEF FailTransiently, UrlInv
<1>4. CASE Refuse(u)
  BY <1>4 DEF Refuse, PhaseIs, Enter, UrlInv, uvars
<1>5. CASE CheckId(u)
  <2>1. CASE id # last_id[u]
    BY <1>5, <2>1, RetryEnters, LeavesRefresh DEF CheckId, UrlInv
  <2>2. CASE id = last_id[u]
    BY <1>5, <2>2 DEF CheckId, PhaseIs, Enter, UrlInv, uvars
  <2> QED
    BY <2>1, <2>2
<1>6. CASE LockUrls(u)
  <2>1. CASE id # last_id[u]
    BY <1>6, <2>1, RetryEnters, LeavesRefresh DEF LockUrls, UrlInv, uvars
  <2>2. CASE id = last_id[u]
    BY <1>6, <2>2 DEF LockUrls, PhaseIs, Enter, UrlInv
  <2> QED
    BY <2>1, <2>2
<1>7. CASE Refetch(u)
  <2>1. Enter(u, "request") \/ Enter(u, "failed")
    BY <1>7, RetryEnters DEF Refetch
  <2>2. last_id' = last_id /\ id' = id + 1 /\ expired' = expired
    BY <1>7, RetryEnters DEF Refetch
  <2>3. phase[u] = "refetch" /\ \A v \in Users \ {u} : phase[v] # "refetch"
    BY <1>7 DEF Refetch, PhaseIs, UrlInv
  <2> QED
    BY <2>1, <2>2, <2>3 DEF Enter, UrlInv
<1>8. CASE FailRefetch(u)
  <2>1. phase[u] = "refetch" /\ \A v \in Users \ {u} : phase[v] # "refetch"
    BY <1>8 DEF FailRefetch, PhaseIs, UrlInv
  <2> QED
    BY <1>8, <2>1 DEF FailRefetch, Leave, Enter, UrlInv
<1> QED
  BY <1>1, <1>2, <1>3, <1>4, <1>5, <1>6, <1>7, <1>8 DEF UserStep, UserFails

LEMMA UrlInvStep == UrlInv /\ [Next]_vars => UrlInv'
<1> SUFFICES ASSUME UrlInv, [Next]_vars PROVE UrlInv'
  OBVIOUS
<1>1. ASSUME NEW u \in Users, StoreStep(u) \/ StoreFails(u)
      PROVE  UrlInv'
  BY <1>1 DEF StoreStep, StoreFails, rvars, uvars, UrlInv
<1>2. CASE Expire
  BY <1>2 DEF Expire, rvars, UrlInv
<1>3. CASE Restart
  BY <1>3 DEF Restart, InitRetrieval, UrlInv, Phases
<1>4. CASE UNCHANGED vars
  BY <1>4 DEF vars, rvars, uvars, UrlInv
<1> QED
  BY <1>1, <1>2, <1>3, <1>4, UserKeepsUrls DEF Next

\* The URLs are replaced only when the server has refused the current ones
\* (retrieval_urls.rs:81), for any number of downloads that are refused at once.
THEOREM UrlsReplacedOnce == Safety => OnlyRefusedReplaced
<1>1. Init => UrlInv
  BY DEF Init, InitRetrieval, UrlInv, Phases
<1>2. UrlInv /\ [Next]_vars => UrlInv'
  BY UrlInvStep
<1>3. UrlInv /\ [Next]_vars => [id' = id + 1 => id < expired]_id
  <2> SUFFICES ASSUME UrlInv, [Next]_vars, id' = id + 1 PROVE id < expired
    OBVIOUS
  <2>1. id' # id
    BY SMTT(30) DEF UrlInv
  <2>2. ASSUME NEW u \in Users, UserStep(u) \/ UserFails(u)
        PROVE  Refetch(u)
    BY <2>1, <2>2 DEF UserStep, UserFails, Claim, SeeData, AfterCache, acquire_download_permit,
       retrieve_url, Succeed, Refuse, CheckId, LockUrls, FailFatally, FailTransiently,
       FailRefetch, uvars
  <2>3. ASSUME NEW u \in Users, Refetch(u)
        PROVE  id < expired
    BY <2>3 DEF Refetch, PhaseIs, UrlInv
  <2>4. CASE Restart
    BY <2>4 DEF Restart, UrlInv
  <2> QED
    BY <2>1, <2>2, <2>3, <2>4 DEF Next, StoreStep, StoreFails, Expire, vars, rvars, uvars
<1> QED
  BY <1>1, <1>2, <1>3, PTL DEF Safety, OnlyRefusedReplaced

=============================================================================
