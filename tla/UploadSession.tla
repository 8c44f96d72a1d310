--------------------------- MODULE UploadSession ---------------------------
(***************************************************************************)
(* One upload commit: XetUploadCommit driving a FileUploadSession.         *)
(*                                                                         *)
(* Several files are cleaned concurrently.  Each cuts xorbs (blocks of     *)
(* chunks, content addressed) that background tasks upload, dedups against *)
(* xorbs any file of the session has queued, and hands its left-over data  *)
(* to a shared aggregator.  commit() awaits the files, seals the           *)
(* aggregator, joins the upload tasks and only then uploads the shard that *)
(* makes the files visible.                                                *)
(*                                                                         *)
(* The content of files is abstracted: a cut yields any xorb of Xorbs, so  *)
(* two files may cut the same one; which chunks a reference covers is the  *)
(* business of module Deduplication.                                       *)
(***************************************************************************)
EXTENDS Naturals, FiniteSets

CONSTANTS
  Files,             \* files handed to the commit
  Streams,           \* those fed through XetStreamUpload; the others are spawned tasks
  Xorbs,             \* hashes of non-empty xorbs
  EmptyXorb,         \* hash of the xorb without chunks
  Main,              \* the thread running commit()
  MaxBlocks,         \* bound: blocks of chunks processed per file
  UploadPermits,     \* concurrent uploads the client allows
  IngestionPermits   \* size of file_ingestion_semaphore

ASSUME StreamsAssumption == Streams \subseteq Files
ASSUME MainAssumption == Main \notin Files
ASSUME EmptyXorbAssumption == EmptyXorb \notin Xorbs
ASSUME BoundsAssumption ==
  /\ MaxBlocks \in Nat
  /\ UploadPermits \in Nat \ {0}
  /\ IngestionPermits \in Nat \ {0}

VARIABLES
  stage,        \* per file: what its handle would report
  blocks,       \* per file: blocks processed so far (bounded by MaxBlocks)
  fresh,        \* per file: it has segments whose hash is still the marker
  refs,         \* per file: the xorbs its other segments name
  agg,          \* current_session_data: the files pending in the aggregator
  held,         \* per process: the files of the aggregator it is cutting
  callPc,       \* per process: progress of its register_new_xorb call
  callXorb,     \* per process: the argument of that call
  registered,   \* xorbs the completion tracker knows with a non-zero size
  index,        \* xorbs of the session shard, open to dedup queries
  sessionFiles, \* files whose reconstruction info is in the session shard
  task,         \* per xorb: its upload task
  taskSet,      \* the session's JoinSet: tasks not yet reaped
  joining,      \* the JoinSet taken by finalize
  counted,      \* xorbs whose bytes are in the session's metrics
  reported,     \* the metrics finalize took
  server,       \* xorbs the CAS server stores
  serverFiles,  \* files of uploaded shards
  commit,       \* progress of commit()
  handles,      \* the files commit() answers for
  firstError    \* commit(): a file's ingestion failed

fileVars == <<stage, blocks, fresh, refs>>
callVars == <<callPc, callXorb>>
taskVars == <<task, taskSet, joining, counted>>
commitVars == <<reported, serverFiles, commit, handles, firstError>>
vars == <<stage, blocks, fresh, refs, agg, held, callPc, callXorb, registered, index,
          sessionFiles, task, taskSet, joining, counted, reported, server,
          serverFiles, commit, handles, firstError>>

Procs == Files \cup {Main}

Stages == {"new", "starting", "queued", "cleaning", "finishing", "ok", "err"}
CallPcs == {"none", "reap", "track", "addblock", "serialize", "permit"}
TaskStates == {"none", "running", "ok", "failed"}
CommitStates == {"open", "await", "seal", "cut", "take", "join", "shards",
                 "ok", "err", "cancelled"}
CommitOver == {"ok", "err", "cancelled"}

TypeOK ==
  /\ stage \in [Files -> Stages]
  /\ blocks \in [Files -> 0 .. MaxBlocks]
  /\ fresh \in [Files -> BOOLEAN]
  /\ refs \in [Files -> SUBSET Xorbs]
  /\ agg \subseteq Files
  /\ held \in [Procs -> SUBSET Files]
  /\ callPc \in [Procs -> CallPcs]
  /\ callXorb \in [Procs -> Xorbs \cup {EmptyXorb}]
  /\ registered \subseteq Xorbs
  /\ index \subseteq Xorbs
  /\ sessionFiles \subseteq Files
  /\ task \in [Xorbs -> TaskStates]
  /\ taskSet \subseteq Xorbs
  /\ joining \subseteq Xorbs
  /\ counted \subseteq Xorbs
  /\ reported \subseteq Xorbs
  /\ server \subseteq Xorbs
  /\ serverFiles \subseteq Files
  /\ commit \in CommitStates
  /\ handles \subseteq Files
  /\ firstError \in BOOLEAN

Init ==
  /\ stage = [f \in Files |-> "new"]
  /\ blocks = [f \in Files |-> 0]
  /\ fresh = [f \in Files |-> FALSE]
  /\ refs = [f \in Files |-> {}]
  /\ agg = {}
  /\ held = [p \in Procs |-> {}]
  /\ callPc = [p \in Procs |-> "none"]
  /\ callXorb = [p \in Procs |-> EmptyXorb]
  /\ registered = {}
  /\ index = {}
  /\ sessionFiles = {}
  /\ task = [x \in Xorbs |-> "none"]
  /\ taskSet = {}
  /\ joining = {}
  /\ counted = {}
  /\ reported = {}
  /\ server = {}
  /\ serverFiles = {}
  /\ commit = "open"
  /\ handles = {}
  /\ firstError = FALSE

-----------------------------------------------------------------------------
(* Starting a file: upload_from_path, upload_bytes, upload_stream.         *)

\* The call passes TaskRuntime::check_state: the commit is still Running.
UploadCall(f) ==
  /\ stage[f] = "new"
  /\ commit = "open"
  /\ stage' = [stage EXCEPT ![f] = "starting"]
  /\ UNCHANGED <<blocks, fresh, refs, agg, held, callVars, registered, index,
                 sessionFiles, taskVars, server, commitVars>>

Finalized == commit \in {"cut", "take", "join", "shards", "ok"}

\* start_clean checks the finalized flag; a spawned file then waits for an
\* ingestion permit, a stream is ready at once.
StartClean(f) ==
  /\ stage[f] = "starting"
  /\ commit \notin {"err", "cancelled"}
  /\ stage' = [stage EXCEPT ![f] = IF Finalized THEN "err"
                                   ELSE IF f \in Streams THEN "cleaning"
                                   ELSE "queued"]
  /\ UNCHANGED <<blocks, fresh, refs, agg, held, callVars, registered, index,
                 sessionFiles, taskVars, server, commitVars>>

\* The call fails before the session knows the file, as for one that cannot be
\* read.  While commit() is not running, it is refused from then on.
UploadCallError(f) ==
  /\ stage[f] = "starting"
  /\ f \notin Streams
  /\ commit \notin {"err", "cancelled"}
  /\ stage' = [stage EXCEPT ![f] = "err"]
  /\ commit' = IF commit = "open" THEN "err" ELSE commit
  /\ UNCHANGED <<blocks, fresh, refs, agg, held, callVars, registered, index, sessionFiles,
                 taskVars, server, reported, serverFiles, handles, firstError>>

Ingesting == {f \in Files \ Streams : stage[f] \in {"cleaning", "finishing"}}

AcquireIngestion(f) ==
  /\ stage[f] = "queued"
  /\ Cardinality(Ingesting) < IngestionPermits
  /\ stage' = [stage EXCEPT ![f] = "cleaning"]
  /\ UNCHANGED <<blocks, fresh, refs, agg, held, callVars, registered, index,
                 sessionFiles, taskVars, server, commitVars>>

-----------------------------------------------------------------------------
(* One block of chunks of FileDeduper::process_chunks.                     *)

NextBlock(f) ==
  /\ stage[f] = "cleaning"
  /\ callPc[f] = "none"
  /\ blocks[f] < MaxBlocks
  /\ blocks' = [blocks EXCEPT ![f] = @ + 1]

\* The block is found in a xorb of the session shard.
DedupBlock(f, x) ==
  /\ NextBlock(f)
  /\ x \in index
  /\ refs' = [refs EXCEPT ![f] = @ \cup {x}]
  /\ UNCHANGED <<stage, fresh, agg, held, callVars, registered, index,
                 sessionFiles, taskVars, server, commitVars>>

\* The block is new data and fits the xorb being built.
NewBlock(f) ==
  /\ NextBlock(f)
  /\ fresh' = [fresh EXCEPT ![f] = TRUE]
  /\ UNCHANGED <<stage, refs, agg, held, callVars, registered, index,
                 sessionFiles, taskVars, server, commitVars>>

\* The block is new data and does not fit: the data so far becomes xorb x.
\* The block itself is added when register_new_xorb returns (ReturnOk).
CutXorb(f, x) ==
  /\ NextBlock(f)
  /\ fresh[f]
  /\ fresh' = [fresh EXCEPT ![f] = FALSE]
  /\ refs' = [refs EXCEPT ![f] = @ \cup {x}]
  /\ callPc' = [callPc EXCEPT ![f] = "reap"]
  /\ callXorb' = [callXorb EXCEPT ![f] = x]
  /\ UNCHANGED <<stage, agg, held, registered, index, sessionFiles, taskVars,
                 server, commitVars>>

\* Reading the input fails.  A block still in process_chunks runs on in its
\* own spawned task although the cleaner is gone.
InputError(f) ==
  /\ stage[f] = "cleaning"
  /\ f \notin Streams
  /\ stage' = [stage EXCEPT ![f] = "err"]
  /\ UNCHANGED <<blocks, fresh, refs, agg, held, callVars, registered, index,
                 sessionFiles, taskVars, server, commitVars>>

-----------------------------------------------------------------------------
(* register_single_file_clean_completion, under the aggregator's lock.     *)

HasData(S) == \E f \in S : fresh[f]

CleaningDone(f) ==
  /\ stage[f] = "cleaning"
  /\ callPc[f] = "none"

\* The left-over data fits: merge_in.
FinishMerge(f) ==
  /\ CleaningDone(f)
  /\ agg' = agg \cup {f}
  /\ stage' = [stage EXCEPT ![f] = "ok"]
  /\ UNCHANGED <<blocks, fresh, refs, held, callVars, registered, index,
                 sessionFiles, taskVars, server, commitVars>>

\* Mutant: the aggregator's data is processed without being swapped out.
FinishCutNoSwap(f, own) ==
  /\ CleaningDone(f)
  /\ fresh[f] /\ HasData(agg)
  /\ held' = [held EXCEPT ![f] = IF own THEN {f} ELSE agg]
  /\ agg' = IF own THEN agg ELSE agg \cup {f}
  /\ stage' = [stage EXCEPT ![f] = "finishing"]
  /\ UNCHANGED <<blocks, fresh, refs, callVars, registered, index,
                 sessionFiles, taskVars, server, commitVars>>

\* It does not fit: cut the larger of the two, the file's own data or (after
\* the swap) that of the aggregator.  Each fits a xorb alone, so both have data.
FinishCut(f, own) ==
  /\ CleaningDone(f)
  /\ fresh[f] /\ HasData(agg)
  /\ held' = [held EXCEPT ![f] = IF own THEN {f} ELSE agg]
  /\ agg' = IF own THEN agg ELSE {f}
  /\ stage' = [stage EXCEPT ![f] = "finishing"]
  /\ UNCHANGED <<blocks, fresh, refs, callVars, registered, index,
                 sessionFiles, taskVars, server, commitVars>>

Finish(f) == FinishMerge(f) \/ \E own \in BOOLEAN : FinishCut(f, own)

-----------------------------------------------------------------------------
(* process_aggregated_data_as_xorb and register_new_xorb, by process p.    *)

\* p is about to process the aggregated data it holds.
Holding(p) ==
  /\ callPc[p] = "none"
  /\ IF p = Main THEN commit = "cut" ELSE stage[p] = "finishing"

\* DataAggregator::finalize: the data becomes xorb x, whose hash replaces the
\* marker in the files it belongs to.
FinalizeHeld(p, x) ==
  /\ Holding(p)
  /\ IF HasData(held[p]) THEN x \in Xorbs ELSE x = EmptyXorb
  /\ refs' = [f \in Files |-> IF f \in held[p] /\ fresh[f] THEN refs[f] \cup {x} ELSE refs[f]]
  /\ fresh' = [f \in Files |-> fresh[f] /\ f \notin held[p]]
  /\ held' = [held EXCEPT ![p] = {}]

\* The files go to the session shard before register_new_xorb is called.
AddFiles(p, x) ==
  /\ FinalizeHeld(p, x)
  /\ sessionFiles' = sessionFiles \cup held[p]
  /\ callPc' = [callPc EXCEPT ![p] = "reap"]
  /\ callXorb' = [callXorb EXCEPT ![p] = x]
  /\ UNCHANGED <<stage, blocks, agg, registered, index, taskVars, server, commitVars>>

\* An error leaves register_new_xorb by "?": it fails the file, or finalize.
ReturnErr(p) ==
  /\ callPc' = [callPc EXCEPT ![p] = "none"]
  /\ IF p = Main
     THEN commit' = "err" /\ UNCHANGED stage
     ELSE stage' = [stage EXCEPT ![p] = "err"] /\ UNCHANGED commit

\* On success a cleaner adds the block that did not fit, a finishing file is
\* done, and finalize goes on to the upload tasks.
ReturnOk(p) ==
  /\ callPc' = [callPc EXCEPT ![p] = "none"]
  /\ IF p = Main
     THEN commit' = "take" /\ UNCHANGED <<stage, fresh>>
     ELSE /\ UNCHANGED commit
          /\ stage' = IF stage[p] = "finishing" THEN [stage EXCEPT ![p] = "ok"] ELSE stage
          /\ fresh' = IF stage[p] = "finishing" THEN fresh ELSE [fresh EXCEPT ![p] = TRUE]

\* Adding one of the file infos fails; those before it are in the shard.
AddFilesError(p, x) ==
  /\ FinalizeHeld(p, x)
  /\ \E S \in SUBSET held[p] : S # held[p] /\ sessionFiles' = sessionFiles \cup S
  /\ ReturnErr(p)
  /\ UNCHANGED <<blocks, agg, callXorb, registered, index, taskVars,
                 server, reported, serverFiles, handles, firstError>>

Finished == {x \in taskSet : task[x] \in {"ok", "failed"}}

\* Mutant: the results of finished tasks are discarded.
ReapIgnored(p) ==
  /\ callPc[p] = "reap"
  /\ taskSet' = taskSet \ Finished
  /\ callPc' = [callPc EXCEPT ![p] = "track"]
  /\ UNCHANGED <<fileVars, agg, held, callXorb, registered, index, sessionFiles,
                 task, joining, counted, server, commitVars>>

\* try_join_next until no task is ready ...
ReapOk(p) ==
  /\ callPc[p] = "reap"
  /\ \A x \in Finished : task[x] = "ok"
  /\ taskSet' = taskSet \ Finished
  /\ callPc' = [callPc EXCEPT ![p] = "track"]
  /\ UNCHANGED <<fileVars, agg, held, callXorb, registered, index, sessionFiles,
                 task, joining, counted, server, commitVars>>

\* ... or until one has failed: its error becomes the error of this call,
\* whichever file's xorb it was.
ReapErr(p) ==
  /\ callPc[p] = "reap"
  /\ \E R \in SUBSET Finished, x \in Finished :
       /\ task[x] = "failed"
       /\ \A y \in R : task[y] = "ok"
       /\ taskSet' = taskSet \ (R \cup {x})
  /\ ReturnErr(p)
  /\ UNCHANGED <<blocks, fresh, refs, agg, held, callXorb, registered, index, sessionFiles,
                 task, joining, counted, server, reported, serverFiles, handles, firstError>>

\* Register with the completion tracker; nothing more to do for a xorb that
\* is already queued or is empty.
TrackDone(p) ==
  /\ callPc[p] = "track"
  /\ callXorb[p] \in registered \cup {EmptyXorb}
  /\ ReturnOk(p)
  /\ UNCHANGED <<blocks, refs, agg, held, callXorb, registered, index, sessionFiles,
                 taskVars, server, reported, serverFiles, handles, firstError>>

\* Mutant: a xorb that is already queued is queued again.
TrackAgain(p) ==
  /\ callPc[p] = "track"
  /\ callXorb[p] # EmptyXorb
  /\ registered' = registered \cup {callXorb[p]}
  /\ callPc' = [callPc EXCEPT ![p] = "addblock"]
  /\ UNCHANGED <<fileVars, agg, held, callXorb, index, sessionFiles, taskVars,
                 server, commitVars>>

\* Mutant: the empty xorb is not recognised.
TrackEmpty(p) ==
  /\ callPc[p] = "track"
  /\ callXorb[p] \notin registered
  /\ registered' = registered \cup {callXorb[p]}
  /\ callPc' = [callPc EXCEPT ![p] = "addblock"]
  /\ UNCHANGED <<fileVars, agg, held, callXorb, index, sessionFiles, taskVars,
                 server, commitVars>>

TrackNew(p) ==
  /\ callPc[p] = "track"
  /\ callXorb[p] \notin registered \cup {EmptyXorb}
  /\ registered' = registered \cup {callXorb[p]}
  /\ callPc' = [callPc EXCEPT ![p] = "addblock"]
  /\ UNCHANGED <<fileVars, agg, held, callXorb, index, sessionFiles, taskVars,
                 server, commitVars>>

\* From here on any file can dedup against the xorb.
AddBlock(p) ==
  /\ callPc[p] = "addblock"
  /\ index' = index \cup {callXorb[p]}
  /\ callPc' = [callPc EXCEPT ![p] = "serialize"]
  /\ UNCHANGED <<fileVars, agg, held, callXorb, registered, sessionFiles, taskVars,
                 server, commitVars>>

Serialize(p) ==
  /\ callPc[p] = "serialize"
  /\ callPc' = [callPc EXCEPT ![p] = "permit"]
  /\ UNCHANGED <<fileVars, agg, held, callXorb, registered, index, sessionFiles,
                 taskVars, server, commitVars>>

\* Adding the block, serializing it or acquiring the permit may fail.
CallError(p) ==
  /\ callPc[p] \in {"addblock", "serialize", "permit"}
  /\ ReturnErr(p)
  /\ UNCHANGED <<blocks, fresh, refs, agg, held, callXorb, registered, index, sessionFiles,
                 taskVars, server, reported, serverFiles, handles, firstError>>

Uploading == {x \in Xorbs : task[x] = "running"}

\* A permit is held until the upload is over.
SpawnUpload(p) ==
  /\ callPc[p] = "permit"
  /\ Cardinality(Uploading) < UploadPermits
  /\ task' = [task EXCEPT ![callXorb[p]] = "running"]
  /\ taskSet' = taskSet \cup {callXorb[p]}
  /\ ReturnOk(p)
  /\ UNCHANGED <<blocks, refs, agg, held, callXorb, registered, index, sessionFiles,
                 joining, counted, server, reported, serverFiles, handles, firstError>>

RegisterNewXorb(p) ==
  \/ ReapOk(p)
  \/ ReapErr(p)
  \/ TrackDone(p)
  \/ TrackNew(p)
  \/ AddBlock(p)
  \/ Serialize(p)
  \/ SpawnUpload(p)

-----------------------------------------------------------------------------
(* The upload task of xorb x.                                              *)

UploadOk(x) ==
  /\ task[x] = "running"
  /\ server' = server \cup {x}
  /\ counted' = counted \cup {x}
  /\ task' = [task EXCEPT ![x] = "ok"]
  /\ UNCHANGED <<fileVars, agg, held, callVars, registered, index, sessionFiles,
                 taskSet, joining, commitVars>>

\* The request fails, its answer is lost after the server stored the xorb, or
\* recording the uploaded block for a later resume fails.
UploadFail(x, stored) ==
  /\ task[x] = "running"
  /\ server' = IF stored THEN server \cup {x} ELSE server
  /\ task' = [task EXCEPT ![x] = "failed"]
  /\ UNCHANGED <<fileVars, agg, held, callVars, registered, index, sessionFiles,
                 taskSet, joining, counted, commitVars>>

UploadTask(x) == UploadOk(x) \/ \E stored \in BOOLEAN : UploadFail(x, stored)

-----------------------------------------------------------------------------
(* commit() and finalize.                                                  *)

Started == {f \in Files : stage[f] \notin {"new", "starting"}}

\* A stream that has not finished refuses the commit; the session is left as it is.
CommitCall ==
  /\ commit = "open"
  /\ handles' = Started
  /\ commit' = IF \A f \in Started \cap Streams : stage[f] = "ok" THEN "await" ELSE "err"
  /\ UNCHANGED <<fileVars, agg, held, callVars, registered, index, sessionFiles,
                 taskVars, reported, server, serverFiles, firstError>>

\* Mutant: wait until every file has succeeded.
AwaitSuccess ==
  /\ commit = "await"
  /\ \A f \in handles : stage[f] = "ok"
  /\ firstError' = (\E f \in handles : stage[f] = "err")
  /\ commit' = "seal"
  /\ UNCHANGED <<fileVars, agg, held, callVars, registered, index, sessionFiles,
                 taskVars, reported, server, serverFiles, handles>>

\* finalize_ingestion of every handle.  An error is remembered, and finalize
\* is called all the same.
AwaitFiles ==
  /\ commit = "await"
  /\ \A f \in handles : stage[f] \in {"ok", "err"}
  /\ firstError' = (\E f \in handles : stage[f] = "err")
  /\ commit' = "seal"
  /\ UNCHANGED <<fileVars, agg, held, callVars, registered, index, sessionFiles,
                 taskVars, reported, server, serverFiles, handles>>

\* finalize: set the finalized flag and take the aggregator.
TakeSessionData ==
  /\ commit = "seal"
  /\ held' = [held EXCEPT ![Main] = agg]
  /\ agg' = {}
  /\ commit' = "cut"
  /\ UNCHANGED <<fileVars, callVars, registered, index, sessionFiles, taskVars,
                 reported, server, serverFiles, handles, firstError>>

TakeUploadTasks ==
  /\ commit = "take"
  /\ joining' = taskSet
  /\ taskSet' = {}
  /\ commit' = "join"
  /\ UNCHANGED <<fileVars, agg, held, callVars, registered, index, sessionFiles,
                 task, counted, reported, server, serverFiles, handles, firstError>>

\* join_next: wait for a task; an error leaves finalize.
JoinTask(x) ==
  /\ commit = "join"
  /\ x \in joining
  /\ task[x] \in {"ok", "failed"}
  /\ joining' = joining \ {x}
  /\ commit' = IF task[x] = "failed" THEN "err" ELSE commit
  /\ UNCHANGED <<fileVars, agg, held, callVars, registered, index, sessionFiles,
                 task, taskSet, counted, reported, server, serverFiles, handles, firstError>>

\* Mutant: go on without waiting for the tasks.
JoinSkipped ==
  /\ commit = "join"
  /\ reported' = counted
  /\ commit' = "shards"
  /\ UNCHANGED <<fileVars, agg, held, callVars, registered, index, sessionFiles,
                 taskVars, server, serverFiles, handles, firstError>>

\* The metrics are taken when every task has been joined.
JoinDone ==
  /\ commit = "join"
  /\ joining = {}
  /\ reported' = counted
  /\ commit' = "shards"
  /\ UNCHANGED <<fileVars, agg, held, callVars, registered, index, sessionFiles,
                 taskVars, server, serverFiles, handles, firstError>>

\* upload_and_register_session_shards; commit() then reports the first error.
UploadShards ==
  /\ commit = "shards"
  /\ serverFiles' = sessionFiles
  /\ commit' = IF firstError THEN "err" ELSE "ok"
  /\ UNCHANGED <<fileVars, agg, held, callVars, registered, index, sessionFiles,
                 taskVars, reported, server, handles, firstError>>

\* One of the shards cannot be uploaded; others may have been.
UploadShardsFail ==
  /\ commit = "shards"
  /\ serverFiles' \in SUBSET sessionFiles
  /\ commit' = "err"
  /\ UNCHANGED <<fileVars, agg, held, callVars, registered, index, sessionFiles,
                 taskVars, reported, server, handles, firstError>>

\* abort(): the commit and the file tasks are dropped at their await points;
\* only a block being processed runs on in its own task.
Abort ==
  /\ commit \notin CommitOver
  /\ commit' = "cancelled"
  /\ stage' = [f \in Files |-> IF stage[f] \in {"new", "ok"} THEN stage[f] ELSE "err"]
  /\ callPc' = [p \in Procs |-> IF p = Main \/ stage[p] = "finishing" THEN "none" ELSE callPc[p]]
  /\ held' = [p \in Procs |-> {}]
  /\ UNCHANGED <<blocks, fresh, refs, agg, callXorb, registered, index, sessionFiles,
                 taskVars, reported, server, serverFiles, handles, firstError>>

-----------------------------------------------------------------------------

CleanStep(f) ==
  \/ \E x \in Xorbs : DedupBlock(f, x) \/ CutXorb(f, x)
  \/ NewBlock(f)
  \/ Finish(f)

ProcStep(p) == (\E x \in Xorbs \cup {EmptyXorb} : AddFiles(p, x)) \/ RegisterNewXorb(p)

CommitStep ==
  \/ AwaitFiles
  \/ TakeSessionData
  \/ TakeUploadTasks
  \/ \E x \in Xorbs : JoinTask(x)
  \/ JoinDone
  \/ UploadShards

Next ==
  \/ \E f \in Files : UploadCall(f) \/ StartClean(f) \/ UploadCallError(f)
                       \/ AcquireIngestion(f) \/ CleanStep(f) \/ InputError(f)
  \/ \E p \in Procs : ProcStep(p) \/ CallError(p)
  \/ \E p \in Procs, x \in Xorbs \cup {EmptyXorb} : AddFilesError(p, x)
  \/ \E x \in Xorbs : UploadTask(x)
  \/ CommitCall
  \/ CommitStep
  \/ UploadShardsFail
  \/ Abort

Safety == Init /\ [][Next]_vars

\* The executor runs every task that can make progress, and an upload request
\* ends with an answer or a timeout.  No failure is owed.  The caller owes nothing:
\* calls that start files, feed streams, commit or abort may never come.
Fairness ==
  /\ \A f \in Files \ Streams : WF_vars(AcquireIngestion(f)) /\ WF_vars(CleanStep(f))
  /\ \A p \in Procs : WF_vars(ProcStep(p))
  /\ \A x \in Xorbs : WF_vars(UploadTask(x))
  /\ WF_vars(CommitStep)

Spec == Safety /\ Fairness

-----------------------------------------------------------------------------
(* Properties.                                                             *)

\* A file whose upload call overlapped commit(): commit() does not answer for it.
Late == IF commit = "open" THEN {} ELSE {f \in Files \ handles : stage[f] # "new"}

Failed == \E f \in Files : stage[f] = "err"

\* When commit() succeeds and no upload call overlapped it, every file it
\* answers for is in an uploaded shard, has no marker segment left, and every
\* xorb it refers to is stored: its own, those of the shared aggregator and
\* those other files queued (XetUploadCommit::commit, finalize_impl).
CommitOkDurable ==
  commit = "ok" /\ Late = {} =>
    \A f \in handles : f \in serverFiles /\ ~fresh[f] /\ refs[f] \subseteq server

\* Unless some file failed or overlapped commit(), a shard is only uploaded
\* when every xorb of the session, dedup target or not, is stored, whatever
\* becomes of the commit afterwards (register_new_xorb, finalize_impl).
CleanSessionShards ==
  serverFiles # {} /\ ~Failed /\ Late = {} => registered \subseteq server

\* A file that finished ingestion is in exactly one place on its way to the
\* shard: swap, merge_in and take in register_single_file_clean_completion and
\* finalize_impl neither lose nor duplicate it, unless a process failed with it.
FileInOnePlace ==
  /\ agg \cap sessionFiles = {}
  /\ \A p \in Procs : held[p] \cap (agg \cup sessionFiles) = {}
  /\ \A p, q \in Procs : p # q => held[p] \cap held[q] = {}
  /\ ~Failed /\ commit \notin {"err", "cancelled"} =>
       \A f \in Files : stage[f] = "ok" =>
         f \in agg \cup sessionFiles \cup UNION {held[p] : p \in Procs}

\* The report of a successful commit counts the bytes of every xorb a task of
\* the session uploaded: no task adds to the metrics after finalize took them
\* (the comment in finalize_impl on joining before the snapshot).
ReportCountsUploads ==
  commit = "ok" /\ Late = {} => reported = {x \in Xorbs : task[x] # "none"}

\* A xorb is uploaded by one task in the life of the session, however many
\* files cut it: register_new_xorb starts no task for a xorb that was queued.
UploadedOnce ==
  [][\A x \in Xorbs : task[x] # "none" /\ task'[x] # task[x] => task[x] = "running" /\ task'[x] # "none"]_vars

\* commit() returns: neither the permits, the ingestion of files, nor the
\* failures of uploads leave it waiting for ever.
CommitReturns == commit = "await" ~> commit \in CommitOver

\* What the comment in register_new_xorb says of dedup against queued xorbs:
\* "No session shard data gets uploaded until all the xorbs have been
\* successfully uploaded, so this is safe."  Stated for the files of uploaded
\* shards, in sessions where no upload call overlaps commit().
ShardsAfterXorbs == Late = {} => \A f \in serverFiles : refs[f] \subseteq server
=============================================================================
