---------------------------- MODULE ShardSession ----------------------------
(***************************************************************************)
(* The shards of upload sessions: SessionShardInterface over its three     *)
(* ShardFileManagers, the session directory and the directories that       *)
(* outlive a session.                                                      *)
(*                                                                         *)
(* A session collects the metadata of its xorbs and files in memory, cuts  *)
(* it into shards of its temporary directory, and at the end merges and    *)
(* uploads them.  Metadata of uploaded xorbs is also staged on disk, so    *)
(* that a session started after a crash can dedup against them; the staged *)
(* shards it took over go once its own shards are registered.  Sessions    *)
(* are processes of their own: they share the staging and the cache        *)
(* directory, run at the same time and may crash at any step.              *)
(*                                                                         *)
(* A shard is the set of its entries; its size is their number.            *)
(***************************************************************************)
EXTENDS Naturals, FiniteSets, Sequences, SequencesExt, TLC

CONSTANTS
  Sessions, Xorbs, Files,
  Cases,        \* the sessions that run and the entries each adds, the dry runs, and a bound on faults
  TargetSize,   \* max_target_size, in entries
  FlushCount,   \* session_xorb_metadata_flush_max_count
  CacheLimit,   \* cache_size_limit, in entries
  Permits       \* concurrent uploads the client allows

ASSUME ShardAssumption ==
  /\ Xorbs \cap Files = {}
  /\ \A c \in Cases : /\ DOMAIN c.adds \subseteq Sessions
                       /\ \A s \in DOMAIN c.adds : c.adds[s] \subseteq Xorbs \cup Files
                       /\ c.dry_run \subseteq DOMAIN c.adds
                       /\ c.faults \in Nat
  /\ {TargetSize, FlushCount, CacheLimit, Permits} \subseteq Nat \ {0}

VARIABLES
  case,         \* the member of Cases, with the faults still to come
  cas,          \* xorbs the server stores
  registered,   \* shards the server registered
  staged,       \* shards of xorb_metadata_staging_dir
  cache_dir,    \* shards of the cache directory
  session,      \* per session: its memory and its temporary directory
  entry         \* per session and entry: how far adding it has come

vars == <<case, cas, registered, staged, cache_dir, session, entry>>
disk == <<staged, cache_dir>>
server == <<cas, registered>>

Adds(s) == IF s \in DOMAIN case.adds THEN case.adds[s] ELSE {}
DryRun == case.dry_run

XorbsOf(shards) == UNION shards \cap Xorbs

\* The fields of SessionShardInterface, in the order in which `new` and a
\* finalization fill them.  The directory is a TempDir: it ends with the session.
NoSession ==
  [pc |-> "new",
   listed |-> {},      \* staged shards the merge at the start has found
   obsolete |-> {},    \* staged_shards_to_remove_on_success
   resumed |-> {},     \* shards of resumed_session_shard_manager
   cached |-> {},      \* shards cache_shard_manager has registered
   current |-> {},     \* current_state of session_shard_manager
   dir |-> {},         \* shards of the session directory
   indexed |-> {},     \* those session_shard_manager has registered
   cuts |-> {},        \* add calls still to register the shard they cut
   staging |-> {},     \* xorb_metadata_staging
   todo |-> {},        \* shards not yet handed to an upload task
   task |-> <<>>]      \* the upload tasks, by shard

Init ==
  /\ case \in Cases
  /\ cas = {} /\ registered = {} /\ staged = {} /\ cache_dir = {}
  /\ session = [s \in Sessions |-> NoSession]
  /\ entry = [s \in Sessions |-> [e \in Adds(s) |-> "none"]]

Over == {"ok", "err", "crashed"}

At(s, pc) == session[s].pc = pc

Become(s, fields) == session' = [session EXCEPT ![s] = fields @@ @]

\* The session object is dropped; memory and the temporary directory go with it.
End(s, pc) == session' = [session EXCEPT ![s] = [NoSession EXCEPT !.pc = pc]]

\* The failures and crashes of a behaviour are bounded by its case.
Fault == case.faults > 0 /\ case' = [case EXCEPT !.faults = @ - 1]

EntryIs(s, e, state) == entry[s][e] = state
SetEntry(s, e, state) == entry' = [entry EXCEPT ![s][e] = state]

-----------------------------------------------------------------------------
\* Merging.  Shards are taken in an order given by their modification times; each
\* joins the current one unless the two together exceed the target size.

MergeOne(acc, next) ==
  IF acc.current = {} THEN [acc EXCEPT !.current = next]
  ELSE IF Cardinality(acc.current) + Cardinality(next) <= TargetSize
       THEN [acc EXCEPT !.current = @ \cup next]
       ELSE [out |-> acc.out \cup {acc.current}, current |-> next]


merge_shards(order) ==
  LET acc == FoldLeft(MergeOne, [out |-> {}, current |-> {}], order)
  IN IF acc.current = {} THEN acc.out ELSE acc.out \cup {acc.current}

-----------------------------------------------------------------------------
\* Opening a session.

\* The merge of staged shards lists the directory; a dry run does not merge.
Start(s) ==
  /\ At(s, "new") /\ s \in DOMAIN case.adds
  /\ Become(s, [pc |-> "merging", listed |-> IF s \in DryRun THEN {} ELSE staged])
  /\ UNCHANGED <<case, server, disk, entry>>

SizeOf(shards) == MapThenSumSet(Cardinality, shards)

\* What load_managed_directory may keep of the cache: the oldest shards go until the
\* rest fits.
Pruned(shards) ==
  {kept \in SUBSET shards :
     /\ SizeOf(kept) <= CacheLimit
     /\ \/ kept = shards
        \/ \E last \in shards \ kept : SizeOf(kept \cup {last}) > CacheLimit}

\* Mutant: shards the merge could not read count as merged.
OpenAndForgetSkipped(s, order, kept) ==
  /\ At(s, "merging")
  /\ cache_dir' = kept
  /\ LET merged == merge_shards(order)
     IN Become(s, [pc |-> "open", listed |-> {}, obsolete |-> session[s].listed,
                   dir |-> merged, resumed |-> merged, cached |-> kept])
  /\ UNCHANGED <<case, server, staged, entry>>

\* The end of `new`: the cache directory is pruned and loaded, and the staged shards
\* the merge could read (another session may have removed some) are merged into the
\* session directory and registered for resumption.
Open(s, order, kept) ==
  /\ At(s, "merging")
  /\ cache_dir' = kept
  /\ LET merged == merge_shards(order)
     IN Become(s, [pc |-> "open", listed |-> {}, obsolete |-> Range(order),
                   dir |-> merged, resumed |-> merged, cached |-> kept])
  /\ UNCHANGED <<case, server, staged, entry>>

\* The dedup answers a session flags as already uploaded: chunk_hash_dedup_query on the
\* resumed and on the cache manager.  A shard whose file is gone answers nothing.
KnownUploaded(s) == XorbsOf(session[s].resumed \cup (session[s].cached \cap cache_dir))

\* query_dedup_shard_by_chunk: the server answers with a shard that has the chunk.
ImportShard(s, shard) ==
  /\ At(s, "open")
  /\ shard \notin session[s].cached
  /\ cache_dir' = cache_dir \cup {shard}
  /\ Become(s, [cached |-> session[s].cached \cup {shard}])
  /\ UNCHANGED <<case, server, staged, entry>>

-----------------------------------------------------------------------------
\* Adding xorbs and files to session_shard_manager.

MustCut(s) == Cardinality(session[s].current) + 1 > TargetSize

\* Under the write lock, without a cut.
AddEntry(s, e) ==
  /\ At(s, "open") /\ EntryIs(s, e, "none")
  /\ ~MustCut(s)
  /\ Become(s, [current |-> session[s].current \cup {e}])
  /\ SetEntry(s, e, "added")
  /\ UNCHANGED <<case, server, disk>>

\* Under the write lock: cut_shard writes current_state out and replaces it.  The shard
\* is registered after the lock is released.
CutShard(s, e) ==
  /\ At(s, "open") /\ EntryIs(s, e, "none")
  /\ MustCut(s)
  /\ Become(s, [dir |-> session[s].dir \cup {session[s].current},
                cuts |-> session[s].cuts \cup {<<e, session[s].current>>},
                current |-> {e}])
  /\ SetEntry(s, e, "registering")
  /\ UNCHANGED <<case, server, disk>>

\* The shard could not be written; the entry is not added, the call returns the error.
FailCut(s, e) ==
  /\ Fault
  /\ At(s, "open") /\ EntryIs(s, e, "none")
  /\ MustCut(s)
  /\ SetEntry(s, e, "refused")
  /\ UNCHANGED <<server, disk, session>>

register_shards(s, cut) ==
  /\ At(s, "open")
  /\ Become(s, [indexed |-> session[s].indexed \cup {cut[2]},
                cuts |-> session[s].cuts \ {cut}])
  /\ SetEntry(s, cut[1], "added")
  /\ UNCHANGED <<case, server, disk>>

\* The entry stays in current_state although the call returns an error.
FailRegister(s, cut) ==
  /\ Fault
  /\ At(s, "open")
  /\ Become(s, [cuts |-> session[s].cuts \ {cut}])
  /\ SetEntry(s, cut[1], "dropped")
  /\ UNCHANGED <<server, disk>>

-----------------------------------------------------------------------------
\* The upload task of a xorb, up to add_uploaded_xorb_block.

\* Mutant: the metadata is staged before the upload.
StageFirst(s, x) ==
  /\ At(s, "open") /\ EntryIs(s, x, "added")
  /\ SetEntry(s, x, "uploaded")
  /\ UNCHANGED <<case, server, disk, session>>

UploadXorb(s, x) ==
  /\ At(s, "open") /\ EntryIs(s, x, "added")
  /\ cas' = IF s \in DryRun THEN cas ELSE cas \cup {x}
  /\ SetEntry(s, x, "uploaded")
  /\ UNCHANGED <<case, registered, disk, session>>

\* The server may have stored it all the same.
FailXorb(s, x, stored) ==
  /\ Fault
  /\ At(s, "open") /\ EntryIs(s, x, "added")
  /\ s \notin DryRun
  /\ cas' = IF stored THEN cas \cup {x} ELSE cas
  /\ SetEntry(s, x, "failed")
  /\ UNCHANGED <<registered, disk, session>>

Staging(s, x) == session[s].staging \cup {x}

\* `due` stands for the flush interval having passed.
FlushDue(s, x, due) == due \/ Cardinality(Staging(s, x)) >= FlushCount

add_uploaded_xorb_block(s, x, due) ==
  /\ At(s, "open") /\ EntryIs(s, x, "uploaded")
  /\ IF s \in DryRun
     THEN UNCHANGED <<staged, session>>
     ELSE IF FlushDue(s, x, due)
          THEN /\ staged' = staged \cup {Staging(s, x)}
               /\ Become(s, [staging |-> {}])
          ELSE /\ Become(s, [staging |-> Staging(s, x)])
               /\ UNCHANGED staged
  /\ SetEntry(s, x, "done")
  /\ UNCHANGED <<case, server, cache_dir>>

\* The flush could not be written: the task fails, the metadata stays in memory.
FailFlushStaged(s, x) ==
  /\ Fault
  /\ At(s, "open") /\ EntryIs(s, x, "uploaded")
  /\ s \notin DryRun
  /\ Become(s, [staging |-> Staging(s, x)])
  /\ SetEntry(s, x, "failed")
  /\ UNCHANGED <<server, disk>>

\* A file's register_new_xorb reaps the failed task and takes its error.
ReapFailed(s, x) ==
  /\ At(s, "open") /\ EntryIs(s, x, "failed")
  /\ SetEntry(s, x, "dropped")
  /\ UNCHANGED <<case, server, disk, session>>

-----------------------------------------------------------------------------
\* finalize: the upload tasks are joined, then upload_and_register_session_shards.

InProgress(s) ==
  {e \in Adds(s) : \/ entry[s][e] \in {"none", "registering", "uploaded"}
                   \/ e \in Xorbs /\ EntryIs(s, e, "added")}

JoinUploads(s) ==
  /\ At(s, "open") /\ InProgress(s) = {}
  /\ IF \E x \in Adds(s) : EntryIs(s, x, "failed")
     THEN End(s, "err")
     ELSE Become(s, [pc |-> "flushing"])
  /\ UNCHANGED <<case, server, disk, entry>>

\* flush writes current_state out and registers the shard.
Flush(s) ==
  /\ At(s, "flushing")
  /\ LET last == IF session[s].current = {} THEN {} ELSE {session[s].current}
     IN Become(s, [pc |-> "consolidating", current |-> {},
                   dir |-> session[s].dir \cup last, indexed |-> session[s].indexed \cup last])
  /\ UNCHANGED <<case, server, disk, entry>>

\* consolidate_shards_in_directory merges the shards of the session directory, the
\* resumed ones included, and removes those the merge made obsolete.
Consolidate(s, order) ==
  /\ At(s, "consolidating")
  /\ LET merged == merge_shards(order)
     IN Become(s, [pc |-> "uploading", dir |-> merged, todo |-> merged])
  /\ UNCHANGED <<case, server, disk, entry>>

\* `new` or finalize returns the error of a write, of a merge or of a permit.
FailSession(s) ==
  /\ Fault
  /\ \/ session[s].pc \in {"merging", "flushing", "consolidating"}
     \/ session[s].todo # {}
  /\ End(s, "err")
  /\ UNCHANGED <<server, disk, entry>>

Tasks(s, states) ==
  {shard \in DOMAIN session[s].task : session[s].task[shard] \in states}

SetTask(s, shard, state) == Become(s, [task |-> (shard :> state) @@ session[s].task])

\* Mutant: the permit of a shard that was sent is not given back.
SpawnAndHold(s, shard) ==
  /\ At(s, "uploading")
  /\ shard \in session[s].todo
  /\ Cardinality(DOMAIN session[s].task) < Permits
  /\ Become(s, [todo |-> session[s].todo \ {shard},
                task |-> (shard :> "sending") @@ session[s].task])
  /\ UNCHANGED <<case, server, disk, entry>>

\* The permit is taken before the task is spawned and goes with upload_shard.
SpawnUpload(s, shard) ==
  /\ At(s, "uploading")
  /\ shard \in session[s].todo
  /\ Cardinality(Tasks(s, {"sending"})) < Permits
  /\ Become(s, [todo |-> session[s].todo \ {shard},
                task |-> (shard :> "sending") @@ session[s].task])
  /\ UNCHANGED <<case, server, disk, entry>>

\* A dry run reads the shard and stops there.
UploadShard(s, shard) ==
  /\ shard \in Tasks(s, {"sending"})
  /\ IF s \in DryRun
     THEN SetTask(s, shard, "ok") /\ UNCHANGED registered
     ELSE SetTask(s, shard, "sent") /\ registered' = registered \cup {shard}
  /\ UNCHANGED <<case, cas, disk, entry>>

\* The upload fails, possibly after the server registered the shard.
FailUpload(s, shard, stored) ==
  /\ Fault
  /\ s \notin DryRun
  /\ shard \in Tasks(s, {"sending"})
  /\ SetTask(s, shard, "failed")
  /\ registered' = IF stored THEN registered \cup {shard} ELSE registered
  /\ UNCHANGED <<cas, disk, entry>>

\* export_with_expiration into the cache directory, then register_shards there.
ExportShard(s, shard) ==
  /\ shard \in Tasks(s, {"sent"})
  /\ cache_dir' = cache_dir \cup {shard}
  /\ Become(s, [task |-> (shard :> "ok") @@ session[s].task,
                cached |-> session[s].cached \cup {shard}])
  /\ UNCHANGED <<case, server, staged, entry>>

\* The copy fails, or the registration after it.
FailExport(s, shard, written) ==
  /\ Fault
  /\ shard \in Tasks(s, {"sent"})
  /\ cache_dir' = IF written THEN cache_dir \cup {shard} ELSE cache_dir
  /\ SetTask(s, shard, "failed")
  /\ UNCHANGED <<server, staged, entry>>

\* The first failed task ends finalize; dropping the JoinSet aborts the others.
JoinFailed(s) ==
  /\ At(s, "uploading") /\ session[s].todo = {}
  /\ Tasks(s, {"failed"}) # {}
  /\ End(s, "err")
  /\ UNCHANGED <<case, server, disk, entry>>

JoinShards(s) ==
  /\ At(s, "uploading") /\ session[s].todo = {}
  /\ Tasks(s, {"sending", "sent", "failed"}) = {}
  /\ Become(s, [pc |-> "removing"])
  /\ UNCHANGED <<case, server, disk, entry>>

\* The removal of a staged shard may fail unnoticed, or find it gone.
RemoveStaged(s, shard, removed) ==
  /\ At(s, "removing") /\ shard \in session[s].obsolete
  /\ Become(s, [obsolete |-> session[s].obsolete \ {shard}])
  /\ staged' = IF removed THEN staged \ {shard} ELSE staged
  /\ UNCHANGED <<case, server, cache_dir, entry>>

Finish(s) ==
  /\ At(s, "removing") /\ session[s].obsolete = {}
  /\ End(s, "ok")
  /\ UNCHANGED <<case, server, disk, entry>>

\* The process dies: what is neither on the server nor in the shared directories is lost.
Crash(s) ==
  /\ Fault
  /\ session[s].pc \notin Over \cup {"new"}
  /\ End(s, "crashed")
  /\ UNCHANGED <<server, disk, entry>>

-----------------------------------------------------------------------------
OpenStep(s) ==
  \E order \in SetToAllKPermutations(session[s].listed), kept \in Pruned(cache_dir) :
    Open(s, order, kept)

AddStep(s) ==
  \/ \E e \in Adds(s) : AddEntry(s, e) \/ CutShard(s, e) \/ FailCut(s, e)
  \/ \E cut \in session[s].cuts : register_shards(s, cut) \/ FailRegister(s, cut)

XorbStep(s) ==
  \E x \in Adds(s) \cap Xorbs :
    \/ UploadXorb(s, x)
    \/ \E stored \in BOOLEAN : FailXorb(s, x, stored)
    \/ \E due \in BOOLEAN : add_uploaded_xorb_block(s, x, due)
    \/ FailFlushStaged(s, x)

ShardStep(s) ==
  \/ \E shard \in session[s].todo : SpawnUpload(s, shard)
  \/ \E shard \in DOMAIN session[s].task :
       \/ UploadShard(s, shard)
       \/ \E stored \in BOOLEAN : FailUpload(s, shard, stored)
       \/ ExportShard(s, shard)
       \/ \E written \in BOOLEAN : FailExport(s, shard, written)

FinalStep(s) ==
  \/ JoinUploads(s) \/ Flush(s)
  \/ \E order \in SetToSeqs(session[s].dir) : Consolidate(s, order)
  \/ JoinFailed(s) \/ JoinShards(s)
  \/ \E shard \in session[s].obsolete, removed \in BOOLEAN : RemoveStaged(s, shard, removed)
  \/ Finish(s)

Step(s) == OpenStep(s) \/ AddStep(s) \/ XorbStep(s) \/ ShardStep(s) \/ FinalStep(s)

Next ==
  \E s \in Sessions :
    \/ Start(s) \/ Step(s) \/ FailSession(s) \/ Crash(s)
    \/ \E shard \in registered : ImportShard(s, shard)
    \/ \E x \in Adds(s) \cap Xorbs : ReapFailed(s, x)

\* An opened session runs on: its tasks are scheduled, and requests and file operations
\* return, with or without an error.
Spec == Init /\ [][Next]_vars /\ \A s \in Sessions : WF_vars(Step(s))

-----------------------------------------------------------------------------
\* Xorbs a session shard names although their upload failed or never began: the error
\* went to the file whose call met it, and finalize does not see it.
Unsent == {x \in Xorbs : \E s \in Sessions : x \in Adds(s) /\ EntryIs(s, x, "dropped")}

\* A dedup answer flagged as already uploaded names a xorb the server has: from the
\* shards of an earlier session (native.rs:173), through any crash and resumption,
\* always; from the cache (native.rs:186) unless the session that filled it went on
\* after an error about that xorb.
KnownIsUploaded ==
  \A s \in Sessions : /\ XorbsOf(session[s].resumed) \subseteq cas
                      /\ KnownUploaded(s) \subseteq cas \cup Unsent

\* Metadata of an uploaded xorb that was flushed for resumption (native.rs:219) leaves
\* the staging directory only when a shard with it has been registered with the server:
\* neither a crash, nor a failed shard, nor a session that took it over at the same time
\* as another loses it.
StagedIsKept ==
  [][XorbsOf(staged) \ XorbsOf(staged') \subseteq XorbsOf(registered)]_vars


\* A session that was opened and finalized comes to an end (native.rs:268 to 330): the
\* upload permits it waits for come back.
SessionsEnd == \A s \in Sessions : At(s, "merging") ~> session[s].pc \in Over

=============================================================================
