------------------------- MODULE UploadSessionProofs -------------------------
(***************************************************************************)
(* Proofs about UploadSession, for any sets of files and xorbs and any     *)
(* number of permits.                                                      *)
(***************************************************************************)
EXTENDS UploadSession, TLAPS

\* A file failed or its upload call overlapped commit().
Void == Failed \/ Late # {}

\* What excuses a file or xorb from being on its way to the server.
Excused == Void \/ commit \in {"err", "cancelled"}

\* register_new_xorb past the registration of its xorb, before the spawn.
Queueing == {"addblock", "serialize", "permit"}

\* The files commit() answers for are settled.
Sealed == commit \in {"seal", "cut", "take", "join", "shards", "ok"} \/ serverFiles # {}

\* Who can be inside register_new_xorb or hold a part of the aggregator.
CallInv ==
  /\ \A f \in Files : stage[f] \in {"new", "starting", "queued", "ok"} => callPc[f] = "none"
  /\ \A f \in Files : held[f] # {} => stage[f] = "finishing" /\ callPc[f] = "none"
  /\ callPc[Main] # "none" => commit = "cut"
  /\ held[Main] # {} => commit = "cut" /\ callPc[Main] = "none"

\* Every registered xorb is on its way: in a call that will spawn its task, in
\* a task that will be joined, or on the server.
TaskInv ==
  /\ \A x \in Xorbs : task[x] = "ok" => x \in server /\ x \in counted
  /\ \A x \in counted : task[x] = "ok"
  /\ \A x \in taskSet \cup joining : task[x] # "none"
  /\ \A x \in Xorbs : task[x] # "none" => x \in registered
  /\ \A x \in Xorbs : task[x] \in {"running", "failed"} => x \in taskSet \cup joining \/ Excused
  /\ \A p \in Procs : callPc[p] \in Queueing =>
       callXorb[p] \in registered /\ task[callXorb[p]] = "none"
  /\ \A p, q \in Procs : p # q /\ callPc[p] \in Queueing /\ callPc[q] \in Queueing =>
       callXorb[p] # callXorb[q]
  /\ \A x \in registered : task[x] = "none" =>
       Excused \/ \E p \in Procs : callPc[p] \in Queueing /\ callXorb[p] = x

\* Every xorb a file refers to is registered or about to be.
RefInv ==
  /\ index \subseteq registered
  /\ \A f \in Files : \A x \in refs[f] :
       \/ x \in registered
       \/ Excused
       \/ \E p \in Procs : callPc[p] \in {"reap", "track"} /\ callXorb[p] = x

Placed(f) == f \in agg \/ f \in sessionFiles \/ \E p \in Procs : f \in held[p]

\* A file is handed over when it finishes, once, and keeps no marker in the shard.
PlaceInv ==
  /\ agg \cap sessionFiles = {}
  /\ \A p \in Procs : held[p] \cap (agg \cup sessionFiles) = {}
  /\ \A p, q \in Procs : p # q => held[p] \cap held[q] = {}
  /\ \A f \in Files : Placed(f) =>
       /\ stage[f] \in {"finishing", "ok", "err"}
       /\ stage[f] = "err" => callPc[f] = "none"
  /\ \A f \in sessionFiles : ~fresh[f]
  /\ \A f \in Files : stage[f] \in {"finishing", "ok"} =>
       Placed(f) \/ Failed \/ commit \in {"err", "cancelled"}

\* commit() answers for settled files and remembers whether one failed.
SealInv ==
  /\ commit = "open" => handles = {}
  /\ Sealed => \A f \in handles : stage[f] \in {"ok", "err"}
  /\ commit \in {"seal", "cut", "take", "join", "shards", "ok"} =>
       (firstError <=> \E f \in handles : stage[f] = "err")
  /\ commit = "ok" => ~firstError
  /\ commit \notin {"join", "err", "cancelled"} => joining = {}
  /\ serverFiles # {} => commit \in {"ok", "err"}

\* What each stage of finalize has established.
CommitInv ==
  /\ commit \in {"cut", "take", "join", "shards", "ok"} => agg = {} \/ Void
  /\ commit \in {"join", "shards", "ok"} => taskSet = {} \/ Void
  /\ commit \in {"shards", "ok"} => reported = counted \/ Void
  /\ commit = "ok" => handles \subseteq serverFiles \/ Void
  /\ serverFiles # {} => registered \subseteq server \/ Void

IInv == TypeOK /\ CallInv /\ TaskInv /\ RefInv /\ PlaceInv /\ SealInv /\ CommitInv

-----------------------------------------------------------------------------
\* An error is never forgotten: a failed file stays failed, a late file late.
LEMMA VoidStep == IInv /\ [Next]_vars => ((Void => Void') /\ (Excused => Excused'))
<1> SUFFICES ASSUME IInv, [Next]_vars PROVE ((Void => Void') /\ (Excused => Excused'))
  OBVIOUS
<1> USE MainAssumption, SMTT(15), ZenonT(15)
<1> USE DEF IInv, TypeOK, CallInv, Procs, Stages, CommitStates, Void, Excused, Failed, Late,
            fileVars, callVars, taskVars, commitVars
<1>1. ASSUME NEW f \in Files, UploadCall(f) PROVE ((Void => Void') /\ (Excused => Excused'))
  BY <1>1 DEF UploadCall
<1>2. ASSUME NEW f \in Files, StartClean(f) PROVE ((Void => Void') /\ (Excused => Excused'))
  BY <1>2 DEF StartClean, Finalized
<1>3. ASSUME NEW f \in Files, AcquireIngestion(f) PROVE ((Void => Void') /\ (Excused => Excused'))
  BY <1>3 DEF AcquireIngestion
<1>4. ASSUME NEW f \in Files, NEW x \in Xorbs, DedupBlock(f, x)
      PROVE  ((Void => Void') /\ (Excused => Excused'))
  BY <1>4 DEF DedupBlock, NextBlock
<1>5. ASSUME NEW f \in Files, NEW x \in Xorbs, CutXorb(f, x)
      PROVE  ((Void => Void') /\ (Excused => Excused'))
  BY <1>5 DEF CutXorb, NextBlock
<1>6. ASSUME NEW f \in Files, NewBlock(f) PROVE ((Void => Void') /\ (Excused => Excused'))
  BY <1>6 DEF NewBlock, NextBlock
<1>7. ASSUME NEW f \in Files, FinishMerge(f) PROVE ((Void => Void') /\ (Excused => Excused'))
  BY <1>7 DEF FinishMerge, CleaningDone
<1>8. ASSUME NEW f \in Files, NEW own \in BOOLEAN, FinishCut(f, own)
      PROVE  ((Void => Void') /\ (Excused => Excused'))
  BY <1>8 DEF FinishCut, CleaningDone
<1>9. ASSUME NEW f \in Files, InputError(f) PROVE ((Void => Void') /\ (Excused => Excused'))
  BY <1>9 DEF InputError
<1>10. ASSUME NEW p \in Procs, NEW x \in Xorbs \cup {EmptyXorb}, AddFiles(p, x)
      PROVE  ((Void => Void') /\ (Excused => Excused'))
  BY <1>10 DEF AddFiles, FinalizeHeld, Holding, HasData
<1>11. ASSUME NEW p \in Procs, NEW x \in Xorbs \cup {EmptyXorb}, AddFilesError(p, x)
      PROVE  ((Void => Void') /\ (Excused => Excused'))
  BY <1>11 DEF AddFilesError, FinalizeHeld, Holding, HasData, ReturnErr
<1>12. ASSUME NEW p \in Procs, ReapOk(p) PROVE ((Void => Void') /\ (Excused => Excused'))
  BY <1>12 DEF ReapOk, Finished
<1>13. ASSUME NEW p \in Procs, ReapErr(p) PROVE ((Void => Void') /\ (Excused => Excused'))
  BY <1>13 DEF ReapErr, Finished, ReturnErr
<1>14. ASSUME NEW p \in Procs, TrackDone(p) PROVE ((Void => Void') /\ (Excused => Excused'))
  BY <1>14 DEF TrackDone, ReturnOk
<1>15. ASSUME NEW p \in Procs, TrackNew(p) PROVE ((Void => Void') /\ (Excused => Excused'))
  BY <1>15 DEF TrackNew
<1>16. ASSUME NEW p \in Procs, AddBlock(p) PROVE ((Void => Void') /\ (Excused => Excused'))
  BY <1>16 DEF AddBlock
<1>17. ASSUME NEW p \in Procs, Serialize(p) PROVE ((Void => Void') /\ (Excused => Excused'))
  BY <1>17 DEF Serialize
<1>18. ASSUME NEW p \in Procs, SpawnUpload(p) PROVE ((Void => Void') /\ (Excused => Excused'))
  BY <1>18 DEF SpawnUpload, ReturnOk
<1>19. ASSUME NEW p \in Procs, CallError(p) PROVE ((Void => Void') /\ (Excused => Excused'))
  BY <1>19 DEF CallError, ReturnErr
<1>20. ASSUME NEW x \in Xorbs, UploadOk(x) PROVE ((Void => Void') /\ (Excused => Excused'))
  BY <1>20 DEF UploadOk
<1>21. ASSUME NEW x \in Xorbs, NEW stored \in BOOLEAN, UploadFail(x, stored)
      PROVE  ((Void => Void') /\ (Excused => Excused'))
  BY <1>21 DEF UploadFail
<1>22. ASSUME CommitCall PROVE ((Void => Void') /\ (Excused => Excused'))
  BY <1>22 DEF CommitCall, Started
<1>23. ASSUME AwaitFiles PROVE ((Void => Void') /\ (Excused => Excused'))
  BY <1>23 DEF AwaitFiles
<1>24. ASSUME TakeSessionData PROVE ((Void => Void') /\ (Excused => Excused'))
  BY <1>24 DEF TakeSessionData
<1>25. ASSUME TakeUploadTasks PROVE ((Void => Void') /\ (Excused => Excused'))
  BY <1>25 DEF TakeUploadTasks
<1>26. ASSUME NEW x \in Xorbs, JoinTask(x) PROVE ((Void => Void') /\ (Excused => Excused'))
  BY <1>26 DEF JoinTask
<1>27. ASSUME JoinDone PROVE ((Void => Void') /\ (Excused => Excused'))
  BY <1>27 DEF JoinDone
<1>28. ASSUME UploadShards PROVE ((Void => Void') /\ (Excused => Excused'))
  BY <1>28 DEF UploadShards
<1>29. ASSUME UploadShardsFail PROVE ((Void => Void') /\ (Excused => Excused'))
  BY <1>29 DEF UploadShardsFail
<1>30. ASSUME Abort PROVE ((Void => Void') /\ (Excused => Excused'))
  BY <1>30 DEF Abort, CommitOver
<1>31. CASE UNCHANGED vars
  BY <1>31 DEF vars
<1>32. ASSUME NEW f \in Files, UploadCallError(f) PROVE ((Void => Void') /\ (Excused => Excused'))
  BY <1>32 DEF UploadCallError
<1> HIDE DEF IInv, TypeOK, CallInv, Procs, Stages, CommitStates, Void, Excused, Failed, Late,
             fileVars, callVars, taskVars, commitVars
<1> QED
  BY <1>1, <1>2, <1>3, <1>4, <1>5, <1>6, <1>7, <1>8, <1>9, <1>10, <1>11, <1>12,
     <1>13, <1>14, <1>15, <1>16, <1>17, <1>18, <1>19, <1>20, <1>21, <1>22, <1>23,
     <1>24, <1>25, <1>26, <1>27, <1>28, <1>29, <1>30, <1>31, <1>32
  DEF Next, CleanStep, Finish, ProcStep, RegisterNewXorb, UploadTask, CommitStep

\* Every step keeps the types.  A xorb is only added to the index or given a
\* task once it is registered, hence not the empty one.
LEMMA TypeStep == IInv /\ [Next]_vars => TypeOK'
<1> SUFFICES ASSUME IInv, [Next]_vars PROVE TypeOK'
  OBVIOUS
<1> USE MainAssumption, EmptyXorbAssumption, BoundsAssumption, SMTT(15), ZenonT(15)
<1> USE DEF IInv, TypeOK, TaskInv, Procs, Queueing, Stages, CallPcs, TaskStates,
            CommitStates, CommitOver,
            fileVars, callVars, taskVars, commitVars
<1>0. ASSUME NEW p \in Procs, ReturnOk(p)
      PROVE  /\ stage' \in [Files -> Stages]
             /\ fresh' \in [Files -> BOOLEAN]
             /\ callPc' \in [Procs -> CallPcs]
             /\ commit' \in CommitStates
  <2>1. callPc' \in [Procs -> CallPcs]
    BY <1>0 DEF ReturnOk
  <2>2. CASE p = Main
    BY <1>0, <2>1, <2>2 DEF ReturnOk
  <2>3. CASE p # Main /\ stage[p] = "finishing"
    BY <1>0, <2>1, <2>3 DEF ReturnOk
  <2>4. CASE p # Main /\ stage[p] # "finishing"
    <3>1. p \in Files /\ fresh' = [fresh EXCEPT ![p] = TRUE]
      BY <1>0, <2>4 DEF ReturnOk
    <3>2. fresh' \in [Files -> BOOLEAN]
      BY <3>1, Zenon
    <3>3. stage' = stage /\ commit' = commit
      BY <1>0, <2>4 DEF ReturnOk
    <3> QED
      BY <2>1, <3>2, <3>3
  <2> QED
    BY <2>2, <2>3, <2>4
<1>1. ASSUME NEW f \in Files, UploadCall(f) PROVE TypeOK'
  BY <1>1 DEF UploadCall
<1>2. ASSUME NEW f \in Files, StartClean(f) PROVE TypeOK'
  BY <1>2 DEF StartClean, Finalized
<1>3. ASSUME NEW f \in Files, AcquireIngestion(f) PROVE TypeOK'
  BY <1>3 DEF AcquireIngestion
<1>4. ASSUME NEW f \in Files, NEW x \in Xorbs, DedupBlock(f, x) PROVE TypeOK'
  BY <1>4 DEF DedupBlock, NextBlock
<1>5. ASSUME NEW f \in Files, NEW x \in Xorbs, CutXorb(f, x) PROVE TypeOK'
  BY <1>5 DEF CutXorb, NextBlock
<1>6. ASSUME NEW f \in Files, NewBlock(f) PROVE TypeOK'
  BY <1>6 DEF NewBlock, NextBlock
<1>7. ASSUME NEW f \in Files, FinishMerge(f) PROVE TypeOK'
  BY <1>7 DEF FinishMerge, CleaningDone
<1>8. ASSUME NEW f \in Files, NEW own \in BOOLEAN, FinishCut(f, own) PROVE TypeOK'
  BY <1>8 DEF FinishCut, CleaningDone
<1>9. ASSUME NEW f \in Files, InputError(f) PROVE TypeOK'
  BY <1>9 DEF InputError
<1>10. ASSUME NEW p \in Procs, NEW x \in Xorbs \cup {EmptyXorb}, AddFiles(p, x) PROVE TypeOK'
  BY <1>10 DEF AddFiles, FinalizeHeld, Holding, HasData
<1>11. ASSUME NEW p \in Procs, NEW x \in Xorbs \cup {EmptyXorb}, AddFilesError(p, x) PROVE TypeOK'
  BY <1>11 DEF AddFilesError, FinalizeHeld, Holding, HasData, ReturnErr
<1>12. ASSUME NEW p \in Procs, ReapOk(p) PROVE TypeOK'
  BY <1>12 DEF ReapOk, Finished
<1>13. ASSUME NEW p \in Procs, ReapErr(p) PROVE TypeOK'
  BY <1>13 DEF ReapErr, Finished, ReturnErr
<1>14. ASSUME NEW p \in Procs, TrackDone(p) PROVE TypeOK'
  BY <1>14, <1>0 DEF TrackDone
<1>15. ASSUME NEW p \in Procs, TrackNew(p) PROVE TypeOK'
  BY <1>15 DEF TrackNew
<1>16. ASSUME NEW p \in Procs, AddBlock(p) PROVE TypeOK'
  BY <1>16 DEF AddBlock
<1>17. ASSUME NEW p \in Procs, Serialize(p) PROVE TypeOK'
  BY <1>17 DEF Serialize
<1>18. ASSUME NEW p \in Procs, SpawnUpload(p) PROVE TypeOK'
  <2>1. callXorb[p] \in Xorbs
    BY <1>18 DEF SpawnUpload
  <2> QED
    BY <1>18, <1>0, <2>1 DEF SpawnUpload
<1>19. ASSUME NEW p \in Procs, CallError(p) PROVE TypeOK'
  BY <1>19 DEF CallError, ReturnErr
<1>20. ASSUME NEW x \in Xorbs, UploadOk(x) PROVE TypeOK'
  BY <1>20 DEF UploadOk
<1>21. ASSUME NEW x \in Xorbs, NEW stored \in BOOLEAN, UploadFail(x, stored) PROVE TypeOK'
  BY <1>21 DEF UploadFail
<1>22. ASSUME CommitCall PROVE TypeOK'
  BY <1>22 DEF CommitCall, Started
<1>23. ASSUME AwaitFiles PROVE TypeOK'
  BY <1>23 DEF AwaitFiles
<1>24. ASSUME TakeSessionData PROVE TypeOK'
  BY <1>24 DEF TakeSessionData
<1>25. ASSUME TakeUploadTasks PROVE TypeOK'
  BY <1>25 DEF TakeUploadTasks
<1>26. ASSUME NEW x \in Xorbs, JoinTask(x) PROVE TypeOK'
  BY <1>26 DEF JoinTask
<1>27. ASSUME JoinDone PROVE TypeOK'
  BY <1>27 DEF JoinDone
<1>28. ASSUME UploadShards PROVE TypeOK'
  BY <1>28 DEF UploadShards
<1>29. ASSUME UploadShardsFail PROVE TypeOK'
  BY <1>29 DEF UploadShardsFail
<1>30. ASSUME Abort PROVE TypeOK'
  BY <1>30 DEF Abort, CommitOver
<1>31. CASE UNCHANGED vars
  BY <1>31 DEF vars
<1>32. ASSUME NEW f \in Files, UploadCallError(f) PROVE TypeOK'
  BY <1>32 DEF UploadCallError
<1> HIDE DEF IInv, TypeOK, TaskInv, Procs, Queueing, Stages, CallPcs, TaskStates,
             CommitStates, CommitOver,
             fileVars, callVars, taskVars, commitVars
<1> QED
  BY <1>1, <1>2, <1>3, <1>4, <1>5, <1>6, <1>7, <1>8, <1>9, <1>10, <1>11, <1>12,
     <1>13, <1>14, <1>15, <1>16, <1>17, <1>18, <1>19, <1>20, <1>21, <1>22, <1>23,
     <1>24, <1>25, <1>26, <1>27, <1>28, <1>29, <1>30, <1>31, <1>32
  DEF Next, CleanStep, Finish, ProcStep, RegisterNewXorb, UploadTask, CommitStep

\* Every step keeps the bookkeeping of register_new_xorb calls.
LEMMA CallStep == IInv /\ [Next]_vars => CallInv'
<1> SUFFICES ASSUME IInv, [Next]_vars PROVE CallInv'
  OBVIOUS
<1> USE MainAssumption, SMTT(15), ZenonT(15)
<1> USE DEF IInv, TypeOK, CallInv, Procs, Stages, CallPcs, CommitStates, PlaceInv, Placed,
            fileVars, callVars, taskVars, commitVars
<1>1. ASSUME NEW f \in Files, UploadCall(f) PROVE CallInv'
  BY <1>1 DEF UploadCall
<1>2. ASSUME NEW f \in Files, StartClean(f) PROVE CallInv'
  BY <1>2 DEF StartClean, Finalized
<1>3. ASSUME NEW f \in Files, AcquireIngestion(f) PROVE CallInv'
  BY <1>3 DEF AcquireIngestion
<1>4. ASSUME NEW f \in Files, NEW x \in Xorbs, DedupBlock(f, x) PROVE CallInv'
  BY <1>4 DEF DedupBlock, NextBlock
<1>5. ASSUME NEW f \in Files, NEW x \in Xorbs, CutXorb(f, x) PROVE CallInv'
  BY <1>5 DEF CutXorb, NextBlock
<1>6. ASSUME NEW f \in Files, NewBlock(f) PROVE CallInv'
  BY <1>6 DEF NewBlock, NextBlock
<1>7. ASSUME NEW f \in Files, FinishMerge(f) PROVE CallInv'
  BY <1>7 DEF FinishMerge, CleaningDone
<1>8. ASSUME NEW f \in Files, NEW own \in BOOLEAN, FinishCut(f, own) PROVE CallInv'
  BY <1>8 DEF FinishCut, CleaningDone
<1>9. ASSUME NEW f \in Files, InputError(f) PROVE CallInv'
  BY <1>9 DEF InputError
<1>10. ASSUME NEW p \in Procs, NEW x \in Xorbs \cup {EmptyXorb}, AddFiles(p, x) PROVE CallInv'
  BY <1>10 DEF AddFiles, FinalizeHeld, Holding, HasData
<1>11. ASSUME NEW p \in Procs, NEW x \in Xorbs \cup {EmptyXorb}, AddFilesError(p, x)
      PROVE  CallInv'
  BY <1>11 DEF AddFilesError, FinalizeHeld, Holding, HasData, ReturnErr
<1>12. ASSUME NEW p \in Procs, ReapOk(p) PROVE CallInv'
  BY <1>12 DEF ReapOk, Finished
<1>13. ASSUME NEW p \in Procs, ReapErr(p) PROVE CallInv'
  BY <1>13 DEF ReapErr, Finished, ReturnErr
<1>14. ASSUME NEW p \in Procs, TrackDone(p) PROVE CallInv'
  BY <1>14 DEF TrackDone, ReturnOk
<1>15. ASSUME NEW p \in Procs, TrackNew(p) PROVE CallInv'
  BY <1>15 DEF TrackNew
<1>16. ASSUME NEW p \in Procs, AddBlock(p) PROVE CallInv'
  BY <1>16 DEF AddBlock
<1>17. ASSUME NEW p \in Procs, Serialize(p) PROVE CallInv'
  BY <1>17 DEF Serialize
<1>18. ASSUME NEW p \in Procs, SpawnUpload(p) PROVE CallInv'
  BY <1>18 DEF SpawnUpload, ReturnOk
<1>19. ASSUME NEW p \in Procs, CallError(p) PROVE CallInv'
  BY <1>19 DEF CallError, ReturnErr
<1>20. ASSUME NEW x \in Xorbs, UploadOk(x) PROVE CallInv'
  BY <1>20 DEF UploadOk
<1>21. ASSUME NEW x \in Xorbs, NEW stored \in BOOLEAN, UploadFail(x, stored) PROVE CallInv'
  BY <1>21 DEF UploadFail
<1>22. ASSUME CommitCall PROVE CallInv'
  BY <1>22 DEF CommitCall, Started
<1>23. ASSUME AwaitFiles PROVE CallInv'
  BY <1>23 DEF AwaitFiles
<1>24. ASSUME TakeSessionData PROVE CallInv'
  BY <1>24 DEF TakeSessionData
<1>25. ASSUME TakeUploadTasks PROVE CallInv'
  BY <1>25 DEF TakeUploadTasks
<1>26. ASSUME NEW x \in Xorbs, JoinTask(x) PROVE CallInv'
  BY <1>26 DEF JoinTask
<1>27. ASSUME JoinDone PROVE CallInv'
  BY <1>27 DEF JoinDone
<1>28. ASSUME UploadShards PROVE CallInv'
  BY <1>28 DEF UploadShards
<1>29. ASSUME UploadShardsFail PROVE CallInv'
  BY <1>29 DEF UploadShardsFail
<1>30. ASSUME Abort PROVE CallInv'
  BY <1>30 DEF Abort, CommitOver
<1>31. CASE UNCHANGED vars
  BY <1>31 DEF vars
<1>32. ASSUME NEW f \in Files, UploadCallError(f) PROVE CallInv'
  BY <1>32 DEF UploadCallError
<1> HIDE DEF IInv, TypeOK, CallInv, Procs, Stages, CallPcs, CommitStates, PlaceInv, Placed,
             fileVars, callVars, taskVars, commitVars
<1> QED
  BY <1>1, <1>2, <1>3, <1>4, <1>5, <1>6, <1>7, <1>8, <1>9, <1>10, <1>11, <1>12,
     <1>13, <1>14, <1>15, <1>16, <1>17, <1>18, <1>19, <1>20, <1>21, <1>22, <1>23,
     <1>24, <1>25, <1>26, <1>27, <1>28, <1>29, <1>30, <1>31, <1>32
  DEF Next, CleanStep, Finish, ProcStep, RegisterNewXorb, UploadTask, CommitStep

\* Every step keeps registered xorbs on their way to the server; an error that
\* takes one off that way is charged to a file or to commit().
LEMMA TaskStep == IInv /\ [Next]_vars => TaskInv'
<1> SUFFICES ASSUME IInv, [Next]_vars PROVE TaskInv'
  OBVIOUS
<1>0. (Void => Void') /\ (Excused => Excused')
  BY VoidStep
<1> USE MainAssumption, EmptyXorbAssumption, <1>0, SMTT(15), ZenonT(15)
<1> USE DEF IInv, TypeOK, CallInv, TaskInv, SealInv, Procs, Queueing,
            fileVars, callVars, taskVars, commitVars
<1>1. ASSUME NEW f \in Files, UploadCall(f) PROVE TaskInv'
  BY <1>1 DEF UploadCall
<1>2. ASSUME NEW f \in Files, StartClean(f) PROVE TaskInv'
  BY <1>2 DEF StartClean, Finalized
<1>3. ASSUME NEW f \in Files, AcquireIngestion(f) PROVE TaskInv'
  BY <1>3 DEF AcquireIngestion
<1>4. ASSUME NEW f \in Files, NEW x \in Xorbs, DedupBlock(f, x) PROVE TaskInv'
  BY <1>4 DEF DedupBlock, NextBlock
<1>5. ASSUME NEW f \in Files, NEW x \in Xorbs, CutXorb(f, x) PROVE TaskInv'
  BY <1>5 DEF CutXorb, NextBlock
<1>6. ASSUME NEW f \in Files, NewBlock(f) PROVE TaskInv'
  BY <1>6 DEF NewBlock, NextBlock
<1>7. ASSUME NEW f \in Files, FinishMerge(f) PROVE TaskInv'
  BY <1>7 DEF FinishMerge, CleaningDone
<1>8. ASSUME NEW f \in Files, NEW own \in BOOLEAN, FinishCut(f, own) PROVE TaskInv'
  BY <1>8 DEF FinishCut, CleaningDone
<1>9. ASSUME NEW f \in Files, InputError(f) PROVE TaskInv'
  BY <1>9 DEF InputError
<1>10. ASSUME NEW p \in Procs, NEW x \in Xorbs \cup {EmptyXorb}, AddFiles(p, x) PROVE TaskInv'
  BY <1>10 DEF AddFiles, FinalizeHeld, Holding, HasData
<1>11. ASSUME NEW p \in Procs, NEW x \in Xorbs \cup {EmptyXorb}, AddFilesError(p, x)
      PROVE  TaskInv'
  BY <1>11 DEF Excused, Void, Failed, AddFilesError, FinalizeHeld, Holding, HasData, ReturnErr
<1>12. ASSUME NEW p \in Procs, ReapOk(p) PROVE TaskInv'
  BY <1>12 DEF ReapOk, Finished
<1>13. ASSUME NEW p \in Procs, ReapErr(p) PROVE TaskInv'
  BY <1>13 DEF Excused, Void, Failed, ReapErr, Finished, ReturnErr
<1>14. ASSUME NEW p \in Procs, TrackDone(p) PROVE TaskInv'
  BY <1>14 DEF TrackDone, ReturnOk
<1>15. ASSUME NEW p \in Procs, TrackNew(p) PROVE TaskInv'
  BY <1>15 DEF TrackNew
<1>16. ASSUME NEW p \in Procs, AddBlock(p) PROVE TaskInv'
  BY <1>16 DEF AddBlock
<1>17. ASSUME NEW p \in Procs, Serialize(p) PROVE TaskInv'
  BY <1>17 DEF Serialize
<1>18. ASSUME NEW p \in Procs, SpawnUpload(p) PROVE TaskInv'
  BY <1>18 DEF SpawnUpload, ReturnOk
<1>19. ASSUME NEW p \in Procs, CallError(p) PROVE TaskInv'
  BY <1>19 DEF Excused, Void, Failed, CallError, ReturnErr
<1>20. ASSUME NEW x \in Xorbs, UploadOk(x) PROVE TaskInv'
  BY <1>20 DEF UploadOk
<1>21. ASSUME NEW x \in Xorbs, NEW stored \in BOOLEAN, UploadFail(x, stored) PROVE TaskInv'
  BY <1>21 DEF UploadFail
<1>22. ASSUME CommitCall PROVE TaskInv'
  BY <1>22 DEF CommitCall, Started
<1>23. ASSUME AwaitFiles PROVE TaskInv'
  BY <1>23 DEF AwaitFiles
<1>24. ASSUME TakeSessionData PROVE TaskInv'
  BY <1>24 DEF TakeSessionData
<1>25. ASSUME TakeUploadTasks PROVE TaskInv'
  BY <1>25 DEF Excused, Void, Failed, TakeUploadTasks
<1>26. ASSUME NEW x \in Xorbs, JoinTask(x) PROVE TaskInv'
  BY <1>26 DEF Excused, Void, Failed, JoinTask
<1>27. ASSUME JoinDone PROVE TaskInv'
  BY <1>27 DEF JoinDone
<1>28. ASSUME UploadShards PROVE TaskInv'
  BY <1>28 DEF UploadShards
<1>29. ASSUME UploadShardsFail PROVE TaskInv'
  BY <1>29 DEF UploadShardsFail
<1>30. ASSUME Abort PROVE TaskInv'
  BY <1>30 DEF Excused, Void, Failed, Abort, CommitOver
<1>31. CASE UNCHANGED vars
  BY <1>31 DEF vars
<1>32. ASSUME NEW f \in Files, UploadCallError(f) PROVE TaskInv'
  BY <1>32 DEF UploadCallError
<1> HIDE DEF IInv, TypeOK, CallInv, TaskInv, SealInv, Procs, Queueing,
             fileVars, callVars, taskVars, commitVars
<1> QED
  BY <1>1, <1>2, <1>3, <1>4, <1>5, <1>6, <1>7, <1>8, <1>9, <1>10, <1>11, <1>12,
     <1>13, <1>14, <1>15, <1>16, <1>17, <1>18, <1>19, <1>20, <1>21, <1>22, <1>23,
     <1>24, <1>25, <1>26, <1>27, <1>28, <1>29, <1>30, <1>31, <1>32
  DEF Next, CleanStep, Finish, ProcStep, RegisterNewXorb, UploadTask, CommitStep

\* Every step keeps references within the xorbs that are, or are about to be,
\* registered.
LEMMA RefStep == IInv /\ [Next]_vars => RefInv'
<1> SUFFICES ASSUME IInv, [Next]_vars PROVE RefInv'
  OBVIOUS
<1>0. (Void => Void') /\ (Excused => Excused')
  BY VoidStep
<1> USE MainAssumption, EmptyXorbAssumption, <1>0, SMTT(15), ZenonT(15)
<1> USE DEF IInv, TypeOK, CallInv, TaskInv, RefInv, Procs, Queueing,
            fileVars, callVars, taskVars, commitVars
<1>1. ASSUME NEW f \in Files, UploadCall(f) PROVE RefInv'
  BY <1>1 DEF UploadCall
<1>2. ASSUME NEW f \in Files, StartClean(f) PROVE RefInv'
  BY <1>2 DEF StartClean, Finalized
<1>3. ASSUME NEW f \in Files, AcquireIngestion(f) PROVE RefInv'
  BY <1>3 DEF AcquireIngestion
<1>4. ASSUME NEW f \in Files, NEW x \in Xorbs, DedupBlock(f, x) PROVE RefInv'
  BY <1>4 DEF DedupBlock, NextBlock
<1>5. ASSUME NEW f \in Files, NEW x \in Xorbs, CutXorb(f, x) PROVE RefInv'
  BY <1>5 DEF CutXorb, NextBlock
<1>6. ASSUME NEW f \in Files, NewBlock(f) PROVE RefInv'
  BY <1>6 DEF NewBlock, NextBlock
<1>7. ASSUME NEW f \in Files, FinishMerge(f) PROVE RefInv'
  BY <1>7 DEF FinishMerge, CleaningDone
<1>8. ASSUME NEW f \in Files, NEW own \in BOOLEAN, FinishCut(f, own) PROVE RefInv'
  BY <1>8 DEF FinishCut, CleaningDone
<1>9. ASSUME NEW f \in Files, InputError(f) PROVE RefInv'
  BY <1>9 DEF InputError
<1>10. ASSUME NEW p \in Procs, NEW x \in Xorbs \cup {EmptyXorb}, AddFiles(p, x) PROVE RefInv'
  BY <1>10 DEF AddFiles, FinalizeHeld, Holding, HasData
<1>11. ASSUME NEW p \in Procs, NEW x \in Xorbs \cup {EmptyXorb}, AddFilesError(p, x) PROVE RefInv'
  BY <1>11 DEF Excused, Void, Failed, AddFilesError, FinalizeHeld, Holding, HasData, ReturnErr
<1>12. ASSUME NEW p \in Procs, ReapOk(p) PROVE RefInv'
  BY <1>12 DEF ReapOk, Finished
<1>13. ASSUME NEW p \in Procs, ReapErr(p) PROVE RefInv'
  BY <1>13 DEF Excused, Void, Failed, ReapErr, Finished, ReturnErr
<1>14. ASSUME NEW p \in Procs, TrackDone(p) PROVE RefInv'
  BY <1>14 DEF TrackDone, ReturnOk
<1>15. ASSUME NEW p \in Procs, TrackNew(p) PROVE RefInv'
  BY <1>15 DEF TrackNew
<1>16. ASSUME NEW p \in Procs, AddBlock(p) PROVE RefInv'
  BY <1>16 DEF AddBlock
<1>17. ASSUME NEW p \in Procs, Serialize(p) PROVE RefInv'
  BY <1>17 DEF Serialize
<1>18. ASSUME NEW p \in Procs, SpawnUpload(p) PROVE RefInv'
  BY <1>18 DEF SpawnUpload, ReturnOk
<1>19. ASSUME NEW p \in Procs, CallError(p) PROVE RefInv'
  BY <1>19 DEF Excused, Void, Failed, CallError, ReturnErr
<1>20. ASSUME NEW x \in Xorbs, UploadOk(x) PROVE RefInv'
  BY <1>20 DEF UploadOk
<1>21. ASSUME NEW x \in Xorbs, NEW stored \in BOOLEAN, UploadFail(x, stored) PROVE RefInv'
  BY <1>21 DEF UploadFail
<1>22. ASSUME CommitCall PROVE RefInv'
  BY <1>22 DEF CommitCall, Started
<1>23. ASSUME AwaitFiles PROVE RefInv'
  BY <1>23 DEF AwaitFiles
<1>24. ASSUME TakeSessionData PROVE RefInv'
  BY <1>24 DEF TakeSessionData
<1>25. ASSUME TakeUploadTasks PROVE RefInv'
  BY <1>25 DEF Excused, Void, Failed, TakeUploadTasks
<1>26. ASSUME NEW x \in Xorbs, JoinTask(x) PROVE RefInv'
  BY <1>26 DEF Excused, Void, Failed, JoinTask
<1>27. ASSUME JoinDone PROVE RefInv'
  BY <1>27 DEF JoinDone
<1>28. ASSUME UploadShards PROVE RefInv'
  BY <1>28 DEF UploadShards
<1>29. ASSUME UploadShardsFail PROVE RefInv'
  BY <1>29 DEF UploadShardsFail
<1>30. ASSUME Abort PROVE RefInv'
  BY <1>30 DEF Excused, Void, Failed, Abort, CommitOver
<1>31. CASE UNCHANGED vars
  BY <1>31 DEF vars
<1>32. ASSUME NEW f \in Files, UploadCallError(f) PROVE RefInv'
  BY <1>32 DEF UploadCallError
<1> HIDE DEF IInv, TypeOK, CallInv, TaskInv, RefInv, Procs, Queueing,
             fileVars, callVars, taskVars, commitVars
<1> QED
  BY <1>1, <1>2, <1>3, <1>4, <1>5, <1>6, <1>7, <1>8, <1>9, <1>10, <1>11, <1>12,
     <1>13, <1>14, <1>15, <1>16, <1>17, <1>18, <1>19, <1>20, <1>21, <1>22, <1>23,
     <1>24, <1>25, <1>26, <1>27, <1>28, <1>29, <1>30, <1>31, <1>32
  DEF Next, CleanStep, Finish, ProcStep, RegisterNewXorb, UploadTask, CommitStep

\* Every step keeps a finished file in one place on its way to the shard.
LEMMA PlaceStep == IInv /\ [Next]_vars => PlaceInv'
<1> SUFFICES ASSUME IInv, [Next]_vars PROVE PlaceInv'
  OBVIOUS
<1> USE MainAssumption, SMTT(15), ZenonT(15)
<1> USE DEF IInv, TypeOK, CallInv, PlaceInv, Placed, Failed, Procs,
            fileVars, callVars, taskVars, commitVars
<1>1. ASSUME NEW f \in Files, UploadCall(f) PROVE PlaceInv'
  BY <1>1 DEF UploadCall
<1>2. ASSUME NEW f \in Files, StartClean(f) PROVE PlaceInv'
  BY <1>2 DEF StartClean, Finalized
<1>3. ASSUME NEW f \in Files, AcquireIngestion(f) PROVE PlaceInv'
  BY <1>3 DEF AcquireIngestion
<1>4. ASSUME NEW f \in Files, NEW x \in Xorbs, DedupBlock(f, x) PROVE PlaceInv'
  BY <1>4 DEF DedupBlock, NextBlock
<1>5. ASSUME NEW f \in Files, NEW x \in Xorbs, CutXorb(f, x) PROVE PlaceInv'
  BY <1>5 DEF CutXorb, NextBlock
<1>6. ASSUME NEW f \in Files, NewBlock(f) PROVE PlaceInv'
  BY <1>6 DEF NewBlock, NextBlock
<1>7. ASSUME NEW f \in Files, FinishMerge(f) PROVE PlaceInv'
  BY <1>7 DEF FinishMerge, CleaningDone
<1>8. ASSUME NEW f \in Files, NEW own \in BOOLEAN, FinishCut(f, own) PROVE PlaceInv'
  <2>1. (agg \cap sessionFiles = {})'
    BY <1>8 DEF FinishCut, CleaningDone
  <2>2. (\A q \in Procs : held[q] \cap (agg \cup sessionFiles) = {})'
    BY <1>8 DEF FinishCut, CleaningDone
  <2>3. (\A q, r \in Procs : q # r => held[q] \cap held[r] = {})'
    BY <1>8 DEF FinishCut, CleaningDone
  <2>4. (\A g \in Files : Placed(g) => stage[g] \in {"finishing", "ok", "err"} /\ (stage[g] = "err" => callPc[g] = "none"))'
    BY <1>8 DEF FinishCut, CleaningDone
  <2>5. (\A g \in sessionFiles : ~fresh[g])'
    BY <1>8 DEF FinishCut, CleaningDone
  <2>6. (\A g \in Files : stage[g] \in {"finishing", "ok"} => Placed(g) \/ Failed \/ commit \in {"err", "cancelled"})'
    BY <1>8 DEF FinishCut, CleaningDone
  <2> QED
    BY <2>1, <2>2, <2>3, <2>4, <2>5, <2>6
<1>9. ASSUME NEW f \in Files, InputError(f) PROVE PlaceInv'
  BY <1>9 DEF InputError
<1>10. ASSUME NEW p \in Procs, NEW x \in Xorbs \cup {EmptyXorb}, AddFiles(p, x) PROVE PlaceInv'
  BY <1>10 DEF AddFiles, FinalizeHeld, Holding, HasData
<1>11. ASSUME NEW p \in Procs, NEW x \in Xorbs \cup {EmptyXorb}, AddFilesError(p, x)
      PROVE  PlaceInv'
  <2>1. (agg \cap sessionFiles = {})'
    BY <1>11 DEF AddFilesError, FinalizeHeld, Holding, HasData, ReturnErr
  <2>2. (\A q \in Procs : held[q] \cap (agg \cup sessionFiles) = {})'
    BY <1>11 DEF AddFilesError, FinalizeHeld, Holding, HasData, ReturnErr
  <2>3. (\A q, r \in Procs : q # r => held[q] \cap held[r] = {})'
    BY <1>11 DEF AddFilesError, FinalizeHeld, Holding, HasData, ReturnErr
  <2>4. (\A g \in Files : Placed(g) => stage[g] \in {"finishing", "ok", "err"} /\ (stage[g] = "err" => callPc[g] = "none"))'
    BY <1>11 DEF AddFilesError, FinalizeHeld, Holding, HasData, ReturnErr
  <2>5. (\A g \in sessionFiles : ~fresh[g])'
    BY <1>11 DEF AddFilesError, FinalizeHeld, Holding, HasData, ReturnErr
  <2>6. (\A g \in Files : stage[g] \in {"finishing", "ok"} => Placed(g) \/ Failed \/ commit \in {"err", "cancelled"})'
    BY <1>11 DEF AddFilesError, FinalizeHeld, Holding, HasData, ReturnErr
  <2> QED
    BY <2>1, <2>2, <2>3, <2>4, <2>5, <2>6
<1>12. ASSUME NEW p \in Procs, ReapOk(p) PROVE PlaceInv'
  BY <1>12 DEF ReapOk, Finished
<1>13. ASSUME NEW p \in Procs, ReapErr(p) PROVE PlaceInv'
  BY <1>13 DEF ReapErr, Finished, ReturnErr
<1>14. ASSUME NEW p \in Procs, TrackDone(p) PROVE PlaceInv'
  <2>1. (agg \cap sessionFiles = {})'
    BY <1>14 DEF TrackDone, ReturnOk
  <2>2. (\A q \in Procs : held[q] \cap (agg \cup sessionFiles) = {})'
    BY <1>14 DEF TrackDone, ReturnOk
  <2>3. (\A q, r \in Procs : q # r => held[q] \cap held[r] = {})'
    BY <1>14 DEF TrackDone, ReturnOk
  <2>4. (\A g \in Files : Placed(g) => stage[g] \in {"finishing", "ok", "err"} /\ (stage[g] = "err" => callPc[g] = "none"))'
    BY <1>14 DEF TrackDone, ReturnOk
  <2>5. (\A g \in sessionFiles : ~fresh[g])'
    BY <1>14 DEF TrackDone, ReturnOk
  <2>6. (\A g \in Files : stage[g] \in {"finishing", "ok"} => Placed(g) \/ Failed \/ commit \in {"err", "cancelled"})'
    BY <1>14 DEF TrackDone, ReturnOk
  <2> QED
    BY <2>1, <2>2, <2>3, <2>4, <2>5, <2>6
<1>15. ASSUME NEW p \in Procs, TrackNew(p) PROVE PlaceInv'
  BY <1>15 DEF TrackNew
<1>16. ASSUME NEW p \in Procs, AddBlock(p) PROVE PlaceInv'
  BY <1>16 DEF AddBlock
<1>17. ASSUME NEW p \in Procs, Serialize(p) PROVE PlaceInv'
  BY <1>17 DEF Serialize
<1>18. ASSUME NEW p \in Procs, SpawnUpload(p) PROVE PlaceInv'
  <2>1. (agg \cap sessionFiles = {})'
    BY <1>18 DEF SpawnUpload, ReturnOk
  <2>2. (\A q \in Procs : held[q] \cap (agg \cup sessionFiles) = {})'
    BY <1>18 DEF SpawnUpload, ReturnOk
  <2>3. (\A q, r \in Procs : q # r => held[q] \cap held[r] = {})'
    BY <1>18 DEF SpawnUpload, ReturnOk
  <2>4. (\A g \in Files : Placed(g) => stage[g] \in {"finishing", "ok", "err"} /\ (stage[g] = "err" => callPc[g] = "none"))'
    BY <1>18 DEF SpawnUpload, ReturnOk
  <2>5. (\A g \in sessionFiles : ~fresh[g])'
    BY <1>18 DEF SpawnUpload, ReturnOk
  <2>6. (\A g \in Files : stage[g] \in {"finishing", "ok"} => Placed(g) \/ Failed \/ commit \in {"err", "cancelled"})'
    BY <1>18 DEF SpawnUpload, ReturnOk
  <2> QED
    BY <2>1, <2>2, <2>3, <2>4, <2>5, <2>6
<1>19. ASSUME NEW p \in Procs, CallError(p) PROVE PlaceInv'
  BY <1>19 DEF CallError, ReturnErr
<1>20. ASSUME NEW x \in Xorbs, UploadOk(x) PROVE PlaceInv'
  BY <1>20 DEF UploadOk
<1>21. ASSUME NEW x \in Xorbs, NEW stored \in BOOLEAN, UploadFail(x, stored) PROVE PlaceInv'
  BY <1>21 DEF UploadFail
<1>22. ASSUME CommitCall PROVE PlaceInv'
  BY <1>22 DEF CommitCall, Started
<1>23. ASSUME AwaitFiles PROVE PlaceInv'
  BY <1>23 DEF AwaitFiles
<1>24. ASSUME TakeSessionData PROVE PlaceInv'
  BY <1>24 DEF TakeSessionData
<1>25. ASSUME TakeUploadTasks PROVE PlaceInv'
  BY <1>25 DEF TakeUploadTasks
<1>26. ASSUME NEW x \in Xorbs, JoinTask(x) PROVE PlaceInv'
  BY <1>26 DEF JoinTask
<1>27. ASSUME JoinDone PROVE PlaceInv'
  BY <1>27 DEF JoinDone
<1>28. ASSUME UploadShards PROVE PlaceInv'
  BY <1>28 DEF UploadShards
<1>29. ASSUME UploadShardsFail PROVE PlaceInv'
  BY <1>29 DEF UploadShardsFail
<1>30. ASSUME Abort PROVE PlaceInv'
  BY <1>30 DEF Abort, CommitOver
<1>31. CASE UNCHANGED vars
  BY <1>31 DEF vars
<1>32. ASSUME NEW f \in Files, UploadCallError(f) PROVE PlaceInv'
  BY <1>32 DEF UploadCallError
<1> HIDE DEF IInv, TypeOK, CallInv, PlaceInv, Placed, Failed, Procs,
             fileVars, callVars, taskVars, commitVars
<1> QED
  BY <1>1, <1>2, <1>3, <1>4, <1>5, <1>6, <1>7, <1>8, <1>9, <1>10, <1>11, <1>12,
     <1>13, <1>14, <1>15, <1>16, <1>17, <1>18, <1>19, <1>20, <1>21, <1>22, <1>23,
     <1>24, <1>25, <1>26, <1>27, <1>28, <1>29, <1>30, <1>31, <1>32
  DEF Next, CleanStep, Finish, ProcStep, RegisterNewXorb, UploadTask, CommitStep

\* Every step keeps what commit() knows of its files.
LEMMA SealStep == IInv /\ [Next]_vars => SealInv'
<1> SUFFICES ASSUME IInv, [Next]_vars PROVE SealInv'
  OBVIOUS
<1> USE MainAssumption, SMTT(15), ZenonT(15)
<1> USE DEF IInv, TypeOK, CallInv, SealInv, Sealed, Procs, Stages,
            fileVars, callVars, taskVars, commitVars
<1>0. ASSUME NEW p \in Procs, ReturnErr(p), callPc[p] # "none" \/ Holding(p),
             UNCHANGED <<joining, serverFiles, handles, firstError>>
      PROVE  SealInv'
  <2>1. CASE p = Main
    BY <1>0, <2>1 DEF ReturnErr, Holding
  <2>2. CASE p # Main
    <3>1. p \in Files /\ stage[p] \notin {"new", "starting", "queued", "ok"}
      BY <1>0, <2>2 DEF Holding
    <3>2. stage' = [stage EXCEPT ![p] = "err"] /\ commit' = commit
      BY <1>0, <2>2 DEF ReturnErr
    <3> QED
      BY <1>0, <3>1, <3>2
  <2> QED
    BY <2>1, <2>2
<1>1. ASSUME NEW f \in Files, UploadCall(f) PROVE SealInv'
  BY <1>1 DEF UploadCall
<1>2. ASSUME NEW f \in Files, StartClean(f) PROVE SealInv'
  BY <1>2 DEF StartClean, Finalized
<1>3. ASSUME NEW f \in Files, AcquireIngestion(f) PROVE SealInv'
  BY <1>3 DEF AcquireIngestion
<1>4. ASSUME NEW f \in Files, NEW x \in Xorbs, DedupBlock(f, x) PROVE SealInv'
  BY <1>4 DEF DedupBlock, NextBlock
<1>5. ASSUME NEW f \in Files, NEW x \in Xorbs, CutXorb(f, x) PROVE SealInv'
  BY <1>5 DEF CutXorb, NextBlock
<1>6. ASSUME NEW f \in Files, NewBlock(f) PROVE SealInv'
  BY <1>6 DEF NewBlock, NextBlock
<1>7. ASSUME NEW f \in Files, FinishMerge(f) PROVE SealInv'
  BY <1>7 DEF FinishMerge, CleaningDone
<1>8. ASSUME NEW f \in Files, NEW own \in BOOLEAN, FinishCut(f, own) PROVE SealInv'
  BY <1>8 DEF FinishCut, CleaningDone
<1>9. ASSUME NEW f \in Files, InputError(f) PROVE SealInv'
  BY <1>9 DEF InputError
<1>10. ASSUME NEW p \in Procs, NEW x \in Xorbs \cup {EmptyXorb}, AddFiles(p, x) PROVE SealInv'
  BY <1>10 DEF AddFiles, FinalizeHeld, Holding, HasData
<1>11. ASSUME NEW p \in Procs, NEW x \in Xorbs \cup {EmptyXorb}, AddFilesError(p, x)
      PROVE  SealInv'
  BY <1>11, <1>0 DEF AddFilesError, FinalizeHeld
<1>12. ASSUME NEW p \in Procs, ReapOk(p) PROVE SealInv'
  BY <1>12 DEF ReapOk, Finished
<1>13. ASSUME NEW p \in Procs, ReapErr(p) PROVE SealInv'
  BY <1>13, <1>0 DEF ReapErr
<1>14. ASSUME NEW p \in Procs, TrackDone(p) PROVE SealInv'
  BY <1>14 DEF TrackDone, ReturnOk
<1>15. ASSUME NEW p \in Procs, TrackNew(p) PROVE SealInv'
  BY <1>15 DEF TrackNew
<1>16. ASSUME NEW p \in Procs, AddBlock(p) PROVE SealInv'
  BY <1>16 DEF AddBlock
<1>17. ASSUME NEW p \in Procs, Serialize(p) PROVE SealInv'
  BY <1>17 DEF Serialize
<1>18. ASSUME NEW p \in Procs, SpawnUpload(p) PROVE SealInv'
  BY <1>18 DEF SpawnUpload, ReturnOk
<1>19. ASSUME NEW p \in Procs, CallError(p) PROVE SealInv'
  BY <1>19, <1>0 DEF CallError
<1>20. ASSUME NEW x \in Xorbs, UploadOk(x) PROVE SealInv'
  BY <1>20 DEF UploadOk
<1>21. ASSUME NEW x \in Xorbs, NEW stored \in BOOLEAN, UploadFail(x, stored) PROVE SealInv'
  BY <1>21 DEF UploadFail
<1>22. ASSUME CommitCall PROVE SealInv'
  BY <1>22 DEF CommitCall, Started
<1>23. ASSUME AwaitFiles PROVE SealInv'
  BY <1>23 DEF AwaitFiles
<1>24. ASSUME TakeSessionData PROVE SealInv'
  BY <1>24 DEF TakeSessionData
<1>25. ASSUME TakeUploadTasks PROVE SealInv'
  BY <1>25 DEF TakeUploadTasks
<1>26. ASSUME NEW x \in Xorbs, JoinTask(x) PROVE SealInv'
  BY <1>26 DEF JoinTask
<1>27. ASSUME JoinDone PROVE SealInv'
  BY <1>27 DEF JoinDone
<1>28. ASSUME UploadShards PROVE SealInv'
  BY <1>28 DEF UploadShards
<1>29. ASSUME UploadShardsFail PROVE SealInv'
  BY <1>29 DEF UploadShardsFail
<1>30. ASSUME Abort PROVE SealInv'
  BY <1>30 DEF Abort, CommitOver
<1>31. CASE UNCHANGED vars
  BY <1>31 DEF vars
<1>32. ASSUME NEW f \in Files, UploadCallError(f) PROVE SealInv'
  BY <1>32 DEF UploadCallError
<1> HIDE DEF IInv, TypeOK, CallInv, SealInv, Sealed, Procs, Stages,
             fileVars, callVars, taskVars, commitVars
<1> QED
  BY <1>1, <1>2, <1>3, <1>4, <1>5, <1>6, <1>7, <1>8, <1>9, <1>10, <1>11, <1>12,
     <1>13, <1>14, <1>15, <1>16, <1>17, <1>18, <1>19, <1>20, <1>21, <1>22, <1>23,
     <1>24, <1>25, <1>26, <1>27, <1>28, <1>29, <1>30, <1>31, <1>32
  DEF Next, CleanStep, Finish, ProcStep, RegisterNewXorb, UploadTask, CommitStep

\* Once commit() has settled its files, only failed or late files are active.
LEMMA Settled ==
  ASSUME IInv, Sealed, ~Void
  PROVE  \A f \in Files : stage[f] \in {"new", "ok"} /\ callPc[f] = "none" /\ held[f] = {}
BY DEF IInv, TypeOK, Stages, SealInv, CallInv, Sealed, Void, Failed, Late

\* Once finalize has joined its tasks, every xorb of the session is stored and
\* every file is in the session shard.
LEMMA Joined ==
  ASSUME IInv, commit \in {"shards", "ok"}, ~Void
  PROVE  /\ registered \subseteq server
         /\ \A x \in Xorbs : task[x] # "none" => task[x] = "ok"
         /\ \A f \in handles : f \in sessionFiles /\ refs[f] \subseteq registered
<1>1. Sealed /\ ~Excused
  BY DEF Sealed, Excused
<1>2. \A p \in Procs : callPc[p] = "none" /\ held[p] = {}
  BY <1>1, Settled DEF IInv, CallInv, Procs
<1>3. taskSet = {} /\ joining = {} /\ agg = {}
  BY DEF IInv, SealInv, CommitInv
<1>4. \A x \in Xorbs : task[x] # "none" => task[x] = "ok"
  BY <1>1, <1>3 DEF IInv, TypeOK, TaskStates, TaskInv
<1>5. registered \subseteq server
  BY <1>1, <1>2, <1>4 DEF IInv, TypeOK, TaskInv, Queueing
<1>6. \A f \in handles : f \in sessionFiles /\ refs[f] \subseteq registered
  <2> SUFFICES ASSUME NEW f \in handles PROVE f \in sessionFiles /\ refs[f] \subseteq registered
    OBVIOUS
  <2>1. f \in Files /\ stage[f] = "ok"
    BY <1>1 DEF IInv, TypeOK, SealInv, Void, Failed
  <2>2. f \in sessionFiles
    BY <2>1, <1>1, <1>2, <1>3 DEF IInv, PlaceInv, Placed, Excused, Void
  <2>3. refs[f] \subseteq registered
    BY <2>1, <1>1, <1>2 DEF IInv, TypeOK, RefInv
  <2> QED
    BY <2>2, <2>3
<1> QED
  BY <1>4, <1>5, <1>6

\* Every step keeps what finalize has established: after the files are settled
\* only a late file could add to the aggregator, the tasks or the xorbs.
LEMMA CommitInvStep == IInv /\ [Next]_vars => CommitInv'
<1> SUFFICES ASSUME IInv, [Next]_vars PROVE CommitInv'
  OBVIOUS
<1>0. (Void => Void') /\ (Excused => Excused')
  BY VoidStep
<1> USE MainAssumption, <1>0, Settled, ZenonT(15), SMTT(15)
<1> USE DEF IInv, TypeOK, CallInv, SealInv, CommitInv, Sealed, Procs,
            fileVars, callVars, taskVars, commitVars
<1>1. ASSUME NEW f \in Files, UploadCall(f) PROVE CommitInv'
  BY <1>1 DEF UploadCall
<1>2. ASSUME NEW f \in Files, StartClean(f) PROVE CommitInv'
  BY <1>2 DEF StartClean, Finalized
<1>3. ASSUME NEW f \in Files, AcquireIngestion(f) PROVE CommitInv'
  BY <1>3 DEF AcquireIngestion
<1>4. ASSUME NEW f \in Files, NEW x \in Xorbs, DedupBlock(f, x) PROVE CommitInv'
  BY <1>4 DEF DedupBlock, NextBlock
<1>5. ASSUME NEW f \in Files, NEW x \in Xorbs, CutXorb(f, x) PROVE CommitInv'
  BY <1>5 DEF CutXorb, NextBlock
<1>6. ASSUME NEW f \in Files, NewBlock(f) PROVE CommitInv'
  BY <1>6 DEF NewBlock, NextBlock
<1>7. ASSUME NEW f \in Files, FinishMerge(f) PROVE CommitInv'
  BY <1>7 DEF FinishMerge, CleaningDone
<1>8. ASSUME NEW f \in Files, NEW own \in BOOLEAN, FinishCut(f, own) PROVE CommitInv'
  BY <1>8 DEF FinishCut, CleaningDone
<1>9. ASSUME NEW f \in Files, InputError(f) PROVE CommitInv'
  BY <1>9 DEF InputError
<1>10. ASSUME NEW p \in Procs, NEW x \in Xorbs \cup {EmptyXorb}, AddFiles(p, x) PROVE CommitInv'
  BY <1>10 DEF AddFiles, FinalizeHeld, Holding, HasData
<1>11. ASSUME NEW p \in Procs, NEW x \in Xorbs \cup {EmptyXorb}, AddFilesError(p, x)
      PROVE  CommitInv'
  BY <1>11 DEF AddFilesError, FinalizeHeld, Holding, HasData, ReturnErr
<1>12. ASSUME NEW p \in Procs, ReapOk(p) PROVE CommitInv'
  BY <1>12 DEF ReapOk, Finished
<1>13. ASSUME NEW p \in Procs, ReapErr(p) PROVE CommitInv'
  BY <1>13 DEF ReapErr, Finished, ReturnErr
<1>14. ASSUME NEW p \in Procs, TrackDone(p) PROVE CommitInv'
  BY <1>14 DEF TrackDone, ReturnOk
<1>15. ASSUME NEW p \in Procs, TrackNew(p) PROVE CommitInv'
  BY <1>15 DEF TrackNew
<1>16. ASSUME NEW p \in Procs, AddBlock(p) PROVE CommitInv'
  BY <1>16 DEF AddBlock
<1>17. ASSUME NEW p \in Procs, Serialize(p) PROVE CommitInv'
  BY <1>17 DEF Serialize
<1>18. ASSUME NEW p \in Procs, SpawnUpload(p) PROVE CommitInv'
  BY <1>18 DEF SpawnUpload, ReturnOk
<1>19. ASSUME NEW p \in Procs, CallError(p) PROVE CommitInv'
  BY <1>19 DEF CallError, ReturnErr
<1>20. ASSUME NEW x \in Xorbs, UploadOk(x) PROVE CommitInv'
  BY <1>20, Joined DEF TaskInv, UploadOk
<1>21. ASSUME NEW x \in Xorbs, NEW stored \in BOOLEAN, UploadFail(x, stored) PROVE CommitInv'
  BY <1>21 DEF UploadFail
<1>22. ASSUME CommitCall PROVE CommitInv'
  BY <1>22 DEF CommitCall, Started
<1>23. ASSUME AwaitFiles PROVE CommitInv'
  BY <1>23 DEF AwaitFiles
<1>24. ASSUME TakeSessionData PROVE CommitInv'
  BY <1>24 DEF TakeSessionData
<1>25. ASSUME TakeUploadTasks PROVE CommitInv'
  BY <1>25 DEF TakeUploadTasks
<1>26. ASSUME NEW x \in Xorbs, JoinTask(x) PROVE CommitInv'
  BY <1>26 DEF JoinTask
<1>27. ASSUME JoinDone PROVE CommitInv'
  BY <1>27 DEF JoinDone
<1>28. ASSUME UploadShards PROVE CommitInv'
  BY <1>28, Joined DEF Excused, UploadShards
<1>29. ASSUME UploadShardsFail PROVE CommitInv'
  BY <1>29, Joined DEF UploadShardsFail
<1>30. ASSUME Abort PROVE CommitInv'
  BY <1>30 DEF Abort, CommitOver
<1>31. CASE UNCHANGED vars
  BY <1>31 DEF vars
<1>32. ASSUME NEW f \in Files, UploadCallError(f) PROVE CommitInv'
  BY <1>32 DEF UploadCallError
<1> HIDE DEF IInv, TypeOK, CallInv, SealInv, CommitInv, Sealed, Procs,
             fileVars, callVars, taskVars, commitVars
<1> QED
  BY <1>1, <1>2, <1>3, <1>4, <1>5, <1>6, <1>7, <1>8, <1>9, <1>10, <1>11, <1>12,
     <1>13, <1>14, <1>15, <1>16, <1>17, <1>18, <1>19, <1>20, <1>21, <1>22, <1>23,
     <1>24, <1>25, <1>26, <1>27, <1>28, <1>29, <1>30, <1>31, <1>32
  DEF Next, CleanStep, Finish, ProcStep, RegisterNewXorb, UploadTask, CommitStep
-----------------------------------------------------------------------------
\* Initially nothing is registered, placed or committed.
LEMMA InitIInv == Init => IInv
<1> SUFFICES ASSUME Init PROVE IInv
  OBVIOUS
<1> USE MainAssumption
<1>1. TypeOK
  <2>1. blocks \in [Files -> 0 .. MaxBlocks]
    BY BoundsAssumption DEF Init
  <2>2. /\ held \in [Procs -> SUBSET Files]
        /\ callPc \in [Procs -> CallPcs]
        /\ callXorb \in [Procs -> Xorbs \cup {EmptyXorb}]
    BY DEF Init, CallPcs
  <2>3. /\ stage \in [Files -> Stages]
        /\ fresh \in [Files -> BOOLEAN]
        /\ refs \in [Files -> SUBSET Xorbs]
        /\ task \in [Xorbs -> TaskStates]
    BY DEF Init, Stages, TaskStates
  <2> QED
    BY <2>1, <2>2, <2>3 DEF Init, TypeOK, CommitStates
<1>2. CallInv /\ TaskInv /\ RefInv
  BY DEF Init, CallInv, TaskInv, RefInv, Procs, Queueing
<1>3. PlaceInv
  BY DEF Init, PlaceInv, Placed, Procs
<1>4. SealInv /\ CommitInv
  BY DEF Init, SealInv, Sealed, CommitInv
<1> QED
  BY <1>1, <1>2, <1>3, <1>4 DEF IInv

\* The inductive invariant holds of every reachable state.
THEOREM Inductive == Spec => []IInv
<1>1. IInv /\ [Next]_vars => IInv'
  BY TypeStep, CallStep, TaskStep, RefStep, PlaceStep, SealStep, CommitInvStep DEF IInv
<1> QED
  BY InitIInv, <1>1, PTL DEF Spec, Safety

\* Type correctness, for any number of files, xorbs and permits.
THEOREM TypeCorrect == Spec => []TypeOK
<1>1. IInv => TypeOK
  BY DEF IInv
<1> QED
  BY <1>1, Inductive, PTL

\* A successful commit that no upload call overlapped leaves every file
\* reconstructible from the server, whatever tasks failed, were reaped by
\* another file or raced with dedup queries.
THEOREM Durable == Spec => []CommitOkDurable
<1>1. IInv => CommitOkDurable
  <2> SUFFICES ASSUME IInv, commit = "ok", Late = {}, NEW f \in handles
               PROVE  f \in serverFiles /\ ~fresh[f] /\ refs[f] \subseteq server
    BY DEF CommitOkDurable
  <2>1. ~Void
    BY DEF IInv, TypeOK, SealInv, Void, Failed, Late
  <2>2. f \in sessionFiles /\ refs[f] \subseteq server
    BY <2>1, Joined
  <2>3. ~fresh[f]
    BY <2>2 DEF IInv, PlaceInv
  <2>4. f \in serverFiles
    BY <2>1 DEF IInv, CommitInv
  <2> QED
    BY <2>2, <2>3, <2>4
<1> QED
  BY <1>1, Inductive, PTL

\* Unless a file failed or overlapped commit(), no shard is uploaded before
\* every xorb of the session is stored.
THEOREM ShardsOfCleanSession == Spec => []CleanSessionShards
<1>1. IInv => CleanSessionShards
  BY DEF IInv, CommitInv, CleanSessionShards, Void
<1> QED
  BY <1>1, Inductive, PTL

\* A finished file is never lost or duplicated between the aggregator, the
\* processes cutting it and the session shard.
THEOREM OnePlace == Spec => []FileInOnePlace
<1>1. IInv => FileInOnePlace
  BY DEF IInv, PlaceInv, Placed, FileInOnePlace
<1> QED
  BY <1>1, Inductive, PTL

\* The report of a successful commit misses no uploaded xorb.
THEOREM ReportComplete == Spec => []ReportCountsUploads
<1>1. IInv => ReportCountsUploads
  <2> SUFFICES ASSUME IInv, commit = "ok", Late = {}
               PROVE  reported = {x \in Xorbs : task[x] # "none"}
    BY DEF ReportCountsUploads
  <2>1. ~Void
    BY DEF IInv, TypeOK, SealInv, Void, Failed, Late
  <2>2. \A x \in Xorbs : task[x] # "none" => task[x] = "ok"
    BY <2>1, Joined
  <2>3. reported = counted
    BY <2>1 DEF IInv, CommitInv
  <2> QED
    BY <2>2, <2>3 DEF IInv, TypeOK, TaskInv
<1> QED
  BY <1>1, Inductive, PTL

\* A xorb gets one upload task in the life of the session.
THEOREM OneUpload == Spec => UploadedOnce
<1> DEFINE Once == \A x \in Xorbs : task[x] # "none" /\ task'[x] # task[x] =>
                     task[x] = "running" /\ task'[x] # "none"
<1>1. ASSUME IInv, [Next]_vars PROVE Once
  <2>1. CASE UNCHANGED task
    BY <2>1
  <2>2. ASSUME NEW p \in Procs, SpawnUpload(p) PROVE Once
    BY <1>1, <2>2 DEF IInv, TypeOK, TaskInv, Queueing, SpawnUpload
  <2>3. ASSUME NEW x \in Xorbs, UploadTask(x) PROVE Once
    BY <1>1, <2>3 DEF IInv, TypeOK, UploadTask, UploadOk, UploadFail
  <2>4. UNCHANGED task \/ (\E p \in Procs : SpawnUpload(p)) \/ (\E x \in Xorbs : UploadTask(x))
    BY <1>1 DEF Next, vars, UploadCall, StartClean, UploadCallError, AcquireIngestion, CleanStep, DedupBlock,
       CutXorb, NewBlock, Finish, FinishMerge, FinishCut, InputError, ProcStep, AddFiles,
       AddFilesError, RegisterNewXorb, ReapOk, ReapErr, TrackDone, TrackNew, AddBlock,
       Serialize, CallError, CommitCall, CommitStep, AwaitFiles, TakeSessionData,
       TakeUploadTasks, JoinTask, JoinDone, UploadShards, UploadShardsFail, Abort, taskVars
  <2> QED
    BY <2>1, <2>2, <2>3, <2>4
<1> QED
  BY <1>1, Inductive, PTL DEF Spec, Safety, UploadedOnce
=============================================================================
