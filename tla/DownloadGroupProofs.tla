------------------------ MODULE DownloadGroupProofs ------------------------
(***************************************************************************)
(* Proofs about download groups, for any number of files and               *)
(* cancellations: what a report of finish says, and what calls that finish *)
(* the same handle get.                                                    *)
(***************************************************************************)
EXTENDS DownloadGroup, TLAPS

Safety == Init /\ [][Next]_vars

-----------------------------------------------------------------------------
Ends == {"none", "running", "ok", "failed", "aborted"}
AddSteps == [at : {"idle", "start", "register", "insert", "set", "done", "earlier"},
             result : {"none", "ok", "refused", "failed", "cancelled"}]
FinishSteps == [at : {"idle", "lock", "join", "set", "done", "noted", "dropped"},
                result : {"none", "ok", "previous", "resolving", "failed", "aborted", "cancelled"}]
CloseSteps == [at : {"idle", "take", "next", "wait", "set", "done", "dropped"},
               result : {"none", "ok", "previous", "resolving", "failed", "aborted", "cancelled",
                         "refused", "dropped"},
               todo : SUBSET Files, report : SUBSET Files, before : SUBSET Files]

Types ==
  /\ token \in [Nodes -> BOOLEAN]
  /\ download \in [Files -> Ends]
  /\ mapped \in [Files -> Ends \cup {"cancelled"}]
  /\ handle \in [Files -> {"none", "held", "taken", "Success", "Error"}]
  /\ lock \in [Files -> {"free", "user", "group"}]
  /\ active_tasks \in SUBSET Files
  /\ add \in [Files -> AddSteps]
  /\ finish \in [Callers -> [Files -> FinishSteps]]
  /\ close \in CloseSteps

\* Nothing is known of a file before its download has been added.
Added ==
  \A f \in Files :
    /\ add[f].at \in {"register", "insert"} => download[f] # "none"
    /\ add[f].result = "ok" => /\ add[f].at \in {"done", "earlier"}
                               /\ mapped[f] # "none" /\ download[f] # "none" /\ handle[f] # "none"
    /\ add[f].result # "ok" => /\ mapped[f] = "none" /\ handle[f] = "none"
                               /\ \A c \in Callers : finish[c][f].at = "idle" /\ finish[c][f].result = "none"
                               /\ f \notin active_tasks /\ f \notin close.todo /\ f \notin close.report

Released(f) == token[f] \/ \E d \in Callers : finish[d][f].at = "dropped"

\* The mutex of a handle is held by the call that awaits its task: a handle whose task was
\* taken is locked, unless that call was dropped or the file was cancelled.
Locks ==
  \A f \in Files :
    /\ \A c \in Callers : lock[f] = c <=> finish[c][f].at = "join"
    /\ handle[f] = "taken" => lock[f] # "free" \/ Released(f)
    /\ \A c \in Callers : finish[c][f].result = "resolving" => Released(f)

\* A success that is passed on is that of the download.
Results ==
  \A f \in Files :
    /\ \A c \in Callers : finish[c][f].result = "ok" => download[f] = "ok"
    /\ \A c \in Callers : finish[c][f].at \in {"set", "done"} => finish[c][f].result # "none"
    /\ mapped[f] = "ok" \/ handle[f] = "Success" \/ f \in close.report => download[f] = "ok"

Awaited(f) == finish["group"][f].at \notin {"idle", "noted"}

\* Until the first error, every file that finish has found is still to be finished, being
\* finished, or in the report; one is finished at a time.
Progress ==
  /\ close.at = "idle" => \A f \in Files : add[f].result = "ok" => f \in active_tasks
  /\ close.at = "take" => close.before \subseteq active_tasks
  /\ close.at \in {"idle", "take", "next"} => \A f \in Files : ~Awaited(f)
  /\ close.at = "wait" => \A f, g \in Files : Awaited(f) /\ Awaited(g) => f = g
  /\ close.at = "next" /\ close.result = "none" => close.before \subseteq close.todo \cup close.report
  /\ close.at = "wait" /\ close.result = "none" =>
       \A f \in close.before : f \in close.todo \/ f \in close.report \/ Awaited(f)
  /\ close.result = "ok" => close.at \in {"set", "done"} /\ close.before \subseteq close.report

GroupInv == Types /\ Added /\ Locks /\ Results /\ Progress

LEMMA GroupInvInit == Init => GroupInv
<1> SUFFICES ASSUME NEW started \in StartSets, InitWith(started) PROVE GroupInv
  BY DEF Init
<1>1. started \subseteq Files /\ Files \subseteq Nodes
  BY GroupAssumption
<1>2. Types
  BY <1>1 DEF InitWith, RuntimeInit, Types, Ends, AddSteps, FinishSteps, CloseSteps, Idle, Callers
<1>3. Added /\ Locks /\ Results /\ Progress
  BY <1>1 DEF InitWith, RuntimeInit, Added, Locks, Released, Results, Progress, Awaited, Idle, Callers
<1> QED
  BY <1>2, <1>3 DEF GroupInv

-----------------------------------------------------------------------------
(***************************************************************************)
(* Every action keeps the invariant.                                       *)
(***************************************************************************)
\* A step of download_file_to_path that does not complete it.
LEMMA OnlyAdd ==
  ASSUME GroupInv, NEW f \in Files, NEW a \in AddSteps, add' = [add EXCEPT ![f] = a],
         add[f].result # "ok", a.result # "ok",
         a.at \in {"register", "insert"} => download[f] # "none",
         token' = token,
         UNCHANGED <<download, mapped, handle, lock, active_tasks, finish, close>>
  PROVE  GroupInv'
<1>1. Types' /\ add'[f] = a /\ \A g \in Files \ {f} : add'[g] = add[g]
  BY DEF GroupInv, Types
<1>2. Added'
  BY <1>1, SMTT(30) DEF GroupInv, Added
<1>3. Locks' /\ Results'
  BY DEF GroupInv, Locks, Released, Results
<1>4. Progress'
  BY <1>1, SMTT(30) DEF GroupInv, Progress, Awaited
<1> QED
  BY <1>1, <1>2, <1>3, <1>4, SMTT(30) DEF GroupInv

LEMMA AddKeeps ==
  ASSUME GroupInv, NEW f \in Files,
         CheckAdd(f) \/ RefuseDownload(f) \/ RegisterDownload(f) \/ FailAdd(f)
  PROVE  GroupInv'
<1>1. add[f] \in AddSteps /\ add[f].result # "ok"
  BY DEF CheckAdd, RefuseDownload, RegisterDownload, FailAdd, GroupInv, Types, AddSteps, Added
<1>2. PICK a \in AddSteps : /\ add' = [add EXCEPT ![f] = a]
                            /\ a.result # "ok"
                            /\ a.at \in {"register", "insert"} => add[f].at = "register"
  <2> DEFINE rec(at, result) == [at |-> at, result |-> result]
             Becomes(at, result) == add' = [add EXCEPT ![f] = rec(at, result)]
  <2>1. \/ Becomes("start", "none") \/ Becomes("done", "refused")
        \/ Becomes("set", "failed") \/ Becomes("set", "cancelled")
        \/ Becomes("insert", "none") /\ add[f].at = "register"
        \/ Becomes("done", add[f].result)
    BY Zenon DEF CheckAdd, RefuseDownload, RegisterDownload, FailAdd, AddIs
  <2>2. /\ rec("start", "none") \in AddSteps /\ rec("done", "refused") \in AddSteps
        /\ rec("set", "failed") \in AddSteps /\ rec("set", "cancelled") \in AddSteps
        /\ rec("insert", "none") \in AddSteps /\ rec("done", add[f].result) \in AddSteps
    BY <1>1, SMTT(30) DEF AddSteps
  <2>3. CASE Becomes("start", "none")
    BY <2>2, <2>3, Zenon
  <2>4. CASE Becomes("done", "refused")
    BY <2>2, <2>4, Zenon
  <2>5. CASE Becomes("set", "failed")
    BY <2>2, <2>5, Zenon
  <2>6. CASE Becomes("set", "cancelled")
    BY <2>2, <2>6, Zenon
  <2>7. CASE Becomes("insert", "none") /\ add[f].at = "register"
    BY <2>2, <2>7, Zenon
  <2>8. CASE Becomes("done", add[f].result)
    BY <1>1, <2>2, <2>8, ZenonT(40)
  <2> QED
    BY <2>1, <2>3, <2>4, <2>5, <2>6, <2>7, <2>8
<1>3. a.at \in {"register", "insert"} => download[f] # "none"
  BY <1>2 DEF GroupInv, Added
<1>4. token' = token /\ UNCHANGED <<download, mapped, handle, lock, active_tasks, finish, close>>
  BY DEF CheckAdd, RefuseDownload, RegisterDownload, FailAdd, RegisterChild, set_state, rvars
<1> QED
  BY <1>1, <1>2, <1>3, <1>4, OnlyAdd, ZenonT(40)

LEMMA StartDownloadKeeps ==
  ASSUME GroupInv, NEW f \in Files, StartDownload(f)
  PROVE  GroupInv'
<1> USE DEF GroupInv, StartDownload, AddIs, Callers
<1>1. token' \in [Nodes -> BOOLEAN] /\ \A g \in Files \ {f} : token'[g] = token[g]
  BY GroupAssumption, SMTT(30) DEF child, Types
<1>2. add[f].result # "ok"
  BY SMTT(30) DEF Types, AddSteps, Added
<1>3. Types'
  BY <1>1 DEF Types, Ends, AddSteps
<1>4. Added'
  BY SMTT(30) DEF Types, Ends, AddSteps, Added
<1>5. Locks'
  BY <1>1, <1>2, SMTT(30) DEF Types, Added, Locks, Released
<1>6. Results'
  BY <1>2, SMTT(30) DEF Types, Added, Results
<1>7. Progress'
  BY <1>2, SMTT(30) DEF Types, AddSteps, Added, Progress, Awaited
<1> QED
  BY <1>3, <1>4, <1>5, <1>6, <1>7, SMTT(30)

LEMMA InsertHandleKeeps ==
  ASSUME GroupInv, NEW f \in Files, InsertHandle(f)
  PROVE  GroupInv'
<1> USE DEF GroupInv, InsertHandle, AddIs, rvars, Callers
<1>1. Types'
  BY DEF Types, Ends, AddSteps, FinishSteps, CloseSteps
<1>2. Added'
  BY SMTT(30) DEF Types, Added
<1>3. Locks'
  BY SMTT(30) DEF Locks, Released
<1>4. Results'
  BY SMTT(30) DEF Results
<1>5. Progress'
  BY DEF Progress, Awaited
<1> QED
  BY <1>1, <1>2, <1>3, <1>4, <1>5, SMTT(30)

LEMMA EndDownloadKeeps ==
  ASSUME GroupInv, NEW f \in Files, EndDownload(f)
  PROVE  GroupInv'
<1> USE DEF GroupInv, EndDownload, rvars, Callers
<1>1. Types'
  BY SMTT(30) DEF Types, Ends
<1>2. Added'
  BY SMTT(30) DEF Added
<1>3. Locks'
  BY SMTT(30) DEF Locks, Released
<1>4. Results'
  BY SMTT(30) DEF Results
<1>5. Progress'
  BY DEF Progress, Awaited
<1> QED
  BY <1>1, <1>2, <1>3, <1>4, <1>5, SMTT(30)

LEMMA MapResultKeeps ==
  ASSUME GroupInv, NEW f \in Files, MapResult(f)
  PROVE  GroupInv'
<1> USE DEF GroupInv, MapResult, rvars, Callers
<1>1. Types'
  BY SMTT(30) DEF Types, Ends
<1>2. Added'
  BY SMTT(30) DEF Types, Added
<1>3. Locks'
  BY SMTT(30) DEF Locks, Released
<1>4. Results'
  BY SMTT(30) DEF Types, Results
<1>5. Progress'
  BY DEF Progress, Awaited
<1> QED
  BY <1>1, <1>2, <1>3, <1>4, <1>5, SMTT(30)

LEMMA BeginFinishKeeps ==
  ASSUME GroupInv, NEW c \in Callers, NEW f \in Files, BeginFinish(c, f)
  PROVE  GroupInv'
<1> USE DEF GroupInv, Callers
<1>1. PICK r \in FinishSteps : /\ finish' = [finish EXCEPT ![c][f] = r]
                               /\ r.at \in {"lock", "done"}
                               /\ r.result \in {"none", "cancelled", "previous"}
                               /\ r.at = "done" => r.result # "none"
  <2> DEFINE rec(at, result) == [at |-> at, result |-> result]
             Becomes(at, result) == finish' = [finish EXCEPT ![c][f] = rec(at, result)]
  <2>1. Becomes("lock", "none") \/ Becomes("done", IF status[f] = "UserCancelled" THEN "cancelled" ELSE "previous")
    BY Zenon DEF BeginFinish, FinishIs
  <2>2. Becomes("lock", "none") \/ Becomes("done", "cancelled") \/ Becomes("done", "previous")
    BY <2>1, SMTT(30)
  <2>3. /\ rec("lock", "none") \in FinishSteps /\ rec("done", "cancelled") \in FinishSteps
        /\ rec("done", "previous") \in FinishSteps
    BY DEF FinishSteps
  <2>4. CASE Becomes("lock", "none")
    BY <2>3, <2>4, Zenon
  <2>5. CASE Becomes("done", "cancelled")
    BY <2>3, <2>5, Zenon
  <2>6. CASE Becomes("done", "previous")
    BY <2>3, <2>6, Zenon
  <2> QED
    BY <2>2, <2>4, <2>5, <2>6, SMTT(30)
<1>2. /\ token' = token
      /\ UNCHANGED <<download, mapped, handle, lock, active_tasks, add>>
  BY Zenon DEF BeginFinish, transition_to_finalizing, rvars
<1>3. /\ close' = IF c = "group" THEN [close EXCEPT !.at = "wait", !.todo = @ \ {f}] ELSE close
      /\ finish[c][f].at = "idle"
      /\ c = "group" => close.at = "next" /\ f \in close.todo
      /\ add[f].result = "ok"
  BY DEF BeginFinish, MayFinish, Added
<1>4. Types'
  BY <1>1, <1>2, <1>3, ZenonT(40) DEF Types, CloseSteps
<1>5. Added'
  BY <1>1, <1>2, <1>3 DEF Types, CloseSteps, Added
<1>6. Locks'
  BY <1>1, <1>2, <1>3, SMTT(30) DEF Types, Locks, Released
<1>7. Results'
  BY <1>1, <1>2, <1>3, SMTT(30) DEF Types, CloseSteps, Results
<1>8. Progress'
  BY <1>1, <1>2, <1>3, SMTT(30) DEF Types, CloseSteps, Progress, Awaited
<1> QED
  BY <1>4, <1>5, <1>6, <1>7, <1>8, SMTT(30)

LEMMA LockHandleKeeps ==
  ASSUME GroupInv, NEW c \in Callers, NEW f \in Files, LockHandle(c, f)
  PROVE  GroupInv'
<1> USE DEF GroupInv, Callers
<1>1. /\ token' = token
      /\ UNCHANGED <<download, mapped, active_tasks, add, close>>
      /\ finish[c][f].at = "lock" /\ lock[f] = "free"
  BY DEF LockHandle, rvars
<1>2. add[f].result = "ok" /\ handle[f] # "none"
  BY <1>1, SMTT(30) DEF Added
<1>3. PICK r \in FinishSteps :
        /\ finish' = [finish EXCEPT ![c][f] = r]
        /\ \/ /\ handle[f] = "held" /\ r.at = "join" /\ r.result = "none"
              /\ lock' = [lock EXCEPT ![f] = c] /\ handle' = [handle EXCEPT ![f] = "taken"]
           \/ /\ r.at = "set" /\ r.result \in {"ok", "previous", "resolving"}
              /\ r.result = "ok" => handle[f] = "Success"
              /\ r.result = "resolving" => handle[f] = "taken"
              /\ UNCHANGED <<lock, handle>>
  <2> DEFINE rec(at, result) == [at |-> at, result |-> result]
  <2>1. CASE handle[f] = "held"
    <3>1. /\ finish' = [finish EXCEPT ![c][f] = rec("join", "none")]
          /\ lock' = [lock EXCEPT ![f] = c] /\ handle' = [handle EXCEPT ![f] = "taken"]
      BY <2>1 DEF LockHandle, FinishIs
    <3>2. rec("join", "none") \in FinishSteps
      BY DEF FinishSteps
    <3> QED
      BY <2>1, <3>1, <3>2, Zenon
  <2>2. CASE handle[f] # "held"
    <3>1. handle[f] \in {"taken", "Success", "Error"}
      BY <1>2, <2>2 DEF Types
    <3> DEFINE res == CASE handle[f] = "Success" -> "ok"
                        [] handle[f] = "Error" -> "previous"
                        [] handle[f] = "taken" -> "resolving"
    <3>2. finish' = [finish EXCEPT ![c][f] = rec("set", res)] /\ UNCHANGED <<lock, handle>>
      BY <2>2, ZenonT(40) DEF LockHandle, FinishIs
    <3>3. /\ res \in {"ok", "previous", "resolving"}
          /\ res = "ok" => handle[f] = "Success"
          /\ res = "resolving" => handle[f] = "taken"
      BY <3>1
    <3> HIDE DEF res
    <3>4. rec("set", res) \in FinishSteps
      BY <3>3 DEF FinishSteps
    <3> QED
      BY <3>2, <3>3, <3>4, Zenon
  <2> QED
    BY <2>1, <2>2, SMTT(30)
<1>4. Types'
  BY <1>1, <1>3 DEF Types
<1>5. Added'
  BY <1>1, <1>2, <1>3, SMTT(30) DEF Types, Added
<1>6. Locks'
  BY <1>1, <1>3, SMTT(30) DEF Types, Locks, Released
<1>7. Results'
  BY <1>1, <1>3, SMTT(30) DEF Types, Results
<1>8. Progress'
  BY <1>1, <1>3, SMTT(30) DEF Types, Progress, Awaited
<1> QED
  BY <1>4, <1>5, <1>6, <1>7, <1>8

LEMMA JoinTaskKeeps ==
  ASSUME GroupInv, NEW c \in Callers, NEW f \in Files, JoinTask(c, f)
  PROVE  GroupInv'
<1> USE DEF GroupInv, Callers
<1>1. /\ token' = token
      /\ UNCHANGED <<download, mapped, active_tasks, add, close>>
      /\ finish[c][f].at = "join" /\ lock[f] = c
      /\ lock' = [lock EXCEPT ![f] = "free"]
  BY ZenonT(40) DEF JoinTask, Unlock, rvars, Types, Locks
<1>2. add[f].result = "ok" /\ mapped[f] \notin {"none", "running"}
  BY <1>1 DEF Added, JoinTask
<1>3. handle' = [handle EXCEPT ![f] = IF mapped[f] = "ok" THEN "Success" ELSE "Error"]
  BY DEF JoinTask
<1>4. PICK r \in FinishSteps :
        finish' = [finish EXCEPT ![c][f] = r] /\ r.at = "set" /\ r.result = mapped[f]
  <2>1. finish' = [finish EXCEPT ![c][f] = [at |-> "set", result |-> mapped[f]]]
    BY DEF JoinTask, FinishIs
  <2>2. mapped[f] \in {"ok", "failed", "aborted", "cancelled"}
    BY <1>2 DEF Types, Ends
  <2>3. [at |-> "set", result |-> mapped[f]] \in FinishSteps
    BY <2>2 DEF FinishSteps
  <2> QED
    BY <2>1, <2>3, ZenonT(40)
<1>5. Types'
  BY <1>1, <1>3, <1>4, SMTT(30) DEF Types
<1>6. Added'
  BY <1>1, <1>2, <1>3, <1>4, SMTT(30) DEF Types, Added
<1>7. Locks'
  BY <1>1, <1>2, <1>3, <1>4, SMTT(30) DEF Types, Ends, Locks, Released
<1>8. Results'
  BY <1>1, <1>2, <1>3, <1>4, SMTT(30) DEF Types, Results
<1>9. Progress'
  BY <1>1, <1>4, SMTT(30) DEF Types, Progress, Awaited
<1> QED
  BY <1>5, <1>6, <1>7, <1>8, <1>9

LEMMA CancelFinishKeeps ==
  ASSUME GroupInv, NEW c \in Callers, NEW f \in Files, CancelFinish(c, f)
  PROVE  GroupInv'
<1> USE DEF GroupInv, CancelFinish, FinishIs, Unlock, rvars, Callers
<1>1. Types'
  BY SMTT(30) DEF Types, FinishSteps
<1>2. Added'
  BY SMTT(30) DEF Added
<1>3. Locks'
  BY SMTT(30) DEF Types, Locks, Released
<1>4. Results'
  BY SMTT(30) DEF Results
<1>5. Progress'
  BY DEF Progress, Awaited
<1> QED
  BY <1>1, <1>2, <1>3, <1>4, <1>5, SMTT(30)

LEMMA EndFinishKeeps ==
  ASSUME GroupInv, NEW c \in Callers, NEW f \in Files, EndFinish(c, f)
  PROVE  GroupInv'
<1> USE DEF GroupInv, EndFinish, FinishIs, set_state, Callers
<1>1. Types'
  BY SMTT(30) DEF Types, FinishSteps
<1>2. Added'
  BY SMTT(30) DEF Added
<1>3. Locks'
  BY SMTT(30) DEF Locks, Released
<1>4. Results'
  BY SMTT(30) DEF Results
<1>5. Progress'
  BY DEF Progress, Awaited
<1> QED
  BY <1>1, <1>2, <1>3, <1>4, <1>5, SMTT(30)

LEMMA DropFinishKeeps ==
  ASSUME GroupInv, NEW f \in Files, DropFinish(f)
  PROVE  GroupInv'
<1> USE DEF GroupInv, DropFinish, FinishIs, Unlock, rvars, Callers
<1>1. Types'
  BY SMTT(30) DEF Types, FinishSteps
<1>2. Added'
  BY SMTT(30) DEF Added
<1>3. Locks'
  BY SMTT(30) DEF Types, Locks, Released
<1>4. Results'
  BY SMTT(30) DEF Results
<1>5. Progress'
  BY DEF Progress, Awaited
<1> QED
  BY <1>1, <1>2, <1>3, <1>4, <1>5, SMTT(30)

LEMMA CloseTakes ==
  ASSUME NEW c \in CloseSteps
  PROVE  LET d == [c EXCEPT !.at = "take", !.before = {f \in Files : add[f].result = "ok"}]
         IN  /\ d \in CloseSteps /\ d.at = "take" /\ d.result = c.result
             /\ d.todo = c.todo /\ d.report = c.report
             /\ d.before = {f \in Files : add[f].result = "ok"}
BY ZenonT(40) DEF CloseSteps

LEMMA CloseRefuses ==
  ASSUME NEW c \in CloseSteps
  PROVE  LET d == [c EXCEPT !.at = "done", !.result = "refused"]
         IN  /\ d \in CloseSteps /\ d.at = "done" /\ d.result = "refused"
             /\ d.todo = c.todo /\ d.report = c.report
BY ZenonT(40) DEF CloseSteps

LEMMA BeginCloseKeeps ==
  ASSUME GroupInv, BeginClose
  PROVE  GroupInv'
<1> USE DEF GroupInv, Callers
<1>1. /\ token' = token
      /\ UNCHANGED <<download, mapped, handle, lock, active_tasks, add, finish>>
      /\ close.at = "idle"
  BY Zenon DEF BeginClose, transition_to_finalizing, rvars
<1>2. \/ close' = [close EXCEPT !.at = "take", !.before = {f \in Files : add[f].result = "ok"}]
      \/ close' = [close EXCEPT !.at = "done", !.result = "refused"]
  BY Zenon DEF BeginClose
<1>3. /\ close' \in CloseSteps
      /\ close'.todo = close.todo /\ close'.report = close.report
      /\ \/ /\ close'.at = "take" /\ close'.result = close.result
            /\ close'.before = {f \in Files : add[f].result = "ok"}
         \/ close'.at = "done" /\ close'.result = "refused"
  <2>1. close \in CloseSteps
    BY DEF Types
  <2> HIDE DEF GroupInv
  <2>2. CASE close' = [close EXCEPT !.at = "take", !.before = {f \in Files : add[f].result = "ok"}]
    BY <2>1, <2>2, CloseTakes, ZenonT(40)
  <2>3. CASE close' = [close EXCEPT !.at = "done", !.result = "refused"]
    BY <2>1, <2>3, CloseRefuses, ZenonT(40)
  <2> QED
    BY <1>2, <2>2, <2>3, ZenonT(40)
<1>4. Types' /\ Added' /\ Locks' /\ Results'
  BY <1>1, <1>3 DEF Types, Added, Locks, Released, Results
<1>5. Progress'
  BY <1>1, <1>3, Zenon DEF Progress, Awaited
<1> QED
  BY <1>4, <1>5, SMTT(30)

LEMMA TakeHandlesKeeps ==
  ASSUME GroupInv, TakeHandles
  PROVE  GroupInv'
<1> USE DEF GroupInv, TakeHandles, rvars, Callers
<1>1. Types'
  BY ZenonT(40) DEF Types, CloseSteps
<1>2. Added'
  BY DEF Added
<1>3. Locks'
  BY DEF Locks, Released
<1>4. Results'
  BY DEF Results
<1>5. Progress'
  BY DEF Progress, Awaited
<1> QED
  BY <1>1, <1>2, <1>3, <1>4, <1>5

LEMMA NoteResultKeeps ==
  ASSUME GroupInv, NEW f \in Files, NoteResult(f)
  PROVE  GroupInv'
<1> USE DEF GroupInv, Callers
<1> DEFINE r == finish["group"][f].result
<1>1. /\ token' = token
      /\ UNCHANGED <<download, mapped, handle, lock, active_tasks, add>>
      /\ close.at = "wait" /\ finish["group"][f].at = "done"
      /\ finish' = [finish EXCEPT !["group"][f].at = "noted"]
  BY DEF NoteResult, rvars
<1>2. add[f].result = "ok" /\ r # "none"
  BY <1>1, SMTT(30) DEF Added, Results
<1>3. finish["group"][f] \in FinishSteps
  BY SMTT(30) DEF Types
<1>4. r \in {"ok", "previous", "resolving", "failed", "aborted", "cancelled"}
  BY <1>2, <1>3, SMTT(30) DEF FinishSteps
<1>5. /\ close' \in CloseSteps
      /\ close'.at = "next" /\ close'.todo = close.todo /\ close'.before = close.before
      /\ \/ /\ r = "ok" /\ close'.report = close.report \cup {f} /\ close'.result = close.result
         \/ /\ r # "ok" /\ close'.report = close.report /\ close'.result # "none"
            /\ close'.result = "ok" => close.result = "ok"
  <2>1. close \in CloseSteps
    BY DEF Types
  <2>2. CASE r = "ok"
    BY <2>1, <2>2, Zenon DEF NoteResult, CloseSteps
  <2>3. CASE r # "ok"
    <3>1. close' = [close EXCEPT !.at = "next", !.result = IF close.result = "none" THEN r ELSE close.result]
      BY <2>3, SMTT(30) DEF NoteResult
    <3> QED
      BY <1>4, <2>1, <2>3, <3>1, ZenonT(40) DEF CloseSteps
  <2> QED
    BY <2>2, <2>3, SMTT(30)
<1>6. \A c \in Callers, g \in Files :
        /\ finish'[c][g] \in FinishSteps
        /\ finish'[c][g].result = finish[c][g].result
        /\ c = "group" /\ g = f => finish'[c][g].at = "noted"
        /\ ~(c = "group" /\ g = f) => finish'[c][g] = finish[c][g]
  BY <1>1, <1>3, SMTT(30) DEF Types, FinishSteps
<1>7. finish' \in [Callers -> [Files -> FinishSteps]]
  BY <1>1, <1>6, SMTT(30) DEF Types
<1>8. Types'
  BY <1>1, <1>5, <1>7, SMTT(30) DEF Types
<1>9. Added'
  BY <1>1, <1>2, <1>5, <1>6, SMTT(30) DEF Added
<1>10. Locks'
  BY <1>1, <1>6, SMTT(30) DEF Locks, Released
<1>11. Results'
  BY <1>1, <1>5, <1>6, SMTT(30) DEF Results
<1>12. Progress'
  <2>1. Awaited(f) /\ \A g \in Files : Awaited(g) => g = f
    BY <1>1, SMTT(30) DEF Progress, Awaited
  <2>2. \A g \in Files : ~Awaited(g)'
    BY <1>6, <2>1, SMTT(30) DEF Awaited
  <2>3. close'.result # "ok"
    BY <1>1, <1>5, SMTT(30) DEF Progress
  <2>4. close'.result = "none" => close'.before \subseteq close'.todo \cup close'.report
    <3>1. close.before \subseteq Files
      BY DEF Types, CloseSteps
    <3> QED
      BY <1>1, <1>5, <2>1, <3>1, SMTT(30) DEF Progress
  <2> QED
    BY <1>5, <2>2, <2>3, <2>4, SMTT(30) DEF Progress
<1> QED
  BY <1>8, <1>9, <1>10, <1>11, <1>12

LEMMA AllFinishedKeeps ==
  ASSUME GroupInv, AllFinished
  PROVE  GroupInv'
<1> USE DEF GroupInv, AllFinished, rvars, Callers
<1>1. Types'
  BY ZenonT(40) DEF Types, CloseSteps
<1>2. Added'
  BY DEF Added
<1>3. Locks'
  BY DEF Locks, Released
<1>4. Results'
  BY DEF Results
<1>5. Progress'
  BY DEF Progress, Awaited
<1> QED
  BY <1>1, <1>2, <1>3, <1>4, <1>5, SMTT(30)

LEMMA CancelCloseKeeps ==
  ASSUME GroupInv, CancelClose
  PROVE  GroupInv'
<1> USE DEF GroupInv, CancelClose, Abandon, rvars, Callers
<1>1. Types'
  BY ZenonT(40) DEF Types, Ends, AddSteps, FinishSteps, CloseSteps
<1>2. Added'
  BY DEF Added
<1>3. Locks'
  BY DEF Types, Locks, Released
<1>4. Results'
  BY DEF Results
<1>5. Progress'
  BY DEF Progress, Awaited
<1> QED
  BY <1>1, <1>2, <1>3, <1>4, <1>5

LEMMA DropCloseKeeps ==
  ASSUME GroupInv, DropClose
  PROVE  GroupInv'
<1> USE DEF GroupInv, DropClose, Abandon, rvars, Callers
<1>1. Types'
  BY ZenonT(40) DEF Types, Ends, AddSteps, FinishSteps, CloseSteps
<1>2. Added'
  BY DEF Added
<1>3. Locks'
  BY DEF Types, Locks, Released
<1>4. Results'
  BY DEF Results
<1>5. Progress'
  BY DEF Progress, Awaited
<1> QED
  BY <1>1, <1>2, <1>3, <1>4, <1>5

LEMMA EndCloseKeeps ==
  ASSUME GroupInv, EndClose
  PROVE  GroupInv'
<1> USE DEF GroupInv, EndClose, set_state, Callers
<1>1. Types'
  BY DEF Types, CloseSteps
<1>2. Added'
  BY DEF Added
<1>3. Locks'
  BY DEF Locks, Released
<1>4. Results'
  BY DEF Results
<1>5. Progress'
  BY DEF Progress, Awaited
<1> QED
  BY <1>1, <1>2, <1>3, <1>4, <1>5

-----------------------------------------------------------------------------
\* A step that leaves the calls alone and only sets tokens.
LEMMA TokensGrow ==
  ASSUME GroupInv, token' \in [Nodes -> BOOLEAN], \A n \in Nodes : token[n] => token'[n],
         UNCHANGED <<download, mapped, handle, lock, active_tasks, add, finish, close>>
  PROVE  GroupInv'
<1>1. Types' /\ Added' /\ Results'
  BY SMTT(30) DEF GroupInv, Types, Added, Results
<1>2. \A f \in Files : Released(f) => Released(f)'
  BY GroupAssumption, ZenonT(40) DEF Released
<1>3. Locks'
  BY <1>2 DEF GroupInv, Locks
<1>4. Progress'
  BY DEF GroupInv, Progress, Awaited
<1> QED
  BY <1>1, <1>3, <1>4, SMTT(30) DEF GroupInv

LEMMA CancellingKeeps ==
  ASSUME GroupInv,
         (\E n \in Targets : Cancel(n)) \/ Cancelling
  PROVE  GroupInv'
<1> USE GroupAssumption
<1>1. token \in [Nodes -> BOOLEAN]
  BY DEF GroupInv, Types
<1>2. UNCHANGED <<download, mapped, handle, lock, active_tasks, add, finish, close>>
  BY DEF Cancel, Cancelling, Walk, LookAtHandles, CancelHandle, gvars
<1>3. token' \in [Nodes -> BOOLEAN] /\ \A n \in Nodes : token[n] => token'[n]
  <2>1. CASE \E n \in Targets : Cancel(n)
    BY <1>1, <2>1, SMTT(30) DEF Cancel, CancelTokens
  <2>2. CASE \E n \in Nodes : Walk(n)
    BY <1>1, <2>2, ZenonT(40) DEF Walk, MarkCancelled, Descend
  <2>3. CASE LookAtHandles
    BY <1>1, <2>3, SMTT(30) DEF LookAtHandles
  <2>4. CASE \E f \in Files : CancelHandle(f)
    BY <1>1, <2>4, SMTT(30) DEF CancelHandle
  <2> QED
    BY <2>1, <2>2, <2>3, <2>4, SMTT(30) DEF Cancelling
<1> QED
  BY <1>2, <1>3, TokensGrow

LEMMA GroupInvStep ==
  ASSUME GroupInv, [Next]_vars
  PROVE  GroupInv'
<1>1. CASE Next
  <2>1. ASSUME NEW f \in Files,
               Adding(f) \/ RefuseDownload(f) \/ EndDownload(f) \/ MapResult(f) \/ DropFinish(f)
        PROVE  GroupInv'
    BY <2>1, AddKeeps, StartDownloadKeeps, InsertHandleKeeps, EndDownloadKeeps, MapResultKeeps,
       DropFinishKeeps, SMTT(30) DEF Adding
  <2>2. ASSUME NEW c \in Callers, NEW f \in Files, BeginFinish(c, f) \/ Finishing(c, f)
        PROVE  GroupInv'
    BY <2>2, BeginFinishKeeps, LockHandleKeeps, JoinTaskKeeps, CancelFinishKeeps, EndFinishKeeps, SMTT(30)
       DEF Finishing
  <2>3. CASE BeginClose \/ Closing \/ DropClose
    BY <2>3, BeginCloseKeeps, TakeHandlesKeeps, NoteResultKeeps, AllFinishedKeeps,
       CancelCloseKeeps, EndCloseKeeps, DropCloseKeeps, SMTT(30) DEF Closing
  <2>4. CASE (\E n \in Targets : Cancel(n)) \/ Cancelling
    BY <2>4, CancellingKeeps, SMTT(30)
  <2> QED
    BY <1>1, <2>1, <2>2, <2>3, <2>4, SMTT(30) DEF Next
<1>2. CASE UNCHANGED vars
  BY <1>2, TokensGrow, SMTT(30) DEF vars, GroupInv, Types
<1> QED
  BY <1>1, <1>2, SMTT(30)

\* A report of finish names every download that was added before the call, and
\* each of them has succeeded: for any number of files, callers that drop their
\* futures, and cancellations of files, group and session.
THEOREM ReportsAreComplete == Safety => []ReportIsComplete
<1>1. GroupInv => ReportIsComplete
  BY SMTT(30) DEF GroupInv, Progress, Results, ReportIsComplete, Types, CloseSteps
<1> QED
  BY <1>1, GroupInvInit, GroupInvStep, PTL DEF Safety

\* A call that finishes a handle finds the task already taken only when the file
\* was cancelled or another call was dropped while it awaited the task.
THEOREM FinishesAreShared == Safety => []FinishIsShared
<1>1. GroupInv => FinishIsShared
  BY DEF GroupInv, Locks, Released, FinishIsShared
<1> QED
  BY <1>1, GroupInvInit, GroupInvStep, PTL DEF Safety

=============================================================================
