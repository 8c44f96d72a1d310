--------------------------- MODULE DownloadGroup ---------------------------
(***************************************************************************)
(* A download group of a session that runs on the tokio runtime of its     *)
(* caller. Calls of several threads interleave: downloads are added, the   *)
(* handle of a file is finished by its user and by the group, the group is *)
(* finished, and files, group or session are cancelled. The future of a    *)
(* call may be dropped by its caller wherever it awaits.                   *)
(***************************************************************************)
EXTENDS TaskRuntime

CONSTANTS
  Files,
  Offered,     \* files that are added, and whose handle a user finishes as well
  StartSets,   \* files that have been added already: the sets to start from
  Targets,     \* nodes that are cancelled
  MaxCancels   \* bound: calls of abort and cancel

ASSUME GroupAssumption ==
  /\ Nodes = {"session", "group"} \cup Files
  /\ Parent = [n \in Nodes |-> IF n \in Files THEN "group" ELSE "session"]
  /\ Offered \subseteq Files /\ StartSets \subseteq SUBSET Files
  /\ Targets \subseteq Nodes
  /\ MaxCancels \in Nat

VARIABLES
  download,      \* per file: the task of the download session
  mapped,        \* per file: the task that waits for it, and its result
  handle,        \* per file: BackgroundTaskState; "held" and "taken" are Running
  lock,          \* per file: who holds the mutex of the handle
  active_tasks,  \* the handles of the group
  add,           \* per file: download_file_to_path
  finish,        \* per caller and file: finish of the handle
  close,         \* finish of the group: where it is, and what it has to do
  left           \* handles that abort of the group has still to cancel

gvars == <<download, mapped, handle, lock, active_tasks, add, finish, close, left>>
vars == <<token, status, children, walk, download, mapped, handle, lock, active_tasks, add,
          finish, close, left>>

\* A handle is finished by its user and by the group.
Callers == {"user", "group"}
Idle == [at |-> "idle", result |-> "none"]

\* The group when the downloads of started have been added.
InitWith(started) ==
  LET IfStarted(a, b) == [f \in Files |-> IF f \in started THEN a ELSE b]
  IN  /\ RuntimeInit({"session", "group"} \cup started)
      /\ download = IfStarted("running", "none")
      /\ mapped = IfStarted("running", "none")
      /\ handle = IfStarted("held", "none")
      /\ lock = [f \in Files |-> "free"]
      /\ active_tasks = started
      /\ add = IfStarted([at |-> "earlier", result |-> "ok"], Idle)
      /\ finish = [c \in Callers |-> [f \in Files |-> Idle]]
      /\ close = [at |-> "idle", result |-> "none", todo |-> {}, report |-> {}, before |-> {}]
      /\ left = {}

Init == \E started \in StartSets : InitWith(started)

-----------------------------------------------------------------------------
(***************************************************************************)
(* download_file_to_path, in the bridge_async of the group.                *)
(***************************************************************************)
AddIs(f, at, result) == add' = [add EXCEPT ![f] = [at |-> at, result |-> result]]

CheckAdd(f) ==
  /\ f \in Offered /\ add[f].at = "idle"
  /\ IF check_state("group") THEN AddIs(f, "start", "none") ELSE AddIs(f, "done", "refused")
  /\ UNCHANGED rvars
  /\ UNCHANGED <<download, mapped, handle, lock, active_tasks, finish, close, left>>

\* The download is spawned, and its node created. Nothing is awaited from here on.
StartDownload(f) ==
  /\ add[f].at = "start"
  /\ AddIs(f, "register", "none")
  /\ download' = [download EXCEPT ![f] = "running"]
  /\ child(f)
  /\ UNCHANGED <<mapped, handle, lock, active_tasks, finish, close, left>>

\* The path or the session does not allow the download, or the token was
\* cancelled first.
RefuseDownload(f) ==
  /\ add[f].at = "start"
  /\ \/ AddIs(f, "set", "failed")
     \/ token["group"] /\ AddIs(f, "set", "cancelled")
  /\ UNCHANGED rvars
  /\ UNCHANGED <<download, mapped, handle, lock, active_tasks, finish, close, left>>

RegisterDownload(f) ==
  /\ add[f].at = "register"
  /\ AddIs(f, "insert", "none")
  /\ RegisterChild(f)
  /\ UNCHANGED <<download, mapped, handle, lock, active_tasks, finish, close, left>>

InsertHandle(f) ==
  /\ add[f].at = "insert"
  /\ left = {}
  /\ AddIs(f, "done", "ok")
  /\ mapped' = [mapped EXCEPT ![f] = "running"]
  /\ handle' = [handle EXCEPT ![f] = "held"]
  /\ active_tasks' = active_tasks \cup {f}
  /\ UNCHANGED rvars
  /\ UNCHANGED <<download, lock, finish, close, left>>

\* update_state_on_error: the error becomes the state of the group.
FailAdd(f) ==
  /\ add[f].at = "set"
  /\ AddIs(f, "done", add[f].result)
  /\ set_state("group", StateOf(add[f].result))
  /\ UNCHANGED <<download, mapped, handle, lock, active_tasks, finish, close, left>>

-----------------------------------------------------------------------------
(***************************************************************************)
(* The tasks in the background.                                            *)
(***************************************************************************)
EndDownload(f) ==
  /\ download[f] = "running"
  /\ \E end \in {"ok", "failed"} : download' = [download EXCEPT ![f] = end]
  /\ UNCHANGED rvars
  /\ UNCHANGED <<mapped, handle, lock, active_tasks, add, finish, close, left>>

\* The mapped task selects on the token and on the download. Either may win when
\* both are ready.
MapResult(f) ==
  /\ mapped[f] = "running"
  /\ \/ /\ token[f]
        /\ download' = [download EXCEPT ![f] = IF @ = "running" THEN "aborted" ELSE @]
        /\ mapped' = [mapped EXCEPT ![f] = "cancelled"]
     \/ /\ download[f] # "running"
        /\ mapped' = [mapped EXCEPT ![f] = download[f]]
        /\ UNCHANGED download
  /\ UNCHANGED rvars
  /\ UNCHANGED <<handle, lock, active_tasks, add, finish, close, left>>

-----------------------------------------------------------------------------
(***************************************************************************)
(* finish of a handle, in the bridge_async_finalizing of the file.         *)
(***************************************************************************)
FinishIs(c, f, at, result) == finish' = [finish EXCEPT ![c][f] = [at |-> at, result |-> result]]

\* The user has the handle once the download is added; the group finishes the
\* handles of its list one after the other.
MayFinish(c, f) ==
  \/ c = "user" /\ add[f] = [at |-> "done", result |-> "ok"]
  \/ c = "group" /\ close.at = "next" /\ f \in close.todo

BeginFinish(c, f) ==
  /\ finish[c][f].at = "idle" /\ MayFinish(c, f)
  /\ close' = IF c = "group" THEN [close EXCEPT !.at = "wait", !.todo = @ \ {f}] ELSE close
  /\ \/ transition_to_finalizing(f, TRUE) /\ FinishIs(c, f, "lock", "none")
     \/ /\ ~CanFinalize(f, TRUE)
        /\ FinishIs(c, f, "done", IF status[f] = "UserCancelled" THEN "cancelled" ELSE "previous")
        /\ UNCHANGED rvars
  /\ UNCHANGED <<download, mapped, handle, lock, active_tasks, add, left>>

\* Mutant: the mutex is released before the task is awaited.
TakeAndUnlock(c, f) ==
  /\ finish[c][f].at = "lock" /\ lock[f] = "free"
  /\ IF handle[f] = "held"
     THEN /\ handle' = [handle EXCEPT ![f] = "taken"]
          /\ FinishIs(c, f, "join", "none")
     ELSE /\ FinishIs(c, f, "set", CASE handle[f] = "Success" -> "ok"
                                     [] handle[f] = "Error" -> "previous"
                                     [] handle[f] = "taken" -> "resolving")
          /\ UNCHANGED handle
  /\ UNCHANGED rvars
  /\ UNCHANGED <<download, mapped, lock, active_tasks, add, close, left>>

\* The mutex of the handle is locked, and stays so while the task is awaited.
LockHandle(c, f) ==
  /\ finish[c][f].at = "lock" /\ lock[f] = "free"
  /\ IF handle[f] = "held"
     THEN /\ lock' = [lock EXCEPT ![f] = c]
          /\ handle' = [handle EXCEPT ![f] = "taken"]
          /\ FinishIs(c, f, "join", "none")
     ELSE /\ FinishIs(c, f, "set", CASE handle[f] = "Success" -> "ok"
                                     [] handle[f] = "Error" -> "previous"
                                     [] handle[f] = "taken" -> "resolving")
          /\ UNCHANGED <<lock, handle>>
  /\ UNCHANGED rvars
  /\ UNCHANGED <<download, mapped, active_tasks, add, close, left>>

Unlock(c, f) == lock' = [lock EXCEPT ![f] = IF @ = c THEN "free" ELSE @]

JoinTask(c, f) ==
  /\ finish[c][f].at = "join" /\ mapped[f] # "running"
  /\ handle' = [handle EXCEPT ![f] = IF mapped[f] = "ok" THEN "Success" ELSE "Error"]
  /\ FinishIs(c, f, "set", mapped[f])
  /\ Unlock(c, f)
  /\ UNCHANGED rvars
  /\ UNCHANGED <<download, mapped, active_tasks, add, close, left>>

\* The token wins the select: the future is dropped where it is.
CancelFinish(c, f) ==
  /\ finish[c][f].at \in {"lock", "join"} /\ token[f]
  /\ FinishIs(c, f, "set", "cancelled")
  /\ Unlock(c, f)
  /\ UNCHANGED rvars
  /\ UNCHANGED <<download, mapped, handle, active_tasks, add, close, left>>

EndFinish(c, f) ==
  /\ finish[c][f].at = "set"
  /\ set_state(f, StateOf(finish[c][f].result))
  /\ FinishIs(c, f, "done", finish[c][f].result)
  /\ UNCHANGED <<download, mapped, handle, lock, active_tasks, add, close, left>>

\* The user drops the future of the call.
DropFinish(f) ==
  /\ finish["user"][f].at \in {"lock", "join"}
  /\ FinishIs("user", f, "dropped", "none")
  /\ Unlock("user", f)
  /\ UNCHANGED rvars
  /\ UNCHANGED <<download, mapped, handle, active_tasks, add, close, left>>

-----------------------------------------------------------------------------
(***************************************************************************)
(* finish of the group, in the bridge_async_finalizing of the group.       *)
(***************************************************************************)
BeginClose ==
  /\ close.at = "idle"
  /\ \/ /\ transition_to_finalizing("group", FALSE)
        /\ close' = [close EXCEPT !.at = "take", !.before = {f \in Files : add[f].result = "ok"}]
     \/ /\ ~CanFinalize("group", FALSE)
        /\ close' = [close EXCEPT !.at = "done", !.result = "refused"]
        /\ UNCHANGED rvars
  /\ UNCHANGED <<download, mapped, handle, lock, active_tasks, add, finish, left>>

\* handle_finish takes the handles, under the lock that InsertHandle needs ...
TakeHandles ==
  /\ close.at = "take" /\ left = {}
  /\ close' = [close EXCEPT !.at = "next", !.todo = active_tasks]
  /\ active_tasks' = {}
  /\ UNCHANGED rvars
  /\ UNCHANGED <<download, mapped, handle, lock, add, finish, left>>

\* Mutant: errors are logged only.
NoteSuccess(f) ==
  /\ close.at = "wait" /\ finish["group"][f].at = "done" /\ f \notin close.report
  /\ close' = IF finish["group"][f].result = "ok"
              THEN [close EXCEPT !.at = "next", !.report = @ \cup {f}]
              ELSE [close EXCEPT !.at = "next"]
  /\ finish' = [finish EXCEPT !["group"][f].at = "noted"]
  /\ UNCHANGED rvars
  /\ UNCHANGED <<download, mapped, handle, lock, active_tasks, add, left>>

\* ... and finishes them one by one. It goes on after an error and keeps the
\* first one.
NoteResult(f) ==
  LET result == finish["group"][f].result
  IN  /\ close.at = "wait" /\ finish["group"][f].at = "done" /\ f \notin close.report
      /\ close' = IF result = "ok"
                  THEN [close EXCEPT !.at = "next", !.report = @ \cup {f}]
                  ELSE [close EXCEPT !.at = "next", !.result = IF @ = "none" THEN result ELSE @]
      /\ finish' = [finish EXCEPT !["group"][f].at = "noted"]
      /\ UNCHANGED rvars
      /\ UNCHANGED <<download, mapped, handle, lock, active_tasks, add, left>>

AllFinished ==
  /\ close.at = "next" /\ close.todo = {}
  /\ close' = [close EXCEPT !.at = "set", !.result = IF @ = "none" THEN "ok" ELSE @]
  /\ UNCHANGED rvars
  /\ UNCHANGED <<download, mapped, handle, lock, active_tasks, add, finish, left>>

\* The future of handle_finish goes, and with it that of the handle it awaits.
Abandon ==
  /\ finish' = [finish EXCEPT !["group"] =
                  [f \in Files |-> IF @[f].at \in {"lock", "join", "set"}
                                   THEN [at |-> "dropped", result |-> "none"] ELSE @[f]]]
  /\ lock' = [f \in Files |-> IF lock[f] = "group" THEN "free" ELSE lock[f]]
  /\ UNCHANGED rvars
  /\ UNCHANGED <<download, mapped, handle, active_tasks, add, left>>

CancelClose ==
  /\ close.at \in {"take", "next", "wait"} /\ token["group"]
  /\ close' = [close EXCEPT !.at = "set", !.result = "cancelled"]
  /\ Abandon

DropClose ==
  /\ close.at \in {"take", "next", "wait"}
  /\ close' = [close EXCEPT !.at = "dropped", !.result = "dropped"]
  /\ Abandon

EndClose ==
  /\ close.at = "set"
  /\ set_state("group", StateOf(close.result))
  /\ close' = [close EXCEPT !.at = "done"]
  /\ UNCHANGED <<download, mapped, handle, lock, active_tasks, add, finish, left>>

-----------------------------------------------------------------------------
(***************************************************************************)
(* cancel of a file, abort of the group and abort of the session.          *)
(***************************************************************************)
Cancelled == {n \in Nodes : walk[n].at # "idle"}

Cancel(n) ==
  /\ Cardinality(Cancelled) < MaxCancels
  /\ n \in Files => add[n].result = "ok"
  /\ CancelTokens(n)
  /\ UNCHANGED gvars

Walk(n) == (MarkCancelled(n) \/ Descend(n)) /\ UNCHANGED gvars

\* abort of the group also cancels the handles it has by then, and keeps its
\* list locked until it is through.
LookAtHandles ==
  /\ Marked("group")
  /\ left' = active_tasks
  /\ walk' = [walk EXCEPT !["group"].at = "handles"]
  /\ UNCHANGED <<token, status, children>>
  /\ UNCHANGED <<download, mapped, handle, lock, active_tasks, add, finish, close>>

CancelHandle(f) ==
  /\ f \in left
  /\ left' = left \ {f}
  /\ token' = [token EXCEPT ![f] = TRUE]
  /\ status' = [status EXCEPT ![f] = "UserCancelled"]
  /\ UNCHANGED <<children, walk>>
  /\ UNCHANGED <<download, mapped, handle, lock, active_tasks, add, finish, close>>

-----------------------------------------------------------------------------
Adding(f) == CheckAdd(f) \/ StartDownload(f) \/ RegisterDownload(f) \/ InsertHandle(f) \/ FailAdd(f)
Finishing(c, f) ==
  LockHandle(c, f) \/ JoinTask(c, f) \/ CancelFinish(c, f) \/ EndFinish(c, f)
Closing == TakeHandles \/ (\E f \in Files : NoteResult(f)) \/ AllFinished \/ CancelClose \/ EndClose
Cancelling == (\E n \in Nodes : Walk(n)) \/ LookAtHandles \/ (\E f \in Files : CancelHandle(f))

Next ==
  \/ \E f \in Files : Adding(f) \/ RefuseDownload(f) \/ EndDownload(f) \/ MapResult(f) \/ DropFinish(f)
  \/ \E c \in Callers, f \in Files : BeginFinish(c, f) \/ Finishing(c, f)
  \/ BeginClose \/ Closing \/ DropClose
  \/ \E n \in Targets : Cancel(n)
  \/ Cancelling

\* Tasks that are ready are polled. Nothing is assumed of downloads, which may
\* hang, nor of callers.
Fairness ==
  /\ \A f \in Files : WF_vars(Adding(f) \/ RefuseDownload(f)) /\ WF_vars(MapResult(f))
  /\ \A c \in Callers, f \in Files : WF_vars(Finishing(c, f))
  /\ \A f \in Files : WF_vars(BeginFinish("group", f))
  /\ WF_vars(Closing)
  /\ WF_vars(Cancelling)

Spec == Init /\ [][Next]_vars /\ Fairness

-----------------------------------------------------------------------------
\* A report of the group names every download that was added before finish was
\* called, and all of them have succeeded, however the calls on the handles, the
\* cancellations and the results interleave.
ReportIsComplete ==
  close.at = "done" /\ close.result = "ok" =>
    close.before \subseteq close.report /\ \A f \in close.report : download[f] = "ok"

\* Two calls that finish the same handle at the same time both get the result:
\* only a cancelled file, or a call that was dropped before, leaves a handle that
\* nobody can finish.
FinishIsShared ==
  \A c \in Callers, f \in Files :
    finish[c][f].result = "resolving" =>
      token[f] \/ \E d \in Callers : finish[d][f].at = "dropped"

\* After a cancellation every call in the subtree returns and no download is left
\* running, also one whose node was not yet registered with the group when the
\* walk passed, and also when downloads hang.
Stopped(f) ==
  /\ download[f] # "running"
  /\ add[f].at \in {"idle", "done", "earlier"}
  /\ \A c \in Callers : finish[c][f].at \in {"idle", "done", "noted", "dropped"}
CancellationStops ==
  \A n \in Targets :
    walk[n].at # "idle" ~>
      [](/\ \A f \in Files : n \in Above(f) => Stopped(f)
         /\ n = "group" => close.at \in {"idle", "done", "dropped"})
=============================================================================
