---------------------------- MODULE TaskRuntime ----------------------------
(***************************************************************************)
(* The tree of TaskRuntimes of a session: every node has a cancellation    *)
(* token, linked to that of its parent, and a state under a mutex of its   *)
(* own. Cancelling is a walk over the tree that other threads interleave   *)
(* with; so is the creation of a child. A module that composes the         *)
(* operations gives the threads their control.                             *)
(***************************************************************************)
EXTENDS Naturals, Sequences, SequencesExt, FiniteSets

CONSTANTS
  Nodes,
  Parent       \* the parent of each node; the session is its own

ASSUME TreeAssumption == Parent \in [Nodes -> Nodes]

VARIABLES
  token,       \* per node: whether its cancellation_token is cancelled
  status,      \* per node: state, "none" before the node exists
  children,    \* per node: the children that are registered with it
  walk         \* per node: the cancel_subtree that started there

rvars == <<token, status, children, walk>>

\* The nodes whose token follows the token of n: session, group and file are
\* three levels.
Above(n) == {n, Parent[n], Parent[Parent[n]]}
Subtree(n) == {m \in Nodes : n \in Above(m) /\ status[m] # "none"}

RuntimeInit(existing) ==
  /\ token = [n \in Nodes |-> FALSE]
  /\ status = [n \in Nodes |-> IF n \in existing THEN "Running" ELSE "none"]
  /\ children = [n \in Nodes |-> {m \in existing : m # n /\ Parent[m] = n}]
  /\ walk = [n \in Nodes |-> [at |-> "idle", todo |-> <<>>]]

-----------------------------------------------------------------------------
\* Mutant: the child has a token of its own.
ChildUnlinked(n) ==
  /\ token' = token
  /\ status' = [status EXCEPT ![n] = status[Parent[n]]]
  /\ UNCHANGED <<children, walk>>

\* child: the new node has a child of the parent's token and copies the parent's
\* state, whichever that is by now ...
child(n) ==
  /\ token' = [token EXCEPT ![n] = token[Parent[n]]]
  /\ status' = [status EXCEPT ![n] = status[Parent[n]]]
  /\ UNCHANGED <<children, walk>>

\* ... and is registered later, under another mutex.
RegisterChild(n) ==
  /\ children' = [children EXCEPT ![Parent[n]] = @ \cup {n}]
  /\ UNCHANGED <<token, status, walk>>

set_state(n, s) ==
  /\ status' = [status EXCEPT ![n] = s]
  /\ UNCHANGED <<token, children, walk>>

\* check_state lets an operation start, and refuses it otherwise.
check_state(n) == status[n] = "Running"

\* transition_to_finalizing, which a task may repeat and a group may not.
CanFinalize(n, allow_repeat) ==
  status[n] \in {"Running"} \cup (IF allow_repeat THEN {"Finalizing", "Completed"} ELSE {})

transition_to_finalizing(n, allow_repeat) ==
  /\ CanFinalize(n, allow_repeat)
  /\ status' = [status EXCEPT ![n] = IF @ = "Running" THEN "Finalizing" ELSE @]
  /\ UNCHANGED <<token, children, walk>>

\* The state that bridge_async and bridge_async_finalizing leave for a result.
\* They set it whatever the state is by then.
StateOf(result) ==
  CASE result = "ok" -> "Completed"
    [] result = "cancelled" -> "UserCancelled"
    [] OTHER -> "Error"

-----------------------------------------------------------------------------
\* cancel_subtree: the tokens first, all of them in one step ...
CancelTokens(n) ==
  /\ walk[n].at = "idle"
  /\ token' = [m \in Nodes |-> token[m] \/ m \in Subtree(n)]
  /\ walk' = [walk EXCEPT ![n] = [at |-> "mark", todo |-> <<n>>]]
  /\ UNCHANGED <<status, children>>

\* ... then set_state_recursive: the state of a node is set, and the children
\* that are registered when it looks for them are visited.
MarkCancelled(n) ==
  /\ walk[n].at = "mark" /\ walk[n].todo # <<>>
  /\ status' = [status EXCEPT ![Head(walk[n].todo)] = "UserCancelled"]
  /\ walk' = [walk EXCEPT ![n].at = "descend"]
  /\ UNCHANGED <<token, children>>

Descend(n) ==
  /\ walk[n].at = "descend"
  /\ LET node == Head(walk[n].todo)
     IN  walk' = [walk EXCEPT ![n] = [at |-> "mark",
                                      todo |-> SetToSeq(children[node]) \o Tail(@.todo)]]
  /\ UNCHANGED <<token, status, children>>

Marked(n) == walk[n].at = "mark" /\ walk[n].todo = <<>>
=============================================================================
