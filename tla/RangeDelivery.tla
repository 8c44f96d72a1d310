--------------------------- MODULE RangeDelivery ---------------------------
(***************************************************************************)
(* What a download promises its receiver: bytes of the requested range,    *)
(* each at most once and in order if the receiver asked for that, and an   *)
(* end that is announced when all of them have arrived. Only a download    *)
(* that was interrupted may stop before.                                   *)
(***************************************************************************)
EXTENDS Integers, FiniteSets

VARIABLES
  wanted,        \* the positions of the range that the file has
  ordered,       \* whether they are to arrive in order
  received,      \* the positions that have arrived
  interrupted,   \* whether the download failed or was cancelled
  end            \* "open", "complete" or "stopped"

dvars == <<wanted, ordered, received, interrupted, end>>

DInit == received = {} /\ ~interrupted /\ end = "open"

\* Bytes may still arrive after a download was stopped, but not after its end.
Deliver ==
  /\ end # "complete"
  /\ received \subseteq received' /\ received' \subseteq wanted
  /\ ordered => \A p \in received', q \in wanted \ received' : p < q
  /\ UNCHANGED <<wanted, ordered, interrupted, end>>

Interrupt ==
  /\ interrupted' = TRUE
  /\ UNCHANGED <<wanted, ordered, received, end>>

Complete ==
  /\ end = "open" /\ received = wanted
  /\ end' = "complete"
  /\ UNCHANGED <<wanted, ordered, received, interrupted>>

Stop ==
  /\ end = "open" /\ interrupted'
  /\ end' = "stopped"
  /\ UNCHANGED <<wanted, ordered, received>>

DNext == Deliver \/ Interrupt \/ Complete \/ Stop
DSpec == DInit /\ [][DNext]_dvars
=============================================================================
