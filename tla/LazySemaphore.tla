--------------------------- MODULE LazySemaphore ---------------------------
(***************************************************************************)
(* What an AdjustableSemaphore promises its users, each operation in one   *)
(* step: the number of permits can be raised at once, and lowered at any   *)
(* time without touching the permits in use, the excess being a debt that  *)
(* returned permits pay off.                                               *)
(***************************************************************************)
EXTENDS Integers

CONSTANTS
  Least, Most,  \* the bounds of the total
  Start         \* its first value

VARIABLES
  total,  \* the number of permits asked for
  debt,   \* permits above total that are not destroyed yet
  out     \* permits that are in use

lvars == <<total, debt, out>>

LInit == total = Start /\ debt = 0 /\ out = 0

\* A user gets permits, out of those that exist and are not in use.
Take ==
  /\ out < out' /\ out' <= total + debt
  /\ UNCHANGED <<total, debt>>

\* A user gives permits back.
Give ==
  /\ out' < out
  /\ UNCHANGED <<total, debt>>

\* A user gives permits back, and all of them pay off debt.
Pay ==
  /\ out' < out
  /\ debt' = debt - (out - out') /\ debt' >= 0
  /\ UNCHANGED total

\* The total grows. The new permits pay off debt as far as there is any, so
\* that total + debt stays within the maximum; the others go to the caller.
Grow ==
  LET n == total' - total
      paid == IF debt < n THEN debt ELSE n
  IN  /\ n > 0 /\ total' <= Most
      /\ debt' = debt - paid
      /\ out' = out + (n - paid)

\* The total shrinks, and the permits that are too many are a debt.
Shrink ==
  /\ Least <= total' /\ total' < total
  /\ debt' = debt + (total - total')
  /\ UNCHANGED out

\* Permits that are not in use pay off debt.
Destroy ==
  /\ 0 <= debt' /\ debt' < debt
  /\ out <= total + debt'
  /\ UNCHANGED <<total, out>>

LNext == Take \/ Give \/ Pay \/ Grow \/ Shrink \/ Destroy

LSpec == LInit /\ [][LNext]_lvars
=============================================================================
