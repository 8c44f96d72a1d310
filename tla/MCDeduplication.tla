--------------------------- MODULE MCDeduplication ---------------------------
(***************************************************************************)
(* Small instance of Deduplication: a file that outgrows a xorb beside a   *)
(* short one, two chunks of different sizes.                               *)
(***************************************************************************)
EXTENDS Deduplication

CONSTANTS f1, f2, c1, c2

MCFiles == {f1, f2}
MCChunks == {c1, c2}
MCSize == [c \in MCChunks |-> IF c = c1 THEN 1 ELSE 2]
MCRemote == {<<c2, c1>>}
MCGlobalEligible == {c2}
MCMaxFileChunks == [f \in MCFiles |-> IF f = f1 THEN 5 ELSE 1]
=============================================================================
