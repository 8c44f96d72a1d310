------------------------- MODULE MCCompletionTracker -------------------------
(***************************************************************************)
(* Small instance of CompletionTracker: two files share a xorb that is     *)
(* sent compressed, one also refers to a xorb of another session and to    *)
(* the empty one.                                                          *)
(***************************************************************************)
EXTENDS CompletionTracker

CONSTANTS f1, f2, x0, x1

MCFiles == {f1, f2}
MCSized == {f1}
MCXorbs == {x0, x1}
MCRawSize == [x \in MCXorbs |-> IF x = x0 THEN 0 ELSE 5]
MCWireSize == [x \in MCXorbs |-> IF x = x0 THEN 1 ELSE 2]

Dep(f, x, n, external, id) == [file |-> f, xorb |-> x, bytes |-> n, external |-> external, id |-> id]

MCDependencies ==
  {Dep(f1, x1, 3, FALSE, 1), Dep(f2, x1, 7, FALSE, 2), Dep(f2, x1, 2, FALSE, 3),
   Dep(f1, x1, 2, TRUE, 4), Dep(f2, x0, 0, FALSE, 5)}
=============================================================================
