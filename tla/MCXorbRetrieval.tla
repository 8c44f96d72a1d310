-------------------------- MODULE MCXorbRetrieval --------------------------
(***************************************************************************)
(* A cache with room for either of two items, not for both. In one case    *)
(* two tasks share the block they need; in the other each has its own,     *)
(* as when two files are downloaded at once. A third task needs a part of  *)
(* the same range.                                                         *)
(***************************************************************************)
EXTENDS XorbRetrieval

MCWhole == [key |-> "x", start |-> 0, end |-> 2]
MCPart == [key |-> "x", start |-> 1, end |-> 2]
MCItems == {MCWhole, MCPart}
MCUsers == {"u1", "u2", "u3"}
MCWant == [u1 |-> MCWhole, u2 |-> MCWhole, u3 |-> MCPart]
MCCase(blocks, tries, expiries, crashes) ==
  [want |-> MCWant, block |-> blocks, attempts |-> tries, expiries |-> expiries, restarts |-> crashes]
MCShared == [u1 |-> "a", u2 |-> "a", u3 |-> "b"]
MCSeparate == [u1 |-> "a", u2 |-> "c", u3 |-> "b"]
MCCases == {MCCase(MCShared, 2, 1, 0), MCCase(MCSeparate, 1, 0, 1)}
MCBlocks == {"a", "b", "c"}
=============================================================================
