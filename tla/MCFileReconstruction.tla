------------------------ MODULE MCFileReconstruction ------------------------
(***************************************************************************)
(* A file of seven bytes. The open range takes a third block, which may    *)
(* end with the file or behind it, after the two that are prefetched at    *)
(* first; the part has a border of terms within a block; the short range   *)
(* is extended to one block.                                               *)
(***************************************************************************)
EXTENDS FileReconstruction

MCOpen == [start |-> 0, end |-> 10]
MCPart == [start |-> 2, end |-> 7]
MCShort == [start |-> 3, end |-> 6]
MCRequests == {MCOpen, MCPart, MCShort}
MCCases == ({"plain", "vectored", "stream", "unordered"} \X {MCOpen, MCPart}) \cup {<<"stream", MCShort>>}
MCStreams == {<<"stream", MCOpen>>, <<"unordered", MCOpen>>}
=============================================================================
