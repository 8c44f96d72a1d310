--------------------------- MODULE MCUploadSession ---------------------------
(***************************************************************************)
(* Small instance of UploadSession: a spawned file and a stream, two xorbs *)
(* either of them may cut.                                                 *)
(***************************************************************************)
EXTENDS UploadSession

CONSTANTS f1, f2, x1, x2

MCFiles == {f1, f2}
MCStreams == {f2}
MCXorbs == {x1, x2}
=============================================================================
