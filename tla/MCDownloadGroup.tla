-------------------------- MODULE MCDownloadGroup --------------------------
(***************************************************************************)
(* A download that is added, and finished by its user and by the group; or *)
(* two downloads that have been added before. One of them or the group is  *)
(* cancelled.                                                              *)
(***************************************************************************)
EXTENDS DownloadGroup

CONSTANT Single   \* the file that is cancelled alone

MCNodes == {"session", "group"} \cup Files
MCParent == [n \in MCNodes |-> IF n \in Files THEN "group" ELSE "session"]

\* abort of the session is the walk of the group from one level above it.
MCTargets == {"group", Single}
=============================================================================
