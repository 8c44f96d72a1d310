-------------------------- MODULE MCDownloadBuffer --------------------------
EXTENDS DownloadBuffer

CONSTANTS d1, d2

MCDownloads == {d1, d2}
MCSlots == {"t1", "t2"}
MCHolders == MCDownloads \X (MCSlots \cup {"seed"})
=============================================================================
