--------------------------- MODULE MCConsoleOutput ---------------------------
(* An instance of ConsoleOutput for TLC: records that fill the ring exactly, *)
(* that wrap, and that never fit; a chunk smaller than what is queued.       *)
EXTENDS ConsoleOutput

RecordLengths == {1, 2, Capacity, Capacity + 1}
=============================================================================
