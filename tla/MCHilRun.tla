------------------------------ MODULE MCHilRun ------------------------------
(* HilRun for TLC.                                                          *)
EXTENDS HilRun
=============================================================================
