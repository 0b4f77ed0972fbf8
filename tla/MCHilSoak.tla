----------------------------- MODULE MCHilSoak -----------------------------
(* HilSoak for TLC.                                                         *)
EXTENDS HilSoak
=============================================================================
