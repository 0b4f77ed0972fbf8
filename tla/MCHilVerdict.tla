---------------------------- MODULE MCHilVerdict ----------------------------
(* HilVerdict for TLC.                                                      *)
EXTENDS HilVerdict
=============================================================================
