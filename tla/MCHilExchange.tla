--------------------------- MODULE MCHilExchange ---------------------------
(* HilExchange for TLC.                                                     *)
EXTENDS HilExchange
=============================================================================
