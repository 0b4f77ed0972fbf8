-------------------------- MODULE MCHilMaskChecks --------------------------
(* HilMaskChecks for TLC.                                                   *)
EXTENDS HilMaskChecks

\* The raw values 0 .. 2^NumChannels - 1 in order, as the runner writes them.
ByRawValue ==
    [n \in 1 .. 2^NumChannels |-> {c \in 0 .. NumChannels - 1 : ((n - 1) \div 2^c) % 2 = 1}]
=============================================================================
