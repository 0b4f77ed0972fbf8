----------------------------- MODULE MCTCA9548A -----------------------------
(* Instances of TCA9548A for TLC.                                           *)
EXTENDS TCA9548A

Valid ==
    [hasI2c |-> TRUE, hasHardReset |-> TRUE, i2cAddress |-> 112,
     i2cTimeoutMs |-> 1, resetTimeoutMs |-> 60000, offlineThreshold |-> 2]

\* Thresholds 1..MaxU8, and each bound of an accepted Config, and each check of begin() failing alone.
Configurations ==
    {[Valid EXCEPT !.offlineThreshold = t] : t \in 0 .. MaxU8}
    \cup {[Valid EXCEPT !.hasHardReset = FALSE, !.i2cAddress = 119,
                        !.i2cTimeoutMs = 60000, !.resetTimeoutMs = 1]}
    \cup {[Valid EXCEPT !.hasI2c = FALSE],
          [Valid EXCEPT !.i2cTimeoutMs = 0], [Valid EXCEPT !.i2cTimeoutMs = 60001],
          [Valid EXCEPT !.resetTimeoutMs = 0], [Valid EXCEPT !.resetTimeoutMs = 60001],
          [Valid EXCEPT !.i2cAddress = 111], [Valid EXCEPT !.i2cAddress = 120]}
=============================================================================
