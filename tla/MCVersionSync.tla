--------------------------- MODULE MCVersionSync ---------------------------
(* VersionSync for TLC.                                                     *)
EXTENDS VersionSync, TLC

SomeVersions == {<<0, 1, 1>>, <<1, 1, 0>>}
HundredPatches == {<<1, 0, 99>>, <<1, 0, 100>>}
Symmetry == Permutations(Identities)
=============================================================================
