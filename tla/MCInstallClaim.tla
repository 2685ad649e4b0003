---------------------------- MODULE MCInstallClaim ----------------------------
(* A small instance of InstallClaim: interchangeable hooks and directories.   *)
EXTENDS InstallClaim, TLC

CONSTANTS h1, h2, h3, i1, i2, i3, i4

MCThree == {h1, h2, h3}
MCInodes == {i1, i2, i3, i4}

Symmetry == Permutations(MCThree) \cup Permutations(MCInodes)
=============================================================================
