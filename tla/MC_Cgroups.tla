------------------------------ MODULE MC_Cgroups ------------------------------
(* Two concurrent supervisor runs on one host, for TLC.                      *)
EXTENDS Cgroups, TLC

CONSTANTS i1, i2

MCInvocations == {i1, i2}
(* The runs are interchangeable: nothing in the code tells them apart.     *)
MCSymmetry == Permutations(MCInvocations)
=============================================================================
