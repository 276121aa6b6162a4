------------------------------- MODULE MC_Hooks -------------------------------
(* The Hooks instance TLC checks: the modes are pairs <<sudo, sandboxed>>. *)
EXTENDS Hooks

(* Every pair of sudo and sandboxing.                                     *)
MCAllModes == BOOLEAN \X BOOLEAN
MCSudoUnsandboxed == {<<TRUE, FALSE>>}
MCSudoSandboxed == {<<TRUE, TRUE>>}
=============================================================================
