------------------------------ MODULE MC_MetaInit ------------------------------
(* Small instances of MetaInit for TLC.                                       *)
EXTENDS MetaInit

(* A 3 ns second; a wall-time limit of 1 s 2 ns.  Starting at clock 1,     *)
(* t0.tv_nsec + 2 equals one second and the deadline is (1, 3), the       *)
(* unnormalized value TimespecAdd leaves; starting at 2 it carries.        *)
MCTimeout == Ts(1, 2)
MCStartClocks == {1, 2}
MCMaxClock == 7

(* Only the sandboxed mode.                                                 *)
MCSandboxed == {FALSE}
(* Both modes.                                                              *)
MCBothModes == {FALSE, TRUE}
(* Only the --disable-sandboxing mode.                                      *)
MCUnsandboxed == {TRUE}
=============================================================================
