------------------------------- MODULE Outcome -------------------------------
(***************************************************************************)
(* What one invocation of meta-init promises its caller (spec 3, 4.5 and  *)
(* 7), with every internal step hidden.  Setup either fails, with no      *)
(* record, or starts the target.  The target terminates once, with an     *)
(* exit code or a signal.  Afterwards, and only afterwards, one meta      *)
(* record is written, and it is not changed again.  The record holds      *)
(* exactly one verdict block, reconciled by the rules of spec 3:          *)
(*   - a status:<code> verdict is given only to a target that exited with *)
(*     that code;                                                        *)
(*   - a target killed by SIGSYS (a seccomp violation) gets a syscall     *)
(*     verdict, which dominates every other cause.                        *)
(* Any other reconciliation (an rlimit signal, SIGXCPU at the deadline)   *)
(* is allowed.                                                            *)
(***************************************************************************)
EXTENDS Integers

CONSTANTS
  Codes,      \* exit codes the target may exit with
  Sigs,       \* signals the target may die of
  Nrs         \* syscall numbers a verdict may name

VARIABLES
  phase,      \* "setup", "supervise", "reported" or "failed"
  fate,       \* how the target terminated, NoFate until it has
  report      \* the verdict written to the meta record, NoReport until then

vars == <<phase, fate, report>>

NoFate   == [kind |-> "none", code |-> 0, sig |-> "none"]
NoReport == [kind |-> "none", nr |-> -1, sig |-> "none", code |-> 0]

Fates ==
  [kind : {"exited"}, code : Codes, sig : {"none"}]
    \cup [kind : {"signaled"}, code : {0}, sig : Sigs]

Reports ==
  [kind : {"status", "signal", "syscall"}, nr : Nrs \cup {-1},
   sig : Sigs \cup {"none"}, code : Codes \cup {0}]

(* The verdicts spec 3 allows for a target that terminated with f.        *)
Allowed(f, v) ==
  /\ v \in Reports
  /\ v.kind = "status" => f = [kind |-> "exited", code |-> v.code, sig |-> "none"]
  /\ f.kind = "signaled" /\ f.sig = "SIGSYS" => v.kind = "syscall"

Init ==
  /\ phase = "setup"
  /\ fate = NoFate
  /\ report = NoReport

Start ==
  /\ phase = "setup"
  /\ phase' = "supervise"
  /\ UNCHANGED <<fate, report>>

SetupFails ==
  /\ phase = "setup"
  /\ phase' = "failed"
  /\ UNCHANGED <<fate, report>>

Terminate ==
  /\ phase = "supervise"
  /\ fate = NoFate
  /\ fate' \in Fates
  /\ UNCHANGED <<phase, report>>

Report ==
  /\ phase = "supervise"
  /\ fate # NoFate
  /\ Allowed(fate, report')
  /\ phase' = "reported"
  /\ UNCHANGED fate

Next == Start \/ SetupFails \/ Terminate \/ Report

Spec == Init /\ [][Next]_vars

=============================================================================
