-------------------------- MODULE MetaInitRefinement --------------------------
(***************************************************************************)
(* Proofs that meta-init reports a seccomp kill with its syscall           *)
(* (SeccompKillReported) and that meta-init, the target and the observer   *)
(* together implement the Outcome specification (OutcomeRefined), for     *)
(* every value of the constants.                                           *)
(***************************************************************************)
EXTENDS MetaInitProofs

(* The target's life: it has no status while it lives, one once it is a   *)
(* zombie; it exists only after a successful fork; and the meta record    *)
(* holds no verdict before Emit.                                          *)
Alive == {"setup", "running", "stopped", "parked", "killed"}
LifeInv ==
  /\ tgt \in Alive \cup {"none", "held"} => tstatus = NoStatus
  /\ tgt \in {"zombie", "reaped"} => tstatus # NoStatus
  /\ tgt # "none" => pc \notin {"setup", "fork", "failed"}
  /\ pc # "done" => meta.verdict = NoVerdict

(* The observer's protocol (spec 4.6): the pidfd is sent once, after the  *)
(* fork; the socket stays open unless a failed SendFD resets it, and the  *)
(* observer polls only with a pidfd, so only over an open socket; it      *)
(* holds the number of the notification of a parked target, and, until   *)
(* that target dies, the number it wrote is still unread on the socket.  *)
ObsInv ==
  /\ pc \in {"setup", "fork", "pidfd"} => pidfdSent = "pending"
  /\ pidfdSent \in {"pending", "sent"} => sockValid
  /\ obs \in {"poll", "got", "wrote"} => pidfdSent = "sent"
  /\ tgt = "parked" => notifNr \in SyscallNrs
  /\ obs \in {"got", "wrote"} =>
       /\ obsNr \in SyscallNrs
       /\ tgt \in {"parked", "killed", "zombie", "reaped"}
  /\ obs = "wrote" /\ tgt = "parked" => sockData = obsNr

(* After a seccomp kill by the observer's response, which came after the  *)
(* pidfd was sent, the number is on the open socket until                 *)
(* ReceiveExitSyscall reads it into init_exitsyscall, from which Emit     *)
(* writes the syscall verdict.                                            *)
SigsysInv ==
  tstatus = Signaled("SIGSYS") =>
    /\ pidfdSent = "sent" /\ obs = "done" /\ obsNr \in SyscallNrs
    /\ tgt \in {"zombie", "reaped"}
    /\ pc \notin {"emit", "done"} => sockData = obsNr
    /\ pc \in {"emit", "done"} => init_exitsyscall = obsNr
    /\ pc = "done" =>
         meta.verdict = [NoVerdict EXCEPT !.kind = "syscall", !.nr = obsNr]

RefInv == VerdictInv /\ LifeInv /\ ObsInv /\ SigsysInv

(* Every step keeps the target's life, the observer's protocol and the   *)
(* SIGSYS chain, given the types and VerdictCore.                          *)
LEMMA RefCoreNext ==
  RefInv /\ [Next]_vars => (LifeInv /\ ObsInv /\ SigsysInv)'
<1> SUFFICES ASSUME RefInv, [Next]_vars
             PROVE  (LifeInv /\ ObsInv /\ SigsysInv)'
  OBVIOUS
<1>. USE ConstantsAssumption
     DEF RefInv, VerdictInv, TypeInv, TypeOK, VerdictCore, LifeInv, ObsInv,
         SigsysInv, Alive, cfgVars, timeVars, initVars, chanVars, tgtVars,
         NoSyscall, NoSignal, NoStatus, NoVerdict, Signaled, Exited
<1>1. CASE CgroupSetup
  BY <1>1 DEF CgroupSetup
<1>2. CASE Fork
  BY <1>2 DEF Fork
<1>3. CASE PidfdSend
  BY <1>3 DEF PidfdSend
<1>4. CASE WaitCall
  BY <1>4 DEF WaitCall
<1>5. CASE WaitInvalid
  BY <1>5 DEF WaitInvalid, LeaveLoop, Killed
<1>6. CASE WaitSignal
  BY <1>6 DEF WaitSignal
<1>7. CASE WaitTimeout
  BY <1>7 DEF WaitTimeout, LeaveLoop, Killed
<1>8. CASE DrainSigsysStop
  BY <1>8 DEF DrainSigsysStop
<1>9. CASE DrainRlimitStop
  BY <1>9 DEF DrainRlimitStop
<1>10. CASE DrainOtherStop
  BY <1>10 DEF DrainOtherStop, Dies
<1>11. CASE DrainExit
  BY <1>11 DEF DrainExit
<1>12. CASE DrainEmpty
  BY <1>12 DEF DrainEmpty, LeaveLoop, Killed
<1>13. CASE SweepReap
  BY <1>13 DEF SweepReap
<1>14. CASE SweepStop
  BY <1>14 DEF SweepStop
<1>15. CASE SweepDone
  BY <1>15 DEF SweepDone
<1>16. CASE ReceiveData
  BY <1>16 DEF ReceiveData
<1>17. CASE ReceiveEof
  BY <1>17 DEF ReceiveEof
<1>18. CASE ReceiveTimeout
  BY <1>18 DEF ReceiveTimeout
<1>19. CASE Emit
  <2>1. (LifeInv /\ ObsInv)'
    BY <1>19 DEF Emit
  <2>2. tstatus = Signaled("SIGSYS") =>
          init_exitsyscall = obsNr /\ obsNr \in SyscallNrs
    BY <1>19 DEF Emit
  <2>3. ASSUME init_exitsyscall = obsNr, obsNr \in SyscallNrs
        PROVE  Verdict = [NoVerdict EXCEPT !.kind = "syscall", !.nr = obsNr]
    <3>1. obsNr # NoSyscall
      BY <2>3
    <3>. QED
      BY <2>3, <3>1 DEF Verdict
  <2>. QED
    BY <1>19, <2>1, <2>2, <2>3 DEF Emit
<1>20. CASE ChildSetup
  BY <1>20 DEF ChildSetup, Dies
<1>21. CASE TargetExit
  BY <1>21 DEF TargetExit, Dies
<1>22. CASE TargetSignal
  BY <1>22 DEF TargetSignal
<1>23. CASE TargetTrapViolation
  BY <1>23 DEF TargetTrapViolation
<1>24. CASE TargetNotifViolation
  BY <1>24 DEF TargetNotifViolation
<1>25. CASE TargetOomKill
  BY <1>25 DEF TargetOomKill, Dies
<1>26. CASE TargetDie
  BY <1>26 DEF TargetDie, Dies
<1>27. CASE ObserverRecvPidfd
  BY <1>27 DEF ObserverRecvPidfd
<1>28. CASE ObserverRecvEof
  BY <1>28 DEF ObserverRecvEof
<1>29. CASE ObserverNotification
  BY <1>29 DEF ObserverNotification
<1>30. CASE ObserverHangup
  BY <1>30 DEF ObserverHangup
<1>31. CASE ObserverWrite
  BY <1>31 DEF ObserverWrite
<1>32. CASE ObserverRespond
  BY <1>32 DEF ObserverRespond, Dies
<1>33. CASE Tick
  BY <1>33 DEF Tick
<1>34. CASE UNCHANGED vars
  BY <1>34 DEF vars
<1>. QED
  BY <1>1, <1>2, <1>3, <1>4, <1>5, <1>6, <1>7, <1>8, <1>9, <1>10, <1>11,
     <1>12, <1>13, <1>14, <1>15, <1>16, <1>17, <1>18, <1>19, <1>20, <1>21,
     <1>22, <1>23, <1>24, <1>25, <1>26, <1>27, <1>28, <1>29, <1>30, <1>31,
     <1>32, <1>33, <1>34
  DEF Next, MetaInitStep, TargetStep, ObserverStep

(* RefInv holds initially and is kept by every step.                      *)
LEMMA RefInvInductive == /\ Init => RefInv
                         /\ RefInv /\ [Next]_vars => RefInv'
<1>1. Init => RefInv
  <2> SUFFICES ASSUME Init PROVE RefInv
    OBVIOUS
  <2>1. TypeInv
    BY TypeInvInit
  <2>2. VerdictCore /\ LifeInv /\ ObsInv
    BY DEF Init, VerdictCore, LifeInv, ObsInv, NoMeta, NoVerdict
  <2>3. SigsysInv
    <3>1. tstatus # Signaled("SIGSYS")
      BY DEF Init, NoStatus, Signaled
    <3>. QED
      BY <3>1 DEF SigsysInv
  <2>. QED
    BY <2>1, <2>2, <2>3 DEF RefInv, VerdictInv
<1>2. RefInv /\ [Next]_vars => RefInv'
  <2> SUFFICES ASSUME RefInv, [Next]_vars PROVE RefInv'
    OBVIOUS
  <2>1. TypeInv' /\ VerdictCore'
    BY TypeInvNextFull, VerdictCoreNext DEF RefInv, VerdictInv
  <2>2. (LifeInv /\ ObsInv /\ SigsysInv)'
    BY RefCoreNext
  <2>. QED
    BY <2>1, <2>2 DEF RefInv, VerdictInv
<1>. QED
  BY <1>1, <1>2

(* Spec 4.6 and 8.4: a target that the seccomp policy killed through the  *)
(* observer's response is reported with the syscall it was killed for.   *)
(* It rests on the observer writing the number to the socket before it    *)
(* responds (main lines 1003-1012), on meta-init sending the pidfd only   *)
(* over a socket it keeps (lines 518-541), and on ReceiveExitSyscall      *)
(* reading the socket after the sweep (lines 617-626).                    *)
THEOREM SeccompKillCorrect == Spec => []SeccompKillReported
<1>1. RefInv => SeccompKillReported
  BY DEF RefInv, SigsysInv, SeccompKillReported
<1>. QED
  BY <1>1, RefInvInductive, PTL DEF Spec

-----------------------------------------------------------------------------
(* Refinement of Outcome (OutcomeRefined).                                *)

(* The control points of meta-init between the fork and the emission.     *)
Supervising == {"pidfd", "wait_call", "waiting", "drain", "sweep",
                "drain_obs", "emit"}

(* Meta-init starts where Outcome does: in setup, with no fate and no     *)
(* report.                                                                 *)
LEMMA RefineInit == Init => Abs!Init
BY DEF Init, Abs!Init, Phase, Abs!NoFate, Abs!NoReport, NoStatus, NoMeta,
       NoVerdict, NoSignal, NoSyscall

(* The statuses the target dies with are Outcome's fates.                  *)
LEMMA DeathFates ==
  /\ \A c \in ExitCodes : Exited(c) \in Abs!Fates
  /\ \A sg \in Signals : Signaled(sg) \in Abs!Fates
BY DEF Abs!Fates, Exited, Signaled, NoSignal

(* The verdict block (lines 658-677) applied to the reaped target's own    *)
(* status gives a verdict Outcome allows for it, provided a SIGSYS death  *)
(* has its syscall number recorded.                                        *)
LEMMA VerdictAllowed ==
  ASSUME init_exitstatus = tstatus, tstatus \in TargetStatuses \ {NoStatus},
         init_exitsyscall \in SyscallNrs \cup {0, NoSyscall},
         init_exitsignal \in Signals \cup {NoSignal},
         tstatus = Signaled("SIGSYS") => init_exitsyscall \in SyscallNrs
  PROVE  Abs!Allowed(tstatus, Verdict)
<1>. USE ConstantsAssumption
<1>1. Verdict \in Abs!Reports
  <2>1. CASE init_exitsyscall # NoSyscall
    BY <2>1 DEF Verdict, NoVerdict, Abs!Reports, NoSignal
  <2>2. CASE init_exitsyscall = NoSyscall
             /\ (init_exitstatus.kind = "signaled" \/ init_exitsignal # NoSignal)
    <3> DEFINE sg == IF init_exitsignal = NoSignal THEN init_exitstatus.sig
                                                 ELSE init_exitsignal
    <3>1. Verdict = [kind |-> "signal", nr |-> -1, sig |-> sg, code |-> 0]
      BY <2>2 DEF Verdict, NoVerdict, NoSyscall
    <3>2. sg \in Signals
      <4>1. CASE init_exitsignal = NoSignal
        <5>1. \E x \in Signals : tstatus = Signaled(x)
          BY <2>2, <4>1 DEF TargetStatuses, Exited, Signaled, NoStatus
        <5>. QED
          BY <5>1, <4>1 DEF Signaled
      <4>2. CASE init_exitsignal # NoSignal
        BY <4>2
      <4>. QED
        BY <4>1, <4>2
    <3>. QED
      BY <3>1, <3>2 DEF Abs!Reports
  <2>3. CASE init_exitsyscall = NoSyscall
             /\ ~(init_exitstatus.kind = "signaled" \/ init_exitsignal # NoSignal)
    <3>1. \E c \in ExitCodes : tstatus = Exited(c)
      BY <2>3 DEF TargetStatuses, Exited, Signaled, NoStatus
    <3>2. PICK c \in ExitCodes : tstatus = Exited(c)
      BY <3>1
    <3>3. Verdict = [kind |-> "status", nr |-> -1, sig |-> "none", code |-> c]
      BY <2>3, <3>2 DEF Verdict, NoVerdict, NoSyscall, NoSignal, Exited
    <3>. QED
      BY <3>3 DEF Abs!Reports
  <2>. QED
    BY <2>1, <2>2, <2>3
<1>2. Verdict.kind = "status" =>
        tstatus = [kind |-> "exited", code |-> Verdict.code, sig |-> "none"]
  <2>1. init_exitstatus \in InitStatuses
    BY StatusTypes
  <2>. QED
    BY <2>1, VerdictStatus DEF Exited, NoSignal
<1>3. tstatus.kind = "signaled" /\ tstatus.sig = "SIGSYS" =>
        Verdict.kind = "syscall"
  BY DEF TargetStatuses, Exited, Signaled, NoStatus, Verdict, NoVerdict,
         NoSyscall
<1>. QED
  BY <1>1, <1>2, <1>3 DEF Abs!Allowed

(* Every step of meta-init, the target, the observer and the clock is a  *)
(* step of Outcome or leaves its variables alone: the fork starts         *)
(* supervision, a setup failure is SetupFails, the target's death is      *)
(* Terminate and Emit is Report.                                          *)
LEMMA RefineNext == RefInv /\ [Next]_vars => [Abs!Next]_Abs!vars
<1> SUFFICES ASSUME RefInv, [Next]_vars PROVE [Abs!Next]_Abs!vars
  OBVIOUS
<1>. USE DEF cfgVars, timeVars, initVars, chanVars, tgtVars
<1>0. /\ TypeInv /\ VerdictCore /\ LifeInv /\ SigsysInv
  BY DEF RefInv, VerdictInv
(* Steps that keep meta-init between the fork and the emission and leave  *)
(* the target's status and the record alone hide.                         *)
<1>1. ASSUME pc \in Supervising, pc' \in Supervising,
             UNCHANGED <<tstatus, meta>>
      PROVE  UNCHANGED Abs!vars
  BY <1>1 DEF Abs!vars, Phase, Supervising
<1>2. ASSUME UNCHANGED <<pc, tstatus, meta>>
      PROVE  UNCHANGED Abs!vars
  BY <1>2 DEF Abs!vars, Phase
(* The target's death, while it is alive, is Terminate.                   *)
<1>3. ASSUME tgt \in Alive, UNCHANGED <<pc, meta>>, tstatus' \in Abs!Fates
      PROVE  Abs!Terminate
  <2>1. tstatus = NoStatus /\ pc \notin {"setup", "fork", "failed", "done"}
    BY <1>3, <1>0 DEF LifeInv, VerdictCore, Alive
  <2>. QED
    BY <1>3, <2>1 DEF Abs!Terminate, Abs!NoFate, NoStatus, NoSignal, Phase
<1>01. CASE CgroupSetup
  <2>1. pc' \in {"fork", "failed"} /\ pc = "setup" /\ UNCHANGED <<tstatus, meta>>
    BY <1>01 DEF CgroupSetup
  <2>. QED
    BY <2>1 DEF Abs!Next, Abs!SetupFails, Abs!vars, Phase
<1>02. CASE Fork
  <2>1. pc' \in {"pidfd", "failed"} /\ pc = "fork" /\ UNCHANGED <<tstatus, meta>>
    BY <1>02 DEF Fork
  <2>. QED
    BY <2>1 DEF Abs!Next, Abs!Start, Abs!SetupFails, Phase
<1>03. CASE Emit
  <2>1. /\ pc = "emit" /\ pc' = "done" /\ tgt = "reaped"
        /\ init_exitstatus = tstatus /\ tstatus \in TargetStatuses \ {NoStatus}
        /\ init_exitsyscall \in SyscallNrs \cup {0, NoSyscall}
        /\ init_exitsignal \in Signals \cup {NoSignal}
        /\ tstatus = Signaled("SIGSYS") => init_exitsyscall \in SyscallNrs
    BY <1>03, <1>0 DEF Emit, TypeInv, TypeOK, VerdictCore, LifeInv, SigsysInv
  <2>2. Abs!Allowed(tstatus, Verdict)
    BY <2>1, VerdictAllowed
  <2>3. meta'.verdict = Verdict /\ UNCHANGED tstatus
    BY <1>03 DEF Emit
  <2>. QED
    BY <2>1, <2>2, <2>3 DEF Abs!Next, Abs!Report, Abs!NoFate, NoStatus,
       NoSignal, Phase
<1>4. CASE PidfdSend
  <2>1. pc \in Supervising
    BY <1>4, <1>0 DEF PidfdSend, Supervising
  <2>. QED
    BY <1>4, <2>1, <1>1 DEF PidfdSend, Supervising
<1>5. CASE WaitCall
  <2>1. pc \in Supervising
    BY <1>5, <1>0 DEF WaitCall, Supervising
  <2>. QED
    BY <1>5, <2>1, <1>1 DEF WaitCall, Supervising
<1>6. CASE WaitInvalid
  <2>1. pc \in Supervising
    BY <1>6, <1>0 DEF WaitInvalid, Supervising
  <2>. QED
    BY <1>6, <2>1, <1>1 DEF WaitInvalid, LeaveLoop, Supervising
<1>7. CASE WaitSignal
  <2>1. pc \in Supervising
    BY <1>7, <1>0 DEF WaitSignal, Supervising
  <2>. QED
    BY <1>7, <2>1, <1>1 DEF WaitSignal, Supervising
<1>8. CASE WaitTimeout
  <2>1. pc \in Supervising
    BY <1>8, <1>0 DEF WaitTimeout, Supervising
  <2>. QED
    BY <1>8, <2>1, <1>1 DEF WaitTimeout, LeaveLoop, Supervising
<1>9. CASE DrainSigsysStop
  <2>1. pc \in Supervising
    BY <1>9, <1>0 DEF DrainSigsysStop, Supervising
  <2>. QED
    BY <1>9, <2>1, <1>1 DEF DrainSigsysStop, Supervising
<1>10. CASE DrainRlimitStop
  <2>1. pc \in Supervising
    BY <1>10, <1>0 DEF DrainRlimitStop, Supervising
  <2>. QED
    BY <1>10, <2>1, <1>1 DEF DrainRlimitStop, Supervising
<1>11. CASE DrainExit
  <2>1. pc \in Supervising
    BY <1>11, <1>0 DEF DrainExit, Supervising
  <2>. QED
    BY <1>11, <2>1, <1>1 DEF DrainExit, Supervising
<1>12. CASE DrainEmpty
  <2>1. pc \in Supervising
    BY <1>12, <1>0 DEF DrainEmpty, Supervising
  <2>. QED
    BY <1>12, <2>1, <1>1 DEF DrainEmpty, LeaveLoop, Supervising
<1>13. CASE SweepReap
  <2>1. pc \in Supervising
    BY <1>13, <1>0 DEF SweepReap, Supervising
  <2>. QED
    BY <1>13, <2>1, <1>1 DEF SweepReap, Supervising
<1>14. CASE SweepStop
  <2>1. pc \in Supervising
    BY <1>14, <1>0 DEF SweepStop, Supervising
  <2>. QED
    BY <1>14, <2>1, <1>1 DEF SweepStop, Supervising
<1>15. CASE SweepDone
  <2>1. pc \in Supervising
    BY <1>15, <1>0 DEF SweepDone, Supervising
  <2>. QED
    BY <1>15, <2>1, <1>1 DEF SweepDone, Supervising
<1>16. CASE ReceiveData
  <2>1. pc \in Supervising
    BY <1>16, <1>0 DEF ReceiveData, Supervising
  <2>. QED
    BY <1>16, <2>1, <1>1 DEF ReceiveData, Supervising
<1>17. CASE ReceiveEof
  <2>1. pc \in Supervising
    BY <1>17, <1>0 DEF ReceiveEof, Supervising
  <2>. QED
    BY <1>17, <2>1, <1>1 DEF ReceiveEof, Supervising
<1>18. CASE ReceiveTimeout
  <2>1. pc \in Supervising
    BY <1>18, <1>0 DEF ReceiveTimeout, Supervising
  <2>. QED
    BY <1>18, <2>1, <1>1 DEF ReceiveTimeout, Supervising
<1>19. CASE TargetSignal
  BY <1>19, <1>2 DEF TargetSignal
<1>20. CASE TargetTrapViolation
  BY <1>20, <1>2 DEF TargetTrapViolation
<1>21. CASE TargetNotifViolation
  BY <1>21, <1>2 DEF TargetNotifViolation
<1>22. CASE ObserverRecvPidfd
  BY <1>22, <1>2 DEF ObserverRecvPidfd
<1>23. CASE ObserverRecvEof
  BY <1>23, <1>2 DEF ObserverRecvEof
<1>24. CASE ObserverNotification
  BY <1>24, <1>2 DEF ObserverNotification
<1>25. CASE ObserverHangup
  BY <1>25, <1>2 DEF ObserverHangup
<1>26. CASE ObserverWrite
  BY <1>26, <1>2 DEF ObserverWrite
<1>27. CASE Tick
  BY <1>27, <1>2 DEF Tick
<1>28. CASE ChildSetup
  <2>1. tgt \in Alive /\ UNCHANGED <<pc, meta>>
    BY <1>28 DEF ChildSetup, Alive
  <2>2. tstatus' = tstatus \/ tstatus' \in Abs!Fates
    BY <1>28, DeathFates DEF ChildSetup, Dies
  <2>. QED
    BY <2>1, <2>2, <1>2, <1>3 DEF Abs!Next
<1>29. CASE TargetExit
  <2>1. tgt \in Alive /\ UNCHANGED <<pc, meta>>
    BY <1>29 DEF TargetExit, Alive
  <2>2. tstatus' = tstatus \/ tstatus' \in Abs!Fates
    BY <1>29, DeathFates DEF TargetExit, Dies
  <2>. QED
    BY <2>1, <2>2, <1>2, <1>3 DEF Abs!Next
<1>30. CASE TargetOomKill
  <2>1. tgt \in Alive /\ UNCHANGED <<pc, meta>>
    BY <1>30 DEF TargetOomKill, Alive
  <2>2. tstatus' = tstatus \/ tstatus' \in Abs!Fates
    BY <1>30, DeathFates DEF TargetOomKill, Dies, Signals
  <2>. QED
    BY <2>1, <2>2, <1>2, <1>3 DEF Abs!Next
<1>31. CASE TargetDie
  <2>1. tgt \in Alive /\ UNCHANGED <<pc, meta>>
    BY <1>31 DEF TargetDie, Alive
  <2>2. tstatus' = tstatus \/ tstatus' \in Abs!Fates
    BY <1>31, DeathFates DEF TargetDie, Dies, Signals
  <2>. QED
    BY <2>1, <2>2, <1>2, <1>3 DEF Abs!Next
<1>32. CASE DrainOtherStop
  <2>1. tgt = "stopped" /\ UNCHANGED <<pc, meta>>
    BY <1>32 DEF DrainOtherStop
  <2>2. tstatus' = tstatus \/ tstatus' \in Abs!Fates
    <3>1. tstop.sig \in Signals
      BY <1>0, StatusTypes DEF TypeInv, TypeOK
    <3>. QED
      BY <1>32, <3>1, DeathFates DEF DrainOtherStop, Dies
  <2>. QED
    BY <2>1, <2>2, <1>2, <1>3 DEF Alive, Abs!Next
<1>33. CASE ObserverRespond
  <2>1. UNCHANGED <<pc, meta>>
    BY <1>33 DEF ObserverRespond
  <2>2. CASE tgt = "parked"
    <3>1. tstatus' \in Abs!Fates
      BY <1>33, <2>2, DeathFates, StatusTypes DEF ObserverRespond, Dies
    <3>. QED
      BY <2>1, <2>2, <3>1, <1>3 DEF Alive, Abs!Next
  <2>3. CASE tgt # "parked"
    BY <1>33, <2>1, <2>3, <1>2 DEF ObserverRespond
  <2>. QED
    BY <2>2, <2>3
<1>34. CASE UNCHANGED vars
  BY <1>34, <1>2 DEF vars
<1>. QED
  BY <1>01, <1>02, <1>03, <1>4, <1>5, <1>6, <1>7, <1>8, <1>9, <1>10, <1>11, <1>12, <1>13, <1>14,
     <1>15, <1>16, <1>17, <1>18, <1>19, <1>20, <1>21, <1>22, <1>23, <1>24,
     <1>25, <1>26, <1>27, <1>28, <1>29, <1>30, <1>31,
     <1>32, <1>33, <1>34
  DEF Next, MetaInitStep, TargetStep, ObserverStep

(* Spec 3, 4.5 and 7: meta-init, the target it forks and the observer     *)
(* together implement Outcome: setup fails with no record or starts the   *)
(* target; the target terminates once; then, and only then, one meta      *)
(* record is written (Emit, lines 628-680), never changed again, with a   *)
(* verdict the reconciliation rules allow for how the target terminated.  *)
THEOREM OutcomeRefinement == Spec => OutcomeRefined
<1>1. Init => Abs!Init
  BY RefineInit
<1>2. RefInv /\ [Next]_vars => [Abs!Next]_Abs!vars
  BY RefineNext
<1>. QED
  BY <1>1, <1>2, RefInvInductive, PTL DEF Spec, OutcomeRefined, Abs!Spec
=============================================================================
