---------------------------- MODULE MetaInitProofs ----------------------------
(***************************************************************************)
(* Proofs about MetaInit for every value of the constants: type            *)
(* correctness, and that a status:<code> verdict only ever reports a       *)
(* target that exited with that code (StatusVerdictSound).                 *)
(***************************************************************************)
EXTENDS MetaInit, TimespecProofs

(* TypeOK is not inductive on its own: DrainExit copies the target's       *)
(* status into init_exitstatus, so a zombie must already have a status.    *)
TypeInv ==
  /\ TypeOK
  /\ tgt = "zombie" => tstatus # NoStatus

(* The strengthening behind StatusVerdictSound.  There is no target      *)
(* before the fork.  The status is captured only when the target is       *)
(* reaped (by the drain loop or the sweep), and a reaped target never      *)
(* changes again; the observer drain and the emission only happen after    *)
(* the reap; and meta is written once, from a status no later step        *)
(* changes.                                                                *)
VerdictCore ==
  /\ pc \in {"setup", "fork"} => tgt = "none"
  /\ init_exited => tgt \in {"reaped", "held"}
  /\ tgt = "reaped" => init_exited /\ init_exitstatus = tstatus
  /\ pc \in {"drain_obs", "emit", "done"} => tgt = "reaped"
  /\ meta.verdict.kind = "status" =>
       pc = "done" /\ init_exitstatus = Exited(meta.verdict.code)

VerdictInv == TypeInv /\ VerdictCore

-----------------------------------------------------------------------------
(* The statuses the target dies with are statuses init_exitstatus may     *)
(* hold, and those of the code's kill and its deadline are among them.     *)
LEMMA StatusTypes ==
  /\ \A c \in ExitCodes : Exited(c) \in TargetStatuses
  /\ \A s \in Signals : Signaled(s) \in TargetStatuses
  /\ \A st \in TargetStatuses \ {NoStatus} : st \in InitStatuses
  /\ \A s \in StopSignals : Stopped(s) \in InitStatuses
  /\ Exited(0) \in InitStatuses
  /\ StopSignals \subseteq Signals
  /\ {"SIGKILL", "SIGXCPU", "SIGSYS"} \subseteq Signals
  /\ RlimitSignals \subseteq Signals
<1>1. \A c \in ExitCodes : Exited(c) \in TargetStatuses
  BY DEF TargetStatuses
<1>2. \A s \in Signals : Signaled(s) \in TargetStatuses
  BY DEF TargetStatuses
<1>3. \A st \in TargetStatuses \ {NoStatus} : st \in InitStatuses
  BY DEF TargetStatuses, InitStatuses
<1>4. \A s \in StopSignals : Stopped(s) \in InitStatuses
  BY DEF InitStatuses
<1>5. Exited(0) \in InitStatuses
  BY DEF InitStatuses
<1>6. /\ StopSignals \subseteq Signals
      /\ {"SIGKILL", "SIGXCPU", "SIGSYS"} \subseteq Signals
      /\ RlimitSignals \subseteq Signals
  BY DEF Signals, StopSignals, RlimitSignals
<1>. QED
  BY <1>1, <1>2, <1>3, <1>4, <1>5, <1>6

(* The initial state of meta-init, before the cgroups are set up, is well  *)
(* typed.                                                                  *)
LEMMA TypeInvInit == Init => TypeInv
<1> SUFFICES ASSUME Init PROVE TypeInv
  OBVIOUS
<1>. USE ConstantsAssumption, NsPerSecAssumption DEF Init
<1>1. /\ t0 \in [tv_sec : Nat, tv_nsec : 0 .. NsPerSec - 1]
      /\ t \in [tv_sec : Nat, tv_nsec : 0 .. NsPerSec - 1]
      /\ deadline \in [tv_sec : Nat, tv_nsec : 0 .. NsPerSec]
  BY DEF Ts
<1>2. init_exitstatus \in InitStatuses /\ tstatus \in TargetStatuses
  BY StatusTypes DEF TargetStatuses
<1>3. /\ tstop \in [sig : StopSignals, syscall : SyscallNrs \cup {0}]
      /\ init_exitsignal \in Signals \cup {NoSignal}
      /\ meta.mem \in Int
  BY DEF StopSignals, Signals, NoMeta
<1>4. /\ init_exitsyscall \in SyscallNrs \cup {0, NoSyscall}
      /\ sockData \in SyscallNrs \cup {NoSyscall}
      /\ obsNr \in SyscallNrs \cup {NoSyscall}
      /\ notifNr \in SyscallNrs \cup {NoSyscall}
      /\ init_usage \in RssKiB \cup {0}
      /\ trss \in RssKiB \cup {0}
      /\ violated \subseteq SyscallNrs
      /\ clock \in Nat /\ waitUntil \in Nat
  OBVIOUS
<1>5. tgt = "zombie" => tstatus # NoStatus
  OBVIOUS
<1>6. /\ disable_sandboxing \in BOOLEAN /\ cgroupV2 \in BOOLEAN
      /\ hasCgroupPath \in BOOLEAN /\ memoryCgroup \in BOOLEAN
      /\ sigchld \in BOOLEAN /\ init_exited \in BOOLEAN
      /\ sockValid \in BOOLEAN /\ obsClosed \in BOOLEAN
  BY Zenon
<1>. QED
  BY <1>1, <1>2, <1>3, <1>4, <1>5, <1>6, Zenon DEF TypeInv, TypeOK

(* The clock reading taken by LeaveLoop, Fork and DrainEmpty is a          *)
(* normalized timespec.                                                    *)
LEMMA ClockReadType == clock \in Nat => ClockRead(clock) \in NormTs
  BY ClockReadCorrect

(* TypeInv in two parts: the flags, whose typing Zenon handles, and the   *)
(* data, which needs SMT's arithmetic.                                     *)
BoolTypeOK ==
  /\ disable_sandboxing \in BOOLEAN /\ cgroupV2 \in BOOLEAN
  /\ hasCgroupPath \in BOOLEAN /\ memoryCgroup \in BOOLEAN
  /\ sigchld \in BOOLEAN /\ init_exited \in BOOLEAN
  /\ sockValid \in BOOLEAN /\ obsClosed \in BOOLEAN

DataInv ==
  /\ pc \in {"setup", "fork", "pidfd", "wait_call", "waiting", "drain",
             "sweep", "drain_obs", "emit", "done", "failed"}
  /\ clock \in Nat
  /\ t0 \in NormTs
  /\ t \in NormTs
  /\ deadline \in [tv_sec : Nat, tv_nsec : 0 .. NsPerSec]
  /\ waitUntil \in Nat
  /\ init_exitsyscall \in SyscallNrs \cup {0, NoSyscall}
  /\ init_exitsignal \in Signals \cup {NoSignal}
  /\ init_exitstatus \in InitStatuses
  /\ init_usage \in RssKiB \cup {0}
  /\ pidfdSent \in {"pending", "sent", "none"}
  /\ sockData \in SyscallNrs \cup {NoSyscall}
  /\ obs \in {"recv", "poll", "got", "wrote", "done"}
  /\ obsNr \in SyscallNrs \cup {NoSyscall}
  /\ tgt \in {"none", "setup", "running", "stopped", "parked", "killed",
              "zombie", "reaped", "held"}
  /\ tstop \in [sig : StopSignals, syscall : SyscallNrs \cup {0}]
  /\ notifNr \in SyscallNrs \cup {NoSyscall}
  /\ tstatus \in TargetStatuses
  /\ trss \in RssKiB \cup {0}
  /\ failcnt \in {0, 1}
  /\ violated \subseteq SyscallNrs
  /\ meta.mem \in Int
  /\ tgt = "zombie" => tstatus # NoStatus

LEMMA TypeInvSplit == TypeInv <=> BoolTypeOK /\ DataInv
  BY Zenon DEF TypeInv, TypeOK, BoolTypeOK, DataInv, NormTs

(* Every step keeps the flags Boolean.                                     *)
LEMMA BoolTypeNext == BoolTypeOK /\ [Next]_vars => BoolTypeOK'
<1> SUFFICES ASSUME BoolTypeOK, [Next]_vars PROVE BoolTypeOK'
  OBVIOUS
<1>. USE DEF BoolTypeOK, cfgVars, timeVars, initVars, chanVars, tgtVars
<1>1. CASE CgroupSetup
  BY <1>1, Zenon DEF CgroupSetup
<1>2. CASE Fork
  BY <1>2, Zenon DEF Fork
<1>3. CASE PidfdSend
  BY <1>3, Zenon DEF PidfdSend
<1>4. CASE WaitCall
  BY <1>4, Zenon DEF WaitCall
<1>5. CASE WaitInvalid
  BY <1>5, Zenon DEF WaitInvalid, LeaveLoop
<1>6. CASE WaitSignal
  BY <1>6, Zenon DEF WaitSignal
<1>7. CASE WaitTimeout
  BY <1>7, Zenon DEF WaitTimeout, LeaveLoop
<1>8. CASE DrainSigsysStop
  BY <1>8, Zenon DEF DrainSigsysStop
<1>9. CASE DrainRlimitStop
  BY <1>9, Zenon DEF DrainRlimitStop
<1>10. CASE DrainOtherStop
  BY <1>10, Zenon DEF DrainOtherStop, Dies
<1>11. CASE DrainExit
  BY <1>11, Zenon DEF DrainExit
<1>12. CASE DrainEmpty
  BY <1>12, Zenon DEF DrainEmpty, LeaveLoop
<1>13. CASE SweepReap
  BY <1>13, Zenon DEF SweepReap
<1>14. CASE SweepStop
  BY <1>14, Zenon DEF SweepStop
<1>15. CASE SweepDone
  BY <1>15, Zenon DEF SweepDone
<1>16. CASE ReceiveData
  BY <1>16, Zenon DEF ReceiveData
<1>17. CASE ReceiveEof
  BY <1>17, Zenon DEF ReceiveEof
<1>18. CASE ReceiveTimeout
  BY <1>18, Zenon DEF ReceiveTimeout
<1>19. CASE Emit
  BY <1>19, Zenon DEF Emit
<1>20. CASE ChildSetup
  BY <1>20, Zenon DEF ChildSetup, Dies
<1>21. CASE TargetExit
  BY <1>21, Zenon DEF TargetExit, Dies
<1>22. CASE TargetSignal
  BY <1>22, Zenon DEF TargetSignal
<1>23. CASE TargetTrapViolation
  BY <1>23, Zenon DEF TargetTrapViolation
<1>24. CASE TargetNotifViolation
  BY <1>24, Zenon DEF TargetNotifViolation
<1>25. CASE TargetOomKill
  BY <1>25, Zenon DEF TargetOomKill, Dies
<1>26. CASE TargetDie
  BY <1>26, Zenon DEF TargetDie, Dies
<1>27. CASE ObserverRecvPidfd
  BY <1>27, Zenon DEF ObserverRecvPidfd
<1>28. CASE ObserverRecvEof
  BY <1>28, Zenon DEF ObserverRecvEof
<1>29. CASE ObserverNotification
  BY <1>29, Zenon DEF ObserverNotification
<1>30. CASE ObserverHangup
  BY <1>30, Zenon DEF ObserverHangup
<1>31. CASE ObserverWrite
  BY <1>31, Zenon DEF ObserverWrite
<1>32. CASE ObserverRespond
  BY <1>32, Zenon DEF ObserverRespond, Dies
<1>33. CASE Tick
  BY <1>33, Zenon DEF Tick
<1>34. CASE UNCHANGED vars
  BY <1>34 DEF vars
<1>. QED
  BY <1>1, <1>2, <1>3, <1>4, <1>5, <1>6, <1>7, <1>8, <1>9, <1>10, <1>11,
     <1>12, <1>13, <1>14, <1>15, <1>16, <1>17, <1>18, <1>19, <1>20, <1>21,
     <1>22, <1>23, <1>24, <1>25, <1>26, <1>27, <1>28, <1>29, <1>30, <1>31,
     <1>32, <1>33, <1>34
  DEF Next, MetaInitStep, TargetStep, ObserverStep

(* Every step of meta-init, of the target, of the observer and of the      *)
(* clock keeps the data well typed.                                        *)
LEMMA DataInvNext == BoolTypeOK /\ DataInv /\ [Next]_vars => DataInv'
<1> SUFFICES ASSUME BoolTypeOK, DataInv, [Next]_vars PROVE DataInv'
  OBVIOUS
<1>. USE ConstantsAssumption, NsPerSecAssumption, StatusTypes
     DEF DataInv, NormTs, cfgVars, timeVars, initVars, chanVars, tgtVars
<1>1. CASE CgroupSetup
  BY <1>1 DEF CgroupSetup
<1>2. CASE Fork
  <2>1. ClockRead(clock) \in NormTs
    BY ClockReadType
  <2>2. TimespecAdd(ClockRead(clock), Timeout) \in [tv_sec : Nat, tv_nsec : 0 .. NsPerSec]
    BY <2>1, TimespecAddCorrect
  <2>. QED
    BY <1>2, <2>1, <2>2 DEF Fork
<1>3. CASE PidfdSend
  BY <1>3 DEF PidfdSend
<1>4. CASE WaitCall
  <2>. DEFINE d == TimespecSub(deadline, t)
  <2>1. d.tv_sec \in Int /\ d.tv_nsec \in Int
    BY DEF TimespecSub, Ts
  <2>2. TimespecValue(d) \in Nat
    BY <1>4, <2>1 DEF WaitCall, ValidTimeout, Normalized, TimespecValue
  <2>. QED
    BY <1>4, <2>2 DEF WaitCall
<1>5. ASSUME NEW now \in NormTs, LeaveLoop(now)
      PROVE  /\ t' \in NormTs
             /\ init_exitsignal' \in Signals \cup {NoSignal}
             /\ tgt' \in {"none", "setup", "running", "stopped", "parked",
                          "killed", "zombie", "reaped", "held"}
             /\ tgt' = "zombie" => tgt = "zombie"
             /\ pc' = "sweep"
  BY <1>5 DEF LeaveLoop, Killed
<1>6. CASE WaitInvalid
  BY <1>6, <1>5, ClockReadType DEF WaitInvalid
<1>7. CASE WaitTimeout
  BY <1>7, <1>5, ClockReadType DEF WaitTimeout
<1>8. CASE WaitSignal
  BY <1>8 DEF WaitSignal
<1>9. CASE DrainSigsysStop
  BY <1>9 DEF DrainSigsysStop
<1>10. CASE DrainRlimitStop
  BY <1>10 DEF DrainRlimitStop
<1>11. CASE DrainOtherStop
  BY <1>11 DEF DrainOtherStop, Dies, Signaled, NoStatus
<1>12. CASE DrainExit
  BY <1>12 DEF DrainExit
<1>13. CASE DrainEmpty
  BY <1>13, <1>5, ClockReadType DEF DrainEmpty
<1>14. CASE SweepReap
  BY <1>14 DEF SweepReap
<1>15. CASE SweepStop
  BY <1>15 DEF SweepStop
<1>16. CASE SweepDone
  BY <1>16 DEF SweepDone
<1>17. CASE ReceiveData
  BY <1>17 DEF ReceiveData
<1>18. CASE ReceiveEof
  BY <1>18 DEF ReceiveEof
<1>19. CASE ReceiveTimeout
  BY <1>19 DEF ReceiveTimeout
<1>20. CASE Emit
  <2>1. MaxRss \in Int
    BY DEF MaxRss
  <2>. QED
    BY <1>20, <2>1 DEF Emit
<1>21. CASE ChildSetup
  BY <1>21 DEF ChildSetup, Dies, Exited, NoStatus
<1>22. CASE TargetExit
  BY <1>22 DEF TargetExit, Dies, Exited, NoStatus
<1>23. CASE TargetSignal
  BY <1>23 DEF TargetSignal
<1>24. CASE TargetTrapViolation
  <2>1. PICK n \in SyscallNrs : /\ tstop' = [sig |-> "SIGSYS", syscall |-> n]
                                /\ violated' = violated \cup {n}
    BY <1>24 DEF TargetTrapViolation
  <2>2. tstop' \in [sig : StopSignals, syscall : SyscallNrs \cup {0}]
    BY <2>1 DEF StopSignals
  <2>. QED
    BY <1>24, <2>1, <2>2 DEF TargetTrapViolation
<1>25. CASE TargetNotifViolation
  BY <1>25 DEF TargetNotifViolation
<1>26. CASE TargetOomKill
  BY <1>26 DEF TargetOomKill, Dies, Signaled, NoStatus
<1>27. CASE TargetDie
  BY <1>27 DEF TargetDie, Dies, Signaled, NoStatus
<1>28. CASE ObserverRecvPidfd
  BY <1>28 DEF ObserverRecvPidfd
<1>29. CASE ObserverRecvEof
  BY <1>29 DEF ObserverRecvEof
<1>30. CASE ObserverNotification
  BY <1>30 DEF ObserverNotification
<1>31. CASE ObserverHangup
  BY <1>31 DEF ObserverHangup
<1>32. CASE ObserverWrite
  BY <1>32 DEF ObserverWrite
<1>33. CASE ObserverRespond
  BY <1>33 DEF ObserverRespond, Dies, Signaled, NoStatus
<1>34. CASE Tick
  BY <1>34 DEF Tick
<1>35. CASE UNCHANGED vars
  BY <1>35 DEF vars
<1>. QED
  BY <1>1, <1>2, <1>3, <1>4, <1>6, <1>7, <1>8, <1>9, <1>10, <1>11, <1>12,
     <1>13, <1>14, <1>15, <1>16, <1>17, <1>18, <1>19, <1>20, <1>21, <1>22,
     <1>23, <1>24, <1>25, <1>26, <1>27, <1>28, <1>29, <1>30, <1>31, <1>32,
     <1>33, <1>34, <1>35
  DEF Next, MetaInitStep, TargetStep, ObserverStep

(* Every step keeps TypeInv.                                              *)
LEMMA TypeInvNextFull == TypeInv /\ [Next]_vars => TypeInv'
<1> SUFFICES ASSUME TypeInv, [Next]_vars PROVE TypeInv'
  OBVIOUS
<1>1. BoolTypeOK /\ DataInv
  BY TypeInvSplit
<1>2. BoolTypeOK' /\ DataInv'
  BY <1>1, BoolTypeNext, DataInvNext
<1>. QED
  BY <1>2, Zenon DEF TypeInv, TypeOK, BoolTypeOK, DataInv, NormTs

(* Type correctness of the meta-init model: every reachable state gives    *)
(* each variable of MetaInit (the payload flags, the timespecs t0, t and   *)
(* deadline, the recorded exit cause, the channel and the target) a value  *)
(* of its type; the deadline's tv_nsec may reach one second (line 267).    *)
THEOREM TypeCorrect == Spec => []TypeOK
<1>1. Init => TypeInv
  BY TypeInvInit
<1>2. TypeInv /\ [Next]_vars => TypeInv'
  BY TypeInvNextFull
<1>3. TypeInv => TypeOK
  BY DEF TypeInv
<1>. QED
  BY <1>1, <1>2, <1>3, PTL DEF Spec

-----------------------------------------------------------------------------
(* The status verdict of the code's if/else chain (lines 674-676) reports  *)
(* init_exitstatus, an exit status, and its code.                          *)
LEMMA VerdictStatus ==
  ASSUME init_exitstatus \in InitStatuses
  PROVE  Verdict.kind = "status" => init_exitstatus = Exited(Verdict.code)
<1>1. Verdict.kind = "status" =>
        /\ init_exitstatus.kind = "exited"
        /\ Verdict.code = init_exitstatus.code
  BY DEF Verdict, NoVerdict
<1>2. \A st \in InitStatuses : st.kind = "exited" => st = Exited(st.code)
  BY DEF InitStatuses, Exited, Signaled, Stopped
<1>. QED
  BY <1>1, <1>2

(* Every step keeps VerdictCore, given the types.                          *)
LEMMA VerdictCoreNext == TypeInv /\ VerdictCore /\ [Next]_vars => VerdictCore'
<1> SUFFICES ASSUME TypeInv, VerdictCore, [Next]_vars PROVE VerdictCore'
  OBVIOUS
<1>. USE DEF TypeInv, TypeOK, VerdictCore, cfgVars, timeVars, initVars,
             chanVars, tgtVars
<1>1. CASE CgroupSetup
  BY <1>1 DEF CgroupSetup
<1>2. CASE Fork
  BY <1>2 DEF Fork
<1>3. CASE PidfdSend
  BY <1>3 DEF PidfdSend
<1>4. CASE WaitCall
  BY <1>4 DEF WaitCall
<1>5. CASE WaitInvalid
  BY <1>5 DEF WaitInvalid, LeaveLoop, Killed
<1>6. CASE WaitSignal
  BY <1>6 DEF WaitSignal
<1>7. CASE WaitTimeout
  BY <1>7 DEF WaitTimeout, LeaveLoop, Killed
<1>8. CASE DrainSigsysStop
  BY <1>8 DEF DrainSigsysStop
<1>9. CASE DrainRlimitStop
  BY <1>9 DEF DrainRlimitStop
<1>10. CASE DrainOtherStop
  BY <1>10 DEF DrainOtherStop, Dies
<1>11. CASE DrainExit
  BY <1>11 DEF DrainExit
<1>12. CASE DrainEmpty
  BY <1>12 DEF DrainEmpty, LeaveLoop, Killed
<1>13. CASE SweepReap
  BY <1>13 DEF SweepReap
<1>14. CASE SweepStop
  BY <1>14 DEF SweepStop
<1>15. CASE SweepDone
  BY <1>15 DEF SweepDone
<1>16. CASE ReceiveData
  BY <1>16 DEF ReceiveData
<1>17. CASE ReceiveEof
  BY <1>17 DEF ReceiveEof
<1>18. CASE ReceiveTimeout
  BY <1>18 DEF ReceiveTimeout
<1>19. CASE Emit
  <2>1. Verdict.kind = "status" => init_exitstatus = Exited(Verdict.code)
    BY VerdictStatus
  <2>. QED
    BY <1>19, <2>1 DEF Emit
<1>20. CASE ChildSetup
  BY <1>20 DEF ChildSetup, Dies
<1>21. CASE TargetExit
  BY <1>21 DEF TargetExit, Dies
<1>22. CASE TargetSignal
  BY <1>22 DEF TargetSignal
<1>23. CASE TargetTrapViolation
  BY <1>23 DEF TargetTrapViolation
<1>24. CASE TargetNotifViolation
  BY <1>24 DEF TargetNotifViolation
<1>25. CASE TargetOomKill
  BY <1>25 DEF TargetOomKill, Dies
<1>26. CASE TargetDie
  BY <1>26 DEF TargetDie, Dies
<1>27. CASE ObserverRecvPidfd
  BY <1>27 DEF ObserverRecvPidfd
<1>28. CASE ObserverRecvEof
  BY <1>28 DEF ObserverRecvEof
<1>29. CASE ObserverNotification
  BY <1>29 DEF ObserverNotification
<1>30. CASE ObserverHangup
  BY <1>30 DEF ObserverHangup
<1>31. CASE ObserverWrite
  BY <1>31 DEF ObserverWrite
<1>32. CASE ObserverRespond
  BY <1>32 DEF ObserverRespond, Dies
<1>33. CASE Tick
  BY <1>33 DEF Tick
<1>34. CASE UNCHANGED vars
  BY <1>34 DEF vars
<1>. QED
  BY <1>1, <1>2, <1>3, <1>4, <1>5, <1>6, <1>7, <1>8, <1>9, <1>10, <1>11,
     <1>12, <1>13, <1>14, <1>15, <1>16, <1>17, <1>18, <1>19, <1>20, <1>21,
     <1>22, <1>23, <1>24, <1>25, <1>26, <1>27, <1>28, <1>29, <1>30, <1>31,
     <1>32, <1>33, <1>34
  DEF Next, MetaInitStep, TargetStep, ObserverStep

(* Spec 8.4 and the verdict block (lines 658-677): a status:<code> line is *)
(* only written for a target that exited by itself with that code.  A      *)
(* target killed by meta-init's kill after a deadline or an early exit     *)
(* from the supervise loop is never reported as exited, although           *)
(* init_exitstatus starts as the "exited 0" status 0: the status is only   *)
(* read once the target is reaped, by the drain loop or by the sweep.      *)
THEOREM StatusVerdictCorrect == Spec => []StatusVerdictSound
<1>1. Init => VerdictInv
  <2> SUFFICES ASSUME Init PROVE VerdictInv
    OBVIOUS
  <2>1. TypeInv
    BY TypeInvInit
  <2>2. VerdictCore
    BY DEF Init, VerdictCore, NoMeta, NoVerdict
  <2>. QED
    BY <2>1, <2>2 DEF VerdictInv
<1>2. VerdictInv /\ [Next]_vars => VerdictInv'
  <2> SUFFICES ASSUME VerdictInv, [Next]_vars PROVE VerdictInv'
    OBVIOUS
  <2>1. TypeInv'
    BY TypeInvNextFull DEF VerdictInv
  <2>2. VerdictCore'
    BY VerdictCoreNext DEF VerdictInv
  <2>. QED
    BY <2>1, <2>2 DEF VerdictInv
<1>3. VerdictInv => StatusVerdictSound
  BY DEF VerdictInv, VerdictCore, StatusVerdictSound
<1>. QED
  BY <1>1, <1>2, <1>3, PTL DEF Spec

=============================================================================
