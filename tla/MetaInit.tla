------------------------------- MODULE MetaInit -------------------------------
(***************************************************************************)
(* The in-container init of src/main.cpp (MetaInit, lines 344-681) with    *)
(* the two processes it races against: the target it forks (an            *)
(* environment process: it may exit, be stopped by a signal, violate the   *)
(* seccomp policy or run forever) and the SIGSYS observer thread of the    *)
(* supervisor, which reports a syscall number over the socket at fd 5     *)
(* (main lines 1003-1012; its body is not under src/ and follows the spec, *)
(* section 4.6).  pc is meta-init's control point; each meta-init action   *)
(* is one step of the hook between two points where the other processes   *)
(* can act.                                                                *)
(***************************************************************************)
EXTENDS Integers, Timespec

CONSTANTS
  DisableSandboxingValues, \* payload->disable_sandboxing values explored
  Timeout,             \* payload->timeout, the wall-time limit
  StartClocks,         \* CLOCK_REALTIME values (ns) when meta-init starts
  MaxClock,            \* bound on the clock
  ExitCodes,           \* codes the target may exit with
  SyscallNrs,          \* syscalls the seccomp policy denies
  RssKiB,              \* ru_maxrss values (KiB) the target may reach
  MemoryLimitInBytes,  \* payload->memory_limit_in_bytes (-1: none)
  VmMemorySizeInBytes  \* payload->vm_memory_size_in_bytes

ASSUME ConstantsAssumption ==
  /\ DisableSandboxingValues \subseteq BOOLEAN /\ DisableSandboxingValues # {}
  /\ Timeout \in [tv_sec : Nat, tv_nsec : 0 .. NsPerSec - 1]
  /\ StartClocks \subseteq Nat /\ StartClocks # {}
  /\ MaxClock \in Nat
  /\ \A c \in StartClocks : c + TimespecValue(Timeout) <= MaxClock
  /\ ExitCodes \subseteq Nat /\ (ExitCodes \ {0}) # {}
  /\ SyscallNrs \subseteq Nat
  /\ RssKiB \subseteq Nat /\ RssKiB # {}
  /\ MemoryLimitInBytes \in Int /\ MemoryLimitInBytes >= -1
  /\ VmMemorySizeInBytes \in Nat

NoSyscall == -1           \* init_exitsyscall == -1
NoSignal  == "none"       \* init_exitsignal == -1
RlimitSignals == {"SIGXCPU", "SIGXFSZ"}
(* Signals that put the traced target in a signal-delivery stop.          *)
StopSignals == {"SIGSYS", "SIGXCPU", "SIGXFSZ", "SIGSTOP", "SIGTRAP", "SIGSEGV"}
Signals == StopSignals \cup {"SIGKILL"}

(* wait(2) statuses; Exited(0) is also the value status 0 that           *)
(* init_exitstatus starts with.                                          *)
Exited(c)   == [kind |-> "exited",   code |-> c, sig |-> NoSignal]
Signaled(s) == [kind |-> "signaled", code |-> 0, sig |-> s]
Stopped(s)  == [kind |-> "stopped",  code |-> 0, sig |-> s]
NoStatus    == [kind |-> "none",     code |-> 0, sig |-> NoSignal]

NoVerdict == [kind |-> "none", nr |-> NoSyscall, sig |-> NoSignal, code |-> 0]
NoMeta    == [verdict |-> NoVerdict, mem |-> -1]

VARIABLES
  disable_sandboxing, \* payload->disable_sandboxing
  cgroupV2,           \* IsCgroupV2()
  hasCgroupPath,      \* !payload->cgroup_path.empty()
  memoryCgroup,       \* memory_cgroup != nullptr
  pc,                 \* meta-init's control point
  clock,              \* CLOCK_REALTIME in ns
  t0, t, deadline,    \* the timespecs of MetaInit
  waitUntil,          \* clock value at which the pending sigtimedwait expires
  sigchld,            \* SIGCHLD pending (blocked in meta-init)
  init_exitsyscall, init_exitsignal, init_exitstatus,
  init_usage,         \* init_usage.ru_maxrss
  init_exited,
  sockValid,          \* meta-init's sigsys_socket_fd is open
  pidfdSent,          \* "pending", then "sent" or "none" after SHUT_WR
  sockData,           \* syscall number written by the observer, unread
  obsClosed,          \* the observer closed its end of the socket
  obs, obsNr,         \* the observer thread's state and the number it read
  tgt,                \* the target (child_pid)
  tstop,              \* [sig, syscall] of the target's pending stop
  notifNr,            \* syscall parked in a seccomp user notification
  tstatus, trss,      \* the target's termination status and max RSS
  failcnt,            \* memory.failcnt of the v1 memory cgroup
  violated,           \* history: syscalls the target was denied
  meta                \* the record written to the meta fd

cfgVars  == <<disable_sandboxing, cgroupV2, hasCgroupPath, memoryCgroup>>
timeVars == <<clock, t0, t, deadline, waitUntil>>
initVars == <<init_exitsyscall, init_exitsignal, init_exitstatus, init_usage,
              init_exited>>
chanVars == <<sockValid, pidfdSent, sockData, obsClosed, obs, obsNr>>
tgtVars  == <<tgt, tstop, notifNr, tstatus, trss, failcnt, violated, sigchld>>
vars == <<cfgVars, pc, timeVars, initVars, chanVars, tgtVars, meta>>

Init ==
  /\ disable_sandboxing \in DisableSandboxingValues
  /\ cgroupV2 \in BOOLEAN
  /\ hasCgroupPath \in BOOLEAN
  /\ memoryCgroup = FALSE
  /\ pc = "setup"
  /\ clock \in StartClocks
  /\ t0 = Ts(0, 0) /\ t = Ts(0, 0) /\ deadline = Ts(0, 0)
  /\ waitUntil = 0
  /\ sigchld = FALSE
  /\ init_exitsyscall = NoSyscall
  /\ init_exitsignal = NoSignal
  /\ init_exitstatus = Exited(0)
  /\ init_usage = 0
  /\ init_exited = FALSE
  /\ sockValid = TRUE
  /\ pidfdSent = "pending"
  /\ sockData = NoSyscall
  /\ obsClosed = FALSE
  /\ obs = "recv"
  /\ obsNr = NoSyscall
  /\ tgt = "none"
  /\ tstop = [sig |-> "SIGSTOP", syscall |-> 0]
  /\ notifNr = NoSyscall
  /\ tstatus = NoStatus
  /\ trss = 0
  /\ failcnt = 0
  /\ violated = {}
  /\ meta = NoMeta

-----------------------------------------------------------------------------
(* The target's death with status st: it becomes a zombie, SIGCHLD is     *)
(* raised, and the kernel fixes its max RSS and the cgroup's failcnt.      *)
Dies(st) ==
  /\ tgt' = "zombie"
  /\ tstatus' = st
  /\ sigchld' = TRUE
  /\ trss' \in RssKiB
  /\ failcnt' \in IF memoryCgroup THEN {0, 1} ELSE {0}

(* Mutant: the terminal kill reaches nobody.                              *)
KilledNone(s) == s

(* kill(disable_sandboxing ? -child_pid : -1, SIGKILL): -1 reaches every  *)
(* process of the pid namespace; -child_pid only reaches the target once  *)
(* its setsid() has made it a process-group leader.                       *)
Killed(s) ==
  IF \/ s \in {"running", "stopped", "parked"}
     \/ s = "setup" /\ ~disable_sandboxing
  THEN "killed" ELSE s

(* Lines 603-608: leave the supervise loop with the clock read as now.    *)
LeaveLoop(now) ==
  /\ t' = now
  /\ init_exitsignal' = IF TimespecCmp(now, deadline) >= 0
                          THEN "SIGXCPU" ELSE init_exitsignal
  /\ tgt' = Killed(tgt)
  /\ pc' = "sweep"

-----------------------------------------------------------------------------
(* Meta-init.                                                             *)

(* Lines 347-411: create the cgroups and write the memory limit.  The v1  *)
(* memory cgroup is created whenever there is no unified one, so on a v2  *)
(* host without a cgroup path it fails.  Any step may fail (return        *)
(* -errno), and then there is no meta record.                             *)
CgroupSetup ==
  /\ pc = "setup"
  /\ LET unified == cgroupV2 /\ hasCgroupPath
         mem     == ~disable_sandboxing /\ MemoryLimitInBytes >= 0 /\ ~unified
     IN  /\ memoryCgroup' = mem
         /\ \/ ~(mem /\ cgroupV2) /\ pc' = "fork"
            \/ pc' = "failed"
  /\ UNCHANGED <<disable_sandboxing, cgroupV2, hasCgroupPath, timeVars,
                 initVars, chanVars, tgtVars, meta>>

(* Lines 413-437: block SIGCHLD, take t0, deadline = t0 + timeout, fork.   *)
Fork ==
  /\ pc = "fork"
  /\ t0' = ClockRead(clock)
  /\ deadline' = TimespecAdd(ClockRead(clock), Timeout)
  /\ \/ tgt' = "setup" /\ pc' = "pidfd"
     \/ pc' = "failed" /\ UNCHANGED tgt          \* fork() < 0: _exit
  /\ UNCHANGED <<cfgVars, clock, t, waitUntil, initVars, chanVars, meta,
                 tstop, notifNr, tstatus, trss, failcnt, violated, sigchld>>

(* Lines 518-541: send the pidfd to the observer, SHUT_WR, enter the      *)
(* second jail, t = t0.                                                   *)
PidfdSend ==
  /\ pc = "pidfd"
  /\ \/ pidfdSent' = "sent" /\ UNCHANGED sockValid   \* pidfd sent
     \/ pidfdSent' = "none" /\ UNCHANGED sockValid   \* pidfd_open failed
     \/ pidfdSent' = "none" /\ sockValid' = FALSE    \* SendFD failed: reset
  /\ t' = t0
  /\ pc' = "wait_call"
  /\ UNCHANGED <<cfgVars, clock, t0, deadline, waitUntil, initVars, sockData,
                 obsClosed, obs, obsNr, tgtVars, meta>>

(* Lines 545-547: timeout = deadline - t; sigtimedwait starts waiting.    *)
WaitCall ==
  /\ pc = "wait_call"
  /\ ValidTimeout(TimespecSub(deadline, t))
  /\ LET until == clock + TimespecValue(TimespecSub(deadline, t))
     IN  waitUntil' = IF until < MaxClock THEN until ELSE MaxClock
  /\ pc' = "waiting"
  /\ UNCHANGED <<cfgVars, clock, t0, t, deadline, initVars, chanVars,
                 tgtVars, meta>>

(* Lines 547-549: sigtimedwait fails with EINVAL on a timeout whose       *)
(* tv_nsec is not below one second, and the loop is left.                  *)
WaitInvalid ==
  /\ pc = "wait_call"
  /\ ~ValidTimeout(TimespecSub(deadline, t))
  /\ LeaveLoop(ClockRead(clock))
  /\ UNCHANGED <<cfgVars, clock, t0, deadline, waitUntil, init_exitsyscall,
                 init_exitstatus, init_usage, init_exited, chanVars, tstop,
                 notifNr, tstatus, trss, failcnt, violated, sigchld, meta>>

(* Line 547: sigtimedwait returns the pending SIGCHLD.                    *)
WaitSignal ==
  /\ pc = "waiting"
  /\ sigchld
  /\ sigchld' = FALSE
  /\ pc' = "drain"
  /\ UNCHANGED <<cfgVars, timeVars, initVars, chanVars, tgt, tstop, notifNr,
                 tstatus, trss, failcnt, violated, meta>>

(* Lines 547-549: sigtimedwait times out (EAGAIN); the loop is left.       *)
WaitTimeout ==
  /\ pc = "waiting"
  /\ ~sigchld
  /\ clock >= waitUntil
  /\ LeaveLoop(ClockRead(clock))
  /\ UNCHANGED <<cfgVars, clock, t0, deadline, waitUntil, init_exitsyscall,
                 init_exitstatus, init_usage, init_exited, chanVars, tstop,
                 notifNr, tstatus, trss, failcnt, violated, sigchld, meta>>

(* Lines 552-569: wait3 reports a SIGSYS stop: record si_syscall, kill.   *)
DrainSigsysStop ==
  /\ pc = "drain"
  /\ tgt = "stopped"
  /\ tstop.sig = "SIGSYS"
  /\ init_exitsyscall' = tstop.syscall
  /\ tgt' = "killed"
  /\ UNCHANGED <<cfgVars, pc, timeVars, init_exitsignal, init_exitstatus,
                 init_usage, init_exited, chanVars, tstop, notifNr, tstatus,
                 trss, failcnt, violated, sigchld, meta>>

(* Lines 571-577: a SIGXCPU or SIGXFSZ stop is recorded, the target killed.*)
DrainRlimitStop ==
  /\ pc = "drain"
  /\ tgt = "stopped"
  /\ tstop.sig \in RlimitSignals
  /\ init_exitsignal' = tstop.sig
  /\ tgt' = "killed"
  /\ UNCHANGED <<cfgVars, pc, timeVars, init_exitsyscall, init_exitstatus,
                 init_usage, init_exited, chanVars, tstop, notifNr, tstatus,
                 trss, failcnt, violated, sigchld, meta>>

(* Lines 579-592: PTRACE_CONT, swallowing SIGSTOP and SIGTRAP and         *)
(* delivering any other signal, which the target handles or dies of.      *)
DrainOtherStop ==
  /\ pc = "drain"
  /\ tgt = "stopped"
  /\ tstop.sig \notin {"SIGSYS"} \cup RlimitSignals
  /\ \/ tgt' = "running" /\ UNCHANGED <<tstatus, trss, failcnt, sigchld>>
     \/ tstop.sig \notin {"SIGSTOP", "SIGTRAP"} /\ Dies(Signaled(tstop.sig))
  /\ UNCHANGED <<cfgVars, pc, timeVars, initVars, chanVars, tstop, notifNr,
                 violated, meta>>

(* Lines 596-600: wait3 reaps the target.                                 *)
DrainExit ==
  /\ pc = "drain"
  /\ tgt = "zombie"
  /\ init_exitstatus' = tstatus
  /\ init_usage' = trss
  /\ init_exited' = TRUE
  /\ tgt' = "reaped"
  /\ UNCHANGED <<cfgVars, pc, timeVars, init_exitsyscall, init_exitsignal,
                 chanVars, tstop, notifNr, tstatus, trss, failcnt, violated,
                 sigchld, meta>>

(* Lines 552, 602-603: wait3 returns 0; read the clock and either go      *)
(* round the loop again or leave it.                                      *)
DrainEmpty ==
  /\ pc = "drain"
  /\ tgt \notin {"stopped", "zombie"}
  /\ LET now == ClockRead(clock) IN
       \/ /\ ~init_exited /\ TimespecCmp(now, deadline) < 0
          /\ t' = now /\ pc' = "wait_call"
          /\ UNCHANGED <<init_exitsignal, tgt>>
       \/ /\ init_exited \/ TimespecCmp(now, deadline) >= 0
          /\ LeaveLoop(now)
  /\ UNCHANGED <<cfgVars, clock, t0, deadline, waitUntil, init_exitsyscall,
                 init_exitstatus, init_usage, init_exited, chanVars, tstop,
                 notifNr, tstatus, trss, failcnt, violated, sigchld, meta>>

(* Mutant: the sweep never captures the status of the target.            *)
SweepReapNoCapture ==
  /\ pc = "sweep"
  /\ tgt = "zombie"
  /\ tgt' = "reaped"
  /\ UNCHANGED <<cfgVars, pc, timeVars, initVars, chanVars, tstop, notifNr,
                 tstatus, trss, failcnt, violated, sigchld, meta>>

(* Lines 609-615: the blocking wait3 reaps the target, capturing its      *)
(* status if the loop had not.                                            *)
SweepReap ==
  /\ pc = "sweep"
  /\ tgt = "zombie"
  /\ tgt' = "reaped"
  /\ IF init_exited
       THEN UNCHANGED <<init_exitstatus, init_usage, init_exited>>
       ELSE /\ init_exitstatus' = tstatus /\ init_usage' = trss
            /\ init_exited' = TRUE
  /\ UNCHANGED <<cfgVars, pc, timeVars, init_exitsyscall, init_exitsignal,
                 chanVars, tstop, notifNr, tstatus, trss, failcnt, violated,
                 sigchld, meta>>

(* Lines 609-615: the blocking wait3 (no __WALL, but the target is        *)
(* traced) reports a stop of a target the kill missed; nobody continues   *)
(* it, so it stays stopped ("held").                                      *)
SweepStop ==
  /\ pc = "sweep"
  /\ tgt = "stopped"
  /\ tgt' = "held"
  /\ IF init_exited
       THEN UNCHANGED <<init_exitstatus, init_exited>>
       ELSE init_exitstatus' = Stopped(tstop.sig) /\ init_exited' = TRUE
  /\ UNCHANGED <<cfgVars, pc, timeVars, init_exitsyscall, init_exitsignal,
                 init_usage, chanVars, tstop, notifNr, tstatus, trss, failcnt,
                 violated, sigchld, meta>>

(* Mutant: the observer socket is never drained.                        *)
SweepDoneNoDrain ==
  /\ pc = "sweep"
  /\ tgt = "reaped"
  /\ pc' = "emit"
  /\ UNCHANGED <<cfgVars, timeVars, initVars, chanVars, tgtVars, meta>>

(* Lines 609, 617-620: wait3 fails with ECHILD; drain the observer if the *)
(* socket is still open.                                                  *)
SweepDone ==
  /\ pc = "sweep"
  /\ tgt = "reaped"
  /\ pc' = IF sockValid THEN "drain_obs" ELSE "emit"
  /\ UNCHANGED <<cfgVars, timeVars, initVars, chanVars, tgtVars, meta>>

(* Lines 296-342, 620-626: ReceiveExitSyscall.  A ready socket is read at *)
(* once: a number, or EOF once the observer closed it.  Otherwise         *)
(* epoll_wait gives up after one second.                                  *)
ReceiveData ==
  /\ pc = "drain_obs"
  /\ sockData # NoSyscall
  /\ init_exitsyscall' = sockData
  /\ sockData' = NoSyscall
  /\ pc' = "emit"
  /\ UNCHANGED <<cfgVars, timeVars, init_exitsignal, init_exitstatus,
                 init_usage, init_exited, sockValid, pidfdSent, obsClosed, obs,
                 obsNr, tgtVars, meta>>

ReceiveEof ==
  /\ pc = "drain_obs"
  /\ sockData = NoSyscall
  /\ obsClosed
  /\ pc' = "emit"
  /\ UNCHANGED <<cfgVars, timeVars, initVars, chanVars, tgtVars, meta>>

ReceiveTimeout ==
  /\ pc = "drain_obs"
  /\ sockData = NoSyscall
  /\ ~obsClosed
  /\ pc' = "emit"
  /\ UNCHANGED <<cfgVars, timeVars, initVars, chanVars, tgtVars, meta>>

(* Lines 628-649: the reported memory; a v1 failcnt > 0 replaces          *)
(* ru_maxrss by the limit in bytes, which is then multiplied by 1024.     *)
MaxRss ==
  LET rss   == IF memoryCgroup /\ failcnt > 0 THEN MemoryLimitInBytes
               ELSE init_usage
      bytes == rss * 1024
  IN  IF bytes >= VmMemorySizeInBytes THEN bytes - VmMemorySizeInBytes ELSE 0

(* Lines 658-677: the verdict block.                                      *)
Verdict ==
  IF init_exitsyscall # NoSyscall
    THEN [NoVerdict EXCEPT !.kind = "syscall", !.nr = init_exitsyscall]
  ELSE IF init_exitstatus.kind = "signaled" \/ init_exitsignal # NoSignal
    THEN [NoVerdict EXCEPT !.kind = "signal",
            !.sig = IF init_exitsignal = NoSignal THEN init_exitstatus.sig
                    ELSE init_exitsignal]
  ELSE IF init_exitstatus.kind = "exited"
    THEN [NoVerdict EXCEPT !.kind = "status", !.code = init_exitstatus.code]
  ELSE NoVerdict

(* Lines 628-680: reconcile, write the meta record and _exit.             *)
Emit ==
  /\ pc = "emit"
  /\ meta' = [verdict |-> Verdict, mem |-> MaxRss]
  /\ pc' = "done"
  /\ UNCHANGED <<cfgVars, timeVars, initVars, chanVars, tgtVars>>

-----------------------------------------------------------------------------
(* The target (environment).                                              *)

(* Lines 439-512: the child's part of the hook: setsid, cgroup admission  *)
(* and sealing, signal mask, closing fds 4 and 5, rlimits; then minijail  *)
(* execs the target.  A failing step makes the child exit non-zero.       *)
ChildSetup ==
  /\ tgt = "setup"
  /\ \/ tgt' = "running" /\ UNCHANGED <<tstatus, trss, failcnt, sigchld>>
     \/ \E c \in ExitCodes \ {0} : Dies(Exited(c))
  /\ UNCHANGED <<cfgVars, pc, timeVars, initVars, chanVars, tstop, notifNr,
                 violated, meta>>

TargetExit ==
  /\ tgt = "running"
  /\ \E c \in ExitCodes : Dies(Exited(c))
  /\ UNCHANGED <<cfgVars, pc, timeVars, initVars, chanVars, tstop, notifNr,
                 violated, meta>>

(* A signal reaches the target (rlimit, fault, or sent by the target      *)
(* itself); being traced, it enters a signal-delivery stop.  A SIGSYS     *)
(* sent with kill(2) carries no syscall: si_syscall reads as 0.           *)
TargetSignal ==
  /\ tgt = "running"
  /\ \E s \in StopSignals : tstop' = [sig |-> s, syscall |-> 0]
  /\ tgt' = "stopped"
  /\ sigchld' = TRUE
  /\ UNCHANGED <<cfgVars, pc, timeVars, initVars, chanVars, notifNr, tstatus,
                 trss, failcnt, violated, meta>>

(* A denied syscall under SECCOMP_RET_TRAP: a SIGSYS stop naming it.      *)
TargetTrapViolation ==
  /\ tgt = "running"
  /\ \E n \in SyscallNrs : /\ tstop' = [sig |-> "SIGSYS", syscall |-> n]
                           /\ violated' = violated \cup {n}
  /\ tgt' = "stopped"
  /\ sigchld' = TRUE
  /\ UNCHANGED <<cfgVars, pc, timeVars, initVars, chanVars, notifNr, tstatus,
                 trss, failcnt, meta>>

(* A denied syscall under a user notification: the target is parked in    *)
(* the kernel until the observer answers.                                 *)
TargetNotifViolation ==
  /\ tgt = "running"
  /\ \E n \in SyscallNrs : /\ notifNr' = n
                           /\ violated' = violated \cup {n}
  /\ tgt' = "parked"
  /\ UNCHANGED <<cfgVars, pc, timeVars, initVars, chanVars, tstop, tstatus,
                 trss, failcnt, sigchld, meta>>

(* The kernel kills the target (cgroup OOM killer).                       *)
TargetOomKill ==
  /\ tgt = "running"
  /\ Dies(Signaled("SIGKILL"))
  /\ UNCHANGED <<cfgVars, pc, timeVars, initVars, chanVars, tstop, notifNr,
                 violated, meta>>

(* A SIGKILL sent by meta-init takes effect.                              *)
TargetDie ==
  /\ tgt = "killed"
  /\ Dies(Signaled("SIGKILL"))
  /\ UNCHANGED <<cfgVars, pc, timeVars, initVars, chanVars, tstop, notifNr,
                 violated, meta>>

-----------------------------------------------------------------------------
(* The SIGSYS observer thread (spec 4.6; main lines 1003-1012).           *)

ObserverRecvPidfd ==
  /\ obs = "recv"
  /\ pidfdSent = "sent"
  /\ obs' = "poll"
  /\ UNCHANGED <<cfgVars, pc, timeVars, initVars, sockValid, pidfdSent,
                 sockData, obsClosed, obsNr, tgtVars, meta>>

(* EOF instead of a pidfd: meta-init shut the socket without one, or      *)
(* died before sending it.                                                *)
ObserverRecvEof ==
  /\ obs = "recv"
  /\ pidfdSent = "none" \/ pc = "failed"
  /\ obs' = "done"
  /\ obsClosed' = TRUE
  /\ UNCHANGED <<cfgVars, pc, timeVars, initVars, sockValid, pidfdSent,
                 sockData, obsNr, tgtVars, meta>>

ObserverNotification ==
  /\ obs = "poll"
  /\ tgt = "parked"
  /\ obs' = "got"
  /\ obsNr' = notifNr
  /\ UNCHANGED <<cfgVars, pc, timeVars, initVars, sockValid, pidfdSent,
                 sockData, obsClosed, tgtVars, meta>>

(* The notification fd hangs up once the target is dead.                  *)
ObserverHangup ==
  /\ obs = "poll"
  /\ tgt \in {"zombie", "reaped"}
  /\ obs' = "done"
  /\ obsClosed' = TRUE
  /\ UNCHANGED <<cfgVars, pc, timeVars, initVars, sockValid, pidfdSent,
                 sockData, obsNr, tgtVars, meta>>

ObserverWrite ==
  /\ obs = "got"
  /\ sockData' = obsNr
  /\ obs' = "wrote"
  /\ UNCHANGED <<cfgVars, pc, timeVars, initVars, sockValid, pidfdSent,
                 obsClosed, obsNr, tgtVars, meta>>

(* Respond with the policy's kill, close the socket, exit.                *)
ObserverRespond ==
  /\ obs = "wrote"
  /\ IF tgt = "parked"
       THEN Dies(Signaled("SIGSYS"))
       ELSE UNCHANGED <<tgt, tstatus, trss, failcnt, sigchld>>
  /\ obs' = "done"
  /\ obsClosed' = TRUE
  /\ UNCHANGED <<cfgVars, pc, timeVars, initVars, sockValid, pidfdSent,
                 sockData, obsNr, tstop, notifNr, violated, meta>>

(* The clock advances by one ns.  It starts once t0 is taken: nothing     *)
(* before the fork reads it, and StartClocks already varies t0.  Every    *)
(* deadline is then at most MaxClock, so capping waitUntil never ends a   *)
(* wait early.                                                            *)
Tick ==
  /\ pc \notin {"setup", "fork"}
  /\ clock < MaxClock
  /\ clock' = clock + 1
  /\ UNCHANGED <<cfgVars, pc, t0, t, deadline, waitUntil, initVars, chanVars,
                 tgtVars, meta>>

-----------------------------------------------------------------------------
MetaInitStep ==
  \/ CgroupSetup \/ Fork \/ PidfdSend \/ WaitCall \/ WaitInvalid
  \/ WaitSignal \/ WaitTimeout \/ DrainSigsysStop \/ DrainRlimitStop
  \/ DrainOtherStop \/ DrainExit \/ DrainEmpty \/ SweepReap \/ SweepStop
  \/ SweepDone \/ ReceiveData \/ ReceiveEof \/ ReceiveTimeout \/ Emit

TargetStep ==
  \/ ChildSetup \/ TargetExit \/ TargetSignal \/ TargetTrapViolation
  \/ TargetNotifViolation \/ TargetOomKill \/ TargetDie

ObserverStep ==
  \/ ObserverRecvPidfd \/ ObserverRecvEof \/ ObserverNotification
  \/ ObserverHangup \/ ObserverWrite \/ ObserverRespond

Next == MetaInitStep \/ TargetStep \/ ObserverStep \/ Tick

(* Meta-init, the child's setup code, the kernel's delivery of SIGKILL,   *)
(* the observer thread and the clock never stop for good; the target's    *)
(* own program may run forever and gets no fairness.                      *)
Fairness ==
  /\ WF_vars(MetaInitStep)
  /\ WF_vars(ChildSetup)
  /\ WF_vars(TargetDie)
  /\ WF_vars(ObserverStep)
  /\ WF_vars(Tick)

Spec == Init /\ [][Next]_vars

FairSpec == Spec /\ Fairness

-----------------------------------------------------------------------------
(* Properties.                                                            *)

(* The wait statuses init_exitstatus may hold, and the target's own.     *)
InitStatuses ==
  {Exited(c) : c \in ExitCodes \cup {0}} \cup {Signaled(s) : s \in Signals}
    \cup {Stopped(s) : s \in StopSignals}
TargetStatuses ==
  {Exited(c) : c \in ExitCodes} \cup {Signaled(s) : s \in Signals} \cup {NoStatus}

TypeOK ==
  /\ disable_sandboxing \in BOOLEAN
  /\ cgroupV2 \in BOOLEAN
  /\ hasCgroupPath \in BOOLEAN
  /\ memoryCgroup \in BOOLEAN
  /\ pc \in {"setup", "fork", "pidfd", "wait_call", "waiting", "drain",
             "sweep", "drain_obs", "emit", "done", "failed"}
  /\ clock \in Nat
  /\ t0 \in [tv_sec : Nat, tv_nsec : 0 .. NsPerSec - 1]
  /\ t \in [tv_sec : Nat, tv_nsec : 0 .. NsPerSec - 1]
  /\ deadline \in [tv_sec : Nat, tv_nsec : 0 .. NsPerSec]
  /\ waitUntil \in Nat
  /\ sigchld \in BOOLEAN
  /\ init_exitsyscall \in SyscallNrs \cup {0, NoSyscall}
  /\ init_exitsignal \in Signals \cup {NoSignal}
  /\ init_exitstatus \in InitStatuses
  /\ init_usage \in RssKiB \cup {0}
  /\ init_exited \in BOOLEAN
  /\ sockValid \in BOOLEAN
  /\ pidfdSent \in {"pending", "sent", "none"}
  /\ sockData \in SyscallNrs \cup {NoSyscall}
  /\ obsClosed \in BOOLEAN
  /\ obs \in {"recv", "poll", "got", "wrote", "done"}
  /\ obsNr \in SyscallNrs \cup {NoSyscall}
  /\ tgt \in {"none", "setup", "running", "stopped", "parked", "killed",
              "zombie", "reaped", "held"}
  /\ tstop \in [sig : StopSignals, syscall : SyscallNrs \cup {0}]
  /\ notifNr \in SyscallNrs \cup {NoSyscall}
  /\ tstatus \in TargetStatuses
  /\ trss \in RssKiB \cup {0}
  /\ failcnt \in {0, 1}
  /\ violated \subseteq SyscallNrs
  /\ meta.mem \in Int

(* Spec 4.6 and 8.4: a target that the seccomp policy killed through the  *)
(* observer's response is reported with the syscall it was killed for    *)
(* (signal:SIGSYS followed by its syscall line).  It rests on the         *)
(* observer writing the number before it responds and on                  *)
(* ReceiveExitSyscall reading a socket that is already readable.          *)
SeccompKillReported ==
  (pc = "done" /\ tstatus = Signaled("SIGSYS"))
    => meta.verdict = [NoVerdict EXCEPT !.kind = "syscall", !.nr = obsNr]

(* A status:<code> verdict is only written for a target that exited by    *)
(* itself with that code: a target meta-init killed (after a deadline or *)
(* an early exit from the supervise loop) is never reported as a normal   *)
(* exit, although init_exitstatus starts as the "exited 0" status 0.      *)
StatusVerdictSound ==
  meta.verdict.kind = "status" => tstatus = Exited(meta.verdict.code)

(* Spec 7: meta-init always reaches the meta emission (or fails during    *)
(* setup), here provided the target eventually stops raising signals.    *)
QuietTargetTermination ==
  <>[][~TargetSignal]_vars => <>(pc \in {"done", "failed"})

(* The same in the sandboxed mode, where the final kill(-1) reaches the   *)
(* target whatever it has done.                                           *)
SandboxedTermination ==
  ~disable_sandboxing => QuietTargetTermination

(* Spec 4.5 loop: the supervise loop ends only when the target has        *)
(* terminated or the deadline has passed; meta-init never kills a target  *)
(* that is still within its time.                                         *)
NoPrematureKill ==
  [][ (pc # "sweep" /\ pc' = "sweep" /\ tgt \in {"setup", "running"})
        => clock >= TimespecValue(deadline) ]_vars

(* Spec 4.5 step 5: each sigtimedwait waits for deadline - now, so no     *)
(* wait of the supervise loop runs past the deadline.  The first timeout  *)
(* is computed from t = t0 (line 541), read before the fork, the pidfd    *)
(* send and the second minijail_enter.                                    *)
WaitEndsByDeadline ==
  [][ (pc = "wait_call" /\ pc' = "waiting")
        => waitUntil' <= TimespecValue(deadline) ]_vars

-----------------------------------------------------------------------------
(* Refinement.  Meta-init, the target and the observer together implement *)
(* the Outcome specification of one invocation: setup up to the fork is   *)
(* Outcome's setup, the fork starts supervision, the target's own death   *)
(* is its termination, and Emit (lines 628-680) is the report.  Every     *)
(* other step hides.                                                      *)
Phase ==
  IF pc \in {"setup", "fork"} THEN "setup"
  ELSE IF pc = "failed" THEN "failed"
  ELSE IF pc = "done" THEN "reported"
  ELSE "supervise"

Abs == INSTANCE Outcome WITH phase <- Phase, fate <- tstatus,
                             report <- meta.verdict, Codes <- ExitCodes,
                             Sigs <- Signals, Nrs <- SyscallNrs \cup {0}

(* Spec 3, 4.5 and 7: meta-init writes the meta record once, only after   *)
(* the target has terminated, with exactly one verdict block; the verdict *)
(* is status:<code> only for a target that exited with that code, and a  *)
(* syscall verdict for a target killed by SIGSYS.                         *)
OutcomeRefined == Abs!Spec

=============================================================================
