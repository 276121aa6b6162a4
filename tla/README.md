# TLA+ models of the omegajail supervisor (src/main.cpp)

This directory holds TLA+ models of `src/main.cpp`, with TLC runs that check
them on small instances and TLAPS proofs that hold for every value of the
constants.

## The system and its parts

`src/main.cpp` (1015 lines) has these parts.

| id | part | code | status |
|----|------|------|--------|
| C1 | primitive jail library (minijail): namespaces, mounts, seccomp, hook registration | external, not under src/ | not modelled |
| C2 | cgroup manager: per-script and per-invocation cgroups, memory limit, admission, teardown, failcnt | main.cpp 347-411, 449-490, 628-649, 864-907 | modelled (Cgroups; MetaInit abstracts it) |
| C3 | stdio redirection: pre-open, bind mount, RedirectStdio, detach | main.cpp 151-263, 816-857 | modelled (Hooks) |
| C4 | supervisor `main`: privilege drop, jail configuration, hook order, launch, observer thread | main.cpp 685-1015 | modelled (Hooks, Cgroups, MetaInit) |
| C5 | `MetaInit`, the in-container init | main.cpp 344-681, with helpers 265-342 | modelled |
| C6 | SIGSYS observer channel: socket at fd 5, pidfd send, syscall number | main.cpp 296-342, 518-541; observer body per spec 4.6 | modelled |

These parts interact as follows. The supervisor (C4) builds the jail (C1) and
installs hooks (C2, C3). It starts a thread that listens for seccomp
user notifications (C6) and enters the container, where `MetaInit` (C5) runs
as pid 1. MetaInit works in this order:

1. It sets up cgroups.
2. It forks the target, which sets up, `setsid()`s or joins cgroups, and then
   execs.
3. It sends a pidfd of the target to the observer over the socket.
4. It supervises the target in a `sigtimedwait`/`wait3` loop under ptrace,
   until the target terminates or the wall-time deadline passes.
5. It kills whatever is left: `kill(-1)` when sandboxed, `kill(-child_pid)`
   otherwise.
6. It reaps every child in a blocking `wait3` sweep.
7. It drains the observer's syscall number, with a wait of at most 1 s.
8. It reconciles the maximum RSS with the cgroup failcnt, writes the meta
   record (verdict and memory) and `_exit`s.

Three processes run concurrently and race:

- meta-init;
- the target, which is an arbitrary program;
- the observer thread, which runs in the supervisor.

## Modules

- **Timespec.tla**: `TimespecAdd`, `TimespecSub`, `TimespecCmp` (lines
  265-293) and the `clock_gettime` reading.
  - The literal `1000000000l` is the constant `NsPerSec`. TLC uses 3, so a
    clock of a few nanoseconds reaches every carry and borrow boundary. The
    carry test is kept exactly as written (`>`).
- **MetaInit.tla**: MetaInit together with its environment.
  - `pc` is meta-init's control point, and each meta-init action is the code
    between two points where another process can act.
  - The meta-init actions map to the code as follows:

    | actions | code |
    |---------|------|
    | `CgroupSetup` | 347-411 |
    | `Fork` | 413-437 |
    | `PidfdSend` | 518-541 |
    | `WaitCall`, `WaitSignal`, `WaitTimeout`, `WaitInvalid` | the outcomes of `sigtimedwait`, 544-549 |
    | `DrainSigsysStop`, `DrainRlimitStop`, `DrainOtherStop`, `DrainExit`, `DrainEmpty` | the cases of the `wait3(WNOHANG)` loop, 552-606, ending in `LeaveLoop`, the deadline check and kill of 602-608 |
    | `SweepReap`, `SweepStop`, `SweepDone` | 609-620 |
    | `ReceiveData`, `ReceiveEof`, `ReceiveTimeout` | `ReceiveExitSyscall`, 296-342 |
    | `Emit` | `MaxRss` and `Verdict`, 628-680 |

  - The target is an environment process. It can exit, be stopped by a
    signal, be stopped by a ptrace seccomp trap, park in a user notification,
    be OOM-killed, or die of SIGKILL. It runs the child's setup code
    (`ChildSetup`, 439-513) and holds its status until it is reaped.
  - The observer is modelled from spec section 4.6, because its body is not
    under src/ (these map entries are marked `spec_modelled`). It receives
    the pidfd or EOF, takes a notification, writes the number, responds
    (which kills the target) and closes the socket.
  - `Tick` advances the clock by 1 ns once `t0` has been taken, up to
    `MaxClock`.
- **MC_MetaInit.tla**: the small instance.
  - The timeout is 1 s 2 ns, with NsPerSec = 3.
  - The start clock is 1 or 2. Starting at 1, `t0.tv_nsec + 2` is exactly
    one second, so the deadline is the unnormalized (1, 3). Starting at 2, it
    carries.
  - `MaxClock` is 7, above every deadline.
  - One exit code other than 0, one denied syscall, one RSS value, and a
    memory limit of 2048 bytes with a VM overhead of 1024 bytes.
- **Outcome.tla**: the abstract specification of one invocation, as its
  caller sees it. Setup fails, or the target is started. The target
  terminates once. Only then is one meta record written, and it never
  changes. It holds one verdict block that follows spec 3's reconciliation:
  - `status:<code>` only for a target that exited with that code;
  - a syscall verdict for a target killed by SIGSYS.

  MetaInit instantiates it as `Abs == INSTANCE Outcome WITH phase <- Phase,
  fate <- tstatus, report <- meta.verdict, ...`, and `OutcomeRefined ==
  Abs!Spec`. Under this mapping:
  - `setup`/`fork` is Outcome's setup;
  - `Fork` is `Start`;
  - the target's death (`Dies`) is `Terminate`;
  - `Emit` is `Report`;
  - every other step of meta-init, the target and the observer is a
    stutter.
- **Cgroups.tla**: the cgroup life cycle (C2), across a set of concurrent
  invocations that share the host's cgroup tree.
  - State:
    - the host (v1 or v2, write access to `/sys/fs/cgroup/omegajail`,
      whether pid 2 of the host can be moved);
    - per invocation: its arguments, its control point `pc`, and whether it
      has a cgroup path;
    - shared: whether the per-script directory exists (`scriptDir`) and
      has `+memory` (`memEnabled`);
    - the cgroups created, those with a memory limit, their members, and
      those sealed (chmod 0444).
  - Actions of `main`:
    - `MainNoPath`: no script, or no write access to the cgroup root;
    - `MainV1Path`: a v1 host;
    - `MainMkdir`: mkdir, or EEXIST;
    - `MainSubtree`: the `subtree_control` write;
    - `Crash`: the supervisor is killed between these steps.
  - Actions of meta-init:
    - `MetaCreate`: the unified or pids cgroup;
    - `MetaLimitUnified`, `MetaLimitV1`: `memory.max`, or the v1 memory
      cgroup and `memory.limit_in_bytes`;
    - `MetaNoLimit`: no memory limit.
  - Actions of the child and after:
    - `ChildAdmit`: the admission loop of lines 449-490, which writes pid 2
      into each created cgroup and seals it;
    - `Exec`;
    - `TargetStart`, `TargetEnd`;
    - `Teardown`: the resets at 641-642 and `_exit`.
  - `ScopedCgroup` is not under src/. It is modelled from spec 3 and 4.1:
    - creating one makes a directory;
    - the destructor removes it, unless the cgroup is busy or `release()`d.
- **MC_Cgroups.tla**: two invocations as symmetric model values.
- **Hooks.tla**: `main`'s construction of the jail (C4) and the stdio
  redirection (C3), with the jailed process that runs the hooks.
  - A stdio path is abstracted to what it resolves to: a file of the
    caller's (`own`) or a `protected` one. An environment action `Swap` lets
    the sudo caller re-point a path it owns with a symlink.
  - `approved` records what `main` opened with the caller's uid.
    `rootUses` records what the jail resolved with root's.
  - Actions of `main`, in code order: `SudoDrop`, `Prologue`,
    `SandboxConfig`, `InstallStdio`, `StdioDone`, `UnsandboxedConfig`,
    `ChdirReg`, `PayloadReg`, `TailReg`, `SudoRestore`, `Run`.
  - Actions of the jailed process:
    - `JailMount` and `DropCaps`: minijail's mounts and uid change
      (spec 4.3 step 5);
    - `RunHook`: runs the next PRE_DROP_CAPS hook, which is remount,
      chdir, set_rlimits, the child side of MetaInit (`MetaInitChild`) or
      `RedirectStdio`;
    - `CloseLoggingFd` and `Exec`.
- **MC_Hooks.tla**: the sets of modes `<<sudo, sandboxed>>` the Hooks runs
  take as the constant `Modes`. The passing run takes all four;
  hooks_sudo_root takes sudo with `--disable-sandboxing` only, and
  hooks_toctou sudo with the sandbox.
- **TimespecProofs.tla**, **MetaInitProofs.tla**, **MetaInitRefinement.tla**,
  **HooksProofs.tla**, **CgroupsProofs.tla**: the TLAPS proofs. Each one
  EXTENDS the module it proves things about.

## Runs

Deadlock checking is off in all runs, because every modelled process really
stops:
- meta-init `_exit`s at `done`, or returns at `failed`;
- an invocation of Cgroups ends at `done`, `failed` or `crashed`;
- in Hooks, `main` ends at `launched` or `failed`, and the jail at `running`
  or `dead`.

| run | expect | what it shows |
|-----|--------|---------------|
| metainit | pass | `TypeOK`, `SeccompKillReported`, `StatusVerdictSound`, `SandboxedTermination` under fairness, and `OutcomeRefined` (MetaInit implements Outcome), in both modes: sandboxed and `--disable-sandboxing` |
| premature_kill | violation | `NoPrematureKill`: the `>` carry test (line 267) gives a deadline with tv_nsec = 1 s, so `sigtimedwait` fails with EINVAL and the target is killed before its deadline |
| stale_t0 | violation | `WaitEndsByDeadline`: the first timeout is `deadline - t0` (line 541), not `deadline - now` (spec 4.5 step 5), so the first `sigtimedwait` can sleep past the deadline by the time spent in fork, pidfd send and `minijail_enter` |
| setsid_race | violation | `QuietTargetTermination`: unsandboxed, `kill(-child_pid)` before the child's `setsid()` misses it, and the blocking sweep at line 609 hangs |
| cgroups_sandboxed | pass | `TypeOK`, `TargetConfined`, `MemoryMaxMissingCause`: two sandboxed invocations with one script name, on v1 or v2, with or without a limit, with crashes; a running target is in every cgroup its invocation created, each sealed, and limited when a limit was asked; and a run fails for a missing `memory.max` only while another run that made the script cgroup has not written `+memory` (pending, failed at 876, or killed) |
| cgroups_admit_pid2 | violation | `TargetConfined`: unsandboxed, the child writes pid 2 into the unified cgroup's `cgroup.procs` (451) or the v1 pids cgroup's `tasks` (473), and outside a pid namespace pid 2 is not the target |
| cgroups_race | violation | `LimitFileExists`: a second invocation takes EEXIST (line 884) as "ready" and writes `memory.max` before the first has enabled `+memory` |
| cgroups_nov1mem | violation | `MemoryCgroupExists`: on v2 without a cgroup path, meta-init creates the v1 memory cgroup (line 385) |
| cgroups_leak | violation | `NoCgroupLeak`: the unified v2 cgroup is never removed, because only the memory and pids handles are reset (641-642) and `_exit` at 680 skips `unified_cgroup`'s destructor, against spec 3 and 8.6 |
| hooks | pass | `TypeOK`, `TargetFds`, `StdioDetachedBeforeExec`, `RootOpensChecked` (every file the jail opens as root through a caller path was accepted by main with the caller's euid, except a protected file re-pointed after that check and, unsandboxed, stdin or a file whose pre-open failed), and the action property `MainOpensAsUser` (main accepts a caller path only with the caller's euid): all four pairs of sudo and sandboxing (constant `Modes`), with every combination of meta, chdir and redirected streams, and a caller that re-points its paths |
| hooks_sudo_root | violation | `TargetNeverRoot`: under sudo with `--disable-sandboxing` no uid change is configured (836), so the target runs as root, against the comment at 686-687 |
| hooks_toctou | violation | `UserPathsChecked`: the caller re-points a stdio path after `main`'s check with its uid (256) and before minijail bind-mounts it as root (259); `RedirectStdio` opens it as root before the uid change |

The model also contains these divergences, which no run checks at present
(see the hazards of PROJECT.json):
- lines 605-606 overwrite a SIGXFSZ or SIGXCPU recorded by ptrace with
  SIGXCPU, against spec 4.7;
- a SIGSYS the target sends itself is reported as a violation of syscall 0,
  because si_code is not checked (line 567);
- the memory limit in bytes is stored in ru_maxrss (KiB) and then multiplied
  by 1024 (lines 637, 644);
- the child may exec before the pidfd is sent (spec 5 (iii));
- a target that keeps re-stopping keeps the `wait3(WNOHANG)` loop
  (line 552) busy forever, and the deadline is never checked;
- remount and chdir are registered before meta-init/set_rlimits, against
  the order spec 4.4 lists.

Every property of a passing run has a mutant in PROJECT.json that TLC
catches:

| mutant | property that catches it |
|--------|--------------------------|
| a carry-less `TimespecAdd` | `TypeOK` |
| a sweep that skips the observer drain | `SeccompKillReported` |
| a sweep that does not capture the reaped status | `StatusVerdictSound` |
| a final kill that kills nothing | `SandboxedTermination` |
| a sweep that does not capture the reaped status | `OutcomeRefined` |
| an admission loop that skips the `if (!cgroup) continue` test (line 470) | `TypeOK` (Cgroups) |
| an admission that ignores a failed `procs`/`tasks` write and seals anyway | `TargetConfined` |
| stdio installed without the `!..._redirect.empty()` guards | `TypeOK` (Hooks) |
| a MetaInit child that keeps fd 5 open | `TargetFds` |
| the RedirectStdio condition forgetting stderr | `StdioDetachedBeforeExec` |
| `InstallStdio` without the `PLOG(FATAL)` of 257-258 (a path that failed to open is mounted anyway) | `RootOpensChecked` |
| a SudoDrop without the `seteuid` of line 708 | `MainOpensAsUser` |
| a mkdir of the script cgroup without the `+memory` write | `MemoryMaxMissingCause` |

**Bounds.**

- NsPerSec = 3 and a clock up to 7 ns. With these, a run reaches:
  - both the carrying and the non-carrying deadline;
  - a wait that expires, one that is cut short by SIGCHLD, and one that is
    rejected with EINVAL;
  - a deadline passed during a drain.
- One denied syscall is enough: the properties compare a number with itself
  or with "unset".
- Two exit codes, one of which is 0, tell a real exit 0 apart from the
  initial status 0.
- The memory constants make failcnt > 0 change the reported value.
- Cgroups: two invocations are the fewest that share the script cgroup and
  race on it. Both host kinds, both access outcomes, and crash points
  before and after the mkdir are explored. `SYMMETRY` over the
  invocations is sound, because no definition tells them apart.
- Hooks: every subset of the three streams, each path initially the
  caller's own or a protected file, each pair of sudo and sandboxing, meta or not, and chdir or
  not. The swap can happen between any two steps.

**Fairness.**

Weak fairness is assumed for the following steps, because nothing in the code
makes any of them wait forever once it is enabled:

- meta-init's own steps;
- the child's setup code;
- the kernel's delivery of SIGKILL (`TargetDie`);
- the observer thread;
- the clock.

The target's own program gets no fairness, since it may run forever; that is
what the wall-time limit is for.

The termination properties assume that the target eventually stops raising
signals: `<>[][~TargetSignal]_vars`. Without that assumption there is a
real livelock at line 552.

## Proofs (TLAPS)

- **TimespecProofs**, for every NsPerSec >= 2 (`NsPerSecAssumption`):
  - `TimespecAddCorrect`: `TimespecAdd` keeps the value of the sum, and its
    tv_nsec is at most one second.
  - `TimespecAddUnnormalized`: the sum is unnormalized exactly when the two
    nanosecond counts add up to one second. This is the bug at line 267.
  - `TimespecSubCorrect`: `TimespecSub` computes the difference.
  - `TimespecCmpCorrect`: `TimespecCmp` orders by value.
  - These rest on the lemma `ClockReadCorrect`.
- **MetaInitProofs**, from `NsPerSecAssumption` and `ConstantsAssumption`:
  - `TypeCorrect`: `Spec => []TypeOK`.
    - `TypeOK` is not inductive as it stands. It is strengthened to
      `TypeInv`, which adds that a zombie target holds a status. The
      strengthening is needed because reaping copies that status into
      `init_exitstatus`.
    - The step proof is split into the Boolean conjuncts (Zenon) and the data
      conjuncts (SMT), with one case per action.
  - `StatusVerdictCorrect`: `Spec => []StatusVerdictSound`.
    - The inductive invariant is `VerdictCore`. It states five facts:
      - the target does not exist before the fork;
      - `init_exited` implies the target is reaped or held;
      - a reaped target's status is exactly `init_exitstatus`;
      - past the sweep, the target is reaped;
      - a status verdict is only written at `done`, from `init_exitstatus`.
    - The lemma `VerdictStatus` shows that `Verdict` gives a status verdict
      only for an exited status.
- **HooksProofs**, from `HooksAssumption`:
  - `HooksTypeCorrect`, `HooksTargetFds` and `HooksStdioDetached`:
    `Spec => []TypeOK`, `[]TargetFds` and `[]StdioDetachedBeforeExec`. These
    hold for every set of modes, with or without sudo, and for every value of
    `Attacker`.
    - The inductive invariant is `HooksInv == TypeOK /\ FdInv /\ MountInv`.
    - `FdInv` follows the fds through main and the jail:
      - the fds main preserves at each control point: 3, then the inherited
        standard fds when unsandboxed, then 4 and 5 with a meta-init;
      - the hooks registered by then: MetaInit with a meta-init,
        RedirectStdio with redirects, and CloseLoggingFd among the
        exec hooks;
      - the jail's fds, as a function `JailFds` of the hooks it has run
        (`Ran`): the preserved fds, plus the redirected streams once
        RedirectStdio ran, minus 4 and 5 once the MetaInit child ran, and
        minus 3 once CloseLoggingFd ran.
    - `MountInv` covers the bind mounts:
      - they are made only in the sandbox, and for exactly the redirected
        streams;
      - each one holds a file once the jail has mounted;
      - `/mnt/stdio` is detached once RedirectStdio has run.
    - Both are needed. `TargetFds` speaks only of the running target, and
      whether its fds are right depends on every hook main registered and
      the jail ran before it.
    - The step proof has one case per action, and one step per part under
      it. RunHook is split by the hook it runs, with the lemma `RanStep`:
      running hook `hidx` adds exactly that hook to `Ran`.
    - The lemmas `AppendHook` and `RegisterHook` (from SequenceTheorems'
      `AppendProperties`) state what registering a hook does to `hooks`.
  - `HooksMainOpensAsUser`: `Spec => MainOpensAsUser`, the action property
    of the hooks run, for every set of modes and every value of `Attacker`.
    - The inductive invariant is `EuidInv`: between the `seteuid` of line
      708 and the `seteuid(0)` of line 989 main's euid is the caller's.
    - The lemma `ApprovedStep` shows that only InstallStdio and
      UnsandboxedConfig add to `approved`, both inside that window.
  - `HooksRootOpensChecked`: `Spec => []RootOpensChecked`, for every set of
    modes and every value of `Attacker`, with no hypothesis.
    - The inductive invariant is `HooksInv /\ RootInv`. `RootInv` adds to
      `RootOpensChecked` that every installed stream's current path, and once
      the jail mounted, `/mnt/stdio/<stream>`, is `Vetted`: accepted by main,
      or a protected file behind a path whose own file main accepted. Without
      the sandbox, once lines 836-857 ran, a redirected stdout or stderr that
      still resolves to the caller's own file was accepted there.
    - It is needed because `RedirectStdio` opens `mounted[s]` in the
      sandbox and `path[s]` outside it: neither is in `rootUses` before.
      `MountInv`'s `binds = redirects` ties the first to main's opens, and
      the last conjunct the second.
    - A swap only turns the caller's own file into a protected one, so a
      vetted path stays vetted. TLC checks `RootInv` on the hooks instance
      too, and without either exception `RootOpensChecked` fails there.
- **CgroupsProofs**, from `CgroupsAssumption`:
  - `CgroupsTypeCorrect`: `Spec => []TypeOK`, for any number of concurrent
    invocations. In particular, every sealed cgroup, written limit and
    member cgroup exists.
  - `SandboxedTargetConfined`: `Spec => []SandboxedConfined`.
    - This is `TargetConfined` restricted to the sandboxed invocations. It
      holds whatever the other invocations on the host do, and whether or
      not any of them is unsandboxed.
    - The inductive invariant is `CInv`. Per invocation it says:
      - nothing of the invocation is sealed before its child runs;
      - in the sandbox, every sealed cgroup holds the target, because the
        child seals only after a successful write of pid 2, the target;
      - once the child has exec'd, every cgroup created for the invocation
        is sealed;
      - a sandboxed child with a limit starts only after the limit is
        written.
    - An invocation's steps touch only the cgroups keyed by its own name,
      and `Teardown` removes only its own target. That is what the `j # i`
      cases of the proof use.
  - `AllSandboxedTargetConfined`: when no run disables the sandbox
    (`DisableSandboxingValues = {FALSE}`), `Spec => []TargetConfined`, the
    cgroups_sandboxed run's invariant. The hypothesis is needed:
    cgroups_admit_pid2 is the counterexample without it.
  - `MemoryMaxMissingExplained`: `Spec => MemoryMaxMissingCause`, the
    action property of the cgroups_sandboxed run, for any number of
    invocations, sandboxed or not, with or without crashes.
    - The inductive invariant adds `ScriptInv` to `CInv`:
      - a v2 cgroup path exists only once the script cgroup does;
      - a unified cgroup exists only with such a path;
      - the script cgroup lacks `+memory` only while some run is
        `StuckCreator`, that is at the `subtree_control` write, killed
        there, or failed with an I/O error.
    - The lemma `ReasonStep` lists how a step can change `reason`.
      `nomemmax` is set only at the limit write, with no memory controller
      and a unified cgroup. `ScriptInv` then names a stuck run. That run is
      another run, because the failing one is at `limit`.
    - The lemma `QuietStep` covers every step that leaves the script cgroup
      and the other runs alone.
- **MetaInitRefinement**, from the MetaInitProofs assumptions:
  - `SeccompKillCorrect`: `Spec => []SeccompKillReported`.
  - `OutcomeRefinement`: `Spec => OutcomeRefined`, where
    `OutcomeRefined == Abs!Spec`. Meta-init, the target and the observer
    together implement `Outcome` under the mapping `phase <- Phase`,
    `fate <- tstatus`, `report <- meta.verdict`.
    - `RefineInit`: the initial states map to Outcome's.
    - `RefineNext`: each step maps to a step of Outcome or to a stutter:
      - the fork is `Start`;
      - a setup failure is `SetupFails`;
      - each of the target's deaths is `Terminate` (ChildSetup, TargetExit,
        TargetOomKill, TargetDie, DrainOtherStop, ObserverRespond);
      - `Emit` is `Report`.
    - The lemma `VerdictAllowed` shows that the verdict block, applied to
      the reaped target's status, gives a verdict `Outcome` allows.
  - Both theorems rest on `RefInv`, which strengthens `VerdictInv` with:
    - `LifeInv`: a live target has no status and a dead one has one; the
      target exists only after a successful fork; there is no verdict
      before `Emit`.
    - `ObsInv`, the observer protocol:
      - the pidfd is sent once, after the fork;
      - the socket is open unless a failed SendFD reset it;
      - the observer polls only with a pidfd;
      - a parked target has a notification number;
      - the number the observer wrote stays unread while the target is
        parked.
    - `SigsysInv`: after a SIGSYS death, the pidfd was sent and the number
      is on the socket, then in `init_exitsyscall`, then in the verdict.
    - Two of its conjuncts were found only when the step proof failed, and
      TLC re-checked them on the MetaInit_both instance before they were
      proved: "`pidfdSent` is pending until PidfdSend" and "a SIGSYS death
      implies the pidfd was sent".

**What stays with TLC.** TLAPS cannot prove these:

- liveness under fairness (`SandboxedTermination`), and `ENABLED`;
- the properties found violated (there is nothing to prove);
- nothing else of the passing runs: every invariant they check, the action
  properties `MainOpensAsUser` and `MemoryMaxMissingCause`, and
  `OutcomeRefined`, are proved for every value of the constants;
- `TargetConfined` with unsandboxed runs. It is false there
  (cgroups_admit_pid2), and `SandboxedTargetConfined` is what holds.

## Not modelled, and why

- **C1 (minijail).** It is external code. Only its contract is assumed: hooks
  run in order, and the seccomp notification fd reaches the observer.
- **Argument parsing and the environment reset of `main`** are data only.
- **The socket branch of `OpenFile`** (151-171). It opens like a file in
  Hooks: the `connect`/`shutdown` only change the data path.
- **Memory values.** `ru_maxrss` is abstracted to a small set.
- **Time in Cgroups and Hooks.** These modules have no clock. Their
  properties are about order and ownership.

## Plan for later work

1. Compose Cgroups with MetaInit's verdict, so that a failed admission is
   related to the meta record.
2. State the SIGSYS hazard of line 567 as a property: a syscall verdict
   names a denied syscall, or 0 for a SIGSYS the target sent itself.
