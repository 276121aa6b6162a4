--------------------------------- MODULE Hooks ---------------------------------
(***************************************************************************)
(* The supervisor's construction of the jail in main (src/main.cpp lines   *)
(* 685-1001) and the hooks it registers (lines 75-263, and the child side  *)
(* of MetaInit, 439-512), as the jailed process runs them.                 *)
(*                                                                         *)
(* main drops its effective uid to the sudo caller's, opens the stdio      *)
(* paths the caller named, registers bind mounts and hooks, becomes root   *)
(* again and launches the jail.  The jail (minijail, not under src/; its   *)
(* contract is spec 4.4 and 5 (i)) performs the mounts, runs the           *)
(* PRE_DROP_CAPS hooks in registration order, changes uid and drops        *)
(* capabilities, runs the PRE_EXECVE hooks and execs the target.           *)
(*                                                                         *)
(* File contents, names and flags are abstracted to what each path         *)
(* resolves to: a file of the caller's ("own") or one the caller may not   *)
(* open ("protected").  The caller is a process of its own that may        *)
(* replace a path it controls by a symlink to a protected file.            *)
(***************************************************************************)
EXTENDS Naturals, Sequences

CONSTANTS
  Modes,             \* <<SUDO_USER is set (line 689), !disable_sandboxing>>
  Attacker           \* whether the caller re-points its paths meanwhile

ASSUME HooksAssumption ==
  /\ Modes \subseteq BOOLEAN \X BOOLEAN /\ Modes # {}
  /\ Attacker \in BOOLEAN

Streams == {"stdin", "stdout", "stderr"}
StdFd == [stdin |-> 0, stdout |-> 1, stderr |-> 2]
kLoggingFd == 3
kMetaFd == 4
kSigsysNotificationFd == 5
Files == {"own", "protected"}
Creds == {"root", "user"}
PreDropHooks == {"remount", "chdir", "metainit", "rlimits", "redirect"}
MainLabels == {"start", "prologue", "config", "stdio", "chdir", "payload",
               "tail", "escalate", "run", "launched", "failed"}
JailLabels == {"idle", "mount", "hooks", "exechooks", "exec", "running",
               "dead"}

VARIABLES
  fromSudo, sandboxed, hasMeta, hasChdir, redirects,  \* the invocation
  path,        \* what each stdio path the caller named resolves to now
  mpc,         \* main's control point
  euid,        \* main's effective uid
  hooks,       \* PRE_DROP_CAPS hooks, in registration order
  execHooks,   \* PRE_EXECVE hooks
  preserved,   \* fds minijail_preserve_fd keeps open in the jail
  binds,       \* streams whose caller path is bind-mounted on /mnt/stdio
  approved,    \* <<stream, file>>: opened by main with the caller's uid
  rootUses,    \* <<stream, file>>: resolved by the jail with root's uid
  jpc,         \* the jailed process's control point
  hidx,        \* index of the next PRE_DROP_CAPS hook to run
  fds,         \* the jailed process's open fds
  mounted,     \* what /mnt/stdio/<stream> holds in the jail
  detached,    \* /mnt/stdio has been detached
  targetUid    \* the uid the target executes with

argVars == <<fromSudo, sandboxed, hasMeta, hasChdir, redirects>>
mainVars == <<mpc, euid, hooks, execHooks, preserved, binds, approved>>
jailVars == <<jpc, hidx, fds, mounted, detached, targetUid>>
vars == <<argVars, path, mainVars, rootUses, jailVars>>

Init ==
  /\ \E m \in Modes : fromSudo = m[1] /\ sandboxed = m[2]
  /\ hasMeta \in BOOLEAN
  /\ hasChdir \in BOOLEAN
  /\ redirects \in SUBSET Streams
  /\ path \in [Streams -> Files]
  /\ mpc = "start"
  /\ euid = IF fromSudo THEN "root" ELSE "user"
  /\ hooks = << >> /\ execHooks = << >>
  /\ preserved = {} /\ binds = {} /\ approved = {} /\ rootUses = {}
  /\ jpc = "idle" /\ hidx = 1 /\ fds = {}
  /\ mounted = [s \in Streams |-> "none"]
  /\ detached = FALSE /\ targetUid = "none"

(* An open of path p with uid c: a protected file only opens for root.    *)
Opens(c, f) == c = "root" \/ f = "own"

(* The uid the jailed process has until it changes uid: main's euid at    *)
(* launch.  Without sudo the user namespace gives it no power outside.    *)
JailCred == IF fromSudo THEN "root" ELSE "user"

MainGoto(l) == mpc' = l
MainFail == mpc' = "failed"

(***************************************************************************)
(* main                                                                    *)
(***************************************************************************)

(* Mutant: the seteuid of line 708 is left out; main keeps root's euid.  *)
SudoDropKeepsRoot ==
  /\ mpc = "start"
  /\ \/ MainGoto("prologue")
     \/ fromSudo /\ MainFail
  /\ UNCHANGED <<argVars, path, euid, hooks, execHooks, preserved, binds,
                 approved, rootUses, jailVars>>

(* Lines 688-710: with SUDO_USER set, look the caller up (LOG(FATAL) if   *)
(* unknown) and seteuid to it.                                            *)
SudoDrop ==
  /\ mpc = "start"
  /\ \/ euid' = "user" /\ MainGoto("prologue")
     \/ fromSudo /\ MainFail /\ UNCHANGED euid
  /\ UNCHANGED <<argVars, path, hooks, execHooks, preserved, binds, approved,
                 rootUses, jailVars>>

(* Lines 712-764: environment, affinity, fd 3 as the logging fd           *)
(* (preserved), argument parsing, close every other fd in the jail.       *)
Prologue ==
  /\ mpc = "prologue"
  /\ \/ preserved' = {kLoggingFd} /\ MainGoto("config")
     \/ MainFail /\ UNCHANGED preserved
  /\ UNCHANGED <<argVars, path, euid, hooks, execHooks, binds, approved,
                 rootUses, jailVars>>

(* Lines 765-814: sandboxed jail configuration, the /proc and /mnt/stdio  *)
(* mounts and the RemountRootReadOnly hook.                               *)
SandboxConfig ==
  /\ mpc = "config" /\ sandboxed
  /\ \/ hooks' = Append(hooks, "remount") /\ MainGoto("stdio")
     \/ MainFail /\ UNCHANGED hooks
  /\ UNCHANGED <<argVars, path, euid, execHooks, preserved, binds, approved,
                 rootUses, jailVars>>

(* The streams main installs in order: stdin, stdout, stderr.             *)
NextStream == CHOOSE s \in redirects \ binds :
                \A r \in redirects \ binds : StdFd[s] <= StdFd[r]

(* Mutant: the "!args.<stream>_redirect.empty()" guards of lines 816-827 *)
(* are lost and every stream is installed.                                *)
InstallStdioUnguarded ==
  /\ mpc = "stdio" /\ Streams \ binds # {}
  /\ LET s == CHOOSE s \in Streams \ binds :
                \A r \in Streams \ binds : StdFd[s] <= StdFd[r] IN
       IF Opens(euid, path[s])
       THEN /\ approved' = approved \cup {<<s, path[s]>>}
            /\ binds' = binds \cup {s}
            /\ UNCHANGED mpc
       ELSE MainFail /\ UNCHANGED <<approved, binds>>
  /\ UNCHANGED <<argVars, path, euid, hooks, execHooks, preserved, rootUses,
                 jailVars>>

(* Mutant: the PLOG(FATAL) of lines 257-258 is lost; a path the caller   *)
(* could not open is bind-mounted all the same.                           *)
InstallStdioNoDie ==
  /\ mpc = "stdio" /\ redirects \ binds # {}
  /\ LET s == NextStream IN
       /\ approved' = IF Opens(euid, path[s])
                        THEN approved \cup {<<s, path[s]>>} ELSE approved
       /\ binds' = binds \cup {s}
  /\ UNCHANGED <<argVars, path, mpc, euid, hooks, execHooks, preserved,
                 rootUses, jailVars>>

(* Lines 816-827, InstallStdioRedirectOrDie (247-263): open the caller's  *)
(* path with main's euid (PLOG(FATAL) on failure), then register its     *)
(* bind mount on /mnt/stdio/<stream>.                                     *)
InstallStdio ==
  /\ mpc = "stdio" /\ redirects \ binds # {}
  /\ LET s == NextStream IN
       IF Opens(euid, path[s])
       THEN /\ approved' = approved \cup {<<s, path[s]>>}
            /\ binds' = binds \cup {s}
            /\ UNCHANGED mpc
       ELSE MainFail /\ UNCHANGED <<approved, binds>>
  /\ UNCHANGED <<argVars, path, euid, hooks, execHooks, preserved, rootUses,
                 jailVars>>

(* Lines 829-835: every stream installed; the v1 memory cgroup bind.     *)
StdioDone ==
  /\ mpc = "stdio" /\ redirects \ binds = {}
  /\ MainGoto("chdir") \/ MainFail
  /\ UNCHANGED <<argVars, path, euid, hooks, execHooks, preserved, binds,
                 approved, rootUses, jailVars>>

(* Lines 836-857: --disable-sandboxing.  An unredirected stream is        *)
(* preserved.  A redirected stdout or stderr is created and truncated    *)
(* with the caller's uid, and a failure of that open is ignored; stdin    *)
(* is not opened here.                                                    *)
UnsandboxedConfig ==
  /\ mpc = "config" /\ ~sandboxed
  /\ \/ /\ preserved' = preserved \cup {StdFd[s] : s \in Streams \ redirects}
        /\ approved' = approved \cup
             {<<s, path[s]>> : s \in {r \in redirects \ {"stdin"} :
                                        Opens(euid, path[r])}}
        /\ MainGoto("chdir")
     \/ MainFail /\ UNCHANGED <<preserved, approved>>
  /\ UNCHANGED <<argVars, path, euid, hooks, execHooks, binds, rootUses,
                 jailVars>>

(* Lines 859-862: the Chdir hook.  The cgroup path code that follows      *)
(* (864-907) is the Cgroups module; its failures end main here.           *)
ChdirReg ==
  /\ mpc = "chdir"
  /\ hooks' = IF hasChdir THEN Append(hooks, "chdir") ELSE hooks
  /\ MainGoto("payload") \/ MainFail
  /\ UNCHANGED <<argVars, path, euid, execHooks, preserved, binds, approved,
                 rootUses, jailVars>>

(* Lines 909-973: with --meta, open the meta file with the caller's uid   *)
(* onto fd 4, the sigsys socket onto fd 5, and register MetaInit; every  *)
(* failure returns 1.  Without it, register SetResourceLimits.            *)
PayloadReg ==
  /\ mpc = "payload"
  /\ \/ /\ hasMeta
        /\ \/ /\ preserved' = preserved \cup {kMetaFd, kSigsysNotificationFd}
              /\ hooks' = Append(hooks, "metainit")
              /\ MainGoto("tail")
           \/ MainFail /\ UNCHANGED <<preserved, hooks>>
     \/ /\ ~hasMeta
        /\ hooks' = Append(hooks, "rlimits")
        /\ MainGoto("tail") /\ UNCHANGED preserved
  /\ UNCHANGED <<argVars, path, euid, execHooks, binds, approved, rootUses,
                 jailVars>>

(* Mutant: the condition of line 976 forgets stderr.                      *)
TailRegNoStderr ==
  /\ mpc = "tail"
  /\ hooks' = IF redirects \cap {"stdin", "stdout"} # {}
                THEN Append(hooks, "redirect") ELSE hooks
  /\ execHooks' = Append(execHooks, "closelog")
  /\ MainGoto("escalate")
  /\ UNCHANGED <<argVars, path, euid, preserved, binds, approved, rootUses,
                 jailVars>>

(* Lines 975-985: RedirectStdio when any stream is redirected, then the   *)
(* PRE_EXECVE hook CloseLoggingFd.                                        *)
TailReg ==
  /\ mpc = "tail"
  /\ hooks' = IF redirects # {} THEN Append(hooks, "redirect") ELSE hooks
  /\ execHooks' = Append(execHooks, "closelog")
  /\ MainGoto("escalate")
  /\ UNCHANGED <<argVars, path, euid, preserved, binds, approved, rootUses,
                 jailVars>>

(* Lines 987-993: with sudo, become root again (PLOG(FATAL) on failure).  *)
SudoRestore ==
  /\ mpc = "escalate"
  /\ \/ euid' = (IF fromSudo THEN "root" ELSE euid) /\ MainGoto("run")
     \/ fromSudo /\ MainFail /\ UNCHANGED euid
  /\ UNCHANGED <<argVars, path, hooks, execHooks, preserved, binds, approved,
                 rootUses, jailVars>>

(* Lines 995-1001: minijail_run_no_preload clones the jailed process with *)
(* only the preserved fds, or fails and main returns 1.                   *)
Run ==
  /\ mpc = "run"
  /\ \/ /\ jpc' = "mount" /\ fds' = preserved /\ MainGoto("launched")
     \/ MainFail /\ UNCHANGED <<jpc, fds>>
  /\ UNCHANGED <<argVars, path, euid, hooks, execHooks, preserved, binds,
                 approved, rootUses, hidx, mounted, detached, targetUid>>

(***************************************************************************)
(* The jailed process                                                      *)
(***************************************************************************)

(* minijail (spec 4.3 step 5, not under src/): in the new mount namespace *)
(* bind-mount each registered caller path, resolving it now, with the     *)
(* jailed process's uid.                                                  *)
JailMount ==
  /\ jpc = "mount"
  /\ mounted' = [s \in Streams |-> IF s \in binds THEN path[s] ELSE "none"]
  /\ rootUses' = IF JailCred = "root"
                   THEN rootUses \cup {<<s, path[s]>> : s \in binds}
                   ELSE rootUses
  /\ jpc' = "hooks"
  /\ UNCHANGED <<argVars, path, mainVars, hidx, fds, detached, targetUid>>

(* The file OpenStdio opens for stream s: the bind mount in the sandbox,  *)
(* the caller's path itself without it (lines 196-242).                   *)
StdioSource(s) == IF sandboxed THEN mounted[s] ELSE path[s]

(* RedirectStdio (196-245): OpenStdio each redirected stream onto its fd, *)
(* with the uid the process has before the capability drop; in the        *)
(* sandbox, then detach /mnt/stdio.  Any failure returns -errno.          *)
RedirectStdio ==
  IF \A s \in redirects : Opens(JailCred, StdioSource(s))
  THEN /\ fds' = fds \cup {StdFd[s] : s \in redirects}
       /\ rootUses' = IF JailCred = "root"
                        THEN rootUses \cup
                               {<<s, StdioSource(s)>> : s \in redirects}
                        ELSE rootUses
       /\ detached' = sandboxed
       /\ hidx' = hidx + 1
       /\ UNCHANGED jpc
  ELSE jpc' = "dead" /\ UNCHANGED <<fds, rootUses, detached, hidx>>

(* Mutant: the child of MetaInit forgets to close kSigsysNotificationFd.  *)
MetaInitChildKeepsSigsys ==
  /\ fds' = fds \ {kMetaFd}
  /\ hidx' = hidx + 1

(* The child side of the MetaInit hook (439-512): the parent stays        *)
(* meta-init; the child closes fds 5 and 4 and applies the rlimits.       *)
MetaInitChild ==
  /\ fds' = fds \ {kMetaFd, kSigsysNotificationFd}
  /\ hidx' = hidx + 1

(* Run the next PRE_DROP_CAPS hook: RemountRootReadOnly (120-136), Chdir  *)
(* (138-149), SetResourceLimits (75-90), the MetaInit child, or           *)
(* RedirectStdio.  A hook that returns -errno aborts the launch.          *)
RunHook ==
  /\ jpc = "hooks" /\ hidx <= Len(hooks)
  /\ \/ /\ hooks[hidx] \in {"remount", "chdir", "rlimits"}
        /\ hidx' = hidx + 1 /\ UNCHANGED <<jpc, fds, rootUses, detached>>
     \/ hooks[hidx] = "metainit" /\ MetaInitChild
        /\ UNCHANGED <<jpc, rootUses, detached>>
     \/ hooks[hidx] = "redirect" /\ RedirectStdio
     \/ jpc' = "dead" /\ UNCHANGED <<hidx, fds, rootUses, detached>>
  /\ UNCHANGED <<argVars, path, mainVars, mounted, targetUid>>

(* minijail (spec 4.3 step 5, 4.4): change to the configured uid and drop *)
(* capabilities.  Sandboxed, that is the sudo caller's uid (lines        *)
(* 766-769) or uid 1000 of the user namespace mapped to the caller        *)
(* (770-780); unsandboxed, no uid is configured.                          *)
DropCaps ==
  /\ jpc = "hooks" /\ hidx > Len(hooks)
  /\ targetUid' = IF sandboxed THEN "user" ELSE JailCred
  /\ jpc' = "exechooks"
  /\ UNCHANGED <<argVars, path, mainVars, rootUses, hidx, fds, mounted,
                 detached>>

(* CloseLoggingFd (92-101), the PRE_EXECVE hook.                          *)
CloseLoggingFd ==
  /\ jpc = "exechooks"
  /\ \/ "closelog" \in {execHooks[n] : n \in DOMAIN execHooks}
        /\ fds' = fds \ {kLoggingFd} /\ jpc' = "exec"
     \/ jpc' = "dead" /\ UNCHANGED fds
  /\ UNCHANGED <<argVars, path, mainVars, rootUses, hidx, mounted, detached,
                 targetUid>>

(* execve of the target (spec 5 (i)).                                     *)
Exec ==
  /\ jpc = "exec"
  /\ jpc' = "running"
  /\ UNCHANGED <<argVars, path, mainVars, rootUses, hidx, fds, mounted,
                 detached, targetUid>>

(* The caller replaces a path it named, which lives in a directory it     *)
(* owns, by a symlink to a protected file.                                *)
Swap(s) ==
  /\ Attacker /\ s \in redirects /\ path[s] = "own"
  /\ path' = [path EXCEPT ![s] = "protected"]
  /\ UNCHANGED <<argVars, mainVars, rootUses, jailVars>>

MainStep == SudoDrop \/ Prologue \/ SandboxConfig \/ InstallStdio
              \/ StdioDone \/ UnsandboxedConfig \/ ChdirReg \/ PayloadReg
              \/ TailReg \/ SudoRestore \/ Run
JailStep == JailMount \/ RunHook \/ DropCaps \/ CloseLoggingFd \/ Exec

Next == MainStep \/ JailStep \/ \E s \in Streams : Swap(s)

Spec == Init /\ [][Next]_vars

(***************************************************************************)
(* Properties                                                              *)
(***************************************************************************)

TypeOK ==
  /\ fromSudo \in BOOLEAN /\ sandboxed \in BOOLEAN
  /\ hasMeta \in BOOLEAN /\ hasChdir \in BOOLEAN
  /\ redirects \subseteq Streams
  /\ path \in [Streams -> Files]
  /\ mpc \in MainLabels /\ euid \in Creds
  /\ hooks \in Seq(PreDropHooks) /\ execHooks \in Seq({"closelog"})
  /\ preserved \subseteq 0 .. 5 /\ binds \subseteq redirects
  /\ approved \subseteq Streams \X Files
  /\ rootUses \subseteq Streams \X Files
  /\ jpc \in JailLabels /\ hidx \in 1 .. Len(hooks) + 1
  /\ fds \subseteq 0 .. 5
  /\ mounted \in [Streams -> Files \cup {"none"}]
  /\ detached \in BOOLEAN /\ targetUid \in Creds \cup {"none"}

(* Spec 3 and 5: fds 3, 4 and 5 belong to the supervisor and meta-init;  *)
(* the target starts with exactly its standard streams: each redirected  *)
(* one, and, unsandboxed, each one it inherits (lines 837-857).  This     *)
(* rests on the preserve calls in main, MetaInit's child closing 4 and 5 *)
(* and CloseLoggingFd closing 3.                                          *)
TargetFds ==
  jpc = "running" =>
    fds = {StdFd[s] : s \in IF sandboxed THEN redirects ELSE Streams}

(* Spec 8.7 and the comment of lines 232-233: once any caller path is     *)
(* bind-mounted under /mnt/stdio, the target never runs before it is     *)
(* detached, so its mountinfo does not name the host paths.               *)
StdioDetachedBeforeExec ==
  (jpc = "running" /\ binds # {}) => detached

(* The comment of lines 686-687: invoked through sudo, the target is run *)
(* as the user who invoked sudo, never as root.                           *)
TargetNeverRoot ==
  (jpc = "running" /\ fromSudo) => targetUid = "user"

(* Spec 4.3 step 1: files for stdio redirection are opened as the real    *)
(* user.  Every file the jail reaches through a caller path with root's   *)
(* uid is one main's own open, with the caller's uid, already accepted.   *)
UserPathsChecked ==
  \A u \in rootUses : u \in approved

(* Spec 4.3 step 1, with the two ways the code departs from it: every     *)
(* file the jail opens with root's uid through a caller path is one main  *)
(* opened with the caller's uid, except a protected file behind a path    *)
(* whose own file main accepted, which the caller re-pointed after that   *)
(* check (lines 253-259, hooks_toctou), and, without the sandbox, a       *)
(* stream main never checked: stdin, which lines 836-857 do not open, or  *)
(* a file whose pre-open failed and was ignored (845-853).                *)
RootOpensChecked ==
  \A u \in rootUses :
    \/ u \in approved
    \/ u[2] = "protected" /\ <<u[1], "own">> \in approved
    \/ ~sandboxed /\ (u[1] = "stdin" \/ u[2] = "protected")

(* Spec 4.3 step 1, and the seteuid calls of lines 706-709 and 987-993    *)
(* around them: main never opens a caller's stdio path with root's uid;   *)
(* every step that accepts a path is taken with the caller's euid.        *)
MainOpensAsUser ==
  [][approved' # approved => euid = "user"]_vars

=============================================================================
