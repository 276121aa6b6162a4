------------------------------ MODULE HooksProofs ------------------------------
(***************************************************************************)
(* Proofs about Hooks for every set of modes and every attacker: the      *)
(* launch's types and fds, the detaching of /mnt/stdio, main's opens with *)
(* the caller's euid, and what the jail opens with root's uid.            *)
(***************************************************************************)
EXTENDS Hooks, SequenceTheorems, TLAPS

-----------------------------------------------------------------------------
(* The hooks registered so far, and those the jail has run.               *)
Registered(h) == \E k \in 1 .. Len(hooks) : hooks[k] = h
Ran(h) == \E k \in 1 .. hidx - 1 : hooks[k] = h

(* The standard fds an unsandboxed target inherits (lines 837-857), the   *)
(* meta-init fds (909-973), and what minijail_run gives the jail.         *)
InheritedFds ==
  IF sandboxed THEN {} ELSE {StdFd[s] : s \in Streams \ redirects}
MetaFds == IF hasMeta THEN {kMetaFd, kSigsysNotificationFd} ELSE {}
LaunchFds == {kLoggingFd} \cup InheritedFds \cup MetaFds

(* The jail's fds: what it was launched with, the redirected streams once *)
(* RedirectStdio has run, less 4 and 5 once the MetaInit child has run    *)
(* and less 3 once CloseLoggingFd has.                                    *)
JailFds ==
  (preserved \cup (IF Ran("redirect") THEN {StdFd[s] : s \in redirects}
                                      ELSE {}))
    \ ((IF Ran("metainit") THEN {kMetaFd, kSigsysNotificationFd} ELSE {})
         \cup (IF jpc \in {"exec", "running"} THEN {kLoggingFd} ELSE {}))

Launched == {"mount", "hooks", "exechooks", "exec", "running"}
Mounted == {"hooks", "exechooks", "exec", "running"}

(* What main has preserved and registered at each of its control points,  *)
(* and the jail's fds at each of its own.                                 *)
FdInv ==
  /\ mpc \in {"config", "stdio"} => preserved = {kLoggingFd}
  /\ mpc \in {"chdir", "payload"} => preserved = {kLoggingFd} \cup InheritedFds
  /\ mpc \in {"tail", "escalate", "run", "launched"} =>
       /\ preserved = LaunchFds
       /\ hasMeta => Registered("metainit")
  /\ mpc \in {"escalate", "run", "launched"} =>
       /\ redirects # {} => Registered("redirect")
       /\ \E k \in 1 .. Len(execHooks) : execHooks[k] = "closelog"
  /\ jpc # "idle" => mpc = "launched"
  /\ jpc \in {"idle", "mount"} => hidx = 1
  /\ jpc \in {"exechooks", "exec", "running"} => hidx = Len(hooks) + 1
  /\ jpc \in Launched => fds = JailFds

(* The stdio bind mounts: installed only in the sandbox, all of the redirected      *)
(* streams once main is past them, each holding a file once mounted, and  *)
(* /mnt/stdio detached once RedirectStdio has run.                        *)
MountInv ==
  /\ mpc = "stdio" => sandboxed
  /\ ~sandboxed => binds = {}
  /\ sandboxed /\ mpc \in {"chdir", "payload", "tail", "escalate", "run",
                           "launched"} => binds = redirects
  /\ jpc \in Mounted => \A s \in binds : mounted[s] \in Files
  /\ jpc \in Mounted /\ Ran("redirect") => detached = sandboxed

HooksInv == TypeOK /\ FdInv /\ MountInv

(* main installs a stream it has not installed yet (NextStream is well    *)
(* defined: a nonempty set of streams has one with the smallest fd).      *)
LEMMA NextStreamIn ==
  ASSUME redirects \subseteq Streams, binds \subseteq Streams,
         redirects \ binds # {}
  PROVE  NextStream \in redirects \ binds
<1> DEFINE S == redirects \ binds
<1>1. \E s \in S : \A r \in S : StdFd[s] <= StdFd[r]
  <2>1. CASE "stdin" \in S
    BY <2>1 DEF StdFd, Streams
  <2>2. CASE "stdin" \notin S /\ "stdout" \in S
    BY <2>2 DEF StdFd, Streams
  <2>3. CASE "stdin" \notin S /\ "stdout" \notin S
    <3>1. "stderr" \in S /\ S = {"stderr"}
      BY <2>3 DEF Streams
    <3>. QED
      BY <3>1 DEF StdFd
  <2>. QED
    BY <2>1, <2>2, <2>3
<1>. QED
  BY <1>1 DEF NextStream

LEMMA InitHooksInv == Init => HooksInv
<1> SUFFICES ASSUME Init PROVE HooksInv
  OBVIOUS
<1>1. PICK m \in Modes : fromSudo = m[1] /\ sandboxed = m[2]
  BY DEF Init
<1>2. fromSudo \in BOOLEAN /\ sandboxed \in BOOLEAN
  BY <1>1, HooksAssumption
<1>3. TypeOK
  <2>1. hooks \in Seq(PreDropHooks) /\ execHooks \in Seq({"closelog"})
        /\ hidx \in 1 .. Len(hooks) + 1
    BY DEF Init
  <2>2. mounted \in [Streams -> Files \cup {"none"}]
    BY DEF Init
  <2>3. /\ redirects \subseteq Streams /\ path \in [Streams -> Files]
        /\ hasMeta \in BOOLEAN /\ hasChdir \in BOOLEAN
        /\ mpc \in MainLabels /\ euid \in Creds /\ jpc \in JailLabels
        /\ preserved \subseteq 0 .. 5 /\ binds \subseteq redirects
        /\ approved \subseteq Streams \X Files
        /\ rootUses \subseteq Streams \X Files /\ fds \subseteq 0 .. 5
        /\ detached \in BOOLEAN /\ targetUid \in Creds \cup {"none"}
    BY DEF Init, MainLabels, Creds, JailLabels
  <2>. QED
    BY <1>2, <2>1, <2>2, <2>3 DEF TypeOK
<1>4. FdInv
  BY DEF Init, FdInv, Launched
<1>5. MountInv
  BY DEF Init, MountInv, Mounted
<1>. QED
  BY <1>3, <1>4, <1>5 DEF HooksInv

(* TypeOK in three parts: the Boolean-valued variables and the hook       *)
(* sequences, for Zenon, and the rest of the data, for SMT.               *)
TypeBool ==
  /\ fromSudo \in BOOLEAN /\ sandboxed \in BOOLEAN
  /\ hasMeta \in BOOLEAN /\ hasChdir \in BOOLEAN /\ detached \in BOOLEAN
TypeData ==
  /\ redirects \subseteq Streams
  /\ path \in [Streams -> Files]
  /\ mpc \in MainLabels /\ euid \in Creds
  /\ preserved \subseteq 0 .. 5 /\ binds \subseteq redirects
  /\ approved \subseteq Streams \X Files
  /\ rootUses \subseteq Streams \X Files
  /\ jpc \in JailLabels
  /\ fds \subseteq 0 .. 5
  /\ mounted \in [Streams -> Files \cup {"none"}]
  /\ targetUid \in Creds \cup {"none"}

TypeSeq ==
  /\ hooks \in Seq(PreDropHooks) /\ execHooks \in Seq({"closelog"})
  /\ hidx \in 1 .. Len(hooks) + 1

LEMMA TypeSplit == TypeOK <=> TypeBool /\ TypeSeq /\ TypeData
  BY DEF TypeOK, TypeBool, TypeSeq, TypeData

(* Registering a hook keeps every hook registered before it and adds     *)
(* one; the sequence stays a sequence of hooks (AppendProperties).        *)
LEMMA AppendHook ==
  ASSUME NEW S, NEW seq \in Seq(S), NEW h \in S, NEW g
  PROVE  /\ Append(seq, h) \in Seq(S)
         /\ Len(Append(seq, h)) = Len(seq) + 1
         /\ (\E k \in 1 .. Len(Append(seq, h)) : Append(seq, h)[k] = g)
              <=> (\E k \in 1 .. Len(seq) : seq[k] = g) \/ g = h
<1>1. /\ Append(seq, h) \in Seq(S)
      /\ Len(Append(seq, h)) = Len(seq) + 1
      /\ \A i \in 1 .. Len(seq) : Append(seq, h)[i] = seq[i]
      /\ Append(seq, h)[Len(seq) + 1] = h
  BY AppendProperties
<1>. QED
  BY <1>1

(* main registers at most one hook per step, and never unregisters one.  *)
LEMMA RegisterHook ==
  ASSUME TypeOK, NEW h \in PreDropHooks, hooks' \in {hooks, Append(hooks, h)}
  PROVE  /\ hooks' \in Seq(PreDropHooks)
         /\ Len(hooks) <= Len(hooks')
         /\ \A g : Registered(g) => Registered(g)'
         /\ hooks' = Append(hooks, h) => Registered(h)'
<1>1. /\ Append(hooks, h) \in Seq(PreDropHooks)
      /\ Len(Append(hooks, h)) = Len(hooks) + 1
      /\ \A g : (\E k \in 1 .. Len(Append(hooks, h)) : Append(hooks, h)[k] = g)
                  <=> Registered(g) \/ g = h
  BY AppendHook DEF TypeOK, Registered
<1>2. hooks \in Seq(PreDropHooks)
  BY DEF TypeOK
<1>3. CASE hooks' = hooks
  BY <1>1, <1>2, <1>3 DEF Registered
<1>4. CASE hooks' = Append(hooks, h)
  BY <1>1, <1>4 DEF Registered
<1>. QED
  BY <1>3, <1>4

(* The jail runs its hooks in order: running one adds it to those run.    *)
LEMMA RanStep ==
  ASSUME TypeOK, hidx \in 1 .. Len(hooks), hidx' = hidx + 1, hooks' = hooks
  PROVE  \A g : Ran(g)' <=> Ran(g) \/ hooks[hidx] = g
BY DEF Ran, TypeOK

(* Every step keeps HooksInv: one case per action of main, of the jail  *)
(* and of the caller.                                                      *)
LEMMA NextHooksInv == HooksInv /\ [Next]_vars => HooksInv'
<1> SUFFICES ASSUME HooksInv, [Next]_vars PROVE HooksInv'
  OBVIOUS
<1> USE DEF Streams, Files, Creds, MainLabels, JailLabels,
            PreDropHooks, StdFd, kLoggingFd, kMetaFd, kSigsysNotificationFd,
            argVars, mainVars, jailVars, MainGoto, MainFail
<1>0. TypeBool /\ TypeSeq /\ TypeData /\ FdInv /\ MountInv
  BY TypeSplit DEF HooksInv

<1>1. CASE SudoDrop
  <2>1. TypeBool'
    BY <1>1, <1>0 DEF SudoDrop, TypeBool
  <2>5. TypeSeq'
    BY <1>1, <1>0 DEF SudoDrop, TypeSeq
  <2>2. TypeData'
    BY <1>1, <1>0 DEF SudoDrop, TypeData
  <2>3. FdInv'
    BY <1>1, <1>0 DEF SudoDrop, TypeSeq, TypeData, FdInv, MountInv, Registered, Ran, InheritedFds, MetaFds, LaunchFds, JailFds, Launched, Mounted
  <2>4. MountInv'
    BY <1>1, <1>0 DEF SudoDrop, TypeSeq, TypeData, FdInv, MountInv, Registered, Ran, InheritedFds, MetaFds, LaunchFds, JailFds, Launched, Mounted
  <2>. QED
    BY <2>1, <2>2, <2>3, <2>4, <2>5 DEF HooksInv, TypeOK, TypeBool, TypeSeq, TypeData
<1>2. CASE Prologue
  <2>1. TypeBool'
    BY <1>2, <1>0 DEF Prologue, TypeBool
  <2>5. TypeSeq'
    BY <1>2, <1>0 DEF Prologue, TypeSeq
  <2>2. TypeData'
    <3>1. redirects' \subseteq Streams
      BY <1>2, <1>0 DEF Prologue, TypeData
    <3>2. path' \in [Streams -> Files]
      BY <1>2, <1>0 DEF Prologue, TypeData
    <3>3. mpc' \in MainLabels
      BY <1>2, <1>0 DEF Prologue, TypeData
    <3>4. euid' \in Creds
      BY <1>2, <1>0 DEF Prologue, TypeData
    <3>5. preserved' \subseteq 0 .. 5
      <4>1. preserved' = {kLoggingFd} \/ preserved' = preserved
        BY <1>2 DEF Prologue
      <4>2. {kLoggingFd} \subseteq 0 .. 5
        OBVIOUS
      <4>3. preserved \subseteq 0 .. 5
        BY <1>0 DEF TypeData
      <4>. QED
        BY <4>1, <4>2, <4>3
    <3>6. binds' \subseteq redirects'
      BY <1>2, <1>0 DEF Prologue, TypeData
    <3>7. approved' \subseteq Streams \X Files
      BY <1>2, <1>0 DEF Prologue, TypeData
    <3>8. rootUses' \subseteq Streams \X Files
      BY <1>2, <1>0 DEF Prologue, TypeData
    <3>9. jpc' \in JailLabels
      BY <1>2, <1>0 DEF Prologue, TypeData
    <3>10. fds' \subseteq 0 .. 5
      BY <1>2, <1>0 DEF Prologue, TypeData
    <3>11. mounted' \in [Streams -> Files \cup {"none"}]
      BY <1>2, <1>0 DEF Prologue, TypeData
    <3>12. targetUid' \in Creds \cup {"none"}
      BY <1>2, <1>0 DEF Prologue, TypeData
    <3>. QED
      BY <3>1, <3>2, <3>3, <3>4, <3>5, <3>6, <3>7, <3>8, <3>9, <3>10, <3>11, <3>12 DEF TypeData
  <2>3. FdInv'
    BY <1>2, <1>0 DEF Prologue, TypeSeq, TypeData, FdInv, MountInv, Registered, Ran, InheritedFds, MetaFds, LaunchFds, JailFds, Launched, Mounted
  <2>4. MountInv'
    BY <1>2, <1>0 DEF Prologue, TypeSeq, TypeData, FdInv, MountInv, Registered, Ran, InheritedFds, MetaFds, LaunchFds, JailFds, Launched, Mounted
  <2>. QED
    BY <2>1, <2>2, <2>3, <2>4, <2>5 DEF HooksInv, TypeOK, TypeBool, TypeSeq, TypeData
<1>3. CASE SandboxConfig
  <2>1. TypeBool'
    BY <1>3, <1>0 DEF SandboxConfig, TypeBool
  <2>5. TypeSeq'
    BY <1>3, <1>0 DEF SandboxConfig, TypeSeq
  <2>2. TypeData'
    BY <1>3, <1>0 DEF SandboxConfig, TypeData
  <2>3. FdInv'
    BY <1>3, <1>0 DEF SandboxConfig, TypeSeq, TypeData, FdInv, MountInv, Registered, Ran, InheritedFds, MetaFds, LaunchFds, JailFds, Launched, Mounted
  <2>4. MountInv'
    BY <1>3, <1>0 DEF SandboxConfig, TypeSeq, TypeData, FdInv, MountInv, Registered, Ran, InheritedFds, MetaFds, LaunchFds, JailFds, Launched, Mounted
  <2>. QED
    BY <2>1, <2>2, <2>3, <2>4, <2>5 DEF HooksInv, TypeOK, TypeBool, TypeSeq, TypeData
<1>4. CASE InstallStdio
  <2>1. TypeBool'
    BY <1>4, <1>0 DEF InstallStdio, NextStream, TypeBool
  <2>5. TypeSeq'
    BY <1>4, <1>0 DEF InstallStdio, NextStream, TypeSeq
  <2>2. TypeData'
    <3>1. NextStream \in redirects \ binds
      <4>1. redirects \subseteq Streams /\ binds \subseteq Streams
            /\ redirects \ binds # {}
        BY <1>4, <1>0 DEF InstallStdio, TypeData
      <4>. QED
        BY <4>1, NextStreamIn
    <3>2. path[NextStream] \in Files
      BY <3>1, <1>0 DEF TypeData
    <3>3. \/ binds' = binds /\ approved' = approved
          \/ binds' = binds \cup {NextStream}
             /\ approved' = approved \cup {<<NextStream, path[NextStream]>>}
      BY <1>4 DEF InstallStdio
    <3>4. binds' \subseteq redirects /\ approved' \subseteq Streams \X Files
      <4>1. binds \subseteq redirects /\ redirects \subseteq Streams
            /\ approved \subseteq Streams \X Files
        BY <1>0 DEF TypeData
      <4>2. <<NextStream, path[NextStream]>> \in Streams \X Files
        BY <3>1, <3>2, <4>1
      <4>. QED
        BY <3>1, <3>3, <4>1, <4>2
    <3>. QED
      BY <1>4, <1>0, <3>4 DEF InstallStdio, TypeData
  <2>3. FdInv'
    BY <1>4, <1>0 DEF InstallStdio, NextStream, TypeSeq, TypeData, FdInv, MountInv, Registered, Ran, InheritedFds, MetaFds, LaunchFds, JailFds, Launched, Mounted
  <2>4. MountInv'
    BY <1>4, <1>0 DEF InstallStdio, NextStream, TypeSeq, TypeData, FdInv, MountInv, Registered, Ran, InheritedFds, MetaFds, LaunchFds, JailFds, Launched, Mounted
  <2>. QED
    BY <2>1, <2>2, <2>3, <2>4, <2>5 DEF HooksInv, TypeOK, TypeBool, TypeSeq, TypeData
<1>5. CASE StdioDone
  <2>1. TypeBool'
    BY <1>5, <1>0 DEF StdioDone, TypeBool
  <2>5. TypeSeq'
    BY <1>5, <1>0 DEF StdioDone, TypeSeq
  <2>2. TypeData'
    BY <1>5, <1>0 DEF StdioDone, TypeData
  <2>3. FdInv'
    BY <1>5, <1>0 DEF StdioDone, TypeSeq, TypeData, FdInv, MountInv, Registered, Ran, InheritedFds, MetaFds, LaunchFds, JailFds, Launched, Mounted
  <2>4. MountInv'
    BY <1>5, <1>0 DEF StdioDone, TypeSeq, TypeData, FdInv, MountInv, Registered, Ran, InheritedFds, MetaFds, LaunchFds, JailFds, Launched, Mounted
  <2>. QED
    BY <2>1, <2>2, <2>3, <2>4, <2>5 DEF HooksInv, TypeOK, TypeBool, TypeSeq, TypeData
<1>6. CASE UnsandboxedConfig
  <2>1. TypeBool'
    BY <1>6, <1>0 DEF UnsandboxedConfig, TypeBool
  <2>5. TypeSeq'
    BY <1>6, <1>0 DEF UnsandboxedConfig, TypeSeq
  <2>2. TypeData'
    <3>1. {StdFd[s] : s \in Streams \ redirects} \subseteq 0 .. 5
      OBVIOUS
    <3>2. \A s \in Streams : <<s, path[s]>> \in Streams \X Files
      BY <1>0 DEF TypeData
    <3>3. preserved \subseteq 0 .. 5
      BY <1>0 DEF TypeData
    <3>4. preserved' \subseteq 0 .. 5
      BY <1>6, <3>1, <3>3 DEF UnsandboxedConfig
    <3>5. approved' \subseteq Streams \X Files
      BY <1>6, <1>0, <3>2 DEF UnsandboxedConfig, TypeData
    <3>. QED
      BY <1>6, <1>0, <3>4, <3>5 DEF UnsandboxedConfig, TypeData
  <2>3. FdInv'
    BY <1>6, <1>0 DEF UnsandboxedConfig, TypeSeq, TypeData, FdInv, MountInv, Registered, Ran, InheritedFds, MetaFds, LaunchFds, JailFds, Launched, Mounted
  <2>4. MountInv'
    BY <1>6, <1>0 DEF UnsandboxedConfig, TypeSeq, TypeData, FdInv, MountInv, Registered, Ran, InheritedFds, MetaFds, LaunchFds, JailFds, Launched, Mounted
  <2>. QED
    BY <2>1, <2>2, <2>3, <2>4, <2>5 DEF HooksInv, TypeOK, TypeBool, TypeSeq, TypeData
<1>7. CASE ChdirReg
  <2>1. TypeBool'
    BY <1>7, <1>0 DEF ChdirReg, TypeBool
  <2>5. TypeSeq'
    BY <1>7, <1>0 DEF ChdirReg, TypeSeq
  <2>2. TypeData'
    BY <1>7, <1>0 DEF ChdirReg, TypeData
  <2>3. FdInv'
    BY <1>7, <1>0 DEF ChdirReg, TypeSeq, TypeData, FdInv, MountInv, Registered, Ran, InheritedFds, MetaFds, LaunchFds, JailFds, Launched, Mounted
  <2>4. MountInv'
    BY <1>7, <1>0 DEF ChdirReg, TypeSeq, TypeData, FdInv, MountInv, Registered, Ran, InheritedFds, MetaFds, LaunchFds, JailFds, Launched, Mounted
  <2>. QED
    BY <2>1, <2>2, <2>3, <2>4, <2>5 DEF HooksInv, TypeOK, TypeBool, TypeSeq, TypeData
<1>8. CASE PayloadReg
  <2>1. TypeBool'
    BY <1>8, <1>0 DEF PayloadReg, TypeBool
  <2>5. TypeSeq'
    BY <1>8, <1>0 DEF PayloadReg, TypeSeq
  <2>2. TypeData'
    <3>1. preserved \subseteq 0 .. 5
      BY <1>0 DEF TypeData
    <3>2. preserved' \subseteq 0 .. 5
      <4>1. {kMetaFd, kSigsysNotificationFd} \subseteq 0 .. 5
        OBVIOUS
      <4>. QED
        BY <1>8, <3>1, <4>1 DEF PayloadReg
    <3>. QED
      BY <1>8, <1>0, <3>2 DEF PayloadReg, TypeData
  <2>3. FdInv'
    BY <1>8, <1>0 DEF PayloadReg, TypeSeq, TypeData, FdInv, MountInv, Registered, Ran, InheritedFds, MetaFds, LaunchFds, JailFds, Launched, Mounted
  <2>4. MountInv'
    BY <1>8, <1>0 DEF PayloadReg, TypeSeq, TypeData, FdInv, MountInv, Registered, Ran, InheritedFds, MetaFds, LaunchFds, JailFds, Launched, Mounted
  <2>. QED
    BY <2>1, <2>2, <2>3, <2>4, <2>5 DEF HooksInv, TypeOK, TypeBool, TypeSeq, TypeData
<1>9. CASE TailReg
  <2>1. TypeBool'
    BY <1>9, <1>0 DEF TailReg, TypeBool
  <2>5. TypeSeq'
    BY <1>9, <1>0 DEF TailReg, TypeSeq
  <2>2. TypeData'
    BY <1>9, <1>0 DEF TailReg, TypeData
  <2>3. FdInv'
    <3>1. /\ mpc' = "escalate" /\ jpc = "idle" /\ jpc' = "idle"
          /\ hidx' = 1
          /\ UNCHANGED <<preserved, fromSudo, sandboxed, hasMeta, redirects>>
      BY <1>9, <1>0 DEF TailReg, FdInv
    <3>2. /\ hooks' \in {hooks, Append(hooks, "redirect")}
          /\ redirects # {} => hooks' = Append(hooks, "redirect")
      BY <1>9 DEF TailReg
    <3>3. /\ \A g : Registered(g) => Registered(g)'
          /\ redirects # {} => Registered("redirect")'
      BY <3>2, <1>0, RegisterHook DEF TypeOK, TypeBool, TypeSeq, TypeData
    <3>4. \E k \in 1 .. Len(execHooks') : execHooks'[k] = "closelog"
      <4>1. execHooks' = Append(execHooks, "closelog")
            /\ execHooks \in Seq({"closelog"})
        BY <1>9, <1>0 DEF TailReg, TypeSeq
      <4>2. /\ Len(execHooks') = Len(execHooks) + 1
            /\ execHooks'[Len(execHooks) + 1] = "closelog"
        BY <4>1, AppendProperties
      <4>. QED
        BY <4>1, <4>2
    <3>5. mpc = "tail" /\ preserved = LaunchFds
          /\ (hasMeta => Registered("metainit"))
      BY <1>9, <1>0 DEF TailReg, FdInv
    <3>. QED
      BY <3>1, <3>3, <3>4, <3>5 DEF FdInv, LaunchFds, InheritedFds, MetaFds,
                                    Launched
  <2>4. MountInv'
    BY <1>9, <1>0 DEF TailReg, TypeSeq, TypeData, FdInv, MountInv, Registered, Ran, InheritedFds, MetaFds, LaunchFds, JailFds, Launched, Mounted
  <2>. QED
    BY <2>1, <2>2, <2>3, <2>4, <2>5 DEF HooksInv, TypeOK, TypeBool, TypeSeq, TypeData
<1>10. CASE SudoRestore
  <2>1. TypeBool'
    BY <1>10, <1>0 DEF SudoRestore, TypeBool
  <2>5. TypeSeq'
    BY <1>10, <1>0 DEF SudoRestore, TypeSeq
  <2>2. TypeData'
    BY <1>10, <1>0 DEF SudoRestore, TypeData
  <2>3. FdInv'
    BY <1>10, <1>0 DEF SudoRestore, TypeSeq, TypeData, FdInv, MountInv, Registered, Ran, InheritedFds, MetaFds, LaunchFds, JailFds, Launched, Mounted
  <2>4. MountInv'
    BY <1>10, <1>0 DEF SudoRestore, TypeSeq, TypeData, FdInv, MountInv, Registered, Ran, InheritedFds, MetaFds, LaunchFds, JailFds, Launched, Mounted
  <2>. QED
    BY <2>1, <2>2, <2>3, <2>4, <2>5 DEF HooksInv, TypeOK, TypeBool, TypeSeq, TypeData
<1>11. CASE Run
  <2>1. TypeBool'
    BY <1>11, <1>0 DEF Run, TypeBool
  <2>5. TypeSeq'
    BY <1>11, <1>0 DEF Run, TypeSeq
  <2>2. TypeData'
    BY <1>11, <1>0 DEF Run, TypeData
  <2>3. FdInv'
    BY <1>11, <1>0 DEF Run, TypeSeq, TypeData, FdInv, MountInv, Registered, Ran, InheritedFds, MetaFds, LaunchFds, JailFds, Launched, Mounted
  <2>4. MountInv'
    BY <1>11, <1>0 DEF Run, TypeSeq, TypeData, FdInv, MountInv, Registered, Ran, InheritedFds, MetaFds, LaunchFds, JailFds, Launched, Mounted
  <2>. QED
    BY <2>1, <2>2, <2>3, <2>4, <2>5 DEF HooksInv, TypeOK, TypeBool, TypeSeq, TypeData
<1>12. CASE JailMount
  <2>1. TypeBool'
    BY <1>12, <1>0 DEF JailMount, TypeBool
  <2>5. TypeSeq'
    BY <1>12, <1>0 DEF JailMount, TypeSeq
  <2>2. TypeData'
    BY <1>12, <1>0 DEF JailMount, TypeData
  <2>3. FdInv'
    BY <1>12, <1>0 DEF JailMount, TypeSeq, TypeData, FdInv, MountInv, Registered, Ran, InheritedFds, MetaFds, LaunchFds, JailFds, Launched, Mounted
  <2>4. MountInv'
    BY <1>12, <1>0 DEF JailMount, TypeSeq, TypeData, FdInv, MountInv, Registered, Ran, InheritedFds, MetaFds, LaunchFds, JailFds, Launched, Mounted
  <2>. QED
    BY <2>1, <2>2, <2>3, <2>4, <2>5 DEF HooksInv, TypeOK, TypeBool, TypeSeq, TypeData
<1>13. CASE RunHook
  <2> DEFINE R == {StdFd[s] : s \in redirects}
             M == {kMetaFd, kSigsysNotificationFd}
  <2>0. /\ jpc = "hooks" /\ mpc = "launched" /\ hidx \in 1 .. Len(hooks)
        /\ UNCHANGED <<fromSudo, sandboxed, redirects, path, preserved, hooks,
                       binds, mounted, mpc>>
    BY <1>13, <1>0 DEF RunHook, TypeSeq, FdInv
  <2>6. \/ /\ hooks[hidx] \in {"remount", "chdir", "rlimits"}
           /\ hidx' = hidx + 1 /\ jpc' = jpc /\ fds' = fds
           /\ rootUses' = rootUses
        \/ /\ hooks[hidx] = "metainit" /\ hidx' = hidx + 1 /\ jpc' = jpc
           /\ fds' = fds \ M /\ rootUses' = rootUses
        \/ /\ hooks[hidx] = "redirect" /\ hidx' = hidx + 1 /\ jpc' = jpc
           /\ fds' = fds \cup R /\ detached' = sandboxed
           /\ rootUses' \in {rootUses,
                              rootUses \cup {<<s, StdioSource(s)>> : s \in redirects}}
        \/ jpc' = "dead" /\ hidx' = hidx /\ fds' = fds /\ rootUses' = rootUses
    BY <1>13 DEF RunHook, RedirectStdio, MetaInitChild, StdioSource, JailCred
  <2>1. TypeBool'
    BY <1>13, <1>0 DEF RunHook, RedirectStdio, MetaInitChild, StdioSource, JailCred, TypeBool
  <2>5. TypeSeq'
    BY <1>13, <1>0 DEF RunHook, RedirectStdio, MetaInitChild, StdioSource, JailCred, TypeSeq
  <2>2. TypeData'
    <3>0. redirects \subseteq Streams
      BY <1>0 DEF TypeData
    <3>1. R \subseteq 0 .. 5 /\ M \subseteq 0 .. 5
      BY <3>0
    <3>2. fds \subseteq 0 .. 5
      BY <1>0 DEF TypeData
    <3>3. fds' \subseteq 0 .. 5
      BY <2>6, <3>1, <3>2
    <3>4. \A s \in redirects : StdioSource(s) \in Files
      <4>1. CASE sandboxed
        <5>1. binds = redirects /\ \A s \in binds : mounted[s] \in Files
          BY <2>0, <4>1, <1>0 DEF MountInv, Mounted
        <5>. QED
          BY <5>1, <4>1 DEF StdioSource
      <4>2. CASE ~sandboxed
        BY <4>2, <1>0 DEF StdioSource, TypeData
      <4>. QED
        BY <4>1, <4>2
    <3>5. rootUses' \subseteq Streams \X Files
      <4>1. rootUses \subseteq Streams \X Files /\ redirects \subseteq Streams
        BY <1>0 DEF TypeData
      <4>. QED
        BY <2>6, <3>4, <4>1
    <3>. QED
      BY <1>13, <1>0, <3>3, <3>5 DEF RunHook, RedirectStdio, MetaInitChild, StdioSource, JailCred, TypeData
  <2>3. FdInv'
    <3>0. redirects \subseteq Streams
      BY <1>0 DEF TypeData
    <3>1. R \cap (M \cup {kLoggingFd}) = {}
      BY <3>0
    <3>2. \A g : hidx' = hidx + 1 => (Ran(g)' <=> Ran(g) \/ hooks[hidx] = g)
      BY <2>0, <1>0, RanStep DEF TypeOK, TypeBool, TypeSeq, TypeData
    <3>3. fds = JailFds
      BY <2>0, <1>0 DEF FdInv, Launched
    <3>4. JailFds = (preserved \cup (IF Ran("redirect") THEN R ELSE {}))
                      \ (IF Ran("metainit") THEN M ELSE {})
      BY <2>0 DEF JailFds
    <3>5. JailFds' = (preserved \cup (IF Ran("redirect")' THEN R ELSE {}))
                       \ (IF Ran("metainit")' THEN M ELSE {}) \/ jpc' = "dead"
      BY <2>0, <2>6 DEF JailFds
    <3>6. fds' = JailFds' \/ jpc' = "dead"
      <4>1. CASE hooks[hidx] \in {"remount", "chdir", "rlimits"}
                 /\ hidx' = hidx + 1 /\ jpc' = jpc /\ fds' = fds
        BY <4>1, <3>2, <3>3, <3>4, <3>5
      <4>2. CASE hooks[hidx] = "metainit" /\ hidx' = hidx + 1 /\ jpc' = jpc
                 /\ fds' = fds \ M
        BY <4>2, <3>2, <3>3, <3>4, <3>5
      <4>3. CASE hooks[hidx] = "redirect" /\ hidx' = hidx + 1 /\ jpc' = jpc
                 /\ fds' = fds \cup R
        BY <4>3, <3>1, <3>2, <3>3, <3>4, <3>5
      <4>4. CASE jpc' = "dead"
        BY <4>4
      <4>. QED
        BY <2>6, <4>1, <4>2, <4>3, <4>4
    <3>7. jpc' \in {"hooks", "dead"} /\ hidx' \in {hidx, hidx + 1}
      BY <2>0, <2>6
    <3>8. /\ preserved' = LaunchFds'
          /\ hasMeta' => Registered("metainit")'
          /\ redirects' # {} => Registered("redirect")'
          /\ \E k \in 1 .. Len(execHooks') : execHooks'[k] = "closelog"
      <4>1. UNCHANGED <<hasMeta, execHooks>>
        BY <1>13 DEF RunHook
      <4>2. /\ preserved = LaunchFds
            /\ hasMeta => Registered("metainit")
            /\ redirects # {} => Registered("redirect")
            /\ \E k \in 1 .. Len(execHooks) : execHooks[k] = "closelog"
        BY <2>0, <1>0 DEF FdInv
      <4>. QED
        BY <4>1, <4>2, <2>0 DEF LaunchFds, InheritedFds, MetaFds, Registered
    <3>. QED
      BY <2>0, <3>6, <3>7, <3>8 DEF FdInv, Launched
  <2>4. MountInv'
    BY <1>13, <1>0 DEF RunHook, RedirectStdio, MetaInitChild, StdioSource, JailCred, TypeSeq, TypeData, FdInv, MountInv, Registered, Ran, InheritedFds, MetaFds, LaunchFds, JailFds, Launched, Mounted
  <2>. QED
    BY <2>1, <2>2, <2>3, <2>4, <2>5 DEF HooksInv, TypeOK, TypeBool, TypeSeq, TypeData
<1>14. CASE DropCaps
  <2>1. TypeBool'
    BY <1>14, <1>0 DEF DropCaps, JailCred, TypeBool
  <2>5. TypeSeq'
    BY <1>14, <1>0 DEF DropCaps, JailCred, TypeSeq
  <2>2. TypeData'
    BY <1>14, <1>0 DEF DropCaps, JailCred, TypeData
  <2>3. FdInv'
    BY <1>14, <1>0 DEF DropCaps, JailCred, TypeSeq, TypeData, FdInv, MountInv, Registered, Ran, InheritedFds, MetaFds, LaunchFds, JailFds, Launched, Mounted
  <2>4. MountInv'
    BY <1>14, <1>0 DEF DropCaps, JailCred, TypeSeq, TypeData, FdInv, MountInv, Registered, Ran, InheritedFds, MetaFds, LaunchFds, JailFds, Launched, Mounted
  <2>. QED
    BY <2>1, <2>2, <2>3, <2>4, <2>5 DEF HooksInv, TypeOK, TypeBool, TypeSeq, TypeData
<1>15. CASE CloseLoggingFd
  <2>1. TypeBool'
    BY <1>15, <1>0 DEF CloseLoggingFd, TypeBool
  <2>5. TypeSeq'
    BY <1>15, <1>0 DEF CloseLoggingFd, TypeSeq
  <2>2. TypeData'
    BY <1>15, <1>0 DEF CloseLoggingFd, TypeData
  <2>3. FdInv'
    BY <1>15, <1>0 DEF CloseLoggingFd, TypeSeq, TypeData, FdInv, MountInv, Registered, Ran, InheritedFds, MetaFds, LaunchFds, JailFds, Launched, Mounted
  <2>4. MountInv'
    BY <1>15, <1>0 DEF CloseLoggingFd, TypeSeq, TypeData, FdInv, MountInv, Registered, Ran, InheritedFds, MetaFds, LaunchFds, JailFds, Launched, Mounted
  <2>. QED
    BY <2>1, <2>2, <2>3, <2>4, <2>5 DEF HooksInv, TypeOK, TypeBool, TypeSeq, TypeData
<1>16. CASE Exec
  <2>1. TypeBool'
    BY <1>16, <1>0 DEF Exec, TypeBool
  <2>5. TypeSeq'
    BY <1>16, <1>0 DEF Exec, TypeSeq
  <2>2. TypeData'
    BY <1>16, <1>0 DEF Exec, TypeData
  <2>3. FdInv'
    BY <1>16, <1>0 DEF Exec, TypeSeq, TypeData, FdInv, MountInv, Registered, Ran, InheritedFds, MetaFds, LaunchFds, JailFds, Launched, Mounted
  <2>4. MountInv'
    BY <1>16, <1>0 DEF Exec, TypeSeq, TypeData, FdInv, MountInv, Registered, Ran, InheritedFds, MetaFds, LaunchFds, JailFds, Launched, Mounted
  <2>. QED
    BY <2>1, <2>2, <2>3, <2>4, <2>5 DEF HooksInv, TypeOK, TypeBool, TypeSeq, TypeData
<1>17. CASE \E s \in Streams : Swap(s)
  <2>1. TypeBool'
    BY <1>17, <1>0 DEF Swap, TypeBool
  <2>5. TypeSeq'
    BY <1>17, <1>0 DEF Swap, TypeSeq
  <2>2. TypeData'
    BY <1>17, <1>0 DEF Swap, TypeData
  <2>3. FdInv'
    BY <1>17, <1>0 DEF Swap, TypeSeq, TypeData, FdInv, MountInv, Registered, Ran, InheritedFds, MetaFds, LaunchFds, JailFds, Launched, Mounted
  <2>4. MountInv'
    BY <1>17, <1>0 DEF Swap, TypeSeq, TypeData, FdInv, MountInv, Registered, Ran, InheritedFds, MetaFds, LaunchFds, JailFds, Launched, Mounted
  <2>. QED
    BY <2>1, <2>2, <2>3, <2>4, <2>5 DEF HooksInv, TypeOK, TypeBool, TypeSeq, TypeData
<1>18. CASE UNCHANGED vars
  <2>1. TypeBool'
    BY <1>18, <1>0 DEF vars, TypeBool
  <2>5. TypeSeq'
    BY <1>18, <1>0 DEF vars, TypeSeq
  <2>2. TypeData'
    BY <1>18, <1>0 DEF vars, TypeData
  <2>3. FdInv'
    BY <1>18, <1>0 DEF vars, TypeSeq, TypeData, FdInv, MountInv, Registered, Ran, InheritedFds, MetaFds, LaunchFds, JailFds, Launched, Mounted
  <2>4. MountInv'
    BY <1>18, <1>0 DEF vars, TypeSeq, TypeData, FdInv, MountInv, Registered, Ran, InheritedFds, MetaFds, LaunchFds, JailFds, Launched, Mounted
  <2>. QED
    BY <2>1, <2>2, <2>3, <2>4, <2>5 DEF HooksInv, TypeOK, TypeBool, TypeSeq, TypeData
<1>. QED
  BY <1>1, <1>2, <1>3, <1>4, <1>5, <1>6, <1>7, <1>8, <1>9, <1>10, <1>11, <1>12, <1>13, <1>14, <1>15, <1>16, <1>17, <1>18 DEF Next, MainStep, JailStep

-----------------------------------------------------------------------------
(* Once the jail has run every PRE_DROP_CAPS hook, a registered hook has  *)
(* run.                                                                   *)
LEMMA RegisteredRan ==
  ASSUME NEW h, hidx = Len(hooks) + 1, Registered(h)
  PROVE  Ran(h)
BY DEF Registered, Ran

(* Type correctness of the launch: every variable of main, of the jail    *)
(* and of the caller keeps its type, for every set of modes and whether   *)
(* or not the caller swaps its paths.                                     *)
THEOREM HooksTypeCorrect == Spec => []TypeOK
<1>1. HooksInv => TypeOK
  BY DEF HooksInv
<1>. QED
  BY <1>1, InitHooksInv, NextHooksInv, PTL DEF Spec

(* The target runs holding exactly the standard fds it is meant to have: *)
(* the redirected streams in the sandbox, all three outside it; never the *)
(* logging fd, which CloseLoggingFd closes, nor the meta-init fds, which  *)
(* the MetaInit child closes (main lines 837-973, RedirectStdio).         *)
THEOREM HooksTargetFds == Spec => []TargetFds
<1>1. HooksInv => TargetFds
  <2> SUFFICES ASSUME HooksInv, jpc = "running"
               PROVE  fds = {StdFd[s] : s \in IF sandboxed THEN redirects
                                                         ELSE Streams}
    BY DEF TargetFds
  <2> USE DEF Streams, StdFd, kLoggingFd, kMetaFd, kSigsysNotificationFd
  <2>1. /\ mpc = "launched" /\ hidx = Len(hooks) + 1 /\ fds = JailFds
        /\ preserved = LaunchFds
        /\ hasMeta => Registered("metainit")
        /\ redirects # {} => Registered("redirect")
    BY DEF HooksInv, FdInv, Launched
  <2>2. /\ hasMeta => Ran("metainit")
        /\ redirects # {} => Ran("redirect")
    BY <2>1, RegisteredRan
  <2>3. redirects \subseteq Streams
    BY DEF HooksInv, TypeOK
  <2>4. fds = ((preserved \cup (IF Ran("redirect") THEN {StdFd[s] : s \in redirects}
                                                  ELSE {}))
                 \ ((IF Ran("metainit") THEN {kMetaFd, kSigsysNotificationFd}
                                        ELSE {}) \cup {kLoggingFd}))
    BY <2>1 DEF JailFds
  <2>. QED
    BY <2>1, <2>2, <2>3, <2>4 DEF LaunchFds, InheritedFds, MetaFds
<1>. QED
  BY <1>1, InitHooksInv, NextHooksInv, PTL DEF Spec

(* Spec 8.7: whenever a caller path is bind-mounted under /mnt/stdio, the *)
(* target starts only after RedirectStdio has detached it.                *)
THEOREM HooksStdioDetached == Spec => []StdioDetachedBeforeExec
<1>1. HooksInv => StdioDetachedBeforeExec
  <2> SUFFICES ASSUME HooksInv, jpc = "running", binds # {}
               PROVE  detached
    BY DEF StdioDetachedBeforeExec
  <2>1. sandboxed /\ binds = redirects
    BY DEF HooksInv, MountInv, FdInv
  <2>2. hidx = Len(hooks) + 1 /\ Registered("redirect")
    BY <2>1 DEF HooksInv, FdInv
  <2>3. Ran("redirect")
    BY <2>2, RegisteredRan
  <2>. QED
    BY <2>1, <2>3 DEF HooksInv, MountInv, Mounted
<1>. QED
  BY <1>1, InitHooksInv, NextHooksInv, PTL DEF Spec

-----------------------------------------------------------------------------
(* main runs with the caller's euid from the seteuid of line 708 to the   *)
(* seteuid(0) of line 989: at every control point between the two.       *)
EuidInv ==
  mpc \in {"prologue", "config", "stdio", "chdir", "payload", "tail",
           "escalate"} => euid = "user"

LEMMA InitEuidInv == Init => EuidInv
BY DEF Init, EuidInv

LEMMA NextEuidInv == EuidInv /\ [Next]_vars => EuidInv'
<1> SUFFICES ASSUME EuidInv, [Next]_vars PROVE EuidInv'
  OBVIOUS
<1> USE DEF EuidInv, MainGoto, MainFail
<1>1. CASE SudoDrop
  BY <1>1 DEF SudoDrop
<1>2. CASE SudoRestore
  BY <1>2 DEF SudoRestore
<1>3. CASE Prologue \/ SandboxConfig \/ StdioDone \/ UnsandboxedConfig
  BY <1>3 DEF Prologue, SandboxConfig, StdioDone, UnsandboxedConfig
<1>4. CASE InstallStdio
  <2>1. UNCHANGED euid /\ mpc' \in {mpc, "failed"}
    BY <1>4 DEF InstallStdio
  <2>. QED
    BY <2>1
<1>5. CASE ChdirReg \/ PayloadReg \/ TailReg \/ Run
  BY <1>5 DEF ChdirReg, PayloadReg, TailReg, Run
<1>6. CASE JailStep \/ \E s \in Streams : Swap(s)
  <2>1. UNCHANGED <<mpc, euid>>
    BY <1>6 DEF JailStep, JailMount, RunHook, DropCaps, CloseLoggingFd, Exec,
                Swap, mainVars
  <2>. QED
    BY <2>1
<1>7. CASE UNCHANGED vars
  BY <1>7 DEF vars, mainVars
<1>. QED
  BY <1>1, <1>2, <1>3, <1>4, <1>5, <1>6, <1>7 DEF Next, MainStep

(* Only InstallStdio and UnsandboxedConfig add to what main accepted, and *)
(* both run between the two seteuid calls.                                *)
LEMMA ApprovedStep ==
  ASSUME EuidInv, [Next]_vars, approved' # approved
  PROVE  euid = "user"
<1>1. mpc \in {"stdio", "config"}
  <2>1. CASE InstallStdio \/ UnsandboxedConfig
    BY <2>1 DEF InstallStdio, UnsandboxedConfig
  <2>2. CASE ~(InstallStdio \/ UnsandboxedConfig)
    <3>1. UNCHANGED approved
      BY <2>2 DEF Next, MainStep, JailStep, SudoDrop, Prologue, SandboxConfig,
                  StdioDone, ChdirReg, PayloadReg, TailReg, SudoRestore, Run,
                  JailMount, RunHook, DropCaps, CloseLoggingFd, Exec, Swap,
                  vars, mainVars
    <3>. QED
      BY <3>1
  <2>. QED
    BY <2>1, <2>2
<1>. QED
  BY <1>1 DEF EuidInv

(* Spec 4.3 step 1: main never accepts a caller's stdio path with root's  *)
(* euid, in any mode and whether or not the caller swaps its paths; the   *)
(* opens of lines 247-263 and 836-857 lie between the seteuid calls.      *)
THEOREM HooksMainOpensAsUser == Spec => MainOpensAsUser
<1>1. EuidInv /\ [Next]_vars => [approved' # approved => euid = "user"]_vars
  BY ApprovedStep
<1>. QED
  BY <1>1, InitEuidInv, NextEuidInv, PTL DEF Spec, MainOpensAsUser

-----------------------------------------------------------------------------
(* A file the jail may open with root's uid through stream s: one main    *)
(* accepted, or a protected file behind a path whose own file main        *)
(* accepted before the caller re-pointed it.                              *)
Vetted(s, f) ==
  \/ <<s, f>> \in approved
  \/ f = "protected" /\ <<s, "own">> \in approved

(* main's control points after the jail configuration of lines 765-857.   *)
PastConfig == {"chdir", "payload", "tail", "escalate", "run", "launched"}

(* RootOpensChecked, strengthened: every installed path and, once the     *)
(* jail mounted it, every /mnt/stdio file is vetted; and without the     *)
(* sandbox, once lines 836-857 ran, a redirected stdout or stderr that    *)
(* still resolves to the caller's own file was accepted there.  The jail  *)
(* opens mounted[s] in the sandbox and path[s] outside it, so both are    *)
(* needed for RedirectStdio to keep the invariant.                        *)
RootInv ==
  /\ RootOpensChecked
  /\ \A s \in binds : Vetted(s, path[s])
  /\ jpc \in Mounted => \A s \in binds : Vetted(s, mounted[s])
  /\ ~sandboxed /\ mpc \in PastConfig =>
       \A s \in redirects \ {"stdin"} : path[s] = "own" => <<s, "own">> \in approved

LEMMA InitRootInv == Init => RootInv
BY DEF Init, RootInv, RootOpensChecked, Mounted, PastConfig

(* Accepting more files keeps every file vetted.                          *)
LEMMA VettedMono ==
  ASSUME NEW s, NEW f, approved \subseteq approved', Vetted(s, f)
  PROVE  Vetted(s, f)'
BY DEF Vetted

(* Every step keeps RootInv.  Only InstallStdio and UnsandboxedConfig     *)
(* accept files, JailMount and RedirectStdio open files with root's uid,  *)
(* and a swap turns an accepted own file into a vetted protected one.     *)
LEMMA NextRootInv == HooksInv /\ RootInv /\ [Next]_vars => RootInv'
<1> SUFFICES ASSUME HooksInv, RootInv, [Next]_vars PROVE RootInv'
  OBVIOUS
<1> USE DEF argVars, mainVars, jailVars, MainGoto, MainFail
<1>0. TypeOK /\ FdInv /\ MountInv
  BY DEF HooksInv
<1>1. CASE InstallStdio
  <2>1. /\ UNCHANGED <<path, rootUses, jpc, mounted, sandboxed, redirects>>
        /\ approved \subseteq approved'
        /\ mpc' \in {mpc, "failed"} /\ mpc = "stdio"
        /\ \A s \in binds' : s \in binds \/ <<s, path[s]>> \in approved'
    BY <1>1 DEF InstallStdio
  <2>2. jpc = "idle"
    BY <1>1, <1>0 DEF InstallStdio, FdInv
  <2>3. \A s \in binds' : Vetted(s, path[s])'
    BY <2>1, VettedMono DEF RootInv, Vetted
  <2>4. RootOpensChecked'
    BY <2>1, VettedMono DEF RootInv, RootOpensChecked, Vetted
  <2>. QED
    BY <2>1, <2>2, <2>3, <2>4 DEF RootInv, Mounted, PastConfig
<1>2. CASE UnsandboxedConfig
  <2>1. /\ UNCHANGED <<path, rootUses, jpc, mounted, sandboxed, redirects,
                       binds>>
        /\ approved \subseteq approved'
        /\ ~sandboxed /\ mpc = "config"
    BY <1>2 DEF UnsandboxedConfig
  <2>2. mpc' \in PastConfig =>
          \A s \in redirects \ {"stdin"} :
            path[s] = "own" => <<s, "own">> \in approved'
    BY <1>2 DEF UnsandboxedConfig, Opens, PastConfig
  <2>3. binds = {}
    BY <2>1, <1>0 DEF MountInv
  <2>4. RootOpensChecked'
    BY <2>1, VettedMono DEF RootInv, RootOpensChecked
  <2>. QED
    BY <2>1, <2>2, <2>3, <2>4 DEF RootInv
<1>3. CASE SudoDrop \/ Prologue \/ SandboxConfig \/ StdioDone \/ ChdirReg
           \/ PayloadReg \/ TailReg \/ SudoRestore \/ Run
  <2>1. UNCHANGED <<path, rootUses, mounted, sandboxed, redirects, binds,
                    approved>>
    BY <1>3 DEF SudoDrop, Prologue, SandboxConfig, StdioDone, ChdirReg,
                PayloadReg, TailReg, SudoRestore, Run
  <2>2. jpc' \in Mounted => jpc \in Mounted
    BY <1>3 DEF SudoDrop, Prologue, SandboxConfig, StdioDone, ChdirReg,
                PayloadReg, TailReg, SudoRestore, Run, Mounted
  <2>3. ~sandboxed /\ mpc' \in PastConfig => mpc \in PastConfig
    BY <1>3, <1>0 DEF SudoDrop, Prologue, SandboxConfig, StdioDone, ChdirReg,
                      PayloadReg, TailReg, SudoRestore, Run, PastConfig,
                      MountInv
  <2>. QED
    BY <2>1, <2>2, <2>3 DEF RootInv, RootOpensChecked, Vetted
<1>4. CASE JailMount
  <2>1. UNCHANGED <<path, approved, binds, sandboxed, redirects, mpc>>
    BY <1>4 DEF JailMount
  <2>2. \A s \in binds : mounted'[s] = path[s]
    BY <1>4, <1>0 DEF JailMount, TypeOK
  <2>3. rootUses' \subseteq rootUses \cup {<<s, path[s]>> : s \in binds}
    BY <1>4 DEF JailMount
  <2>4. RootOpensChecked'
    <3> SUFFICES ASSUME NEW u \in rootUses'
                 PROVE  \/ u \in approved'
                        \/ u[2] = "protected" /\ <<u[1], "own">> \in approved'
                        \/ ~sandboxed' /\ (u[1] = "stdin" \/ u[2] = "protected")
      BY DEF RootOpensChecked
    <3>1. CASE u \in rootUses
      BY <3>1, <2>1 DEF RootInv, RootOpensChecked, Vetted
    <3>2. CASE u \notin rootUses
      <4>1. PICK s \in binds : u = <<s, path[s]>>
        BY <3>2, <2>3
      <4>. QED
        BY <4>1, <2>1 DEF RootInv, Vetted
    <3>. QED
      BY <3>1, <3>2
  <2>5. \A s \in binds' : Vetted(s, mounted[s])'
    BY <2>1, <2>2 DEF RootInv, Vetted
  <2>. QED
    BY <2>1, <2>4, <2>5 DEF RootInv, Vetted
<1>5. CASE RunHook
  <2>1. /\ UNCHANGED <<path, approved, binds, mounted, sandboxed, redirects,
                       mpc>>
        /\ jpc' \in {jpc, "dead"}
        /\ jpc = "hooks"
    BY <1>5 DEF RunHook, RedirectStdio, MetaInitChild
  <2>2. rootUses' \subseteq rootUses \cup {<<s, StdioSource(s)>> : s \in redirects}
    BY <1>5 DEF RunHook, RedirectStdio, MetaInitChild
  <2>3. mpc = "launched"
    BY <2>1, <1>0 DEF FdInv
  <2>4. ASSUME NEW s \in redirects
        PROVE  \/ Vetted(s, StdioSource(s))
               \/ ~sandboxed /\ (s = "stdin" \/ StdioSource(s) = "protected")
    <3>1. CASE sandboxed
      <4>1. binds = redirects
        BY <3>1, <2>3, <1>0 DEF MountInv
      <4>. QED
        BY <3>1, <4>1, <2>1 DEF RootInv, Mounted, StdioSource
    <3>2. CASE ~sandboxed
      <4>1. path[s] \in Files
        BY <1>0 DEF TypeOK
      <4>. QED
        BY <3>2, <4>1, <2>3 DEF RootInv, PastConfig, StdioSource, Files, Vetted
    <3>. QED
      BY <3>1, <3>2
  <2>5. RootOpensChecked'
    <3> SUFFICES ASSUME NEW u \in rootUses'
                 PROVE  \/ u \in approved'
                        \/ u[2] = "protected" /\ <<u[1], "own">> \in approved'
                        \/ ~sandboxed' /\ (u[1] = "stdin" \/ u[2] = "protected")
      BY DEF RootOpensChecked
    <3>1. CASE u \in rootUses
      BY <3>1, <2>1 DEF RootInv, RootOpensChecked, Vetted
    <3>2. CASE u \notin rootUses
      <4>1. PICK s \in redirects : u = <<s, StdioSource(s)>>
        BY <3>2, <2>2
      <4>. QED
        BY <4>1, <2>1, <2>4 DEF Vetted
    <3>. QED
      BY <3>1, <3>2
  <2>. QED
    BY <2>1, <2>5 DEF RootInv, Mounted, Vetted
<1>6. CASE DropCaps \/ CloseLoggingFd \/ Exec
  <2>1. /\ UNCHANGED <<path, approved, binds, mounted, rootUses, sandboxed,
                       redirects, mpc>>
        /\ jpc' \in Mounted => jpc \in Mounted
    BY <1>6 DEF DropCaps, CloseLoggingFd, Exec, Mounted
  <2>. QED
    BY <2>1 DEF RootInv, RootOpensChecked, Vetted
<1>7. CASE \E s \in Streams : Swap(s)
  <2>1. PICK r \in Streams : Swap(r)
    BY <1>7
  <2>2. /\ UNCHANGED <<approved, binds, mounted, rootUses, sandboxed,
                       redirects, mpc, jpc>>
        /\ path[r] = "own"
        /\ path' = [path EXCEPT ![r] = "protected"]
    BY <2>1 DEF Swap
  <2>3. \A s \in Streams : \/ path'[s] = path[s]
                           \/ s = r /\ path'[s] = "protected"
    BY <2>2, <1>0 DEF TypeOK
  <2>4. \A s \in binds : Vetted(s, path[s])'
    BY <2>2, <2>3, <1>0 DEF RootInv, Vetted, TypeOK
  <2>5. ~sandboxed /\ mpc' \in PastConfig =>
          \A s \in redirects \ {"stdin"} :
            path'[s] = "own" => <<s, "own">> \in approved'
    BY <2>2, <2>3, <1>0 DEF RootInv, TypeOK
  <2>. QED
    BY <2>2, <2>4, <2>5 DEF RootInv, RootOpensChecked, Vetted
<1>8. CASE UNCHANGED vars
  BY <1>8 DEF vars, RootInv, RootOpensChecked, Vetted, PastConfig
<1>. QED
  BY <1>1, <1>2, <1>3, <1>4, <1>5, <1>6, <1>7, <1>8
  DEF Next, MainStep, JailStep

(* Spec 4.3 step 1, as far as the code keeps it, for every set of modes   *)
(* and whether or not the caller re-points its paths: every file the jail *)
(* opens with root's uid through a caller path (JailMount, RedirectStdio  *)
(* lines 196-242) is one main opened with the caller's euid (lines        *)
(* 247-263, 836-857), a protected file re-pointed after that open, or,    *)
(* without the sandbox, stdin or a file whose open failed.                *)
THEOREM HooksRootOpensChecked == Spec => []RootOpensChecked
<1>1. Init => HooksInv /\ RootInv
  BY InitHooksInv, InitRootInv
<1>2. HooksInv /\ RootInv /\ [Next]_vars => (HooksInv /\ RootInv)'
  BY NextHooksInv, NextRootInv
<1>3. RootInv => RootOpensChecked
  BY DEF RootInv
<1>. QED
  BY <1>1, <1>2, <1>3, PTL DEF Spec

=============================================================================
