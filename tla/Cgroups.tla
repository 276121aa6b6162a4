-------------------------------- MODULE Cgroups --------------------------------
(***************************************************************************)
(* The cgroup life cycle of src/main.cpp across concurrent invocations of  *)
(* the supervisor on one host: main's per-script cgroup (lines 864-907),   *)
(* meta-init's per-invocation cgroups and memory limit (lines 347-411),    *)
(* the child's admission and sealing (lines 446-490), and meta-init's      *)
(* teardown (lines 641-642 and the _exit of line 680).  The host's cgroup  *)
(* tree is shared state: the script cgroup outlives every invocation.      *)
(* ScopedCgroup is not under src/: following spec 3 and 4.1, creating one  *)
(* makes a fresh directory under its path, and its destructor removes the  *)
(* directory (which the kernel refuses while a process is in it) unless    *)
(* release() was called on that copy of the handle.                        *)
(***************************************************************************)
EXTENDS FiniteSets

CONSTANTS
  Invocations,             \* concurrent supervisor runs with one script name
  DisableSandboxingValues, \* args.disable_sandboxing values explored
  Crashes                  \* whether a supervisor may be killed mid-setup

ASSUME CgroupsAssumption ==
  /\ IsFiniteSet(Invocations) /\ Invocations # {}
  /\ DisableSandboxingValues \subseteq BOOLEAN /\ DisableSandboxingValues # {}
  /\ Crashes \in BOOLEAN

Kinds == {"unified", "memory", "pids"}
(* The processes a cgroup can hold: an invocation's target, or whatever   *)
(* process has pid 2 in the supervisor's pid namespace.                   *)
Procs == {"target", "pid2"}
Labels == {"main", "subtree", "meta", "limit", "child", "exec", "running",
           "teardown", "done", "failed", "crashed"}
Reasons == {"none", "io", "nomemmax", "nov1mem"}

VARIABLES
  cgroupV2,     \* IsCgroupV2()
  rootAccess,   \* access(..., W_OK) == 0 at line 868 (v2) or 898 (v1)
  pid2Movable,  \* pid 2 of the host namespace may be moved between cgroups
  sandboxed,    \* [i |-> !args.disable_sandboxing]
  limited,      \* [i |-> args.memory_limit_in_bytes >= 0]
  hasScript,    \* [i |-> !args.script_basename.empty()]
  pc,           \* [i |-> the invocation's control point]
  hasPath,      \* [i |-> !cgroup_path.empty()]
  scriptDir,    \* /sys/fs/cgroup/omegajail/<script> exists
  memEnabled,   \* its cgroup.subtree_control holds +memory
  created,      \* invocation cgroups <<i, kind>> that exist
  limitSet,     \* invocation cgroups whose memory limit was written
  members,      \* <<cgroup, proc>> pairs: the processes in each cgroup
  sealed,       \* cgroups whose procs/tasks file was made read-only
  reason        \* [i |-> why the invocation failed]

hostVars == <<cgroupV2, rootAccess, pid2Movable>>
argVars  == <<sandboxed, limited, hasScript>>
vars == <<hostVars, argVars, pc, hasPath, scriptDir, memEnabled, created,
          limitSet, members, sealed, reason>>

Init ==
  /\ cgroupV2 \in BOOLEAN
  /\ rootAccess \in BOOLEAN
  /\ pid2Movable \in BOOLEAN
  /\ sandboxed \in [Invocations -> {~d : d \in DisableSandboxingValues}]
  /\ limited \in [Invocations -> BOOLEAN]
  /\ hasScript \in [Invocations -> BOOLEAN]
  /\ pc = [i \in Invocations |-> "main"]
  /\ hasPath = [i \in Invocations |-> FALSE]
  /\ scriptDir = FALSE
  /\ memEnabled = FALSE
  /\ created = {}
  /\ limitSet = {}
  /\ members = {}
  /\ sealed = {}
  /\ reason = [i \in Invocations |-> "none"]

(* The cgroups of invocation i its child has still to join.  The child   *)
(* joins the unified one (line 449) or, in v1, the memory cgroup before   *)
(* the pids one (line 469), skipping those that were not created.         *)
Pending(i) == {k \in Kinds : <<i, k>> \in created /\ <<i, k>> \notin sealed}
(* Mutant: the "if (!cgroup) continue;" of line 470 is lost.              *)
NextKindUnchecked(i) ==
  IF <<i, "unified">> \in created THEN "unified" ELSE "memory"
NextKind(i) ==
  IF "memory" \in Pending(i) THEN "memory" ELSE CHOOSE k \in Pending(i) : TRUE

Fail(i, r) == pc' = [pc EXCEPT ![i] = "failed"] /\ reason' = [reason EXCEPT ![i] = r]
Goto(i, l) == pc' = [pc EXCEPT ![i] = l] /\ UNCHANGED reason

-----------------------------------------------------------------------------
(* main, lines 864-907.                                                   *)

(* No script name, or the access() check fails: cgroup_path stays empty.  *)
MainNoPath(i) ==
  /\ pc[i] = "main"
  /\ ~hasScript[i] \/ ~rootAccess
  /\ Goto(i, "meta")
  /\ UNCHANGED <<hostVars, argVars, hasPath, scriptDir, memEnabled, created,
                 limitSet, members, sealed>>

(* v1 (lines 896-905): the pids cgroup of the script is used as it is.    *)
MainV1Path(i) ==
  /\ pc[i] = "main"
  /\ hasScript[i] /\ rootAccess /\ ~cgroupV2
  /\ hasPath' = [hasPath EXCEPT ![i] = TRUE]
  /\ Goto(i, "meta")
  /\ UNCHANGED <<hostVars, argVars, scriptDir, memEnabled, created, limitSet,
                 members, sealed>>

(* Mutant: the +memory write of lines 873-883 is left out.               *)
MainMkdirNoSubtree(i) ==
  /\ pc[i] = "main"
  /\ hasScript[i] /\ rootAccess /\ cgroupV2
  /\ hasPath' = [hasPath EXCEPT ![i] = TRUE]
  /\ scriptDir' = TRUE /\ Goto(i, "meta")
  /\ UNCHANGED <<hostVars, argVars, memEnabled, created, limitSet, members,
                 sealed>>

(* v2 (lines 871-887): mkdir the script cgroup.  Only the run whose mkdir *)
(* created it enables the memory controller; EEXIST is taken to mean that *)
(* another run already did.                                               *)
MainMkdir(i) ==
  /\ pc[i] = "main"
  /\ hasScript[i] /\ rootAccess /\ cgroupV2
  /\ hasPath' = [hasPath EXCEPT ![i] = TRUE]
  /\ IF scriptDir THEN Goto(i, "meta") /\ UNCHANGED scriptDir
                  ELSE scriptDir' = TRUE /\ Goto(i, "subtree")
  /\ UNCHANGED <<hostVars, argVars, memEnabled, created, limitSet, members,
                 sealed>>

(* Line 876: write +memory to its cgroup.subtree_control; on failure main *)
(* returns, leaving the directory behind.                                 *)
MainSubtree(i) ==
  /\ pc[i] = "subtree"
  /\ \/ memEnabled' = TRUE /\ Goto(i, "meta")
     \/ Fail(i, "io") /\ UNCHANGED memEnabled
  /\ UNCHANGED <<hostVars, argVars, hasPath, scriptDir, created, limitSet,
                 members, sealed>>

(* The supervisor is killed while it sets up the script cgroup.           *)
Crash(i) ==
  /\ Crashes
  /\ pc[i] \in {"main", "subtree"}
  /\ Goto(i, "crashed")
  /\ UNCHANGED <<hostVars, argVars, hasPath, scriptDir, memEnabled, created,
                 limitSet, members, sealed>>

-----------------------------------------------------------------------------
(* MetaInit, lines 347-411.                                               *)

(* Lines 348-368: with a cgroup path, a unified (v2) or pids (v1)         *)
(* invocation cgroup is created under it.                                 *)
MetaCreate(i) ==
  /\ pc[i] = "meta"
  /\ IF hasPath[i]
       THEN \/ /\ created' = created \cup
                    {<<i, IF cgroupV2 THEN "unified" ELSE "pids">>}
               /\ Goto(i, "limit")
            \/ Fail(i, "io") /\ UNCHANGED created
       ELSE Goto(i, "limit") /\ UNCHANGED created
  /\ UNCHANGED <<hostVars, argVars, hasPath, scriptDir, memEnabled, limitSet,
                 members, sealed>>

(* Lines 370-411, sandboxed with a memory limit: with a unified cgroup,   *)
(* write the limit to its memory.max and chmod it read-only.  memory.max  *)
(* exists only if the script cgroup enables the memory controller.        *)
MetaLimitUnified(i) ==
  /\ pc[i] = "limit"
  /\ sandboxed[i] /\ limited[i] /\ <<i, "unified">> \in created
  /\ \/ memEnabled /\ limitSet' = limitSet \cup {<<i, "unified">>}
                   /\ Goto(i, "child")
     \/ memEnabled /\ Fail(i, "io") /\ UNCHANGED limitSet
     \/ ~memEnabled /\ Fail(i, "nomemmax") /\ UNCHANGED limitSet
  /\ UNCHANGED <<hostVars, argVars, hasPath, scriptDir, memEnabled, created,
                 members, sealed>>

(* Lines 382-411: without a unified cgroup, create the v1 memory cgroup,  *)
(* write memory.limit_in_bytes and chmod it.  The v1 hierarchy does not   *)
(* exist on a v2 host, so there the creation fails.                       *)
MetaLimitV1(i) ==
  /\ pc[i] = "limit"
  /\ sandboxed[i] /\ limited[i] /\ <<i, "unified">> \notin created
  /\ \/ cgroupV2 /\ Fail(i, "nov1mem") /\ UNCHANGED <<created, limitSet>>
     \/ ~cgroupV2 /\ created' = created \cup {<<i, "memory">>}
                 /\ \/ limitSet' = limitSet \cup {<<i, "memory">>}
                       /\ Goto(i, "child")
                    \/ Fail(i, "io") /\ UNCHANGED limitSet
  /\ UNCHANGED <<hostVars, argVars, hasPath, scriptDir, memEnabled, members,
                 sealed>>

(* Lines 370-377: without a limit, or unsandboxed (where meta-init only    *)
(* becomes a subreaper), no memory cgroup is used.                        *)
MetaNoLimit(i) ==
  /\ pc[i] = "limit"
  /\ ~(sandboxed[i] /\ limited[i])
  /\ Goto(i, "child")
  /\ UNCHANGED <<hostVars, argVars, hasPath, scriptDir, memEnabled, created,
                 limitSet, members, sealed>>

-----------------------------------------------------------------------------
(* The forked child, lines 446-490: for each cgroup, write "2" to its     *)
(* procs/tasks file, release() the handle, chmod the file 0444.  Pid 2 is *)
(* the child only inside the new pid namespace of the sandboxed mode;     *)
(* otherwise it is the host's pid 2, which the kernel refuses to move     *)
(* when it is a kernel thread.  A failed step makes the child return      *)
(* -errno: it dies before exec and meta-init goes on to its teardown.     *)
ChildAdmitWrite(i, p) == members' = members \cup {<<<<i, NextKind(i)>>, p>>}

(* Mutant: a failed write to procs/tasks is ignored and the file sealed.  *)
ChildAdmitUnchecked(i) ==
  /\ pc[i] = "child"
  /\ Pending(i) # {}
  /\ \/ ChildAdmitWrite(i, "target") /\ UNCHANGED pc
     \/ UNCHANGED <<members, pc>>
  /\ sealed' = sealed \cup {<<i, NextKind(i)>>}
  /\ UNCHANGED <<hostVars, argVars, hasPath, scriptDir, memEnabled, created,
                 limitSet, reason>>

ChildAdmit(i) ==
  /\ pc[i] = "child"
  /\ Pending(i) # {}
  /\ LET p == IF sandboxed[i] THEN "target" ELSE "pid2"
     IN  IF p = "pid2" /\ ~pid2Movable
           THEN Goto(i, "teardown") /\ UNCHANGED <<members, sealed>>
           ELSE \/ /\ ChildAdmitWrite(i, p)
                   /\ sealed' = sealed \cup {<<i, NextKind(i)>>}
                   /\ UNCHANGED <<pc, reason>>
                \/ Goto(i, "teardown") /\ UNCHANGED <<members, sealed>>
  /\ UNCHANGED <<hostVars, argVars, hasPath, scriptDir, memEnabled, created,
                 limitSet>>

(* Every cgroup admitted: the child returns and minijail execs the target. *)
Exec(i) ==
  /\ pc[i] = "child"
  /\ Pending(i) = {}
  /\ Goto(i, "exec")
  /\ UNCHANGED <<hostVars, argVars, hasPath, scriptDir, memEnabled, created,
                 limitSet, members, sealed>>

(* The target starts running (it is what the exec'd image does first).    *)
TargetStart(i) ==
  /\ pc[i] = "exec"
  /\ Goto(i, "running")
  /\ UNCHANGED <<hostVars, argVars, hasPath, scriptDir, memEnabled, created,
                 limitSet, members, sealed>>

(* The target terminates (or meta-init kills it at the deadline).         *)
TargetEnd(i) ==
  /\ pc[i] = "running"
  /\ Goto(i, "teardown")
  /\ UNCHANGED <<hostVars, argVars, hasPath, scriptDir, memEnabled, created,
                 limitSet, members, sealed>>

(* Lines 609-642 and 680: the sweep has reaped the target; meta-init      *)
(* resets its memory and pids handles, whose destructors rmdir the        *)
(* cgroups that are empty, and _exits, so the unified handle is never     *)
(* destroyed.                                                             *)
Teardown(i) ==
  /\ pc[i] = "teardown"
  /\ LET left == {m \in members : ~(m[1][1] = i /\ m[2] = "target")}
         gone == {<<i, "memory">>, <<i, "pids">>} \ {m[1] : m \in left}
     IN  /\ members' = left
         /\ created' = created \ gone
         /\ limitSet' = limitSet \ gone
         /\ sealed' = sealed \ gone
  /\ Goto(i, "done")
  /\ UNCHANGED <<hostVars, argVars, hasPath, scriptDir, memEnabled>>

-----------------------------------------------------------------------------
Step(i) ==
  \/ MainNoPath(i) \/ MainV1Path(i) \/ MainMkdir(i) \/ MainSubtree(i)
  \/ Crash(i) \/ MetaCreate(i) \/ MetaLimitUnified(i) \/ MetaLimitV1(i)
  \/ MetaNoLimit(i) \/ ChildAdmit(i) \/ Exec(i)
  \/ TargetStart(i) \/ TargetEnd(i) \/ Teardown(i)

Next == \E i \in Invocations : Step(i)

Spec == Init /\ [][Next]_vars

-----------------------------------------------------------------------------
(* Properties.                                                            *)

TypeOK ==
  /\ cgroupV2 \in BOOLEAN /\ rootAccess \in BOOLEAN /\ pid2Movable \in BOOLEAN
  /\ sandboxed \in [Invocations -> BOOLEAN]
  /\ limited \in [Invocations -> BOOLEAN]
  /\ hasScript \in [Invocations -> BOOLEAN]
  /\ pc \in [Invocations -> Labels]
  /\ hasPath \in [Invocations -> BOOLEAN]
  /\ scriptDir \in BOOLEAN /\ memEnabled \in BOOLEAN
  /\ created \subseteq Invocations \X Kinds
  /\ limitSet \subseteq created
  /\ members \subseteq created \X Procs
  /\ sealed \subseteq created
  /\ reason \in [Invocations -> Reasons]

(* Spec 5 (ii) and 8.1: a target runs only once it is in every cgroup its *)
(* meta-init created for it, with the procs/tasks files sealed, and, when *)
(* a memory limit is configured in the sandboxed mode, once that limit is *)
(* written.  It rests on the child failing closed at every write of lines *)
(* 451-487 and on pid 2 naming the child.                                 *)
TargetConfined ==
  \A i \in Invocations :
    pc[i] = "running" =>
      /\ \A k \in Kinds : <<i, k>> \in created =>
           /\ <<<<i, k>>, "target">> \in members
           /\ <<i, k>> \in sealed
      /\ sandboxed[i] /\ limited[i] => \E k \in Kinds : <<i, k>> \in limitSet

(* Spec 4.1: in v2 the memory limit is written to the invocation          *)
(* cgroup's memory.max; a run never fails because that file is missing.   *)
LimitFileExists ==
  \A i \in Invocations : reason[i] # "nomemmax"

(* A run that may have left the script cgroup without +memory: it is at   *)
(* the subtree_control write, was killed before it, or failed with an    *)
(* I/O error (line 876 returns after its mkdir).                          *)
StuckCreator(j) ==
  \/ pc[j] \in {"subtree", "crashed"}
  \/ pc[j] = "failed" /\ reason[j] = "io"

(* Lines 871-887 and 370-380: a run fails for a missing memory.max only   *)
(* when another run made the script cgroup and has not enabled, and may   *)
(* never enable, its memory controller: the run that got EEXIST trusts a *)
(* cgroup whose +memory write is pending, failed or was cut off.          *)
MemoryMaxMissingCause ==
  [][\A i \in Invocations :
       reason'[i] = "nomemmax" /\ reason[i] # "nomemmax" =>
         \E j \in Invocations \ {i} : StuckCreator(j)]_vars

(* A memory limit accepted by main is applied: meta-init never reaches    *)
(* for the v1 memory hierarchy on a host that has none (spec 4.1).        *)
MemoryCgroupExists ==
  \A i \in Invocations : reason[i] # "nov1mem"

(* Spec 3 and 8.6: once an invocation is over, none of the cgroups it     *)
(* created remains.                                                       *)
NoCgroupLeak ==
  \A i \in Invocations :
    pc[i] = "done" => \A k \in Kinds : <<i, k>> \notin created

=============================================================================
