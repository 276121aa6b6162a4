---------------------------- MODULE CgroupsProofs ----------------------------
(***************************************************************************)
(* Proofs about the cgroup life cycle of Cgroups.tla, for every set of     *)
(* concurrent invocations and every mix of sandboxed and unsandboxed runs. *)
(***************************************************************************)
EXTENDS Cgroups, TLAPS

(* Per invocation i: nothing of i is sealed before its child runs; in the *)
(* sandboxed mode every sealed cgroup of i holds its target; once the     *)
(* child has exec'd, every cgroup created for i is sealed; and a          *)
(* sandboxed child with a memory limit starts only once it is written.    *)
NotSealedYet(i) ==
  pc[i] \in {"main", "subtree", "meta", "limit"} =>
    \A k \in Kinds : <<i, k>> \notin sealed
SealedHoldsTarget(i) ==
  sandboxed[i] /\ pc[i] \in {"child", "exec", "running"} =>
    \A k \in Kinds : <<i, k>> \in sealed => <<<<i, k>>, "target">> \in members
AllSealed(i) ==
  pc[i] \in {"exec", "running"} =>
    \A k \in Kinds : <<i, k>> \in created => <<i, k>> \in sealed
LimitWritten(i) ==
  sandboxed[i] /\ limited[i] /\ pc[i] \in {"child", "exec", "running"} =>
    \E k \in Kinds : <<i, k>> \in limitSet
AdmitInv(i) ==
  NotSealedYet(i) /\ SealedHoldsTarget(i) /\ AllSealed(i) /\ LimitWritten(i)
(* The modes are the arguments of each run: they never change.            *)
ModesFixed == sandboxed \in [Invocations -> {~d : d \in DisableSandboxingValues}]

CInv == TypeOK /\ ModesFixed /\ \A i \in Invocations : AdmitInv(i)

(* TargetConfined, for the sandboxed invocations only.                   *)
SandboxedConfined ==
  \A i \in Invocations :
    sandboxed[i] /\ pc[i] = "running" =>
      /\ \A k \in Kinds : <<i, k>> \in created =>
           /\ <<<<i, k>>, "target">> \in members
           /\ <<i, k>> \in sealed
      /\ limited[i] => \E k \in Kinds : <<i, k>> \in limitSet

(* The shared script cgroup: a run holds a v2 cgroup path only once the   *)
(* script cgroup exists, and its unified cgroup only with that path; and *)
(* the script cgroup lacks +memory only while a run that may have made   *)
(* it is stuck at, or stopped at, the subtree_control write.             *)
ScriptInv ==
  /\ \A i \in Invocations : hasPath[i] /\ cgroupV2 => scriptDir
  /\ \A i \in Invocations : <<i, "unified">> \in created => hasPath[i] /\ cgroupV2
  /\ scriptDir /\ ~memEnabled => \E j \in Invocations : StuckCreator(j)

LEMMA InitCInv == Init => CInv
<1> SUFFICES ASSUME Init PROVE CInv
  OBVIOUS
<1>1. {~d : d \in DisableSandboxingValues} \subseteq BOOLEAN
  BY CgroupsAssumption
<1>2. TypeOK
  BY <1>1 DEF Init, TypeOK, Labels, Reasons
<1>3. \A i \in Invocations : AdmitInv(i)
  BY DEF Init, AdmitInv, NotSealedYet, SealedHoldsTarget, AllSealed,
         LimitWritten
<1>. QED
  BY <1>2, <1>3 DEF Init, CInv, ModesFixed

(* The cgroup the child admits next is one it has still to join.          *)
LEMMA NextKindPending ==
  ASSUME NEW i, Pending(i) # {}
  PROVE  NextKind(i) \in Pending(i)
BY DEF NextKind

LEMMA NextCInv == CInv /\ [Next]_vars => CInv'
<1> SUFFICES ASSUME CInv, [Next]_vars PROVE CInv'
  OBVIOUS
<1> USE DEF Kinds, Procs, Labels, Reasons, hostVars, argVars, Goto, Fail
<1>0. TypeOK /\ ModesFixed /\ \A i \in Invocations : AdmitInv(i)
  BY DEF CInv
<1>1. CASE UNCHANGED vars
  BY <1>0, <1>1 DEF vars, CInv, TypeOK, ModesFixed, AdmitInv, NotSealedYet,
                    SealedHoldsTarget, AllSealed, LimitWritten
<1>2. CASE Next
  <2>0. PICK i \in Invocations : Step(i)
    BY <1>2 DEF Next
  <2>1. CASE MainNoPath(i)
    <3>1. /\ pc[i] \in {"main", "subtree"}
          /\ \E l \in {"subtree", "meta", "failed", "crashed"} :
               pc' = [pc EXCEPT ![i] = l]
          /\ UNCHANGED <<sandboxed, limited, created, limitSet, members, sealed>>
      BY <2>1 DEF MainNoPath
    <3>2. TypeOK'
      BY <2>1, <1>0 DEF MainNoPath, TypeOK
    <3>3. ASSUME NEW j \in Invocations PROVE AdmitInv(j)'
      BY <3>1, <1>0 DEF TypeOK, AdmitInv, NotSealedYet, SealedHoldsTarget,
         AllSealed, LimitWritten
    <3>. QED
      BY <3>1, <3>2, <3>3, <1>0 DEF CInv, ModesFixed
  <2>2. CASE MainV1Path(i)
    <3>1. /\ pc[i] \in {"main", "subtree"}
          /\ \E l \in {"subtree", "meta", "failed", "crashed"} :
               pc' = [pc EXCEPT ![i] = l]
          /\ UNCHANGED <<sandboxed, limited, created, limitSet, members, sealed>>
      BY <2>2 DEF MainV1Path
    <3>2. TypeOK'
      BY <2>2, <1>0 DEF MainV1Path, TypeOK
    <3>3. ASSUME NEW j \in Invocations PROVE AdmitInv(j)'
      BY <3>1, <1>0 DEF TypeOK, AdmitInv, NotSealedYet, SealedHoldsTarget,
         AllSealed, LimitWritten
    <3>. QED
      BY <3>1, <3>2, <3>3, <1>0 DEF CInv, ModesFixed
  <2>3. CASE MainMkdir(i)
    <3>1. /\ pc[i] \in {"main", "subtree"}
          /\ \E l \in {"subtree", "meta", "failed", "crashed"} :
               pc' = [pc EXCEPT ![i] = l]
          /\ UNCHANGED <<sandboxed, limited, created, limitSet, members, sealed>>
      BY <2>3 DEF MainMkdir
    <3>2. TypeOK'
      BY <2>3, <1>0 DEF MainMkdir, TypeOK
    <3>3. ASSUME NEW j \in Invocations PROVE AdmitInv(j)'
      BY <3>1, <1>0 DEF TypeOK, AdmitInv, NotSealedYet, SealedHoldsTarget,
         AllSealed, LimitWritten
    <3>. QED
      BY <3>1, <3>2, <3>3, <1>0 DEF CInv, ModesFixed
  <2>4. CASE MainSubtree(i)
    <3>1. /\ pc[i] \in {"main", "subtree"}
          /\ \E l \in {"subtree", "meta", "failed", "crashed"} :
               pc' = [pc EXCEPT ![i] = l]
          /\ UNCHANGED <<sandboxed, limited, created, limitSet, members, sealed>>
      BY <2>4 DEF MainSubtree
    <3>2. TypeOK'
      BY <2>4, <1>0 DEF MainSubtree, TypeOK
    <3>3. ASSUME NEW j \in Invocations PROVE AdmitInv(j)'
      BY <3>1, <1>0 DEF TypeOK, AdmitInv, NotSealedYet, SealedHoldsTarget,
         AllSealed, LimitWritten
    <3>. QED
      BY <3>1, <3>2, <3>3, <1>0 DEF CInv, ModesFixed
  <2>5. CASE Crash(i)
    <3>1. /\ pc[i] \in {"main", "subtree"}
          /\ \E l \in {"subtree", "meta", "failed", "crashed"} :
               pc' = [pc EXCEPT ![i] = l]
          /\ UNCHANGED <<sandboxed, limited, created, limitSet, members, sealed>>
      BY <2>5 DEF Crash
    <3>2. TypeOK'
      BY <2>5, <1>0 DEF Crash, TypeOK
    <3>3. ASSUME NEW j \in Invocations PROVE AdmitInv(j)'
      BY <3>1, <1>0 DEF TypeOK, AdmitInv, NotSealedYet, SealedHoldsTarget,
         AllSealed, LimitWritten
    <3>. QED
      BY <3>1, <3>2, <3>3, <1>0 DEF CInv, ModesFixed
  <2>6. CASE MetaCreate(i)
    <3>1. TypeOK'
      BY <2>6, <1>0 DEF MetaCreate, TypeOK
    <3>2. ASSUME NEW j \in Invocations PROVE AdmitInv(j)'
      <4>1. CASE j = i
        BY <2>6, <1>0, <4>1 DEF MetaCreate, TypeOK, AdmitInv, NotSealedYet,
           SealedHoldsTarget, AllSealed, LimitWritten
      <4>2. CASE j # i
        <5>1. /\ created' \subseteq created \cup {<<i, "unified">>, <<i, "pids">>}
              /\ UNCHANGED <<sandboxed, limited, limitSet, members, sealed>>
              /\ pc'[j] = pc[j]
          BY <2>6, <4>2, <1>0 DEF MetaCreate, TypeOK
        <5>2. \A k : <<j, k>> \in created' => <<j, k>> \in created
          BY <5>1, <4>2
        <5>. QED
          BY <5>1, <5>2, <1>0 DEF AdmitInv, NotSealedYet, SealedHoldsTarget,
             AllSealed, LimitWritten
      <4>. QED
        BY <4>1, <4>2
    <3>. QED
      BY <3>1, <3>2, <2>6, <1>0 DEF MetaCreate, CInv, ModesFixed
  <2>7. CASE MetaLimitUnified(i)
    <3>1. TypeOK'
      BY <2>7, <1>0 DEF MetaLimitUnified, TypeOK
    <3>2. ASSUME NEW j \in Invocations PROVE AdmitInv(j)'
      <4>1. CASE j = i
        BY <2>7, <1>0, <4>1 DEF MetaLimitUnified, TypeOK, AdmitInv, NotSealedYet,
           SealedHoldsTarget, AllSealed, LimitWritten
      <4>2. CASE j # i
        BY <2>7, <1>0, <4>2 DEF MetaLimitUnified, TypeOK, AdmitInv, NotSealedYet,
           SealedHoldsTarget, AllSealed, LimitWritten
      <4>. QED
        BY <4>1, <4>2
    <3>. QED
      BY <3>1, <3>2, <2>7, <1>0 DEF MetaLimitUnified, CInv, ModesFixed
  <2>8. CASE MetaLimitV1(i)
    <3>1. TypeOK'
      BY <2>8, <1>0 DEF MetaLimitV1, TypeOK
    <3>2. ASSUME NEW j \in Invocations PROVE AdmitInv(j)'
      <4>1. CASE j = i
        BY <2>8, <1>0, <4>1 DEF MetaLimitV1, TypeOK, AdmitInv, NotSealedYet,
           SealedHoldsTarget, AllSealed, LimitWritten
      <4>2. CASE j # i
        BY <2>8, <1>0, <4>2 DEF MetaLimitV1, TypeOK, AdmitInv, NotSealedYet,
           SealedHoldsTarget, AllSealed, LimitWritten
      <4>. QED
        BY <4>1, <4>2
    <3>. QED
      BY <3>1, <3>2, <2>8, <1>0 DEF MetaLimitV1, CInv, ModesFixed
  <2>9. CASE MetaNoLimit(i)
    <3>1. /\ pc[i] = "limit" /\ pc' = [pc EXCEPT ![i] = "child"]
          /\ ~(sandboxed[i] /\ limited[i])
          /\ UNCHANGED <<sandboxed, limited, created, limitSet, members, sealed>>
      BY <2>9 DEF MetaNoLimit
    <3>2. TypeOK'
      BY <2>9, <1>0 DEF MetaNoLimit, TypeOK
    <3>3. ASSUME NEW j \in Invocations PROVE AdmitInv(j)'
      BY <3>1, <1>0 DEF TypeOK, AdmitInv, NotSealedYet, SealedHoldsTarget,
         AllSealed, LimitWritten
    <3>. QED
      BY <3>1, <3>2, <3>3, <1>0 DEF CInv, ModesFixed
  <2>10. CASE ChildAdmit(i)
    <3> DEFINE nk == NextKind(i)
               p == IF sandboxed[i] THEN "target" ELSE "pid2"
    <3>0. /\ pc[i] = "child" /\ nk \in Pending(i)
          /\ UNCHANGED <<sandboxed, limited, created, limitSet>>
          /\ \/ pc' = [pc EXCEPT ![i] = "teardown"] /\ UNCHANGED <<members, sealed>>
             \/ /\ members' = members \cup {<<<<i, nk>>, p>>}
                /\ sealed' = sealed \cup {<<i, nk>>} /\ UNCHANGED pc
      BY <2>10, NextKindPending DEF ChildAdmit, ChildAdmitWrite
    <3>1. <<i, nk>> \in created /\ nk \in Kinds
      BY <3>0, <1>0 DEF Pending, TypeOK
    <3>2. TypeOK'
      BY <2>10, <3>0, <3>1, <1>0 DEF ChildAdmit, TypeOK
    <3>3. ASSUME NEW j \in Invocations PROVE AdmitInv(j)'
      <4>1. CASE j = i
        BY <3>0, <3>1, <1>0, <4>1 DEF TypeOK, AdmitInv, NotSealedYet,
           SealedHoldsTarget, AllSealed, LimitWritten
      <4>2. CASE j # i
        <5>1. pc'[j] = pc[j]
          BY <3>0, <4>2, <1>0 DEF TypeOK
        <5>2. \A k : <<j, k>> \in sealed' => <<j, k>> \in sealed
          BY <3>0, <4>2
        <5>. QED
          BY <3>0, <5>1, <5>2, <1>0 DEF AdmitInv, NotSealedYet,
             SealedHoldsTarget, AllSealed, LimitWritten
      <4>. QED
        BY <4>1, <4>2
    <3>. QED
      BY <3>2, <3>3, <2>10, <1>0 DEF ChildAdmit, CInv, ModesFixed
  <2>11. CASE Exec(i)
    <3>1. /\ pc[i] = "child" /\ pc' = [pc EXCEPT ![i] = "exec"]
          /\ \A k \in Kinds : <<i, k>> \in created => <<i, k>> \in sealed
          /\ UNCHANGED <<sandboxed, limited, created, limitSet, members, sealed>>
      BY <2>11 DEF Exec, Pending
    <3>2. TypeOK'
      BY <2>11, <1>0 DEF Exec, TypeOK
    <3>3. ASSUME NEW j \in Invocations PROVE AdmitInv(j)'
      BY <3>1, <1>0 DEF TypeOK, AdmitInv, NotSealedYet, SealedHoldsTarget,
         AllSealed, LimitWritten
    <3>. QED
      BY <3>1, <3>2, <3>3, <1>0 DEF CInv, ModesFixed
  <2>12. CASE TargetStart(i)
    <3>1. /\ pc[i] = "exec" /\ pc' = [pc EXCEPT ![i] = "running"]
          /\ UNCHANGED <<sandboxed, limited, created, limitSet, members, sealed>>
      BY <2>12 DEF TargetStart
    <3>2. TypeOK'
      BY <2>12, <1>0 DEF TargetStart, TypeOK
    <3>3. ASSUME NEW j \in Invocations PROVE AdmitInv(j)'
      BY <3>1, <1>0 DEF TypeOK, AdmitInv, NotSealedYet, SealedHoldsTarget,
         AllSealed, LimitWritten
    <3>. QED
      BY <3>1, <3>2, <3>3, <1>0 DEF CInv, ModesFixed
  <2>13. CASE TargetEnd(i)
    <3>1. /\ pc[i] = "running" /\ pc' = [pc EXCEPT ![i] = "teardown"]
          /\ UNCHANGED <<sandboxed, limited, created, limitSet, members, sealed>>
      BY <2>13 DEF TargetEnd
    <3>2. TypeOK'
      BY <2>13, <1>0 DEF TargetEnd, TypeOK
    <3>3. ASSUME NEW j \in Invocations PROVE AdmitInv(j)'
      BY <3>1, <1>0 DEF TypeOK, AdmitInv, NotSealedYet, SealedHoldsTarget,
         AllSealed, LimitWritten
    <3>. QED
      BY <3>1, <3>2, <3>3, <1>0 DEF CInv, ModesFixed
  <2>14. CASE Teardown(i)
    <3> DEFINE left == {m \in members : ~(m[1][1] = i /\ m[2] = "target")}
               gone == {<<i, "memory">>, <<i, "pids">>} \ {m[1] : m \in left}
    <3>1. /\ pc[i] = "teardown" /\ pc' = [pc EXCEPT ![i] = "done"]
          /\ members' = left /\ created' = created \ gone
          /\ limitSet' = limitSet \ gone /\ sealed' = sealed \ gone
          /\ UNCHANGED <<sandboxed, limited>>
      BY <2>14 DEF Teardown
    <3>2. TypeOK'
      <4>1. members' \subseteq created' \X Procs
        BY <3>1, <1>0 DEF TypeOK
      <4>. QED
        BY <2>14, <3>1, <4>1, <1>0 DEF Teardown, TypeOK
    <3>3. ASSUME NEW j \in Invocations PROVE AdmitInv(j)'
      <4>1. CASE j = i
        BY <3>1, <4>1, <1>0 DEF TypeOK, AdmitInv, NotSealedYet,
           SealedHoldsTarget, AllSealed, LimitWritten
      <4>2. CASE j # i
        <5>1. pc'[j] = pc[j]
          BY <3>1, <4>2, <1>0 DEF TypeOK
        <5>2. \A k \in Kinds :
                /\ <<j, k>> \in created' <=> <<j, k>> \in created
                /\ <<j, k>> \in limitSet' <=> <<j, k>> \in limitSet
                /\ <<j, k>> \in sealed' <=> <<j, k>> \in sealed
                /\ <<<<j, k>>, "target">> \in members' <=>
                     <<<<j, k>>, "target">> \in members
          BY <3>1, <4>2
        <5>. QED
          BY <3>1, <5>1, <5>2, <1>0 DEF AdmitInv, NotSealedYet,
             SealedHoldsTarget, AllSealed, LimitWritten
      <4>. QED
        BY <4>1, <4>2
    <3>. QED
      BY <3>1, <3>2, <3>3, <1>0 DEF CInv, ModesFixed
  <2>. QED
    BY <2>0, <2>1, <2>2, <2>3, <2>4, <2>5, <2>6, <2>7, <2>8, <2>9, <2>10, <2>11, <2>12, <2>13, <2>14 DEF Step
<1>. QED
  BY <1>1, <1>2
-----------------------------------------------------------------------------
(* Type correctness of the cgroup life cycle: for any number of           *)
(* concurrent invocations, every variable keeps its type; in particular   *)
(* every sealed cgroup, written limit and member cgroup is one that       *)
(* exists.                                                                 *)
THEOREM CgroupsTypeCorrect == Spec => []TypeOK
<1>1. CInv => TypeOK
  BY DEF CInv
<1>. QED
  BY <1>1, InitCInv, NextCInv, PTL DEF Spec

(* Spec 5 (ii) and 8.1 for each sandboxed run, whatever the other runs on *)
(* the host do: its target runs only inside every cgroup meta-init made   *)
(* for it, with the procs/tasks files sealed (child, lines 446-490), and  *)
(* under its memory limit when one is configured (lines 370-411).         *)
THEOREM SandboxedTargetConfined == Spec => []SandboxedConfined
<1>1. CInv => SandboxedConfined
  BY DEF CInv, AdmitInv, SealedHoldsTarget, AllSealed, LimitWritten,
         SandboxedConfined
<1>. QED
  BY <1>1, InitCInv, NextCInv, PTL DEF Spec

(* TargetConfined, the invariant of the cgroups_sandboxed run, holds for  *)
(* every number of concurrent invocations when no run disables the        *)
(* sandbox.  Unsandboxed, the child moves the host's pid 2 instead of     *)
(* the target (run cgroups_admit_pid2), so the hypothesis is needed.      *)
THEOREM AllSandboxedTargetConfined ==
  ASSUME DisableSandboxingValues = {FALSE}
  PROVE  Spec => []TargetConfined
<1>1. CInv => TargetConfined
  <2> SUFFICES ASSUME CInv, NEW i \in Invocations, pc[i] = "running"
               PROVE  /\ \A k \in Kinds : <<i, k>> \in created =>
                            /\ <<<<i, k>>, "target">> \in members
                            /\ <<i, k>> \in sealed
                      /\ sandboxed[i] /\ limited[i] =>
                            \E k \in Kinds : <<i, k>> \in limitSet
    BY DEF TargetConfined
  <2>1. sandboxed[i]
    BY DEF CInv, ModesFixed
  <2>. QED
    BY <2>1 DEF CInv, AdmitInv, SealedHoldsTarget, AllSealed, LimitWritten
<1>. QED
  BY <1>1, InitCInv, NextCInv, PTL DEF Spec

-----------------------------------------------------------------------------
(* The script cgroup shared by the runs of one script (lines 864-907).    *)

LEMMA InitScriptInv == Init => ScriptInv
BY DEF Init, ScriptInv

(* A step of run i that leaves the script cgroup, the cgroup paths and   *)
(* every other run alone, and that i takes from a point where it cannot  *)
(* have left the script cgroup without +memory, keeps ScriptInv.         *)
LEMMA QuietStep ==
  ASSUME TypeOK, ScriptInv, NEW i \in Invocations,
         pc[i] \notin {"subtree", "crashed", "failed"},
         \A j \in Invocations \ {i} : pc'[j] = pc[j] /\ reason'[j] = reason[j],
         UNCHANGED <<cgroupV2, hasPath, scriptDir, memEnabled>>,
         \A k \in Invocations : <<k, "unified">> \in created' =>
           <<k, "unified">> \in created \/ (k = i /\ hasPath[i] /\ cgroupV2)
  PROVE  ScriptInv'
<1>1. (\A k \in Invocations : hasPath[k] /\ cgroupV2 => scriptDir)'
  BY DEF ScriptInv
<1>2. (\A k \in Invocations : <<k, "unified">> \in created => hasPath[k] /\ cgroupV2)'
  BY DEF ScriptInv
<1>3. (scriptDir /\ ~memEnabled => \E j \in Invocations : StuckCreator(j))'
  <2> SUFFICES ASSUME scriptDir, ~memEnabled
               PROVE  \E j \in Invocations : StuckCreator(j)'
    OBVIOUS
  <2>1. PICK j \in Invocations : StuckCreator(j)
    BY DEF ScriptInv
  <2>2. j # i
    BY <2>1 DEF StuckCreator
  <2>. QED
    BY <2>1, <2>2 DEF StuckCreator
<1>. QED
  BY <1>1, <1>2, <1>3 DEF ScriptInv

(* A run that already stopped at the subtree_control write stays there. *)
LEMMA StuckKept ==
  ASSUME TypeOK, NEW i \in Invocations, NEW j \in Invocations, StuckCreator(j),
         \A k \in Invocations \ {i} : pc'[k] = pc[k] /\ reason'[k] = reason[k],
         j = i => StuckCreator(i)'
  PROVE  StuckCreator(j)'
BY DEF StuckCreator

LEMMA NextScriptInv == CInv /\ ScriptInv /\ [Next]_vars => ScriptInv'
<1> SUFFICES ASSUME CInv, ScriptInv, [Next]_vars PROVE ScriptInv'
  OBVIOUS
<1> USE DEF hostVars, argVars, Goto, Fail
<1>0. TypeOK
  BY DEF CInv
<1>1. CASE UNCHANGED vars
  BY <1>1 DEF vars, ScriptInv, StuckCreator
<1>2. CASE Next
  <2>0. PICK i \in Invocations : Step(i)
    BY <1>2 DEF Next
  <2>a. ASSUME \E l \in Labels : pc' = [pc EXCEPT ![i] = l],
               \/ reason' = reason
               \/ \E r \in Reasons : reason' = [reason EXCEPT ![i] = r]
        PROVE  \A j \in Invocations \ {i} : pc'[j] = pc[j] /\ reason'[j] = reason[j]
    BY <2>a, <1>0 DEF TypeOK
  <2>q1. CASE MainNoPath(i)
    <3>1. /\ pc[i] \notin {"subtree", "crashed", "failed"}
          /\ \E l \in Labels : pc' = [pc EXCEPT ![i] = l]
          /\ \/ reason' = reason
             \/ \E r \in Reasons : reason' = [reason EXCEPT ![i] = r]
          /\ UNCHANGED <<cgroupV2, hasPath, scriptDir, memEnabled>>
          /\ UNCHANGED created
      BY <2>q1 DEF MainNoPath, Labels, Reasons
    <3>2. \A j \in Invocations \ {i} : pc'[j] = pc[j] /\ reason'[j] = reason[j]
      BY <3>1, <2>a
    <3>3. \A k \in Invocations : <<k, "unified">> \in created' =>
            <<k, "unified">> \in created \/ (k = i /\ hasPath[i] /\ cgroupV2)
      BY <3>1
    <3>. QED
      BY <3>1, <3>2, <3>3, <1>0, QuietStep
  <2>q2. CASE MetaLimitUnified(i)
    <3>1. /\ pc[i] \notin {"subtree", "crashed", "failed"}
          /\ \E l \in Labels : pc' = [pc EXCEPT ![i] = l]
          /\ \/ reason' = reason
             \/ \E r \in Reasons : reason' = [reason EXCEPT ![i] = r]
          /\ UNCHANGED <<cgroupV2, hasPath, scriptDir, memEnabled>>
          /\ UNCHANGED created
      BY <2>q2 DEF MetaLimitUnified, Labels, Reasons
    <3>2. \A j \in Invocations \ {i} : pc'[j] = pc[j] /\ reason'[j] = reason[j]
      BY <3>1, <2>a
    <3>3. \A k \in Invocations : <<k, "unified">> \in created' =>
            <<k, "unified">> \in created \/ (k = i /\ hasPath[i] /\ cgroupV2)
      BY <3>1
    <3>. QED
      BY <3>1, <3>2, <3>3, <1>0, QuietStep
  <2>q3. CASE MetaNoLimit(i)
    <3>1. /\ pc[i] \notin {"subtree", "crashed", "failed"}
          /\ \E l \in Labels : pc' = [pc EXCEPT ![i] = l]
          /\ \/ reason' = reason
             \/ \E r \in Reasons : reason' = [reason EXCEPT ![i] = r]
          /\ UNCHANGED <<cgroupV2, hasPath, scriptDir, memEnabled>>
          /\ UNCHANGED created
      BY <2>q3 DEF MetaNoLimit, Labels, Reasons
    <3>2. \A j \in Invocations \ {i} : pc'[j] = pc[j] /\ reason'[j] = reason[j]
      BY <3>1, <2>a
    <3>3. \A k \in Invocations : <<k, "unified">> \in created' =>
            <<k, "unified">> \in created \/ (k = i /\ hasPath[i] /\ cgroupV2)
      BY <3>1
    <3>. QED
      BY <3>1, <3>2, <3>3, <1>0, QuietStep
  <2>q4. CASE Exec(i)
    <3>1. /\ pc[i] \notin {"subtree", "crashed", "failed"}
          /\ \E l \in Labels : pc' = [pc EXCEPT ![i] = l]
          /\ \/ reason' = reason
             \/ \E r \in Reasons : reason' = [reason EXCEPT ![i] = r]
          /\ UNCHANGED <<cgroupV2, hasPath, scriptDir, memEnabled>>
          /\ UNCHANGED created
      BY <2>q4 DEF Exec, Labels, Reasons
    <3>2. \A j \in Invocations \ {i} : pc'[j] = pc[j] /\ reason'[j] = reason[j]
      BY <3>1, <2>a
    <3>3. \A k \in Invocations : <<k, "unified">> \in created' =>
            <<k, "unified">> \in created \/ (k = i /\ hasPath[i] /\ cgroupV2)
      BY <3>1
    <3>. QED
      BY <3>1, <3>2, <3>3, <1>0, QuietStep
  <2>q5. CASE TargetStart(i)
    <3>1. /\ pc[i] \notin {"subtree", "crashed", "failed"}
          /\ \E l \in Labels : pc' = [pc EXCEPT ![i] = l]
          /\ \/ reason' = reason
             \/ \E r \in Reasons : reason' = [reason EXCEPT ![i] = r]
          /\ UNCHANGED <<cgroupV2, hasPath, scriptDir, memEnabled>>
          /\ UNCHANGED created
      BY <2>q5 DEF TargetStart, Labels, Reasons
    <3>2. \A j \in Invocations \ {i} : pc'[j] = pc[j] /\ reason'[j] = reason[j]
      BY <3>1, <2>a
    <3>3. \A k \in Invocations : <<k, "unified">> \in created' =>
            <<k, "unified">> \in created \/ (k = i /\ hasPath[i] /\ cgroupV2)
      BY <3>1
    <3>. QED
      BY <3>1, <3>2, <3>3, <1>0, QuietStep
  <2>q6. CASE TargetEnd(i)
    <3>1. /\ pc[i] \notin {"subtree", "crashed", "failed"}
          /\ \E l \in Labels : pc' = [pc EXCEPT ![i] = l]
          /\ \/ reason' = reason
             \/ \E r \in Reasons : reason' = [reason EXCEPT ![i] = r]
          /\ UNCHANGED <<cgroupV2, hasPath, scriptDir, memEnabled>>
          /\ UNCHANGED created
      BY <2>q6 DEF TargetEnd, Labels, Reasons
    <3>2. \A j \in Invocations \ {i} : pc'[j] = pc[j] /\ reason'[j] = reason[j]
      BY <3>1, <2>a
    <3>3. \A k \in Invocations : <<k, "unified">> \in created' =>
            <<k, "unified">> \in created \/ (k = i /\ hasPath[i] /\ cgroupV2)
      BY <3>1
    <3>. QED
      BY <3>1, <3>2, <3>3, <1>0, QuietStep
  <2>q7. CASE MetaCreate(i)
    <3>1. /\ pc[i] \notin {"subtree", "crashed", "failed"}
          /\ \E l \in Labels : pc' = [pc EXCEPT ![i] = l]
          /\ \/ reason' = reason
             \/ \E r \in Reasons : reason' = [reason EXCEPT ![i] = r]
          /\ UNCHANGED <<cgroupV2, hasPath, scriptDir, memEnabled>>
          /\ created' \subseteq created \cup {<<i, IF cgroupV2 THEN "unified" ELSE "pids">>}
          /\ (created' # created => hasPath[i])
      BY <2>q7 DEF MetaCreate, Labels, Reasons
    <3>2. \A j \in Invocations \ {i} : pc'[j] = pc[j] /\ reason'[j] = reason[j]
      BY <3>1, <2>a
    <3>3. \A k \in Invocations : <<k, "unified">> \in created' =>
            <<k, "unified">> \in created \/ (k = i /\ hasPath[i] /\ cgroupV2)
      BY <3>1
    <3>. QED
      BY <3>1, <3>2, <3>3, <1>0, QuietStep
  <2>q8. CASE MetaLimitV1(i)
    <3>1. /\ pc[i] \notin {"subtree", "crashed", "failed"}
          /\ \E l \in Labels : pc' = [pc EXCEPT ![i] = l]
          /\ \/ reason' = reason
             \/ \E r \in Reasons : reason' = [reason EXCEPT ![i] = r]
          /\ UNCHANGED <<cgroupV2, hasPath, scriptDir, memEnabled>>
          /\ created' \subseteq created \cup {<<i, "memory">>}
      BY <2>q8 DEF MetaLimitV1, Labels, Reasons
    <3>2. \A j \in Invocations \ {i} : pc'[j] = pc[j] /\ reason'[j] = reason[j]
      BY <3>1, <2>a
    <3>3. \A k \in Invocations : <<k, "unified">> \in created' =>
            <<k, "unified">> \in created \/ (k = i /\ hasPath[i] /\ cgroupV2)
      BY <3>1
    <3>. QED
      BY <3>1, <3>2, <3>3, <1>0, QuietStep
  <2>q9. CASE ChildAdmit(i)
    <3>1. /\ pc[i] \notin {"subtree", "crashed", "failed"}
          /\ \E l \in Labels : pc' = [pc EXCEPT ![i] = l]
          /\ \/ reason' = reason
             \/ \E r \in Reasons : reason' = [reason EXCEPT ![i] = r]
          /\ UNCHANGED <<cgroupV2, hasPath, scriptDir, memEnabled>>
          /\ created' \subseteq created
      BY <2>q9, <1>0 DEF ChildAdmit, Labels, Reasons, TypeOK
    <3>2. \A j \in Invocations \ {i} : pc'[j] = pc[j] /\ reason'[j] = reason[j]
      BY <3>1, <2>a
    <3>3. \A k \in Invocations : <<k, "unified">> \in created' =>
            <<k, "unified">> \in created \/ (k = i /\ hasPath[i] /\ cgroupV2)
      BY <3>1
    <3>. QED
      BY <3>1, <3>2, <3>3, <1>0, QuietStep
  <2>q10. CASE Teardown(i)
    <3>1. /\ pc[i] \notin {"subtree", "crashed", "failed"}
          /\ \E l \in Labels : pc' = [pc EXCEPT ![i] = l]
          /\ \/ reason' = reason
             \/ \E r \in Reasons : reason' = [reason EXCEPT ![i] = r]
          /\ UNCHANGED <<cgroupV2, hasPath, scriptDir, memEnabled>>
          /\ created' \subseteq created
      BY <2>q10 DEF Teardown, Labels, Reasons
    <3>2. \A j \in Invocations \ {i} : pc'[j] = pc[j] /\ reason'[j] = reason[j]
      BY <3>1, <2>a
    <3>3. \A k \in Invocations : <<k, "unified">> \in created' =>
            <<k, "unified">> \in created \/ (k = i /\ hasPath[i] /\ cgroupV2)
      BY <3>1
    <3>. QED
      BY <3>1, <3>2, <3>3, <1>0, QuietStep
  <2>4. CASE MainV1Path(i)
    <3>1. /\ ~cgroupV2 /\ UNCHANGED <<cgroupV2, scriptDir, memEnabled, created>>
          /\ \A j \in Invocations \ {i} : pc'[j] = pc[j] /\ reason'[j] = reason[j]
          /\ \A k \in Invocations : hasPath[k] => hasPath'[k]
          /\ pc[i] = "main"
      BY <2>4, <1>0 DEF MainV1Path, TypeOK
    <3>2. \A j \in Invocations : StuckCreator(j) => StuckCreator(j)'
      BY <3>1, StuckKept DEF StuckCreator
    <3>. QED
      BY <3>1, <3>2 DEF ScriptInv
  <2>5. CASE MainMkdir(i)
    <3>1. /\ cgroupV2 /\ scriptDir' /\ UNCHANGED <<cgroupV2, memEnabled, created>>
          /\ \A j \in Invocations \ {i} : pc'[j] = pc[j] /\ reason'[j] = reason[j]
          /\ \A k \in Invocations : hasPath[k] => hasPath'[k]
          /\ pc[i] = "main"
          /\ ~scriptDir => pc'[i] = "subtree"
          /\ scriptDir => UNCHANGED scriptDir
      BY <2>5, <1>0 DEF MainMkdir, TypeOK
    <3>2. (scriptDir /\ ~memEnabled => \E j \in Invocations : StuckCreator(j))'
      <4>1. CASE ~scriptDir
        BY <3>1, <4>1 DEF StuckCreator
      <4>2. CASE scriptDir
        <5>1. ~memEnabled => \E j \in Invocations : StuckCreator(j)
          BY <4>2 DEF ScriptInv
        <5>2. \A j \in Invocations : StuckCreator(j) => StuckCreator(j)'
          BY <3>1, StuckKept DEF StuckCreator
        <5>. QED
          BY <3>1, <5>1, <5>2 DEF StuckCreator
      <4>. QED
        BY <4>1, <4>2
    <3>. QED
      BY <3>1, <3>2 DEF ScriptInv
  <2>6. CASE MainSubtree(i) \/ Crash(i)
    <3>1. /\ UNCHANGED <<cgroupV2, hasPath, scriptDir, created>>
          /\ \A j \in Invocations \ {i} : pc'[j] = pc[j] /\ reason'[j] = reason[j]
          /\ memEnabled' \/ StuckCreator(i)'
          /\ memEnabled => memEnabled'
      BY <2>6, <1>0 DEF MainSubtree, Crash, StuckCreator, TypeOK
    <3>2. (scriptDir /\ ~memEnabled => \E j \in Invocations : StuckCreator(j))'
      BY <3>1 DEF StuckCreator
    <3>. QED
      BY <3>1, <3>2 DEF ScriptInv
  <2>. QED
    BY <2>0, <2>q1, <2>q2, <2>q3, <2>q4, <2>q5, <2>q6, <2>q7, <2>q8, <2>q9, <2>q10,
       <2>4, <2>5, <2>6 DEF Step
<1>. QED
  BY <1>1, <1>2

(* How a step of run k changes the failure reasons: not at all, by an     *)
(* I/O or missing-v1 failure of k, or by k's failure for a missing         *)
(* memory.max, which it meets only at the limit write, with no memory     *)
(* controller in the script cgroup and a unified cgroup of its own.       *)
LEMMA ReasonStep ==
  ASSUME NEW k \in Invocations, Step(k)
  PROVE  \/ reason' = reason
         \/ \E r \in {"io", "nov1mem"} : reason' = [reason EXCEPT ![k] = r]
         \/ /\ reason' = [reason EXCEPT ![k] = "nomemmax"]
            /\ pc[k] = "limit" /\ ~memEnabled /\ <<k, "unified">> \in created
<1> USE DEF Goto, Fail
<1>1. CASE MainNoPath(k)
  BY <1>1 DEF MainNoPath
<1>2. CASE MainV1Path(k)
  BY <1>2 DEF MainV1Path
<1>3. CASE MainMkdir(k)
  BY <1>3 DEF MainMkdir
<1>4. CASE Crash(k)
  BY <1>4 DEF Crash
<1>5. CASE MetaNoLimit(k)
  BY <1>5 DEF MetaNoLimit
<1>6. CASE ChildAdmit(k)
  BY <1>6 DEF ChildAdmit
<1>7. CASE Exec(k)
  BY <1>7 DEF Exec
<1>8. CASE TargetStart(k)
  BY <1>8 DEF TargetStart
<1>9. CASE TargetEnd(k)
  BY <1>9 DEF TargetEnd
<1>10. CASE Teardown(k)
  BY <1>10 DEF Teardown
<1>11. CASE MainSubtree(k) \/ MetaCreate(k) \/ MetaLimitV1(k)
  BY <1>11 DEF MainSubtree, MetaCreate, MetaLimitV1
<1>12. CASE MetaLimitUnified(k)
  BY <1>12 DEF MetaLimitUnified
<1>. QED
  BY <1>1, <1>2, <1>3, <1>4, <1>5, <1>6, <1>7, <1>8, <1>9, <1>10, <1>11, <1>12 DEF Step

(* The step in which a run fails for a missing memory.max is one where    *)
(* another run is stuck at, or stopped at, its +memory write.             *)
LEMMA NomemmaxStep ==
  ASSUME CInv, ScriptInv, [Next]_vars, NEW i \in Invocations,
         reason'[i] = "nomemmax", reason[i] # "nomemmax"
  PROVE  \E j \in Invocations \ {i} : StuckCreator(j)
<1>0. TypeOK
  BY DEF CInv
<1>1. pc[i] = "limit" /\ ~memEnabled /\ <<i, "unified">> \in created
  <2>1. CASE UNCHANGED vars
    BY <2>1 DEF vars
  <2>2. CASE Next
    <3>1. PICK k \in Invocations : Step(k)
      BY <2>2 DEF Next
    <3>2. \/ reason' = reason
          \/ \E r \in {"io", "nov1mem"} : reason' = [reason EXCEPT ![k] = r]
          \/ /\ reason' = [reason EXCEPT ![k] = "nomemmax"]
             /\ pc[k] = "limit" /\ ~memEnabled /\ <<k, "unified">> \in created
      BY <3>1, ReasonStep
    <3>3. k = i /\ pc[k] = "limit" /\ ~memEnabled /\ <<k, "unified">> \in created
      BY <3>2, <1>0 DEF TypeOK
    <3>. QED
      BY <3>3
  <2>. QED
    BY <2>1, <2>2
<1>2. scriptDir
  BY <1>1 DEF ScriptInv
<1>3. PICK j \in Invocations : StuckCreator(j)
  BY <1>1, <1>2 DEF ScriptInv
<1>. QED
  BY <1>1, <1>3 DEF StuckCreator

(* Hazards of lines 873, 876 and 884, for every number of runs of one     *)
(* script: a run fails because memory.max is missing only while another   *)
(* run, which made the script cgroup, has yet to write +memory, failed    *)
(* that write, or was killed before it; never because of anything the     *)
(* failing run did itself.                                                *)
THEOREM MemoryMaxMissingExplained == Spec => MemoryMaxMissingCause
<1>1. Init => CInv /\ ScriptInv
  BY InitCInv, InitScriptInv
<1>2. CInv /\ ScriptInv /\ [Next]_vars => (CInv /\ ScriptInv)'
  BY NextCInv, NextScriptInv
<1>3. CInv /\ ScriptInv /\ [Next]_vars =>
        \A i \in Invocations :
          reason'[i] = "nomemmax" /\ reason[i] # "nomemmax" =>
            \E j \in Invocations \ {i} : StuckCreator(j)
  BY NomemmaxStep
<1>. QED
  BY <1>1, <1>2, <1>3, PTL DEF Spec, MemoryMaxMissingCause

=============================================================================
