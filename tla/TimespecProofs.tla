---------------------------- MODULE TimespecProofs ----------------------------
(***************************************************************************)
(* Facts about the timespec arithmetic of src/main.cpp (lines 265-293),    *)
(* for every value of NsPerSec: what the operators compute, which          *)
(* results are normalized, and exactly when TimespecAdd is not.            *)
(***************************************************************************)
EXTENDS Timespec, TLAPS

(* A timespec with a non-negative second count and a normalized           *)
(* nanosecond count, as clock_gettime returns and payload->timeout holds. *)
NormTs == [tv_sec : Nat, tv_nsec : 0 .. NsPerSec - 1]

(* clock_gettime at a clock value c >= 0 returns a normalized timespec    *)
(* that stands for c nanoseconds.                                         *)
LEMMA ClockReadCorrect ==
  ASSUME NEW c \in Nat
  PROVE  /\ ClockRead(c) \in NormTs
         /\ TimespecValue(ClockRead(c)) = c
<1>1. c \div NsPerSec \in Nat /\ c % NsPerSec \in 0 .. NsPerSec - 1
  BY NsPerSecAssumption
<1>2. (c \div NsPerSec) * NsPerSec + (c % NsPerSec) = c
  BY NsPerSecAssumption
<1>. QED
  BY <1>1, <1>2 DEF ClockRead, Ts, NormTs, TimespecValue

(* TimespecAdd (lines 265-272) of two normalized timespecs keeps their    *)
(* sum: the result stands for the sum of what they stand for, and its     *)
(* tv_nsec is at most one second, but it may be exactly one second.       *)
THEOREM TimespecAddCorrect ==
  ASSUME NEW a \in NormTs, NEW b \in NormTs
  PROVE  /\ TimespecValue(TimespecAdd(a, b)) = TimespecValue(a) + TimespecValue(b)
         /\ TimespecAdd(a, b) \in [tv_sec : Nat, tv_nsec : 0 .. NsPerSec]
  BY NsPerSecAssumption DEF NormTs, TimespecAdd, TimespecValue, Ts

(* The carry test of TimespecAdd (line 267, ">" where ">=" is needed):    *)
(* the sum of two normalized timespecs is left unnormalized exactly when  *)
(* their nanosecond counts add up to one second.  With a wall-time limit  *)
(* whose milliseconds and the start time's nanoseconds sum to one second, *)
(* the deadline has tv_nsec = 1000000000.                                 *)
THEOREM TimespecAddUnnormalized ==
  ASSUME NEW a \in NormTs, NEW b \in NormTs
  PROVE  ~Normalized(TimespecAdd(a, b)) <=> a.tv_nsec + b.tv_nsec = NsPerSec
  BY NsPerSecAssumption DEF NormTs, TimespecAdd, Normalized, Ts

(* TimespecSub (lines 274-281) of a timespec whose tv_nsec is at most one *)
(* second and a normalized one stands for the difference, and its tv_nsec *)
(* is at most one second: sigtimedwait rejects it (EINVAL) exactly when   *)
(* it is negative or its tv_nsec is one second.                           *)
THEOREM TimespecSubCorrect ==
  ASSUME NEW a \in [tv_sec : Int, tv_nsec : 0 .. NsPerSec], NEW b \in NormTs
  PROVE  /\ TimespecValue(TimespecSub(a, b)) = TimespecValue(a) - TimespecValue(b)
         /\ TimespecSub(a, b).tv_nsec \in 0 .. NsPerSec
  BY NsPerSecAssumption DEF NormTs, TimespecSub, TimespecValue, Ts

(* TimespecCmp (lines 283-293) orders normalized timespecs by the time    *)
(* they stand for.                                                        *)
THEOREM TimespecCmpCorrect ==
  ASSUME NEW a \in NormTs, NEW b \in NormTs
  PROVE  /\ TimespecCmp(a, b) < 0 <=> TimespecValue(a) < TimespecValue(b)
         /\ TimespecCmp(a, b) = 0 <=> TimespecValue(a) = TimespecValue(b)
<1>0. /\ a.tv_sec \in Nat /\ b.tv_sec \in Nat
      /\ a.tv_nsec \in 0 .. NsPerSec - 1 /\ b.tv_nsec \in 0 .. NsPerSec - 1
      /\ TimespecValue(a) \in Int /\ TimespecValue(b) \in Int
  BY NsPerSecAssumption DEF NormTs, TimespecValue
<1>1. CASE a.tv_sec < b.tv_sec
  <2>1. a.tv_sec + 1 <= b.tv_sec
    BY <1>1 DEF NormTs
  <2>2. TimespecValue(a) < (a.tv_sec + 1) * NsPerSec /\ (a.tv_sec + 1) * NsPerSec <= TimespecValue(b)
    BY <2>1, NsPerSecAssumption DEF NormTs, TimespecValue
  <2>3. TimespecCmp(a, b) = -1
    BY <1>0, <1>1 DEF TimespecCmp
  <2>. QED
    BY <1>0, <2>2, <2>3, NsPerSecAssumption
<1>2. CASE a.tv_sec > b.tv_sec
  <2>1. b.tv_sec + 1 <= a.tv_sec
    BY <1>2 DEF NormTs
  <2>2. TimespecValue(b) < (b.tv_sec + 1) * NsPerSec /\ (b.tv_sec + 1) * NsPerSec <= TimespecValue(a)
    BY <2>1, NsPerSecAssumption DEF NormTs, TimespecValue
  <2>3. TimespecCmp(a, b) = 1
    BY <1>0, <1>2 DEF TimespecCmp
  <2>. QED
    BY <1>0, <2>2, <2>3, NsPerSecAssumption
<1>3. CASE a.tv_sec = b.tv_sec
  <2>1. a.tv_sec * NsPerSec = b.tv_sec * NsPerSec
    BY <1>3
  <2>2. TimespecValue(a) - TimespecValue(b) = a.tv_nsec - b.tv_nsec
    BY <1>0, <2>1, NsPerSecAssumption DEF TimespecValue
  <2>. QED
    BY <1>0, <1>3, <2>2 DEF TimespecCmp
<1>. QED
  BY <1>0, <1>1, <1>2, <1>3

=============================================================================
