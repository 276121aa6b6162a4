------------------------------- MODULE Timespec -------------------------------
(***************************************************************************)
(* The clock arithmetic of src/main.cpp (TimespecAdd, TimespecSub,         *)
(* TimespecCmp) on struct timespec values, and the clock_gettime reading   *)
(* that produces them.  NsPerSec stands for the literal 1000000000l of the *)
(* code: the carry and borrow tests are kept exactly, only the modulus is  *)
(* a parameter so that TLC can reach its boundary with a small clock.      *)
(***************************************************************************)
EXTENDS Integers

CONSTANT NsPerSec

ASSUME NsPerSecAssumption == NsPerSec \in Nat \ {0, 1}

Ts(s, n) == [tv_sec |-> s, tv_nsec |-> n]

(* The number of nanoseconds a timespec stands for: the reference that    *)
(* the three operators below are judged against.                          *)
TimespecValue(ts) == ts.tv_sec * NsPerSec + ts.tv_nsec

(* A timespec as the kernel accepts and returns it.                       *)
Normalized(ts) == ts.tv_nsec \in 0 .. NsPerSec - 1

(* clock_gettime(CLOCK_REALTIME, &ts) at clock value c nanoseconds.       *)
ClockRead(c) == Ts(c \div NsPerSec, c % NsPerSec)

(* Mutant: the carry is never taken.                                     *)
TimespecAddNoCarry(dst, src) ==
  Ts(dst.tv_sec + src.tv_sec, dst.tv_nsec + src.tv_nsec)

(* TimespecAdd(dst, src): the carry is taken only when the nanosecond sum *)
(* is strictly greater than one second.                                   *)
TimespecAdd(dst, src) ==
  LET n     == dst.tv_nsec + src.tv_nsec
      carry == n > NsPerSec
  IN  Ts(dst.tv_sec + src.tv_sec + (IF carry THEN 1 ELSE 0),
         IF carry THEN n - NsPerSec ELSE n)

(* TimespecSub(dst, src): borrow when the nanosecond difference is        *)
(* negative.                                                              *)
TimespecSub(dst, src) ==
  LET n      == dst.tv_nsec - src.tv_nsec
      borrow == n < 0
  IN  Ts(dst.tv_sec - src.tv_sec - (IF borrow THEN 1 ELSE 0),
         IF borrow THEN n + NsPerSec ELSE n)

(* TimespecCmp(dst, src): lexicographic on (tv_sec, tv_nsec).             *)
TimespecCmp(dst, src) ==
  IF dst.tv_sec < src.tv_sec THEN -1
  ELSE IF dst.tv_sec > src.tv_sec THEN 1
  ELSE IF dst.tv_nsec < src.tv_nsec THEN -1
  ELSE IF dst.tv_nsec > src.tv_nsec THEN 1
  ELSE 0

(* sigtimedwait(2) rejects a timeout that is negative or whose tv_nsec is *)
(* not below one second (EINVAL).                                         *)
ValidTimeout(ts) == ts.tv_sec >= 0 /\ Normalized(ts)

=============================================================================
