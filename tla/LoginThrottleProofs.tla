------------------------ MODULE LoginThrottleProofs ------------------------
(***************************************************************************)
(* Theorems about LoginThrottle: its deadlines, its locks, its waits and   *)
(* the spacing of failures, for any number of attempts side by side and    *)
(* any of its durations.                                                   *)
(***************************************************************************)
EXTENDS LoginThrottle, FiniteSetTheorems, TLAPS

Counts == (FreeAttempts + 1)..MaxFailures

TypesOK ==
  /\ now \in Nat /\ failures \in Nat /\ failuresExpiry \in Int /\ lockUntil \in Int
  /\ stage \in [Attempt -> Stage]
  /\ lastFailedAt \in Nat /\ sinceSuccess \in 0..MaxFailures

(* The counter has forgotten some of the failures since the last success,  *)
(* never counted more.                                                     *)
CounterOK ==
  /\ failures <= sinceSuccess
  /\ failures > 0 => failuresExpiry \in now..(now + FailureWindow * Second)

(* A lock was earned, and ends when it should.                             *)
LockOK ==
  lockUntil # Absent =>
    /\ now <= lockUntil
    /\ sinceSuccess \in Counts
    /\ lockUntil - now <= Delay(sinceSuccess) * Second

(* As long as the counter remembers, the lock is the one its last failure  *)
(* set, or that one is over.                                               *)
WaitOK ==
  failures \in Counts =>
    LET end == lastFailedAt + Delay(failures) * Second
    IN IF lockUntil = Absent THEN now >= end ELSE lockUntil = end

ThrottleInv == TypesOK /\ CounterOK /\ LockOK /\ WaitOK

-----------------------------------------------------------------------------
(* Arithmetic                                                              *)

(* Powers of two count subsets, which is how the provers get to know them. *)
LEMMA PowerCounts ==
  ASSUME NEW n \in Nat
  PROVE  /\ IsFiniteSet(SUBSET (1..n))
         /\ Cardinality(SUBSET (1..n)) = 2 ^ n
<1>1. IsFiniteSet(1..n) /\ Cardinality(1..n) = n
  BY FS_Interval
<1> QED
  BY <1>1, FS_SUBSET

LEMMA PowersGrow ==
  ASSUME NEW m \in Nat, NEW n \in 0..m
  PROVE  2 ^ n \in 1..2 ^ m
<1>1. n \in Nat /\ SUBSET (1..n) \subseteq SUBSET (1..m)
  OBVIOUS
<1>2. /\ IsFiniteSet(SUBSET (1..n)) /\ Cardinality(SUBSET (1..n)) = 2 ^ n
      /\ IsFiniteSet(SUBSET (1..m)) /\ Cardinality(SUBSET (1..m)) = 2 ^ m
  BY <1>1, PowerCounts
<1>3. 2 ^ n \in Nat /\ 2 ^ m \in Nat
  BY <1>2, FS_CardinalityType
<1>4. 2 ^ n # 0
  <2>1. SUBSET (1..n) # {}
    OBVIOUS
  <2> QED
    BY <1>2, <2>1, FS_EmptySet
<1>5. 2 ^ n <= 2 ^ m
  BY <1>1, <1>2, FS_Subset
<1> QED
  BY <1>3, <1>4, <1>5

LEMMA Scales ==
  ASSUME NEW c \in Nat, NEW d \in Nat, c <= d, NEW s \in Nat
  PROVE  c * s <= d * s /\ c * s \in Nat /\ d * s \in Nat
OBVIOUS

LEMMA DelayTyped ==
  ASSUME NEW c \in Counts
  PROVE  Delay(c) \in 1..MaxDelay
<1> DEFINE power == 2 ^ (c - FreeAttempts - 1)
<1>1. c - FreeAttempts - 1 \in 0..MaxFailures
  BY ThrottleAssumption DEF Counts
<1>2. power \in Nat \ {0}
  <2>1. power \in 1..power
    BY <1>1, PowersGrow
  <2> QED
    BY <2>1
<1> HIDE DEF power
<1>3. BaseDelay * power \in Nat \ {0}
  BY <1>2, ThrottleAssumption
<1>4. Lesser(BaseDelay * power, MaxDelay) \in 1..MaxDelay
  BY <1>3, ThrottleAssumption DEF Lesser
<1> QED
  BY <1>4 DEF Delay, power

LEMMA DelayGrows ==
  ASSUME NEW c \in Counts, NEW d \in Counts, c <= d
  PROVE  Delay(c) <= Delay(d)
<1> DEFINE less == 2 ^ (c - FreeAttempts - 1)
           more == 2 ^ (d - FreeAttempts - 1)
<1>1. /\ d - FreeAttempts - 1 \in 0..MaxFailures
      /\ c - FreeAttempts - 1 \in 0..(d - FreeAttempts - 1)
  BY ThrottleAssumption DEF Counts
<1>2. less \in 1..more /\ more \in 1..more
  BY <1>1, PowersGrow
<1> HIDE DEF less, more
<1>3. less \in Nat /\ more \in Nat /\ less <= more
  BY <1>2
<1>4. /\ less * BaseDelay <= more * BaseDelay
      /\ less * BaseDelay \in Nat /\ more * BaseDelay \in Nat
  BY <1>3, Scales, ThrottleAssumption
<1>5. less * BaseDelay = BaseDelay * less /\ more * BaseDelay = BaseDelay * more
  BY <1>3, ThrottleAssumption
<1>6. Lesser(BaseDelay * less, MaxDelay) <= Lesser(BaseDelay * more, MaxDelay)
  BY <1>4, <1>5, ThrottleAssumption DEF Lesser
<1> QED
  BY <1>6 DEF Delay, less, more

(* The same of the deadlines, in ticks.                                    *)
LEMMA DelayInTicks ==
  ASSUME NEW c \in Counts, NEW d \in Counts, c <= d
  PROVE  /\ Delay(c) * Second \in Nat /\ Delay(d) * Second \in Nat
         /\ Delay(c) * Second <= Delay(d) * Second
         /\ Delay(c) * Second <= MaxDelay * Second /\ MaxDelay * Second \in Nat
<1>1. Delay(c) \in 1..MaxDelay /\ Delay(d) \in 1..MaxDelay /\ Delay(c) <= Delay(d)
  BY DelayTyped, DelayGrows
<1> QED
  BY <1>1, Scales, ThrottleAssumption

LEMMA WindowTyped == FailureWindow * Second \in Nat \ {0} /\ Never \in Nat
<1>1. FailureWindow * Second \in Nat \ {0}
  BY ThrottleAssumption
<1> QED
  BY <1>1, ThrottleAssumption DEF Never

LEMMA TtlRounds ==
  ASSUME NEW left \in Int, (left + Second \div 2) \div Second <= 0
  PROVE  left <= Second \div 2
<1>1. Second \in Nat \ {0} /\ Second \div 2 \in Nat /\ Second - 1 - Second \div 2 <= Second \div 2
  BY ThrottleAssumption
<1>2. PICK half \in Nat : half = Second \div 2
  BY <1>1
<1>3. left + half < Second
  <2>1. left + half \in Int /\ (left + half) \div Second <= 0
    BY <1>2
  <2> QED
    BY <1>1, <2>1
<1> QED
  BY <1>1, <1>2, <1>3

-----------------------------------------------------------------------------
(* The invariant, action by action                                         *)

LEMMA InitInv == Init => ThrottleInv
<1> SUFFICES ASSUME Init PROVE ThrottleInv
  OBVIOUS
<1>1. TypesOK
  BY WindowTyped, ThrottleAssumption DEF Init, TypesOK, Stage, Absent
<1>2. 0 \notin Counts
  BY ThrottleAssumption DEF Counts
<1> QED
  BY <1>1, <1>2 DEF Init, ThrottleInv, TypesOK, CounterOK, LockOK, WaitOK

(* What login does between its calls of the throttle, and a crash.         *)
LEMMA KeysKept ==
  ASSUME ThrottleInv, UNCHANGED <<now, keys, history>>, stage' \in [Attempt -> Stage]
  PROVE  ThrottleInv'
BY DEF ThrottleInv, TypesOK, CounterOK, LockOK, WaitOK, keys, history

LEMMA FailureKeeps ==
  ASSUME ThrottleInv, NEW a \in Attempt, RecordFailure(a)
  PROVE  ThrottleInv'
<1> DEFINE count == failures + 1
<1>1. /\ TypesOK /\ failures <= sinceSuccess /\ sinceSuccess < MaxFailures
      /\ failures' = count /\ now' = now /\ lastFailedAt' = now
      /\ sinceSuccess' = sinceSuccess + 1
      /\ failuresExpiry' = IF count = 1 THEN now + FailureWindow * Second
                                        ELSE failuresExpiry
      /\ lockUntil' = IF count > FreeAttempts
                        THEN now + Delay(count) * Second ELSE lockUntil
  BY DEF RecordFailure, CountFailure, Lock, ThrottleInv, CounterOK
<1>2. count \in Nat \ {0} /\ count <= sinceSuccess' /\ sinceSuccess' \in 1..MaxFailures
  <2>1. failures \in Nat /\ sinceSuccess \in 0..MaxFailures
    BY <1>1 DEF TypesOK
  <2>2. failures <= sinceSuccess /\ sinceSuccess < MaxFailures
    BY <1>1
  <2>3. /\ failures + 1 \in Nat \ {0} /\ failures + 1 <= sinceSuccess + 1
        /\ sinceSuccess + 1 \in 1..MaxFailures
    BY <2>1, <2>2, ThrottleAssumption
  <2> QED
    BY <1>1, <2>3
<1>3. now \in Nat /\ lastFailedAt' \in Nat
  BY <1>1 DEF TypesOK
<1>4. stage' \in [Attempt -> Stage]
  BY <1>1 DEF RecordFailure, SentAgain, MoveTo, TypesOK, Stage
<1>5. CounterOK'
  <2>1. CASE count = 1
    BY <1>1, <1>2, <1>3, <2>1, WindowTyped DEF CounterOK
  <2>2. CASE count # 1
    <3>1. failures > 0
      BY <1>1, <2>2 DEF TypesOK
    <3>2. failuresExpiry \in now..(now + FailureWindow * Second)
      BY <3>1 DEF ThrottleInv, CounterOK
    <3> QED
      BY <1>1, <1>2, <2>2, <3>2 DEF CounterOK
  <2> QED
    BY <2>1, <2>2
<1>6. CASE count > FreeAttempts
  <2>1. count \in Counts /\ sinceSuccess' \in Counts
    BY <1>2, <1>6, ThrottleAssumption DEF Counts
  <2>2. /\ Delay(count) * Second \in Nat
        /\ Delay(count) * Second <= Delay(sinceSuccess') * Second
        /\ Delay(sinceSuccess') * Second \in Nat
    BY <1>2, <2>1, DelayInTicks
  <2>3. lockUntil' = now + Delay(count) * Second
    BY <1>1, <1>6
  <2>4. lockUntil' \in Nat /\ lockUntil' # Absent /\ now <= lockUntil'
    BY <1>3, <2>2, <2>3 DEF Absent
  <2>5. lockUntil' - now <= Delay(sinceSuccess') * Second
    BY <1>3, <2>2, <2>3
  <2>6. LockOK'
    BY <1>1, <2>1, <2>4, <2>5 DEF LockOK
  <2>7. WaitOK'
    BY <1>1, <2>3, <2>4 DEF WaitOK
  <2>8. TypesOK'
    BY <1>1, <1>2, <1>3, <1>4, <2>4, WindowTyped DEF TypesOK
  <2> QED
    BY <1>5, <2>6, <2>7, <2>8 DEF ThrottleInv
<1>7. CASE ~(count > FreeAttempts)
  <2>1. count \notin Counts /\ lockUntil' = lockUntil
    BY <1>1, <1>2, <1>7, ThrottleAssumption DEF Counts
  <2>2. LockOK'
    <3> SUFFICES ASSUME lockUntil # Absent PROVE LockOK'
      BY <2>1 DEF LockOK
    <3>1. /\ now <= lockUntil /\ sinceSuccess \in Counts /\ lockUntil \in Int
          /\ lockUntil - now <= Delay(sinceSuccess) * Second
      BY DEF ThrottleInv, LockOK, TypesOK
    <3>2. sinceSuccess' \in Counts /\ sinceSuccess <= sinceSuccess'
      BY <1>1, <1>2, <3>1, ThrottleAssumption DEF Counts
    <3>3. /\ Delay(sinceSuccess) * Second <= Delay(sinceSuccess') * Second
          /\ Delay(sinceSuccess) * Second \in Nat /\ Delay(sinceSuccess') * Second \in Nat
      BY <3>1, <3>2, DelayInTicks
    <3>4. lockUntil - now <= Delay(sinceSuccess') * Second
      BY <1>3, <3>1, <3>3
    <3> QED
      BY <1>1, <2>1, <3>1, <3>2, <3>4 DEF LockOK
  <2>3. WaitOK'
    BY <1>1, <2>1 DEF WaitOK
  <2>4. TypesOK'
    BY <1>1, <1>2, <1>3, <1>4, <2>1, WindowTyped DEF TypesOK
  <2> QED
    BY <1>5, <2>2, <2>3, <2>4 DEF ThrottleInv
<1> QED
  BY <1>6, <1>7

LEMMA ResetKeeps ==
  ASSUME ThrottleInv, NEW a \in Attempt, Reset(a)
  PROVE  ThrottleInv'
<1>1. /\ TypesOK /\ failures' = 0 /\ failuresExpiry' = Never /\ lockUntil' = Absent
      /\ sinceSuccess' = 0 /\ now' = now /\ lastFailedAt' = lastFailedAt
  BY DEF Reset, ClearKeys, ThrottleInv
<1>2. stage' \in [Attempt -> Stage]
  BY <1>1 DEF Reset, SentAgain, MoveTo, TypesOK, Stage
<1>3. TypesOK'
  BY <1>1, <1>2, WindowTyped, ThrottleAssumption DEF TypesOK, Absent
<1>4. 0 \notin Counts
  BY ThrottleAssumption DEF Counts
<1> QED
  BY <1>1, <1>3, <1>4 DEF ThrottleInv, CounterOK, LockOK, WaitOK

LEMMA TickKeeps ==
  ASSUME ThrottleInv, Tick
  PROVE  ThrottleInv'
<1>1. /\ TypesOK /\ CounterOK /\ LockOK /\ WaitOK
      /\ now' = now + 1 /\ stage' = stage
      /\ lastFailedAt' = lastFailedAt /\ sinceSuccess' = sinceSuccess
      /\ lockUntil' = IF now + 1 > lockUntil THEN Absent ELSE lockUntil
      /\ \/ failures' = 0 /\ failuresExpiry' = Never /\ now + 1 > failuresExpiry
         \/ /\ failures' = failures /\ failuresExpiry' = failuresExpiry
            /\ now + 1 <= failuresExpiry
  BY DEF Tick, history, ThrottleInv, TypesOK
<1>2. /\ now \in Nat /\ failures \in Nat /\ failuresExpiry \in Int /\ lockUntil \in Int
      /\ lastFailedAt \in Nat /\ sinceSuccess \in 0..MaxFailures
  BY <1>1 DEF TypesOK
<1>3. TypesOK'
  BY <1>1, <1>2, WindowTyped DEF TypesOK, Absent
<1>4. CounterOK'
  <2>1. CASE failures' = 0
    BY <1>1, <1>2, <2>1, ThrottleAssumption DEF CounterOK
  <2>2. CASE failures' = failures /\ failuresExpiry' = failuresExpiry /\ now + 1 <= failuresExpiry
    BY <1>1, <1>2, <2>2, WindowTyped DEF CounterOK
  <2> QED
    BY <1>1, <2>1, <2>2
<1>5. LockOK'
  <2> SUFFICES ASSUME lockUntil' # Absent PROVE LockOK'
    BY DEF LockOK
  <2>1. lockUntil' = lockUntil /\ now + 1 <= lockUntil
    BY <1>1, <1>2
  <2>2. sinceSuccess \in Counts /\ lockUntil - now <= Delay(sinceSuccess) * Second
    BY <1>1, <2>1 DEF LockOK
  <2>3. Delay(sinceSuccess) * Second \in Nat
    BY <1>2, <2>2, DelayInTicks
  <2>4. lockUntil - (now + 1) <= Delay(sinceSuccess) * Second
    BY <1>2, <2>2, <2>3
  <2> QED
    BY <1>1, <2>1, <2>2, <2>4 DEF LockOK
<1>6. WaitOK'
  <2> SUFFICES ASSUME failures' \in Counts PROVE WaitOK'
    BY DEF WaitOK
  <2>1. failures' = failures /\ failures \in Counts
    BY <1>1, ThrottleAssumption DEF Counts
  <2>2. Delay(failures) * Second \in Nat
    BY <1>2, <2>1, DelayInTicks
  <2> DEFINE end == lastFailedAt + Delay(failures) * Second
  <2>3. end \in Nat
    BY <1>2, <2>2
  <2>4. IF lockUntil = Absent THEN now >= end ELSE lockUntil = end
    BY <1>1, <2>1 DEF WaitOK
  <2> HIDE DEF end
  <2>5. IF lockUntil' = Absent THEN now + 1 >= end ELSE lockUntil' = end
    BY <1>1, <1>2, <2>3, <2>4 DEF Absent
  <2> QED
    BY <1>1, <2>1, <2>5 DEF WaitOK, end
<1> QED
  BY <1>3, <1>4, <1>5, <1>6 DEF ThrottleInv

LEMMA StepKeeps == ThrottleInv /\ [Next]_throttleVars => ThrottleInv'
<1> SUFFICES ASSUME ThrottleInv, [Next]_throttleVars PROVE ThrottleInv'
  OBVIOUS
<1>1. stage \in [Attempt -> Stage]
  BY DEF ThrottleInv, TypesOK
<1>2. CASE Tick
  BY <1>2, TickKeeps
<1>3. ASSUME NEW a \in Attempt, Admit(a) PROVE ThrottleInv'
  BY <1>1, <1>3, KeysKept DEF Admit, MoveTo, Stage
<1>4. ASSUME NEW a \in Attempt, NEW outcome \in {"failed", "matched"}, Compare(a, outcome)
      PROVE  ThrottleInv'
  BY <1>1, <1>4, KeysKept DEF Compare, MoveTo, Stage
<1>5. ASSUME NEW a \in Attempt, RecordFailure(a) PROVE ThrottleInv'
  BY <1>5, FailureKeeps
<1>6. ASSUME NEW a \in Attempt, Reset(a) PROVE ThrottleInv'
  BY <1>6, ResetKeeps
<1>7. ASSUME NEW a \in Attempt, Abort(a) PROVE ThrottleInv'
  BY <1>1, <1>7, KeysKept DEF Abort, MoveTo, Stage
<1>8. CASE UNCHANGED throttleVars
  BY <1>1, <1>8, KeysKept DEF throttleVars
<1> QED
  BY <1>2, <1>3, <1>4, <1>5, <1>6, <1>7, <1>8 DEF Next

LEMMA Invariant == Spec => []ThrottleInv
BY InitInv, StepKeeps, PTL DEF Spec

-----------------------------------------------------------------------------
(* Whatever RECORD_FAILURE_SCRIPT, reset and their repetitions do, counter *)
(* and lock have a deadline, and it is near.                               *)
THEOREM DeadlinesAreBounded == Spec => []DeadlinesBounded
<1>1. ThrottleInv => DeadlinesBounded
  <2> SUFFICES ASSUME ThrottleInv, lockUntil # Absent
               PROVE  lockUntil \in now..(now + MaxDelay * Second)
    BY DEF ThrottleInv, TypesOK, CounterOK, DeadlinesBounded
  <2>1. /\ now \in Nat /\ lockUntil \in Int /\ now <= lockUntil /\ sinceSuccess \in Counts
        /\ lockUntil - now <= Delay(sinceSuccess) * Second /\ sinceSuccess \in Nat
    BY DEF ThrottleInv, LockOK, TypesOK
  <2>2. /\ Delay(sinceSuccess) * Second \in Nat /\ MaxDelay * Second \in Nat
        /\ Delay(sinceSuccess) * Second <= MaxDelay * Second
    BY <2>1, DelayInTicks
  <2> QED
    BY <2>1, <2>2
<1> QED
  BY <1>1, Invariant, PTL

(* recordFailure and reset of attempts side by side lock nobody out who    *)
(* has not failed that often since the last success.                       *)
THEOREM LocksAreEarned == Spec => []LockIsEarned
<1>1. ThrottleInv => LockIsEarned
  <2>1. \A c \in Counts : c > FreeAttempts
    BY ThrottleAssumption DEF Counts
  <2> QED
    BY <2>1 DEF ThrottleInv, LockOK, LockIsEarned
<1> QED
  BY <1>1, Invariant, PTL

(* assertNotThrottled waits for the delay of the last failure counted.     *)
LEMMA AdmitWaits ==
  ASSUME ThrottleInv, NEW a \in Attempt, Admit(a), failures > FreeAttempts
  PROVE  now + Second \div 2 >= lastFailedAt + Delay(failures) * Second
<1>1. /\ now \in Nat /\ lockUntil \in Int /\ lastFailedAt \in Nat
      /\ failures \in Counts
  BY ThrottleAssumption DEF ThrottleInv, TypesOK, CounterOK, Counts
<1>2. Delay(failures) * Second \in Nat
  BY <1>1, DelayInTicks DEF ThrottleInv, TypesOK
<1> DEFINE end == lastFailedAt + Delay(failures) * Second
<1>3. end \in Nat /\ (IF lockUntil = Absent THEN now >= end ELSE lockUntil = end)
  BY <1>1, <1>2 DEF ThrottleInv, WaitOK
<1> HIDE DEF end
<1>4. Second \div 2 \in Nat
  BY ThrottleAssumption
<1>5. lockUntil # Absent => lockUntil - now <= Second \div 2
  BY <1>1, TtlRounds DEF Admit, Ttl
<1>6. now + Second \div 2 >= end
  BY <1>1, <1>3, <1>4, <1>5
<1> QED
  BY <1>6 DEF end

(* assertNotThrottled lets an attempt through only when the delay that the *)
(* failures counted so far call for is over, to half a second.             *)
THEOREM AdmissionWaits == Spec => AdmittedAfterDelay
<1>1. ThrottleInv /\ [Next]_throttleVars =>
        [\A a \in Attempt : Admit(a) /\ failures > FreeAttempts =>
           now + Second \div 2 >= lastFailedAt + Delay(failures) * Second]_throttleVars
  BY AdmitWaits
<1> QED
  BY <1>1, Invariant, PTL DEF Spec, AdmittedAfterDelay

-----------------------------------------------------------------------------
(* Failures are spaced                                                     *)

UnderWay == {a \in Attempt : stage[a] # "idle"}

(* When the delay of an answered failure is over, but for the rounding.    *)
End(i) == answered[i].at + Delay(answered[i].count) * Second
InDelay(i) == answered[i].count > FreeAttempts /\ now + Second \div 2 < End(i)

AnsweredOK ==
  /\ answered \in Seq([at : Nat, count : Nat])
  /\ lastFailedAt <= now
  /\ \A i \in DOMAIN answered :
       answered[i].count <= failures /\ answered[i].at <= lastFailedAt

(* During the delay of a failure nobody is admitted: who fails after it    *)
(* was under way when it was recorded, and that attempt itself was not.    *)
ShadowOK ==
  \A i \in DOMAIN answered : InDelay(i) =>
    (Len(answered) - i) + Cardinality(UnderWay) < Cardinality(Attempt)

SpacingInv == AnsweredOK /\ ShadowOK /\ FailuresAreSpaced

LEMMA UnderWayCounted ==
  /\ IsFiniteSet(UnderWay) /\ Cardinality(UnderWay) \in Nat
  /\ Cardinality(Attempt) \in Nat /\ Cardinality(UnderWay) <= Cardinality(Attempt)
<1>1. UnderWay \subseteq Attempt /\ IsFiniteSet(Attempt)
  BY ThrottleAssumption DEF UnderWay
<1> QED
  BY <1>1, FS_Subset, FS_CardinalityType

LEMMA AnsweredTyped ==
  ASSUME ThrottleInv, AnsweredOK, NEW i \in DOMAIN answered
  PROVE  /\ answered[i].count \in Nat /\ answered[i].at \in Nat
         /\ answered[i].count <= failures /\ answered[i].at <= lastFailedAt
         /\ answered[i].count <= failures + 1 /\ answered[i].at <= now
<1>1. answered[i] \in [at : Nat, count : Nat]
  <2> DEFINE Entry == [at : Nat, count : Nat]
  <2>1. answered \in Seq(Entry)
    BY DEF AnsweredOK
  <2> HIDE DEF Entry
  <2>2. answered[i] \in Entry
    BY <2>1
  <2> QED
    BY <2>2 DEF Entry
<1>2. answered[i].count \in Nat /\ answered[i].at \in Nat
  BY <1>1
<1>3. /\ answered[i].count <= failures /\ answered[i].at <= lastFailedAt
      /\ lastFailedAt <= now
  BY DEF AnsweredOK
<1>4. failures \in Nat /\ lastFailedAt \in Nat /\ now \in Nat
  BY DEF ThrottleInv, TypesOK
<1> QED
  BY <1>2, <1>3, <1>4

LEMMA EndTyped ==
  ASSUME ThrottleInv, AnsweredOK, NEW i \in DOMAIN answered,
         answered[i].count > FreeAttempts
  PROVE  /\ answered[i].count \in Counts /\ failures \in Counts
         /\ answered[i].at \in Nat /\ End(i) \in Nat
         /\ lastFailedAt + Delay(failures) * Second \in Nat
         /\ End(i) <= lastFailedAt + Delay(failures) * Second
<1>1. /\ answered[i].count \in Nat /\ answered[i].at \in Nat
      /\ answered[i].count <= failures /\ answered[i].at <= lastFailedAt
  BY AnsweredTyped
<1>2. /\ failures \in Nat /\ lastFailedAt \in Nat
      /\ failures <= sinceSuccess /\ sinceSuccess \in 0..MaxFailures
  BY DEF ThrottleInv, TypesOK, CounterOK
<1>3. answered[i].count \in Counts /\ failures \in Counts
  BY <1>1, <1>2, ThrottleAssumption DEF Counts
<1>4. /\ Delay(answered[i].count) * Second \in Nat /\ Delay(failures) * Second \in Nat
      /\ Delay(answered[i].count) * Second <= Delay(failures) * Second
  BY <1>1, <1>3, DelayInTicks
<1> QED
  BY <1>1, <1>2, <1>3, <1>4 DEF End

(* The steps that answer no failure.                                       *)
LEMMA QuietSpacing ==
  ASSUME ThrottleInv, SpacingInv, now' >= now, now' \in Nat,
         UNCHANGED <<failures, lastFailedAt, sinceSuccess, answered>>,
         UnderWay' \subseteq UnderWay \/ \A i \in DOMAIN answered : ~ InDelay(i)
  PROVE  SpacingInv'
<1>1. AnsweredOK'
  BY DEF SpacingInv, AnsweredOK, ThrottleInv, TypesOK
<1>2. FailuresAreSpaced'
  BY DEF SpacingInv, FailuresAreSpaced
<1>3. ASSUME NEW i \in DOMAIN answered, InDelay(i)'
      PROVE  (Len(answered) - i) + Cardinality(UnderWay') < Cardinality(Attempt)
  <2>1. InDelay(i)
    <3>1. End(i) \in Nat /\ now \in Nat /\ Second \div 2 \in Nat
      BY <1>3, EndTyped, ThrottleAssumption DEF InDelay, SpacingInv, ThrottleInv, TypesOK
    <3> QED
      BY <1>3, <3>1 DEF InDelay, End
  <2>2. Cardinality(UnderWay') <= Cardinality(UnderWay) /\ Cardinality(UnderWay') \in Nat
    BY <2>1, UnderWayCounted, FS_Subset, FS_CardinalityType
  <2>3. (Len(answered) - i) + Cardinality(UnderWay) < Cardinality(Attempt)
    BY <2>1 DEF SpacingInv, ShadowOK
  <2>4. Len(answered) \in Nat /\ i \in Nat
    BY DEF SpacingInv, AnsweredOK
  <2> QED
    BY <2>2, <2>3, <2>4, UnderWayCounted
<1> QED
  BY <1>1, <1>2, <1>3 DEF SpacingInv, ShadowOK

(* The step that answers one: as many as were under way are so no longer.  *)
LEMMA AnswerSpacing ==
  ASSUME ThrottleInv, SpacingInv, NEW a \in Attempt, RecordFailure(a),
         MoveTo(a, "idle"),
         answered' = Append(answered, [at |-> now, count |-> failures + 1])
  PROVE  SpacingInv'
<1> DEFINE n == Len(answered)
           k == Cardinality(Attempt)
<1>1. /\ now \in Nat /\ failures \in Nat /\ lastFailedAt \in Nat
      /\ stage \in [Attempt -> Stage]
      /\ n \in Nat /\ DOMAIN answered = 1..n
      /\ now' = now /\ failures' = failures + 1 /\ lastFailedAt' = now
      /\ stage[a] = "failed" /\ stage' = [stage EXCEPT ![a] = "idle"]
      /\ Second \div 2 \in Nat
  <2>1. n \in Nat /\ DOMAIN answered = 1..n
    BY DEF SpacingInv, AnsweredOK
  <2>2. /\ now \in Nat /\ failures \in Nat /\ lastFailedAt \in Nat
        /\ stage \in [Attempt -> Stage]
    BY DEF ThrottleInv, TypesOK
  <2>3. /\ now' = now /\ failures' = failures + 1 /\ lastFailedAt' = now
        /\ stage[a] = "failed" /\ stage' = [stage EXCEPT ![a] = "idle"]
    BY DEF RecordFailure, CountFailure, MoveTo
  <2>4. Second \div 2 \in Nat
    BY ThrottleAssumption
  <2> QED
    BY <2>1, <2>2, <2>3, <2>4
<1>2. /\ answered' \in Seq([at : Nat, count : Nat])
      /\ answered'[n + 1] = [at |-> now, count |-> failures + 1]
      /\ Len(answered') = n + 1 /\ DOMAIN answered' = 1..(n + 1)
      /\ \A i \in 1..n : answered'[i] = answered[i]
  <2> DEFINE Entry == [at : Nat, count : Nat]
             entry == [at |-> now, count |-> failures + 1]
  <2>1. entry \in Entry
    BY <1>1
  <2>2. answered \in Seq(Entry) /\ answered' = Append(answered, entry)
    BY DEF SpacingInv, AnsweredOK
  <2> HIDE DEF Entry, entry
  <2>3. /\ answered' \in Seq(Entry) /\ answered'[n + 1] = entry
        /\ Len(answered') = n + 1 /\ DOMAIN answered' = 1..(n + 1)
        /\ \A i \in 1..n : answered'[i] = answered[i]
    BY <2>1, <2>2
  <2> QED
    BY <2>3 DEF Entry, entry
<1>3. /\ answered'[n + 1].at = now /\ answered'[n + 1].count = failures + 1
  BY <1>2
<1>4. UnderWay' = UnderWay \ {a} /\ a \in UnderWay
  BY <1>1 DEF UnderWay
<1>5. /\ Cardinality(UnderWay) \in Nat \ {0} /\ k \in Nat
      /\ Cardinality(UnderWay') = Cardinality(UnderWay) - 1
      /\ Cardinality(UnderWay) <= k
  <2>1. Cardinality(UnderWay') = Cardinality(UnderWay) - 1
    BY <1>4, UnderWayCounted, FS_RemoveElement
  <2>2. Cardinality(UnderWay) # 0
    BY <1>4, UnderWayCounted, FS_EmptySet
  <2> QED
    BY <2>1, <2>2, UnderWayCounted
<1>6. AnsweredOK'
  <2>1. ASSUME NEW i \in 1..(n + 1)
        PROVE  answered'[i].count <= failures' /\ answered'[i].at <= lastFailedAt'
    <3>1. CASE i = n + 1
      BY <1>1, <1>3, <3>1
    <3>2. CASE i \in 1..n
      <4>1. answered[i].count <= failures + 1 /\ answered[i].at <= now
        BY <1>1, <3>2, AnsweredTyped DEF SpacingInv
      <4> QED
        BY <1>1, <1>2, <3>2, <4>1
    <3> QED
      BY <1>1, <3>1, <3>2
  <2> QED
    BY <1>1, <1>2, <2>1 DEF AnsweredOK
<1>7. ASSUME NEW i \in 1..n, InDelay(i)
      PROVE  (n + 1 - i) + Cardinality(UnderWay') < k
  BY <1>1, <1>5, <1>7 DEF SpacingInv, ShadowOK
<1>8. ASSUME NEW i \in 1..n
      PROVE  InDelay(i)' = InDelay(i)
  BY <1>1, <1>2, <1>8 DEF InDelay, End
<1>9. ShadowOK'
  <2>1. ASSUME NEW i \in 1..(n + 1), InDelay(i)'
        PROVE  (n + 1 - i) + Cardinality(UnderWay') < k
    BY <1>1, <1>5, <1>7, <1>8, <2>1
  <2> QED
    BY <1>2, <2>1 DEF ShadowOK
<1>10. FailuresAreSpaced'
  <2>1. ASSUME NEW i \in 1..(n + 1), NEW j \in 1..(n + 1), j - i >= k,
               answered'[i].count > FreeAttempts
        PROVE  answered'[j].at + Second \div 2
                 >= answered'[i].at + Delay(answered'[i].count) * Second
    <3>1. i \in 1..n /\ answered'[i] = answered[i]
      BY <1>1, <1>2, <1>5, <2>1
    <3>2. CASE j \in 1..n
      BY <1>1, <1>2, <2>1, <3>1, <3>2 DEF SpacingInv, FailuresAreSpaced
    <3>3. CASE j = n + 1
      <4>1. ~ InDelay(i)
        BY <1>1, <1>5, <1>7, <2>1, <3>1, <3>3
      <4>2. End(i) \in Nat
        BY <1>1, <2>1, <3>1, EndTyped DEF SpacingInv
      <4>3. now + Second \div 2 >= End(i)
        BY <1>1, <2>1, <3>1, <4>1, <4>2 DEF InDelay
      <4> QED
        BY <1>3, <3>1, <3>3, <4>3 DEF End
    <3> QED
      BY <1>1, <3>2, <3>3
  <2> QED
    BY <1>2, <2>1 DEF FailuresAreSpaced
<1> QED
  BY <1>6, <1>9, <1>10 DEF SpacingInv

(* A success, or the end of its window, makes the counter forget.          *)
LEMMA Forgotten ==
  ASSUME answered' = <<>>, lastFailedAt' <= now'
  PROVE  SpacingInv'
BY DEF SpacingInv, AnsweredOK, ShadowOK, FailuresAreSpaced

LEMMA SpacingStep ==
  ASSUME ThrottleInv, ThrottleInv', SpacingInv, [Next]_throttleVars
  PROVE  SpacingInv'
<1>1. /\ now \in Nat /\ failures \in Nat /\ lastFailedAt \in Nat
      /\ lastFailedAt <= now /\ stage \in [Attempt -> Stage]
  BY DEF ThrottleInv, TypesOK, SpacingInv, AnsweredOK
<1>2. CASE Tick
  <2>1. now' = now + 1 /\ UNCHANGED <<stage, lastFailedAt, sinceSuccess>>
    BY <1>2 DEF Tick
  <2>2. CASE answered' = <<>>
    BY <1>1, <2>1, <2>2, Forgotten
  <2>3. CASE UNCHANGED <<failures, answered>>
    <3>1. UnderWay' = UnderWay
      BY <2>1 DEF UnderWay
    <3> QED
      BY <1>1, <2>1, <2>3, <3>1, QuietSpacing
  <2> QED
    BY <1>2, <2>2, <2>3 DEF Tick
<1>3. ASSUME NEW a \in Attempt, Admit(a)
      PROVE  SpacingInv'
  <2>1. ASSUME NEW i \in DOMAIN answered
        PROVE  ~ InDelay(i)
    <3> SUFFICES ASSUME answered[i].count > FreeAttempts
                 PROVE  now + Second \div 2 >= End(i)
      <4>1. Second \div 2 \in Nat
        BY ThrottleAssumption
      <4> QED
        BY <1>1, <4>1, EndTyped DEF InDelay, SpacingInv
    <3>1. /\ End(i) \in Nat /\ lastFailedAt + Delay(failures) * Second \in Nat
          /\ End(i) <= lastFailedAt + Delay(failures) * Second /\ failures \in Counts
      BY EndTyped DEF SpacingInv
    <3>2. failures > FreeAttempts
      BY <3>1, ThrottleAssumption DEF Counts
    <3>3. now + Second \div 2 >= lastFailedAt + Delay(failures) * Second
      BY <1>3, <3>2, AdmitWaits
    <3>4. Second \div 2 \in Nat
      BY ThrottleAssumption
    <3> QED
      BY <1>1, <3>1, <3>3, <3>4
  <2> QED
    BY <1>1, <1>3, <2>1, QuietSpacing DEF Admit, keys, history
<1>4. ASSUME NEW a \in Attempt, NEW outcome \in {"failed", "matched"}, Compare(a, outcome)
      PROVE  SpacingInv'
  <2>1. UnderWay' = UnderWay
    BY <1>1, <1>4 DEF Compare, MoveTo, UnderWay
  <2> QED
    BY <1>1, <1>4, <2>1, QuietSpacing DEF Compare, keys, history
<1>5. ASSUME NEW a \in Attempt, RecordFailure(a)
      PROVE  SpacingInv'
  <2>1. CASE SentAgain /\ UNCHANGED answered
    <3>1. /\ now' = now /\ failures' = failures + 1 /\ lastFailedAt' = now
          /\ UnderWay' = UnderWay
      BY <1>5, <2>1 DEF RecordFailure, CountFailure, SentAgain, UnderWay
    <3>2. AnsweredOK'
      <4>1. ASSUME NEW i \in DOMAIN answered
            PROVE  answered[i].count <= failures + 1 /\ answered[i].at <= now
        BY AnsweredTyped DEF SpacingInv
      <4> QED
        BY <1>1, <2>1, <3>1, <4>1 DEF SpacingInv, AnsweredOK
    <3>3. ShadowOK' /\ FailuresAreSpaced'
      BY <2>1, <3>1 DEF SpacingInv, ShadowOK, InDelay, End, FailuresAreSpaced
    <3> QED
      BY <3>2, <3>3 DEF SpacingInv
  <2>2. CASE /\ MoveTo(a, "idle")
             /\ answered' = Append(answered, [at |-> now, count |-> failures + 1])
    BY <1>5, <2>2, AnswerSpacing
  <2> QED
    BY <1>5, <2>1, <2>2 DEF RecordFailure
<1>6. ASSUME NEW a \in Attempt, Reset(a)
      PROVE  SpacingInv'
  BY <1>1, <1>6, Forgotten DEF Reset
<1>7. ASSUME NEW a \in Attempt, Abort(a)
      PROVE  SpacingInv'
  <2>1. UnderWay' \subseteq UnderWay
    BY <1>1, <1>7 DEF Abort, MoveTo, UnderWay
  <2> QED
    BY <1>1, <1>7, <2>1, QuietSpacing DEF Abort, keys, history
<1>8. CASE UNCHANGED throttleVars
  <2>1. UnderWay' = UnderWay
    BY <1>8 DEF throttleVars, UnderWay
  <2> QED
    BY <1>1, <1>8, <2>1, QuietSpacing DEF throttleVars, keys, history
<1> QED
  BY <1>2, <1>3, <1>4, <1>5, <1>6, <1>7, <1>8 DEF Next

(* For any number n of attempts side by side, the n-th failure after a     *)
(* failure comes no earlier than the delay of that one allows.             *)
THEOREM FailuresSpaced == Spec => []FailuresAreSpaced
<1>1. Init => SpacingInv
  BY DEF Init, SpacingInv, AnsweredOK, ShadowOK, FailuresAreSpaced
<1>2. ThrottleInv /\ ThrottleInv' /\ SpacingInv /\ [Next]_throttleVars => SpacingInv'
  BY SpacingStep
<1>3. SpacingInv => FailuresAreSpaced
  BY DEF SpacingInv
<1> QED
  BY <1>1, <1>2, <1>3, Invariant, PTL DEF Spec

=============================================================================
