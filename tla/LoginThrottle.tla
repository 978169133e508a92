--------------------------- MODULE LoginThrottle ---------------------------
(***************************************************************************)
(* The backoff of one account: login:failures:{username} counts failed     *)
(* logins, login:lock:{username} turns logins away.  Login reads the lock, *)
(* compares the password and only then records the failure or clears both  *)
(* keys, so any number of attempts is under way at once.  An attempt is    *)
(* one POST /v1/login; refused attempts leave no trace.                    *)
(***************************************************************************)
EXTENDS Integers, Sequences, FiniteSets

CONSTANTS
  Attempt,
  FreeAttempts, BaseDelay, MaxDelay, FailureWindow,  \* in seconds, as in the code
  Second,          \* the ticks of a second: TTL answers in whole seconds
  MaxFailures,     \* bound of the model: no failure is recorded beyond it
  MaxTime          \* bound of the model: the clock stops here

ASSUME ThrottleAssumption ==
  /\ FreeAttempts \in Nat
  /\ BaseDelay \in Nat \ {0} /\ MaxDelay \in Nat \ {0}
  /\ FailureWindow \in Nat \ {0} /\ Second \in Nat \ {0}
  /\ MaxFailures \in Nat /\ MaxTime \in Nat
  /\ IsFiniteSet(Attempt)

VARIABLES
  now,             \* the Redis clock
  failures,        \* login:failures, 0 when there is no such key
  failuresExpiry,  \* deadline of that key
  lockUntil,       \* deadline of login:lock, Absent when there is no such key
  stage,           \* how far login has got with each attempt
  lastFailedAt,    \* history: when a failure was last recorded
  sinceSuccess,    \* history: failures recorded since a login succeeded
  answered         \* history: when the attempts that the counter remembers
                   \* were told they had failed, and as which failure

keys == <<failures, failuresExpiry, lockUntil>>
history == <<lastFailedAt, sinceSuccess, answered>>
throttleVars == <<now, keys, stage, history>>

Stage == {"idle", "admitted", "failed", "matched"}

Absent == -1

(* A key without EXPIRE; none that the model's clock could reach.          *)
Never == MaxTime + FailureWindow * Second + 1

-----------------------------------------------------------------------------
(* Helpers                                                                 *)

Lesser(a, b) == IF a <= b THEN a ELSE b

(* min(base * 2^(excess - 1), max), in seconds.                            *)
Delay(count) == Lesser(BaseDelay * 2 ^ (count - FreeAttempts - 1), MaxDelay)

(* TTL rounds what is left to the nearest second; -2 for a missing key.    *)
Ttl == IF lockUntil = Absent THEN -2
       ELSE (lockUntil - now + Second \div 2) \div Second

MoveTo(a, s) == stage' = [stage EXCEPT ![a] = s]

(* The reply was lost: ioredis sends the command again.                    *)
SentAgain == UNCHANGED stage

-----------------------------------------------------------------------------
(* assertNotThrottled(): the attempt goes on to SELECT and bcrypt.         *)
Admit(a) ==
  /\ stage[a] = "idle"
  /\ Ttl <= 0
  /\ MoveTo(a, "admitted")
  /\ UNCHANGED <<now, keys, history>>

Compare(a, outcome) ==
  /\ stage[a] = "admitted"
  /\ MoveTo(a, outcome)
  /\ UNCHANGED <<now, keys, history>>

(* RECORD_FAILURE_SCRIPT: INCR, EXPIRE for the first failure, lock.        *)
CountFailure_NoExpire(count) ==
  /\ failures' = count
  /\ failuresExpiry' = IF count = 0 THEN now + FailureWindow * Second
                                    ELSE failuresExpiry
CountFailure(count) ==
  /\ failures' = count
  /\ failuresExpiry' = IF count = 1 THEN now + FailureWindow * Second
                                    ELSE failuresExpiry

Lock_OneLate(count) ==
  lockUntil' = IF count > FreeAttempts + 1
                 THEN now + Delay(count - 1) * Second ELSE lockUntil
Lock_OnlyOnce(count) ==
  lockUntil' = IF count > FreeAttempts /\ lockUntil = Absent
                 THEN now + Delay(count) * Second ELSE lockUntil
Lock(count) ==
  lockUntil' = IF count > FreeAttempts
                 THEN now + Delay(count) * Second ELSE lockUntil

RecordFailure(a) ==
  /\ stage[a] = "failed"
  /\ sinceSuccess < MaxFailures
  /\ CountFailure(failures + 1)
  /\ Lock(failures + 1)
  /\ lastFailedAt' = now /\ sinceSuccess' = sinceSuccess + 1
  /\ \/ SentAgain /\ UNCHANGED answered
     \/ /\ MoveTo(a, "idle")
        /\ answered' = Append(answered, [at |-> now, count |-> failures + 1])
  /\ UNCHANGED now

(* reset(): one DEL of both keys.                                          *)
ClearKeys_CounterOnly == failures' = 0 /\ failuresExpiry' = Never /\ UNCHANGED lockUntil
ClearKeys == failures' = 0 /\ failuresExpiry' = Never /\ lockUntil' = Absent

Reset(a) ==
  /\ stage[a] = "matched"
  /\ ClearKeys
  /\ sinceSuccess' = 0 /\ answered' = <<>>
  /\ SentAgain \/ MoveTo(a, "idle")
  /\ UNCHANGED <<now, lastFailedAt>>

(* The process dies, or Redis or PostgreSQL rejects.                       *)
Abort(a) ==
  /\ stage[a] # "idle"
  /\ MoveTo(a, "idle")
  /\ UNCHANGED <<now, keys, history>>

Tick ==
  /\ now < MaxTime
  /\ now' = now + 1
  /\ IF now' > failuresExpiry
       THEN failures' = 0 /\ failuresExpiry' = Never /\ answered' = <<>>
       ELSE UNCHANGED <<failures, failuresExpiry, answered>>
  /\ lockUntil' = IF now' > lockUntil THEN Absent ELSE lockUntil
  /\ UNCHANGED <<stage, lastFailedAt, sinceSuccess>>

-----------------------------------------------------------------------------
Init ==
  /\ now = 0
  /\ failures = 0 /\ failuresExpiry = Never /\ lockUntil = Absent
  /\ stage = [a \in Attempt |-> "idle"]
  /\ lastFailedAt = 0 /\ sinceSuccess = 0 /\ answered = <<>>

Next ==
  \/ Tick
  \/ \E a \in Attempt :
       \/ Admit(a)
       \/ \E outcome \in {"failed", "matched"} : Compare(a, outcome)
       \/ RecordFailure(a)
       \/ Reset(a)
       \/ Abort(a)

Spec == Init /\ [][Next]_throttleVars

-----------------------------------------------------------------------------
(* Properties                                                              *)

(* Types, and no lock or counter without a deadline: whatever crashes or   *)
(* is sent again, an account is never throttled for ever, nor for longer   *)
(* than the longest delay.                                                 *)
DeadlinesBounded ==
  /\ failures \in Nat /\ stage \in [Attempt -> Stage]
  /\ failures > 0 => failuresExpiry \in now .. (now + FailureWindow * Second)
  /\ lockUntil # Absent => lockUntil \in now .. (now + MaxDelay * Second)

(* No attempt gets as far as bcrypt before the delay that the failures     *)
(* counted so far call for is over, less the half second TTL rounds away,  *)
(* even when they were recorded by attempts admitted side by side.         *)
AdmittedAfterDelay ==
  [][\A a \in Attempt : Admit(a) /\ failures > FreeAttempts =>
       now + Second \div 2 >= lastFailedAt + Delay(failures) * Second]_throttleVars

(* What all of it is for, docs/security.md:58: as long as the counter      *)
(* remembers, a failure costs its delay.  When one is recorded, all other  *)
(* attempts may be past the throttle already; but the failure that comes   *)
(* as many places after it as there are attempts comes after its delay,    *)
(* less the half second TTL rounds away.                                   *)
FailuresAreSpaced ==
  \A i, j \in DOMAIN answered :
    /\ j - i >= Cardinality(Attempt)
    /\ answered[i].count > FreeAttempts
    => answered[j].at + Second \div 2
         >= answered[i].at + Delay(answered[i].count) * Second

(* Nobody is locked out without cause: a lock in force means that more     *)
(* failures than the free ones came after the last successful login, and   *)
(* what is left of it is no longer than that many failures call for.       *)
LockIsEarned ==
  lockUntil # Absent =>
    sinceSuccess > FreeAttempts /\ lockUntil - now <= Delay(sinceSuccess) * Second

=============================================================================
