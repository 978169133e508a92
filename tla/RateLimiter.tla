---------------------------- MODULE RateLimiter ----------------------------
(***************************************************************************)
(* The counters of createRedisRateLimiter: one fixed window for each key   *)
(* of each limiter, kept in Redis by one script of rate-limit-redis.  The  *)
(* window of a key begins with the first hit after the last one ended.     *)
(***************************************************************************)
EXTENDS Naturals, Sequences

CONSTANTS
  Limiter,    \* the limiters, told apart by the prefix of their keys
  Key,        \* what a limiter may count by
  Max,        \* max of each limiter
  Window,     \* windowMs of each limiter
  MaxTime     \* where the clock of a run ends

ASSUME LimiterAssumption ==
  /\ Max \in [Limiter -> Nat \ {0}] /\ Window \in [Limiter -> Nat \ {0}]
  /\ MaxTime \in Nat

VARIABLES
  now,        \* the Redis clock
  hits,       \* rl:<limiter>:<key>
  resetAt,    \* deadline of that key
  log         \* history: the hits of each key that were let through

limiterVars == <<now, hits, resetAt, log>>

Bucket == Limiter \X Key

-----------------------------------------------------------------------------
Expired(b) == resetAt[b] <= now
Hit(b) == IF Expired(b) THEN 1 ELSE hits[b] + 1
Began(b) == IF Expired(b) THEN now ELSE resetAt[b] - Window[b[1]]

Admitted_OneMore(b) == Hit(b) <= Max[b[1]] + 1
Admitted(b) == Hit(b) <= Max[b[1]]

(* The script: it counts, whatever becomes of its reply.  The model stops  *)
(* counting one above the limit, where every further hit is refused.       *)
Count(b) ==
  /\ hits' = [hits EXCEPT ![b] = IF Admitted(b) THEN Hit(b) ELSE Max[b[1]] + 1]
  /\ resetAt' = [resetAt EXCEPT ![b] = Began(b) + Window[b[1]]]
  /\ UNCHANGED now

Pass(b) ==
  /\ Admitted(b) /\ Count(b)
  /\ log' = [log EXCEPT ![b] =
       Append(@, [at |-> now, hit |-> Hit(b), began |-> Began(b)])]

(* Refused, or counted for nothing: the reply was lost.                    *)
Waste(b) == Count(b) /\ UNCHANGED log

Tick ==
  /\ now < MaxTime
  /\ now' = now + 1
  /\ UNCHANGED <<hits, resetAt, log>>

LimiterInit ==
  /\ now = 0
  /\ hits = [b \in Bucket |-> 0]
  /\ resetAt = [b \in Bucket |-> 0]
  /\ log = [b \in Bucket |-> <<>>]

LimiterNext == Tick \/ \E b \in Bucket : Pass(b) \/ Waste(b)

LimiterSpec == LimiterInit /\ [][LimiterNext]_limiterVars

-----------------------------------------------------------------------------
LimiterTypeOK ==
  /\ now \in Nat
  /\ hits \in [Bucket -> Nat]
  /\ resetAt \in [Bucket -> Nat]
  /\ log \in [Bucket -> Seq([at : Nat, hit : Nat, began : Nat])]

(* A fixed window lets nearly twice its limit through around its end, and  *)
(* no more: 2 max - 1 hits of one key pass in less than a window, however  *)
(* the hits fall, and with commands sent again after a lost reply.         *)
BurstBounded ==
  \A b \in Bucket : \A n \in 1..Len(log[b]) :
    LET m == n + 2 * Max[b[1]] - 1
    IN m <= Len(log[b]) => log[b][m].at - log[b][n].at >= Window[b[1]]

=============================================================================
