---------------------------- MODULE SessionStore ----------------------------
(***************************************************************************)
(* SessionRepository and the two Redis keyspaces it owns: session:{id},    *)
(* one record per session, and user_sessions:{userId}, the reverse index.  *)
(* Every Lua script and every MULTI is one atomic step.  Callers pass the  *)
(* Node clock reading they took before the command was sent, so it differs *)
(* from the Redis clock by latency and skew.                               *)
(* All durations are in milliseconds; Second is the grain of Redis EX.     *)
(***************************************************************************)
EXTENDS Integers, FiniteSets

CONSTANTS
  SessionId, User, Role,
  Hash,           \* SHA-256 digests of refresh-token validators
  None,           \* no record, no hash: nil in Redis
  Second,
  IdleTtl,        \* SESSION_IDLE_TTL_SECONDS
  AbsoluteTtl,    \* SESSION_ABSOLUTE_TTL_SECONDS
  GracePeriod,    \* REFRESH_GRACE_PERIOD_MS
  MaxLag,         \* a caller's reading is at most this far behind Redis
  MaxLead,        \* ... and at most this far ahead of it
  MaxTime         \* bound of the model: the clock stops here

ASSUME DurationAssumption ==
  /\ Second \in Nat \ {0}
  /\ IdleTtl \in Nat \ {0} /\ IdleTtl % Second = 0
  /\ AbsoluteTtl \in Nat /\ AbsoluteTtl % Second = 0
  /\ IdleTtl <= AbsoluteTtl
  /\ GracePeriod \in Nat /\ MaxLag \in Nat /\ MaxLead \in Nat
  /\ MaxTime \in Nat

(* The record as stored; createdAt is left out, no code reads it.          *)
SessionRecord ==
  [user : User, role : Role, hash : Hash, prev : Hash \cup {None},
   rotatedAt : Int, expiresAt : Int, absoluteExpiresAt : Int]

ASSUME NoneAssumption == None \notin Hash \cup SessionRecord

VARIABLES
  now,            \* the Redis clock
  session,        \* session:{id}, None when there is no such key
  sessionExpiry,  \* deadline of that key, as set by EX
  userSessions,   \* user_sessions:{userId}, {} when there is no such key
  indexExpiry,    \* deadline of that key, as set by EXPIRE
  birth,          \* history: the record a login asked to create
  creation,       \* history: how far create() got
  installed,      \* history: every hash the session has ever held
  traded          \* history: the hashes that were traded for a new one

redisVars == <<session, sessionExpiry, userSessions, indexExpiry>>
historyVars == <<birth, creation, installed, traded>>
storeVars == <<now, redisVars, historyVars>>

CreationStage == {"none", "torn", "written", "acked"}

-----------------------------------------------------------------------------
(* Helpers                                                                 *)

Lesser(a, b) == IF a <= b THEN a ELSE b

CeilToSecond(ms) == ms + ((-ms) % Second)

(* min(idle lifetime, what is left of the absolute one), in whole seconds. *)
SessionTtl_IdleOnly(remaining) == IdleTtl
SessionTtl(remaining) == Lesser(IdleTtl, CeilToSecond(remaining))

(* What Date.now() of some replica may have returned for a command that    *)
(* Redis executes now.                                                     *)
CallerClock == (now - MaxLag) .. (now + MaxLead)

UnusedHash(h) == \A s \in SessionId : h \notin installed[s]

Owner(s) == birth[s].user

-----------------------------------------------------------------------------
(* create(): SET, SADD and EXPIRE in one MULTI                             *)

NewSession(u, r, h, ts) ==
  [user |-> u, role |-> r, hash |-> h, prev |-> None, rotatedAt |-> 0,
   expiresAt |-> ts + IdleTtl, absoluteExpiresAt |-> ts + AbsoluteTtl]

(* execOrThrow: exec() resolves even when a queued command failed, so its  *)
(* results are searched for an error.                                      *)
ExecSucceeded_Unchecked(failed) == TRUE
ExecSucceeded(failed) == failed = {}

IndexTtl_Idle == IdleTtl
IndexTtl == AbsoluteTtl

(* ioredis sends a command again when the connection broke before its      *)
(* reply, so the same MULTI may run more than once, until login answers.   *)
Create(s, u, r, h, ts, failed) ==
  LET record == NewSession(u, r, h, ts)
      index  == IF "sadd" \in failed THEN userSessions[u]
                                     ELSE userSessions[u] \cup {s}
  IN /\ creation[s] # "acked"
     /\ birth[s] \in {None, record}
     /\ birth[s] = None => UnusedHash(h)
     /\ IF "set" \in failed
          THEN UNCHANGED <<session, sessionExpiry>>
          ELSE /\ session' = [session EXCEPT ![s] = record]
               /\ sessionExpiry' = [sessionExpiry EXCEPT
                    ![s] = now + SessionTtl(AbsoluteTtl)]
     /\ userSessions' = [userSessions EXCEPT ![u] = index]
     /\ indexExpiry' = [indexExpiry EXCEPT
          ![u] = IF index = {} THEN 0 ELSE now + IndexTtl]
     /\ birth' = [birth EXCEPT ![s] = record]
     /\ creation' = [creation EXCEPT
          ![s] = IF ExecSucceeded(failed) THEN "written" ELSE "torn"]
     /\ installed' = [installed EXCEPT ![s] = {h}]
     /\ UNCHANGED <<now, traded>>

(* The caller of create() goes on: the tokens of the session leave the     *)
(* server.                                                                 *)
Acknowledge(s) ==
  /\ creation[s] = "written"
  /\ creation' = [creation EXCEPT ![s] = "acked"]
  /\ UNCHANGED <<now, redisVars, birth, installed, traded>>

-----------------------------------------------------------------------------
(* rotate(): ROTATE_SCRIPT, one action per way out                         *)

PresentsCurrent_OrPrevious(s, p) == session[s].hash = p \/ session[s].prev = p
PresentsCurrent(s, p) == session[s].hash = p

PresentsRecent(s, p, ts) ==
  /\ session[s].prev = p
  /\ ts - session[s].rotatedAt <= GracePeriod

PastAbsolute(s, ts) == session[s].absoluteExpiresAt - ts <= 0

(* DEL session:{id} and SREM user_sessions:{userId} id                     *)
Drop(s, u) ==
  /\ session' = [session EXCEPT ![s] = None]
  /\ sessionExpiry' = [sessionExpiry EXCEPT ![s] = 0]
  /\ userSessions' = [userSessions EXCEPT ![u] = @ \ {s}]
  /\ indexExpiry' = [indexExpiry EXCEPT
       ![u] = IF userSessions[u] \subseteq {s} THEN 0 ELSE @]
  /\ UNCHANGED <<now, historyVars>>

(* user and absoluteExpiresAt are the login's; all else changes.           *)
Rotated_ShiftedArguments(old, p, n, r, ts, ttl) ==
  [user |-> old.user, role |-> n, hash |-> r, prev |-> p, rotatedAt |-> ts,
   expiresAt |-> ts + ttl, absoluteExpiresAt |-> old.absoluteExpiresAt]
Rotated(old, p, n, r, ts, ttl) ==
  [user |-> old.user, role |-> r, hash |-> n, prev |-> p, rotatedAt |-> ts,
   expiresAt |-> ts + ttl, absoluteExpiresAt |-> old.absoluteExpiresAt]

RotateSwap(s, p, n, r, ts) ==
  /\ session[s] # None
  /\ creation[s] = "acked"
  /\ PresentsCurrent(s, p)
  /\ ~ PastAbsolute(s, ts)
  /\ UnusedHash(n)
  /\ LET ttl == SessionTtl(session[s].absoluteExpiresAt - ts)
     IN /\ session' = [session EXCEPT ![s] = Rotated(@, p, n, r, ts, ttl)]
        /\ sessionExpiry' = [sessionExpiry EXCEPT ![s] = now + ttl]
  /\ installed' = [installed EXCEPT ![s] = @ \cup {n}]
  /\ traded' = [traded EXCEPT ![s] = @ \cup {p}]
  /\ UNCHANGED <<now, userSessions, indexExpiry, birth, creation>>

RotatePastAbsolute(s, u, p, ts) ==
  /\ session[s] # None
  /\ PresentsCurrent(s, p)
  /\ PastAbsolute(s, ts)
  /\ Drop(s, u)

RotateReuse(s, u, p, ts) ==
  /\ session[s] # None
  /\ ~ PresentsCurrent(s, p)
  /\ ~ PresentsRecent(s, p, ts)
  /\ Drop(s, u)

(* 'concurrent', or 'missing' without a key: nothing is written.           *)
RotateRefused(s, p, ts) ==
  /\ session[s] # None => ~ PresentsCurrent(s, p) /\ PresentsRecent(s, p, ts)
  /\ UNCHANGED storeVars

-----------------------------------------------------------------------------
(* delete() and deleteAllForUser()                                         *)

Delete(s, u) == Drop(s, u)

Indexed(u) == userSessions[u]

DeleteAll(u) ==
  /\ session' = [s \in SessionId |->
                   IF s \in Indexed(u) THEN None ELSE session[s]]
  /\ sessionExpiry' = [s \in SessionId |->
                         IF s \in Indexed(u) THEN 0 ELSE sessionExpiry[s]]
  /\ userSessions' = [userSessions EXCEPT ![u] = {}]
  /\ indexExpiry' = [indexExpiry EXCEPT ![u] = 0]
  /\ UNCHANGED <<now, historyVars>>

-----------------------------------------------------------------------------
(* Time passes and Redis drops the keys whose deadline is over.            *)

Tick ==
  /\ now < MaxTime
  /\ now' = now + 1
  /\ session' = [s \in SessionId |->
                   IF now' > sessionExpiry[s] THEN None ELSE session[s]]
  /\ sessionExpiry' = [s \in SessionId |->
                         IF now' > sessionExpiry[s] THEN 0 ELSE sessionExpiry[s]]
  /\ userSessions' = [u \in User |->
                        IF now' > indexExpiry[u] THEN {} ELSE userSessions[u]]
  /\ indexExpiry' = [u \in User |->
                       IF now' > indexExpiry[u] THEN 0 ELSE indexExpiry[u]]
  /\ UNCHANGED historyVars

-----------------------------------------------------------------------------
StoreInit ==
  /\ now = 0
  /\ session = [s \in SessionId |-> None]
  /\ sessionExpiry = [s \in SessionId |-> 0]
  /\ userSessions = [u \in User |-> {}]
  /\ indexExpiry = [u \in User |-> 0]
  /\ birth = [s \in SessionId |-> None]
  /\ creation = [s \in SessionId |-> "none"]
  /\ installed = [s \in SessionId |-> {}]
  /\ traded = [s \in SessionId |-> {}]

StoreNext ==
  \/ Tick
  \/ \E u \in User : DeleteAll(u)
  \/ \E s \in SessionId : Acknowledge(s)
  \/ \E s \in SessionId, u \in User, r \in Role, h \in Hash, ts \in CallerClock,
        failed \in SUBSET {"set", "sadd"} : Create(s, u, r, h, ts, failed)
  \/ \E s \in SessionId, p \in Hash, n \in Hash, r \in Role, ts \in CallerClock :
        RotateSwap(s, p, n, r, ts)
  \/ \E s \in SessionId, p \in Hash, ts \in CallerClock :
        /\ birth[s] # None
        /\ \/ RotatePastAbsolute(s, Owner(s), p, ts)
           \/ RotateReuse(s, Owner(s), p, ts)
  \/ \E s \in SessionId : birth[s] # None /\ Delete(s, Owner(s))

StoreSpec == StoreInit /\ [][StoreNext]_storeVars

-----------------------------------------------------------------------------
(* Properties                                                              *)

(* Types of the two keyspaces and of the history.                          *)
TypeOK ==
  /\ now \in Nat
  /\ session \in [SessionId -> SessionRecord \cup {None}]
  /\ sessionExpiry \in [SessionId -> Int]
  /\ userSessions \in [User -> SUBSET SessionId]
  /\ indexExpiry \in [User -> Int]
  /\ birth \in [SessionId -> SessionRecord \cup {None}]
  /\ creation \in [SessionId -> CreationStage]
  /\ installed \in [SessionId -> SUBSET Hash]
  /\ traded \in [SessionId -> SUBSET Hash]

Live(s) == session[s] # None

(* However often it is rotated, a session key is gone once its absolute    *)
(* lifetime is over, up to the rounding of its TTL to whole seconds and    *)
(* the time the last rotation spent on its way to Redis.                   *)
AbsoluteCap ==
  \A s \in SessionId :
    Live(s) => now < session[s].absoluteExpiresAt + MaxLag + Second

(* deleteAllForUser reaches every session whose login got through create(),*)
(* as long as the session is inside its absolute lifetime: the index still *)
(* exists and still holds it, whatever other logins, logouts, expiries and *)
(* half-failed MULTIs did to it.                                           *)
IndexCovers ==
  \A s \in SessionId :
    /\ Live(s)
    /\ creation[s] \in {"written", "acked"}
    /\ now + MaxLead <= session[s].absoluteExpiresAt
    => s \in userSessions[session[s].user]

(* What a client knows of a session: nothing before login answers, then    *)
(* whether it can still be used, with which token, and with which not:     *)
(* those it has traded in and, once the session is over, all of them.      *)
Status == [s \in SessionId |->
  IF creation[s] # "acked" THEN "unissued" ELSE IF Live(s) THEN "open" ELSE "closed"]

Current == [s \in SessionId |-> IF Status[s] = "open" THEN session[s].hash ELSE None]

Spent == [s \in SessionId |->
  CASE Status[s] = "unissued" -> {}
    [] Status[s] = "open"     -> traded[s]
    [] Status[s] = "closed"   -> installed[s]]

(* The store keeps the promise of SessionContract to the clients that were *)
(* given a session: one valid token at a time, no token valid twice, and   *)
(* no way back for a session that was deleted or has expired.              *)
Contract == INSTANCE SessionContract
              WITH status <- Status, current <- Current, spent <- Spent
ContractSpec == Contract!Spec

=============================================================================
