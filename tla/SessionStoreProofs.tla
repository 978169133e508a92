------------------------- MODULE SessionStoreProofs -------------------------
(***************************************************************************)
(* For every set of sessions, users and hashes and all durations: the      *)
(* types, the inductive invariant of the session store, and what follows   *)
(* from it.                                                                *)
(***************************************************************************)
EXTENDS SessionStore, TLAPS

-----------------------------------------------------------------------------
(* Arithmetic of the deadlines                                             *)

(* Rounding a duration up to whole seconds adds less than a second.        *)
LEMMA CeilBounds ==
  ASSUME NEW ms \in Int
  PROVE  /\ CeilToSecond(ms) \in Int
         /\ ms <= CeilToSecond(ms)
         /\ CeilToSecond(ms) < ms + Second
<1>1. (-ms) % Second \in 0 .. (Second - 1)
  BY DurationAssumption
<1> QED
  BY <1>1, DurationAssumption DEF CeilToSecond

(* The TTL a key is given is positive while some of the absolute lifetime  *)
(* remains, and exceeds what remains by less than a second.                *)
LEMMA TtlBounds ==
  ASSUME NEW remaining \in Int
  PROVE  /\ SessionTtl(remaining) \in Int
         /\ SessionTtl(remaining) < remaining + Second
         /\ remaining > 0 => SessionTtl(remaining) > 0
<1> QED
  BY CeilBounds, DurationAssumption DEF SessionTtl, Lesser

-----------------------------------------------------------------------------
(* The inductive invariant                                                 *)

(* Every hash belongs to one session only, a live session holds one of its *)
(* own, and until login answers that is the one it was born with.          *)
HashesOwned ==
  /\ \A s \in SessionId : birth[s] = None <=> creation[s] = "none"
  /\ \A s \in SessionId :
       birth[s] = None => installed[s] = {} /\ session[s] = None
  /\ \A s, t \in SessionId : s # t => installed[s] \cap installed[t] = {}
  /\ \A s \in SessionId : Live(s) => session[s].hash \in installed[s]
  /\ \A s \in SessionId : creation[s] \in {"torn", "written"} =>
       /\ installed[s] = {birth[s].hash}
       /\ Live(s) => session[s].hash = birth[s].hash

(* What was traded in is what a session that can be used has held before.  *)
TradedOnce ==
  /\ \A s \in SessionId : creation[s] # "acked" => traded[s] = {}
  /\ \A s \in SessionId :
       Live(s) /\ creation[s] = "acked"
         => traded[s] = installed[s] \ {session[s].hash}

(* A live key has a deadline ahead of it, and never one that is more than  *)
(* a caller's lag and a rounding past the absolute lifetime.               *)
DeadlineCapped ==
  \A s \in SessionId : Live(s) =>
    /\ now <= sessionExpiry[s]
    /\ sessionExpiry[s] < session[s].absoluteExpiresAt + MaxLag + Second

(* No deadline of an index is further ahead than a new login would set it, *)
(* so that a login never shortens it ...                                   *)
IndexBounded == \A u \in User : indexExpiry[u] <= now + AbsoluteTtl

(* ... and the index of a session within its absolute lifetime lasts until *)
(* that lifetime is over for the caller that is furthest ahead.            *)
IndexLasts ==
  \A s \in SessionId :
    /\ Live(s)
    /\ creation[s] \in {"written", "acked"}
    /\ now + MaxLead <= session[s].absoluteExpiresAt
    => /\ s \in userSessions[session[s].user]
       /\ session[s].absoluteExpiresAt <= indexExpiry[session[s].user] + MaxLead

StoreInv ==
  /\ TypeOK /\ HashesOwned /\ TradedOnce
  /\ DeadlineCapped /\ IndexBounded /\ IndexLasts

-----------------------------------------------------------------------------
(* Types                                                                   *)

(* The caller's clock is an integer between its two bounds.                *)
LEMMA CallerClockBounds ==
  ASSUME TypeOK, NEW ts \in CallerClock
  PROVE  ts \in Int /\ now - MaxLag <= ts /\ ts <= now + MaxLead
BY DurationAssumption DEF TypeOK, CallerClock

LEMMA NewSessionType ==
  ASSUME NEW u \in User, NEW r \in Role, NEW h \in Hash, NEW ts \in Int
  PROVE  /\ NewSession(u, r, h, ts) \in SessionRecord
         /\ NewSession(u, r, h, ts).user = u
         /\ NewSession(u, r, h, ts).hash = h
         /\ NewSession(u, r, h, ts).absoluteExpiresAt = ts + AbsoluteTtl
BY DurationAssumption DEF NewSession, SessionRecord

(* Types are preserved by each operation.                                  *)
LEMMA CreateType ==
  ASSUME TypeOK, NEW s \in SessionId, NEW u \in User, NEW r \in Role,
         NEW h \in Hash, NEW ts \in CallerClock, NEW failed,
         Create(s, u, r, h, ts, failed)
  PROVE  TypeOK'
<1>1. ts \in Int
  BY CallerClockBounds
<1>2. NewSession(u, r, h, ts) \in SessionRecord
  BY <1>1, NewSessionType
<1>3. SessionTtl(AbsoluteTtl) \in Int /\ IndexTtl \in Int
  BY TtlBounds, DurationAssumption DEF IndexTtl
<1> QED
  BY <1>2, <1>3 DEF Create, TypeOK, CreationStage

LEMMA RotatedType ==
  ASSUME NEW old \in SessionRecord, NEW p \in Hash, NEW n \in Hash,
         NEW r \in Role, NEW ts \in Int, NEW ttl \in Int
  PROVE  /\ Rotated(old, p, n, r, ts, ttl) \in SessionRecord
         /\ Rotated(old, p, n, r, ts, ttl).user = old.user
         /\ Rotated(old, p, n, r, ts, ttl).hash = n
         /\ Rotated(old, p, n, r, ts, ttl).absoluteExpiresAt
              = old.absoluteExpiresAt
BY DEF Rotated, SessionRecord

LEMMA RotateSwapType ==
  ASSUME TypeOK, NEW s \in SessionId, NEW p \in Hash, NEW n \in Hash,
         NEW r \in Role, NEW ts \in CallerClock, RotateSwap(s, p, n, r, ts)
  PROVE  TypeOK'
<1> DEFINE ttl == SessionTtl(session[s].absoluteExpiresAt - ts)
           new == Rotated(session[s], p, n, r, ts, ttl)
<1>1. ts \in Int
  BY CallerClockBounds
<1>2. session[s] \in SessionRecord
  BY DEF TypeOK, RotateSwap
<1>3. ttl \in Int
  BY <1>1, <1>2, TtlBounds DEF SessionRecord
<1>4. new \in SessionRecord
  BY <1>1, <1>2, <1>3, RotatedType
<1>5. session' = [session EXCEPT ![s] = new]
      /\ sessionExpiry' = [sessionExpiry EXCEPT ![s] = now + ttl]
  BY DEF RotateSwap
<1> QED
  BY <1>3, <1>4, <1>5 DEF RotateSwap, TypeOK

LEMMA DropType ==
  ASSUME TypeOK, NEW s \in SessionId, NEW u \in User, Drop(s, u)
  PROVE  TypeOK'
BY DEF Drop, TypeOK, historyVars

LEMMA TickType ==
  ASSUME TypeOK, Tick
  PROVE  TypeOK'
BY DurationAssumption DEF Tick, TypeOK, historyVars

(* The ways StoreNext can go, with every step that ends one session by     *)
(* rotate() or delete() counted as a Drop.                                 *)
LEMMA StoreSteps ==
  ASSUME TypeOK, StoreNext
  PROVE  \/ Tick
         \/ \E u \in User : DeleteAll(u)
         \/ \E s \in SessionId : Acknowledge(s)
         \/ \E s \in SessionId, u \in User, r \in Role, h \in Hash,
               ts \in CallerClock, failed \in SUBSET {"set", "sadd"} :
               Create(s, u, r, h, ts, failed)
         \/ \E s \in SessionId, p \in Hash, n \in Hash, r \in Role,
               ts \in CallerClock : RotateSwap(s, p, n, r, ts)
         \/ \E s \in SessionId, u \in User : Drop(s, u)
<1>1. ASSUME NEW s \in SessionId, birth[s] # None
      PROVE  Owner(s) \in User
  BY <1>1 DEF TypeOK, Owner, SessionRecord
<1> QED
  BY <1>1 DEF StoreNext, RotatePastAbsolute, RotateReuse, Delete

LEMMA StepType == TypeOK /\ [StoreNext]_storeVars => TypeOK'
<1> SUFFICES ASSUME TypeOK, [StoreNext]_storeVars
             PROVE  TypeOK'
  OBVIOUS
<1>1. CASE UNCHANGED storeVars
  BY <1>1 DEF storeVars, redisVars, historyVars, TypeOK
<1>2. ASSUME NEW u \in User, DeleteAll(u)
      PROVE  TypeOK'
  BY <1>2 DEF DeleteAll, TypeOK, historyVars
<1>3. ASSUME NEW s \in SessionId, Acknowledge(s)
      PROVE  TypeOK'
  BY <1>3 DEF Acknowledge, TypeOK, redisVars, CreationStage
<1> QED
  BY <1>1, <1>2, <1>3, StoreSteps, TickType, CreateType, RotateSwapType,
     DropType

(* The two keyspaces and the history have their types in every state.      *)
THEOREM TypeCorrect == StoreSpec => []TypeOK
<1>1. StoreInit => TypeOK
  BY DEF StoreInit, TypeOK, CreationStage
<1> QED
  BY <1>1, StepType, PTL DEF StoreSpec

-----------------------------------------------------------------------------
(* Each part of the invariant is preserved                                 *)

LEMMA CreateHashes ==
  ASSUME TypeOK, HashesOwned, NEW s \in SessionId, NEW u \in User,
         NEW r \in Role, NEW h \in Hash, NEW ts \in CallerClock, NEW failed,
         Create(s, u, r, h, ts, failed)
  PROVE  HashesOwned'
<1> DEFINE record == NewSession(u, r, h, ts)
<1>1. record \in SessionRecord /\ record.hash = h /\ record # None
  BY CallerClockBounds, NewSessionType, NoneAssumption
<1>2. /\ creation[s] # "acked" /\ birth[s] \in {None, record}
      /\ birth[s] = None => UnusedHash(h)
      /\ session' \in {session, [session EXCEPT ![s] = record]}
      /\ birth' = [birth EXCEPT ![s] = record]
      /\ creation' \in {[creation EXCEPT ![s] = "torn"],
                        [creation EXCEPT ![s] = "written"]}
      /\ installed' = [installed EXCEPT ![s] = {h}]
  BY DEF Create
<1>3. birth[s] # None => installed[s] = {h}
  BY <1>1, <1>2 DEF HashesOwned, TypeOK, CreationStage
<1>4. \A t \in SessionId : t # s => h \notin installed[t]
  BY <1>2, <1>3 DEF HashesOwned, UnusedHash
<1>5. Live(s) => session[s].hash = h
  BY <1>1, <1>2, <1>3 DEF HashesOwned, Live, TypeOK, CreationStage
<1>6. \A t \in SessionId : Live(t)' => session'[t].hash \in installed'[t]
  BY <1>1, <1>2, <1>5 DEF HashesOwned, Live, TypeOK
<1>7. \A t1, t2 \in SessionId :
        t1 # t2 => installed'[t1] \cap installed'[t2] = {}
  BY <1>2, <1>4 DEF HashesOwned, TypeOK
<1>8. \A t \in SessionId : creation'[t] \in {"torn", "written"} =>
        /\ installed'[t] = {birth'[t].hash}
        /\ Live(t)' => session'[t].hash = birth'[t].hash
  BY <1>1, <1>2, <1>5 DEF HashesOwned, Live, TypeOK
<1>9. \A t \in SessionId :
        /\ birth'[t] = None <=> creation'[t] = "none"
        /\ birth'[t] = None => installed'[t] = {} /\ session'[t] = None
  BY <1>1, <1>2 DEF HashesOwned, TypeOK
<1> QED
  BY <1>6, <1>7, <1>8, <1>9 DEF HashesOwned

LEMMA RotateSwapHashes ==
  ASSUME TypeOK, HashesOwned, NEW s \in SessionId, NEW p \in Hash,
         NEW n \in Hash, NEW r \in Role, NEW ts \in CallerClock,
         RotateSwap(s, p, n, r, ts)
  PROVE  HashesOwned'
<1> DEFINE ttl == SessionTtl(session[s].absoluteExpiresAt - ts)
           new == Rotated(session[s], p, n, r, ts, ttl)
<1>1. /\ creation[s] = "acked" /\ session[s] # None /\ UnusedHash(n)
      /\ session' = [session EXCEPT ![s] = new]
      /\ installed' = [installed EXCEPT ![s] = @ \cup {n}]
      /\ UNCHANGED <<birth, creation>>
  BY DEF RotateSwap
<1>2. new.hash = n
  BY DEF Rotated
<1>3. \A t \in SessionId : Live(t)' => session'[t].hash \in installed'[t]
  BY <1>1, <1>2 DEF HashesOwned, Live, TypeOK
<1>4. \A t1, t2 \in SessionId :
        t1 # t2 => installed'[t1] \cap installed'[t2] = {}
  BY <1>1 DEF HashesOwned, TypeOK, UnusedHash
<1>5. \A t \in SessionId : creation'[t] \in {"torn", "written"} =>
        /\ installed'[t] = {birth'[t].hash}
        /\ Live(t)' => session'[t].hash = birth'[t].hash
  BY <1>1 DEF HashesOwned, Live, TypeOK
<1>6. \A t \in SessionId :
        /\ birth'[t] = None <=> creation'[t] = "none"
        /\ birth'[t] = None => installed'[t] = {} /\ session'[t] = None
  BY <1>1 DEF HashesOwned, TypeOK
<1> QED
  BY <1>3, <1>4, <1>5, <1>6 DEF HashesOwned

(* A step that only removes session keys, whatever it does to the index.   *)
Removal ==
  /\ \A s \in SessionId : session'[s] \in {session[s], None}
  /\ UNCHANGED <<birth, creation, installed, traded>>

LEMMA RemovalHashes ==
  ASSUME HashesOwned, Removal
  PROVE  HashesOwned'
BY DEF HashesOwned, Removal, Live

LEMMA Removals ==
  ASSUME TypeOK
  PROVE  /\ Tick => Removal
         /\ \A u \in User : DeleteAll(u) => Removal
         /\ \A s \in SessionId, u \in User : Drop(s, u) => Removal
BY DEF TypeOK, Removal, Tick, DeleteAll, Drop, historyVars

LEMMA RotateSwapTraded ==
  ASSUME TypeOK, HashesOwned, TradedOnce, NEW s \in SessionId, NEW p \in Hash,
         NEW n \in Hash, NEW r \in Role, NEW ts \in CallerClock,
         RotateSwap(s, p, n, r, ts)
  PROVE  TradedOnce'
<1> DEFINE ttl == SessionTtl(session[s].absoluteExpiresAt - ts)
           new == Rotated(session[s], p, n, r, ts, ttl)
<1>1. /\ creation[s] = "acked" /\ Live(s) /\ session[s].hash = p
      /\ session' = [session EXCEPT ![s] = new]
      /\ installed' = [installed EXCEPT ![s] = @ \cup {n}]
      /\ traded' = [traded EXCEPT ![s] = @ \cup {p}]
      /\ creation' = creation
  BY DEF RotateSwap, PresentsCurrent, Live
<1>2. new.hash = n /\ n \notin installed[s] /\ p \in installed[s]
  BY <1>1 DEF Rotated, RotateSwap, UnusedHash, HashesOwned
<1>3. traded'[s] = installed'[s] \ {session'[s].hash}
  BY <1>1, <1>2 DEF TradedOnce, TypeOK
<1> QED
  BY <1>1, <1>3 DEF TradedOnce, TypeOK, Live

(* Every other step: sessions only end, or the one login is still working  *)
(* on changes, or login answers with it and all it has held is its hash.   *)
LEMMA StepTraded ==
  ASSUME TypeOK, HashesOwned, TradedOnce, [StoreNext]_storeVars
  PROVE  TradedOnce'
<1>1. CASE UNCHANGED storeVars
  BY <1>1 DEF storeVars, redisVars, historyVars, TradedOnce, Live
<1>2. CASE Removal
  BY <1>2 DEF Removal, TradedOnce, Live
<1>3. ASSUME NEW s \in SessionId, Acknowledge(s)
      PROVE  TradedOnce'
  BY <1>3 DEF Acknowledge, redisVars, TradedOnce, HashesOwned, TypeOK, Live
<1>4. ASSUME NEW s \in SessionId, NEW u \in User, NEW r \in Role,
             NEW h \in Hash, NEW ts \in CallerClock, NEW failed,
             Create(s, u, r, h, ts, failed)
      PROVE  TradedOnce'
  BY <1>4 DEF Create, TradedOnce, TypeOK, Live
<1> QED
  BY <1>1, <1>2, <1>3, <1>4, RotateSwapTraded, StoreSteps, Removals

(* The deadline a command gives a session key.                             *)
LEMMA CreateDeadline ==
  ASSUME TypeOK, DeadlineCapped, NEW s \in SessionId, NEW u \in User,
         NEW r \in Role, NEW h \in Hash, NEW ts \in CallerClock, NEW failed,
         Create(s, u, r, h, ts, failed)
  PROVE  DeadlineCapped'
<1> DEFINE record == NewSession(u, r, h, ts)
<1>1. /\ record.absoluteExpiresAt = ts + AbsoluteTtl
      /\ ts \in Int /\ now - MaxLag <= ts
  BY CallerClockBounds, NewSessionType
<1>2. /\ now < now + SessionTtl(AbsoluteTtl)
      /\ now + SessionTtl(AbsoluteTtl) < now + AbsoluteTtl + Second
      /\ SessionTtl(AbsoluteTtl) \in Int
  <2>1. AbsoluteTtl \in Int /\ AbsoluteTtl > 0
    BY DurationAssumption
  <2>2. /\ SessionTtl(AbsoluteTtl) \in Int /\ SessionTtl(AbsoluteTtl) > 0
        /\ SessionTtl(AbsoluteTtl) < AbsoluteTtl + Second
    BY <2>1, TtlBounds
  <2>3. now \in Int /\ Second \in Int
    BY DurationAssumption DEF TypeOK
  <2> QED
    BY <2>1, <2>2, <2>3
<1>3. /\ now <= now + SessionTtl(AbsoluteTtl)
      /\ now + SessionTtl(AbsoluteTtl)
           < record.absoluteExpiresAt + MaxLag + Second
  BY <1>1, <1>2, DurationAssumption DEF TypeOK
<1>4. /\ now' = now
      /\ \/ UNCHANGED <<session, sessionExpiry>>
         \/ /\ session' = [session EXCEPT ![s] = record]
            /\ sessionExpiry' =
                 [sessionExpiry EXCEPT ![s] = now + SessionTtl(AbsoluteTtl)]
  BY DEF Create
<1> QED
  BY <1>3, <1>4 DEF DeadlineCapped, Live, TypeOK

LEMMA RotateSwapDeadline ==
  ASSUME TypeOK, DeadlineCapped, NEW s \in SessionId, NEW p \in Hash,
         NEW n \in Hash, NEW r \in Role, NEW ts \in CallerClock,
         RotateSwap(s, p, n, r, ts)
  PROVE  DeadlineCapped'
<1> DEFINE left == session[s].absoluteExpiresAt - ts
           new == Rotated(session[s], p, n, r, ts, SessionTtl(left))
<1>1. session[s] \in SessionRecord /\ session[s].absoluteExpiresAt \in Int
  BY DEF TypeOK, RotateSwap, SessionRecord
<1>2. ts \in Int /\ now - MaxLag <= ts /\ left \in Int /\ left > 0
  BY <1>1, CallerClockBounds DEF RotateSwap, PastAbsolute
<1>3. /\ SessionTtl(left) \in Int
      /\ SessionTtl(left) > 0 /\ SessionTtl(left) < left + Second
  BY <1>2, TtlBounds
<1>4. /\ now <= now + SessionTtl(left)
      /\ now + SessionTtl(left) < session[s].absoluteExpiresAt + MaxLag + Second
  BY <1>1, <1>2, <1>3, DurationAssumption DEF TypeOK
<1>5. new.absoluteExpiresAt = session[s].absoluteExpiresAt
  BY DEF Rotated
<1>6. /\ now' = now
      /\ session' = [session EXCEPT ![s] = new]
      /\ sessionExpiry' = [sessionExpiry EXCEPT ![s] = now + SessionTtl(left)]
  BY DEF RotateSwap
<1> QED
  BY <1>4, <1>5, <1>6 DEF DeadlineCapped, Live, TypeOK

LEMMA TickDeadline ==
  ASSUME TypeOK, DeadlineCapped, Tick
  PROVE  DeadlineCapped'
BY DEF TypeOK, DeadlineCapped, Tick, Live

LEMMA DropDeadline ==
  ASSUME TypeOK, DeadlineCapped, NEW s \in SessionId, NEW u \in User,
         Drop(s, u)
  PROVE  DeadlineCapped'
BY DEF TypeOK, DeadlineCapped, Drop, Live

LEMMA DeleteAllDeadline ==
  ASSUME TypeOK, DeadlineCapped, NEW u \in User, DeleteAll(u)
  PROVE  DeadlineCapped'
BY DEF TypeOK, DeadlineCapped, DeleteAll, Live

LEMMA StepIndexBounded ==
  ASSUME TypeOK, IndexBounded, [StoreNext]_storeVars
  PROVE  IndexBounded'
<1>1. CASE Tick
  BY <1>1, DurationAssumption DEF Tick, TypeOK, IndexBounded
<1>2. ASSUME NEW u \in User, DeleteAll(u)
      PROVE  IndexBounded'
  BY <1>2, DurationAssumption DEF DeleteAll, TypeOK, IndexBounded
<1>3. ASSUME NEW s \in SessionId, NEW u \in User, NEW r \in Role,
             NEW h \in Hash, NEW ts \in CallerClock, NEW failed,
             Create(s, u, r, h, ts, failed)
      PROVE  IndexBounded'
  <2>1. /\ now' = now
        /\ \E e \in {0, now + AbsoluteTtl} :
             indexExpiry' = [indexExpiry EXCEPT ![u] = e]
    BY <1>3 DEF Create, IndexTtl
  <2> QED
    BY <2>1, DurationAssumption DEF TypeOK, IndexBounded
<1>4. ASSUME NEW s \in SessionId, NEW u \in User, Drop(s, u)
      PROVE  IndexBounded'
  BY <1>4, DurationAssumption DEF Drop, TypeOK, IndexBounded
<1>5. CASE UNCHANGED <<now, indexExpiry>>
  BY <1>5 DEF IndexBounded
<1> QED
  BY <1>1, <1>2, <1>3, <1>4, <1>5, StoreSteps
     DEF storeVars, redisVars, Acknowledge, RotateSwap

(* A successful login starts the index's lifetime anew; a torn one, of any *)
(* session of that user, never takes the index away from the others.       *)
LEMMA CreateIndex ==
  ASSUME TypeOK, IndexBounded, IndexLasts,
         NEW s \in SessionId, NEW u \in User, NEW r \in Role, NEW h \in Hash,
         NEW ts \in CallerClock, NEW failed \in SUBSET {"set", "sadd"},
         Create(s, u, r, h, ts, failed)
  PROVE  IndexLasts'
<1> DEFINE record == NewSession(u, r, h, ts)
           index  == IF "sadd" \in failed THEN userSessions[u]
                                          ELSE userSessions[u] \cup {s}
           expiry == IF index = {} THEN 0 ELSE now + AbsoluteTtl
<1>1. /\ ts \in Int /\ ts <= now + MaxLead
      /\ record \in SessionRecord /\ record.user = u
      /\ record.absoluteExpiresAt = ts + AbsoluteTtl
  BY CallerClockBounds, NewSessionType
<1>2. /\ now' = now
      /\ userSessions' = [userSessions EXCEPT ![u] = index]
      /\ indexExpiry' = [indexExpiry EXCEPT ![u] = expiry]
      /\ session' \in {session, [session EXCEPT ![s] = record]}
      /\ failed # {} => creation' = [creation EXCEPT ![s] = "torn"]
      /\ failed = {} => session' = [session EXCEPT ![s] = record]
      /\ \A t \in SessionId : t # s => creation'[t] = creation[t]
  BY DEF Create, IndexTtl, ExecSucceeded, TypeOK
<1> SUFFICES ASSUME NEW t \in SessionId, Live(t)',
                    creation'[t] \in {"written", "acked"},
                    now + MaxLead <= session'[t].absoluteExpiresAt
             PROVE  /\ t \in userSessions'[session'[t].user]
                    /\ session'[t].absoluteExpiresAt
                         <= indexExpiry'[session'[t].user] + MaxLead
  BY <1>2 DEF IndexLasts
<1>3. CASE t = s
  <2>1. failed = {}
    BY <1>2, <1>3 DEF TypeOK
  <2>2. session'[t] = record /\ s \in index
    BY <1>2, <1>3, <2>1 DEF TypeOK
  <2>3. userSessions'[u] = index /\ indexExpiry'[u] = now + AbsoluteTtl
    BY <1>2, <2>2 DEF TypeOK
  <2> QED
    BY <1>1, <1>3, <2>2, <2>3, DurationAssumption DEF TypeOK
<1>4. CASE t # s
  <2>1. session'[t] = session[t] /\ creation'[t] = creation[t]
    BY <1>2, <1>4 DEF TypeOK
  <2>2. /\ t \in userSessions[session[t].user]
        /\ session[t].absoluteExpiresAt
             <= indexExpiry[session[t].user] + MaxLead
        /\ session[t] \in SessionRecord
    BY <2>1 DEF IndexLasts, Live, TypeOK
  <2>3. CASE session[t].user = u
    <3>1. t \in index
      BY <2>2, <2>3
    <3>2. userSessions'[u] = index /\ indexExpiry'[u] = now + AbsoluteTtl
      BY <1>2, <3>1 DEF TypeOK
    <3>3. indexExpiry[u] <= now + AbsoluteTtl /\ indexExpiry[u] \in Int
      BY DEF IndexBounded, TypeOK
    <3>4. session[t].absoluteExpiresAt \in Int
      BY <2>2 DEF SessionRecord
    <3> QED
      BY <2>1, <2>2, <2>3, <3>1, <3>2, <3>3, <3>4, DurationAssumption DEF TypeOK
  <2>4. CASE session[t].user # u
    BY <1>2, <2>1, <2>2, <2>4 DEF TypeOK, SessionRecord
  <2> QED
    BY <2>3, <2>4
<1> QED
  BY <1>3, <1>4

LEMMA RotateSwapIndex ==
  ASSUME TypeOK, IndexLasts, NEW s \in SessionId, NEW p \in Hash,
         NEW n \in Hash, NEW r \in Role, NEW ts \in CallerClock,
         RotateSwap(s, p, n, r, ts)
  PROVE  IndexLasts'
<1> DEFINE ttl == SessionTtl(session[s].absoluteExpiresAt - ts)
           new == Rotated(session[s], p, n, r, ts, ttl)
<1>1. /\ new.user = session[s].user
      /\ new.absoluteExpiresAt = session[s].absoluteExpiresAt
  BY DEF Rotated
<1>2. /\ session[s] # None
      /\ session' = [session EXCEPT ![s] = new]
      /\ UNCHANGED <<now, userSessions, indexExpiry, creation>>
  BY DEF RotateSwap
<1> QED
  BY <1>1, <1>2 DEF IndexLasts, Live, TypeOK

(* An index that is due to be dropped holds no session that is inside its  *)
(* absolute lifetime.                                                      *)
LEMMA TickIndex ==
  ASSUME TypeOK, IndexLasts, Tick
  PROVE  IndexLasts'
<1> SUFFICES ASSUME NEW t \in SessionId, Live(t)',
                    creation'[t] \in {"written", "acked"},
                    now' + MaxLead <= session'[t].absoluteExpiresAt
             PROVE  /\ t \in userSessions'[session'[t].user]
                    /\ session'[t].absoluteExpiresAt
                         <= indexExpiry'[session'[t].user] + MaxLead
  BY DEF IndexLasts
<1>1. /\ session'[t] = session[t] /\ creation'[t] = creation[t]
      /\ now' = now + 1
  BY DEF Tick, TypeOK, Live, historyVars
<1>2. /\ session[t] \in SessionRecord
      /\ session[t].user \in User /\ session[t].absoluteExpiresAt \in Int
  BY <1>1 DEF TypeOK, Live, SessionRecord
<1>3. /\ t \in userSessions[session[t].user]
      /\ session[t].absoluteExpiresAt <= indexExpiry[session[t].user] + MaxLead
  BY <1>1, <1>2, DurationAssumption DEF IndexLasts, Live, TypeOK
<1>4. now' <= indexExpiry[session[t].user]
  BY <1>1, <1>2, <1>3, DurationAssumption DEF TypeOK
<1>5. /\ userSessions'[session[t].user] = userSessions[session[t].user]
      /\ indexExpiry'[session[t].user] = indexExpiry[session[t].user]
  BY <1>1, <1>2, <1>4 DEF Tick, TypeOK
<1> QED
  BY <1>1, <1>3, <1>5

LEMMA DropIndex ==
  ASSUME TypeOK, IndexLasts, NEW s \in SessionId, NEW u \in User, Drop(s, u)
  PROVE  IndexLasts'
<1> SUFFICES ASSUME NEW t \in SessionId, Live(t)',
                    creation'[t] \in {"written", "acked"},
                    now' + MaxLead <= session'[t].absoluteExpiresAt
             PROVE  /\ t \in userSessions'[session'[t].user]
                    /\ session'[t].absoluteExpiresAt
                         <= indexExpiry'[session'[t].user] + MaxLead
  BY DEF IndexLasts
<1>1. /\ t # s /\ session'[t] = session[t] /\ creation'[t] = creation[t]
      /\ now' = now
  BY DEF Drop, TypeOK, Live, historyVars
<1>2. session[t] \in SessionRecord /\ session[t].user \in User
  BY <1>1 DEF TypeOK, Live, SessionRecord
<1>3. /\ t \in userSessions[session[t].user]
      /\ session[t].absoluteExpiresAt <= indexExpiry[session[t].user] + MaxLead
  BY <1>1 DEF IndexLasts, Live
<1>4. /\ t \in userSessions'[session[t].user]
      /\ indexExpiry'[session[t].user] = indexExpiry[session[t].user]
  BY <1>1, <1>2, <1>3 DEF Drop, TypeOK
<1> QED
  BY <1>1, <1>3, <1>4

LEMMA DeleteAllIndex ==
  ASSUME TypeOK, IndexLasts, NEW u \in User, DeleteAll(u)
  PROVE  IndexLasts'
<1> SUFFICES ASSUME NEW t \in SessionId, Live(t)',
                    creation'[t] \in {"written", "acked"},
                    now' + MaxLead <= session'[t].absoluteExpiresAt
             PROVE  /\ t \in userSessions'[session'[t].user]
                    /\ session'[t].absoluteExpiresAt
                         <= indexExpiry'[session'[t].user] + MaxLead
  BY DEF IndexLasts
<1>1. /\ t \notin userSessions[u] /\ session'[t] = session[t]
      /\ creation'[t] = creation[t] /\ now' = now
  BY DEF DeleteAll, Indexed, TypeOK, Live, historyVars
<1>2. session[t] \in SessionRecord /\ session[t].user \in User
  BY <1>1 DEF TypeOK, Live, SessionRecord
<1>3. /\ t \in userSessions[session[t].user]
      /\ session[t].absoluteExpiresAt <= indexExpiry[session[t].user] + MaxLead
  BY <1>1 DEF IndexLasts, Live
<1> QED
  BY <1>1, <1>2, <1>3 DEF DeleteAll, TypeOK

(* Login answers: nothing but the stage of create() changes, and the       *)
(* invariant treats "written" and "acked" alike.                           *)
LEMMA AcknowledgeStep ==
  ASSUME TypeOK, HashesOwned, DeadlineCapped, IndexLasts,
         NEW s \in SessionId, Acknowledge(s)
  PROVE  HashesOwned' /\ DeadlineCapped' /\ IndexLasts'
<1>1. /\ creation[s] = "written"
      /\ creation' = [creation EXCEPT ![s] = "acked"]
      /\ UNCHANGED <<now, session, sessionExpiry, userSessions, indexExpiry,
                     birth, installed, traded>>
  BY DEF Acknowledge, redisVars
<1>2. HashesOwned'
  BY <1>1 DEF HashesOwned, TypeOK, Live
<1>3. DeadlineCapped'
  BY <1>1 DEF DeadlineCapped, Live
<1>4. IndexLasts'
  BY <1>1 DEF IndexLasts, TypeOK, Live
<1> QED
  BY <1>2, <1>3, <1>4

-----------------------------------------------------------------------------
(* The invariant and what it implies                                       *)

LEMMA InitInv == StoreInit => StoreInv
BY DurationAssumption
   DEF StoreInit, StoreInv, TypeOK, CreationStage, HashesOwned, TradedOnce,
       DeadlineCapped, IndexBounded, IndexLasts, Live

LEMMA StepInv == StoreInv /\ [StoreNext]_storeVars => StoreInv'
<1> SUFFICES ASSUME StoreInv, [StoreNext]_storeVars
             PROVE  StoreInv'
  OBVIOUS
<1> USE DEF StoreInv
<1>1. TypeOK' /\ IndexBounded' /\ TradedOnce'
  BY StepType, StepIndexBounded, StepTraded
<1>2. CASE UNCHANGED storeVars
  <2> USE <1>2 DEF storeVars, redisVars, historyVars, Live
  <2>1. HashesOwned'
    BY DEF HashesOwned
  <2>2. DeadlineCapped'
    BY DEF DeadlineCapped
  <2>3. IndexLasts'
    BY DEF IndexLasts
  <2> QED
    BY <1>1, <2>1, <2>2, <2>3
<1>3. CASE Tick
  BY <1>1, <1>3, Removals, RemovalHashes, TickDeadline, TickIndex
<1>4. ASSUME NEW u \in User, DeleteAll(u)
      PROVE  StoreInv'
  BY <1>1, <1>4, Removals, RemovalHashes, DeleteAllDeadline, DeleteAllIndex
<1>5. ASSUME NEW s \in SessionId, Acknowledge(s)
      PROVE  StoreInv'
  BY <1>1, <1>5, AcknowledgeStep
<1>6. ASSUME NEW s \in SessionId, NEW u \in User, NEW r \in Role,
             NEW h \in Hash, NEW ts \in CallerClock,
             NEW failed \in SUBSET {"set", "sadd"}, Create(s, u, r, h, ts, failed)
      PROVE  StoreInv'
  BY <1>1, <1>6, CreateHashes, CreateDeadline, CreateIndex
<1>7. ASSUME NEW s \in SessionId, NEW p \in Hash, NEW n \in Hash,
             NEW r \in Role, NEW ts \in CallerClock, RotateSwap(s, p, n, r, ts)
      PROVE  StoreInv'
  BY <1>1, <1>7, RotateSwapHashes, RotateSwapDeadline, RotateSwapIndex
<1>8. ASSUME NEW s \in SessionId, NEW u \in User, Drop(s, u)
      PROVE  StoreInv'
  BY <1>1, <1>8, Removals, RemovalHashes, DropDeadline, DropIndex
<1> QED
  BY <1>2, <1>3, <1>4, <1>5, <1>6, <1>7, <1>8, StoreSteps

LEMMA StoreInvariant == StoreSpec => []StoreInv
<1> QED
  BY InitInv, StepInv, PTL DEF StoreSpec

(* No chain of rotations keeps a session key beyond its absolute lifetime  *)
(* by more than a second and the lag of the caller: all durations, any     *)
(* number of sessions, refreshes and resends.                              *)
THEOREM AbsoluteCapHolds == StoreSpec => []AbsoluteCap
<1>1. StoreInv => AbsoluteCap
  <2> SUFFICES ASSUME StoreInv, NEW s \in SessionId, Live(s)
               PROVE  now < session[s].absoluteExpiresAt + MaxLag + Second
    BY DEF AbsoluteCap
  <2>1. /\ now <= sessionExpiry[s]
        /\ sessionExpiry[s] < session[s].absoluteExpiresAt + MaxLag + Second
    BY DEF StoreInv, DeadlineCapped
  <2>2. session[s].absoluteExpiresAt \in Int
    BY DEF StoreInv, TypeOK, Live, SessionRecord
  <2> QED
    BY <2>1, <2>2, DurationAssumption DEF StoreInv, TypeOK
<1> QED
  BY <1>1, StoreInvariant, PTL

(* "Log out everywhere" reaches every session of the user that is inside   *)
(* its absolute lifetime, for any number of users, logins and failures.    *)
THEOREM IndexCoversHolds == StoreSpec => []IndexCovers
<1>1. StoreInv => IndexCovers
  BY DEF StoreInv, IndexLasts, IndexCovers
<1> QED
  BY <1>1, StoreInvariant, PTL

-----------------------------------------------------------------------------
(* SessionStore implements SessionContract                                 *)

(* All the hashes a session has held but the one that is valid.            *)
Retired == [s \in SessionId |->
  IF Status[s] = "unissued" THEN {} ELSE installed[s] \ {Current[s]}]

LEMMA SpentIsRetired == TypeOK /\ TradedOnce => Spent = Retired
<1> SUFFICES ASSUME TypeOK, TradedOnce, NEW s \in SessionId
             PROVE  Spent[s] = Retired[s]
  BY DEF Spent, Retired
<1>1. CASE Status[s] = "open"
  BY <1>1 DEF Spent, Retired, Current, Status, TradedOnce
<1>2. CASE Status[s] = "closed"
  <2>1. Current[s] = None /\ None \notin installed[s]
    BY <1>2, NoneAssumption DEF Current, TypeOK
  <2> QED
    BY <1>2, <2>1 DEF Spent, Retired
<1>3. CASE Status[s] = "unissued"
  BY <1>3 DEF Spent, Retired
<1> QED
  BY <1>1, <1>2, <1>3 DEF Status

LEMMA SpentIsRetiredNext == TypeOK' /\ TradedOnce' => Spent' = Retired'
<1>1. (TypeOK /\ TradedOnce => Spent = Retired)'
  BY SpentIsRetired, PTL
<1> QED
  BY <1>1

(* Until login answers, nobody can tell what happens to its session.       *)
LEMMA CreateUnseen ==
  ASSUME TypeOK, HashesOwned, Spent = Retired, Spent' = Retired',
         NEW s \in SessionId, NEW u \in User,
         NEW r \in Role, NEW h \in Hash, NEW ts \in CallerClock, NEW failed,
         Create(s, u, r, h, ts, failed)
  PROVE  UNCHANGED <<Status, Current, Spent>>
<1>1. /\ creation[s] # "acked" /\ creation'[s] # "acked"
      /\ \A t \in SessionId : t # s =>
           /\ creation'[t] = creation[t]
           /\ session'[t] = session[t]
           /\ installed'[t] = installed[t]
  BY DEF Create, TypeOK
<1>2. Status' = Status
  BY <1>1 DEF Status, Live
<1>3. Current' = Current
  BY <1>1, <1>2 DEF Status, Current, Live
<1>4. Spent' = Spent
  BY <1>1, <1>2, <1>3 DEF Status, Retired
<1> QED
  BY <1>2, <1>3, <1>4

(* What a hash that no session holds yet is to the client.                 *)
LEMMA UnheldIsFresh ==
  ASSUME TypeOK, HashesOwned, Spent = Retired,
         NEW s \in SessionId, NEW h \in Hash,
         Status[s] = "unissued" \/ h \notin installed[s],
         \A t \in SessionId : t # s => h \notin installed[t]
  PROVE  Contract!Fresh(h)
<1> SUFFICES ASSUME NEW t \in SessionId
             PROVE  h # Current[t] /\ h \notin Spent[t]
  BY DEF Contract!Fresh
<1>1. h # None
  BY NoneAssumption
<1>2. CASE Status[t] = "unissued"
  BY <1>1, <1>2 DEF Current, Retired
<1>3. CASE Status[t] # "unissued"
  <2>1. h \notin installed[t]
    BY <1>3
  <2>2. Status[t] = "open" => session[t].hash \in installed[t]
    BY DEF Status, HashesOwned
  <2> QED
    BY <1>1, <2>1, <2>2 DEF Current, Retired
<1> QED
  BY <1>2, <1>3

(* A function that changes at one point only.                              *)
LEMMA OnePointChange ==
  ASSUME NEW S, NEW f, NEW g, NEW s \in S, NEW v,
         f = [x \in S |-> f[x]], g = [x \in S |-> g[x]],
         g[s] = v, \A t \in S : t # s => g[t] = f[t]
  PROVE  g = [f EXCEPT ![s] = v]
OBVIOUS

LEMMA AcknowledgeIssues ==
  ASSUME TypeOK, HashesOwned, Spent = Retired, Spent' = Retired',
         NEW s \in SessionId, Acknowledge(s)
  PROVE  \E h \in Hash : Contract!Issue(s, h)
<1> DEFINE h == birth[s].hash
<1>1. /\ creation[s] = "written"
      /\ creation' = [creation EXCEPT ![s] = "acked"]
      /\ UNCHANGED <<session, birth, installed>>
  BY DEF Acknowledge, redisVars
<1>2. /\ installed[s] = {h} /\ h \in Hash
      /\ Live(s) => session[s].hash = h
  BY <1>1 DEF HashesOwned, TypeOK, SessionRecord
<1>3. Status[s] = "unissued" /\ Current[s] = None /\ Spent[s] = {}
  BY <1>1 DEF Status, Current, Retired
<1>4. Contract!Fresh(h)
  BY <1>2, <1>3, UnheldIsFresh DEF HashesOwned
<1>5. \A t \in SessionId : t # s =>
        Status'[t] = Status[t] /\ Current'[t] = Current[t] /\ Spent'[t] = Spent[t]
  BY <1>1 DEF Status, Current, Retired, Live, TypeOK
<1>a. /\ Status = [t \in SessionId |-> Status[t]]
      /\ Status' = [t \in SessionId |-> Status'[t]]
  BY DEF Status
<1>b. /\ Current = [t \in SessionId |-> Current[t]]
      /\ Current' = [t \in SessionId |-> Current'[t]]
  BY DEF Current
<1>c. /\ Spent = [t \in SessionId |-> Spent[t]]
      /\ Spent' = [t \in SessionId |-> Spent'[t]]
  BY DEF Retired
<1>6. CASE Live(s)
  <2>1. Status'[s] = "open" /\ Current'[s] = h /\ Spent'[s] = {}
    BY <1>1, <1>2, <1>6 DEF Status, Current, Retired, Live, TypeOK
  <2>2. Status' = [Status EXCEPT ![s] = "open"]
    BY <1>5, <1>a, <2>1, OnePointChange
  <2>3. Current' = [Current EXCEPT ![s] = h]
    BY <1>5, <1>b, <2>1, OnePointChange
  <2>4. Spent' = Spent
    BY <1>3, <1>5, <1>c, <2>1
  <2> QED
    BY <1>2, <1>3, <1>4, <2>2, <2>3, <2>4 DEF Contract!Issue
<1>7. CASE ~ Live(s)
  <2>1. Status'[s] = "closed" /\ Current'[s] = None /\ Spent'[s] = {h}
    BY <1>1, <1>2, <1>7, NoneAssumption DEF Status, Current, Retired, Live, TypeOK
  <2>2. Status' = [Status EXCEPT ![s] = "closed"]
    BY <1>5, <1>a, <2>1, OnePointChange
  <2>3. Spent' = [Spent EXCEPT ![s] = {h}]
    BY <1>5, <1>c, <2>1, OnePointChange
  <2>4. Current' = Current
    BY <1>3, <1>5, <1>b, <2>1
  <2> QED
    BY <1>2, <1>3, <1>4, <2>2, <2>3, <2>4 DEF Contract!Issue
<1> QED
  BY <1>6, <1>7

LEMMA RotateSwapRenews ==
  ASSUME TypeOK, HashesOwned, Spent = Retired, Spent' = Retired',
         NEW s \in SessionId, NEW p \in Hash,
         NEW n \in Hash, NEW r \in Role, NEW ts \in CallerClock,
         RotateSwap(s, p, n, r, ts)
  PROVE  Contract!Renew(s, n)
<1> DEFINE ttl == SessionTtl(session[s].absoluteExpiresAt - ts)
           new == Rotated(session[s], p, n, r, ts, ttl)
<1>1. /\ creation[s] = "acked" /\ Live(s) /\ UnusedHash(n)
      /\ session' = [session EXCEPT ![s] = new]
      /\ installed' = [installed EXCEPT ![s] = @ \cup {n}]
      /\ creation' = creation
  BY DEF RotateSwap, Live
<1>2. new.hash = n /\ new # None
  BY <1>1, RotatedType, NoneAssumption, TtlBounds, CallerClockBounds
     DEF Live, TypeOK, SessionRecord, Rotated
<1>3. /\ Status[s] = "open" /\ Current[s] = session[s].hash
      /\ session[s].hash \in installed[s] /\ n \notin installed[s]
  BY <1>1 DEF Status, Current, HashesOwned, UnusedHash
<1>4. Contract!Fresh(n)
  BY <1>1, UnheldIsFresh DEF UnusedHash
<1>5. Status' = Status
  BY <1>1, <1>2 DEF Status, Live, TypeOK
<1>6. Current' = [Current EXCEPT ![s] = n]
  BY <1>1, <1>2, <1>3, <1>5 DEF Status, Current, TypeOK
<1>7. Spent' = [Spent EXCEPT ![s] = @ \cup {Current[s]}]
  <2>1. Spent'[s] = Spent[s] \cup {Current[s]}
    BY <1>1, <1>3, <1>5, <1>6 DEF Retired, Current, TypeOK
  <2>2. \A t \in SessionId : t # s => Spent'[t] = Spent[t]
    BY <1>1, <1>5, <1>6 DEF Retired, Current, TypeOK
  <2> QED
    BY <2>1, <2>2 DEF Retired
<1> QED
  BY <1>3, <1>4, <1>5, <1>6, <1>7 DEF Contract!Renew

LEMMA RemovalCloses ==
  ASSUME TypeOK, HashesOwned, Spent = Retired, Spent' = Retired',
         Removal
  PROVE  \E S \in SUBSET SessionId : Contract!Close(S)
<1> DEFINE S == {s \in SessionId : Status[s] = "open" /\ session'[s] = None}
<1>1. /\ \A s \in SessionId : session'[s] \in {session[s], None}
      /\ creation' = creation /\ installed' = installed
  BY DEF Removal
<1>2. Status' = [s \in SessionId |-> IF s \in S THEN "closed" ELSE Status[s]]
  BY <1>1 DEF Status, Live
<1>3. Current' = [s \in SessionId |-> IF s \in S THEN None ELSE Current[s]]
  BY <1>1, <1>2 DEF Current, Status, Live
<1>4. ASSUME NEW s \in SessionId
      PROVE  Spent'[s] = IF s \in S THEN Spent[s] \cup {Current[s]} ELSE Spent[s]
  <2>1. CASE s \in S
    <3>1. Current[s] = session[s].hash /\ session[s].hash \in installed[s]
      BY <2>1 DEF Current, Status, HashesOwned
    <3>2. None \notin installed[s]
      BY NoneAssumption DEF TypeOK
    <3>3. Status'[s] = "closed" /\ Current'[s] = None /\ Status[s] = "open"
      BY <1>2, <1>3, <2>1
    <3>4. Spent'[s] = installed[s] \ {None}
      BY <1>1, <3>3 DEF Retired
    <3>5. Spent[s] = installed[s] \ {Current[s]}
      BY <3>3 DEF Retired
    <3> QED
      BY <2>1, <3>1, <3>2, <3>4, <3>5
  <2>2. CASE s \notin S
    BY <1>1, <1>2, <1>3, <2>2 DEF Retired
  <2> QED
    BY <2>1, <2>2
<1>5. Spent' = [s \in SessionId |->
                  IF s \in S THEN Spent[s] \cup {Current[s]} ELSE Spent[s]]
  BY <1>4 DEF Retired
<1>6. \A s \in S : Status[s] = "open"
  OBVIOUS
<1>7. Contract!Close(S)
  BY <1>2, <1>3, <1>5, <1>6 DEF Contract!Close
<1> QED
  BY <1>7

LEMMA ContractInit == StoreInit => Contract!Init
BY DEF StoreInit, Contract!Init, Status, Current, Spent

LEMMA ContractStep ==
  ASSUME StoreInv, [StoreNext]_storeVars
  PROVE  [Contract!Next]_<<Status, Current, Spent>>
<1>a. Spent = Retired /\ Spent' = Retired'
  <2>1. TypeOK /\ TradedOnce /\ TypeOK' /\ TradedOnce'
    BY StepInv DEF StoreInv
  <2> QED
    BY <2>1, SpentIsRetired, SpentIsRetiredNext
<1> USE <1>a DEF StoreInv, Contract!Next
<1>1. CASE UNCHANGED storeVars
  BY <1>1 DEF storeVars, redisVars, historyVars, Status, Current, Spent, Live
<1>2. CASE Removal
  BY <1>2, RemovalCloses
<1>3. ASSUME NEW s \in SessionId, Acknowledge(s)
      PROVE  Contract!Next
  BY <1>3, AcknowledgeIssues
<1>4. ASSUME NEW s \in SessionId, NEW u \in User, NEW r \in Role,
             NEW h \in Hash, NEW ts \in CallerClock,
             NEW failed \in SUBSET {"set", "sadd"}, Create(s, u, r, h, ts, failed)
      PROVE  UNCHANGED <<Status, Current, Spent>>
  BY <1>4, CreateUnseen
<1>5. ASSUME NEW s \in SessionId, NEW p \in Hash, NEW n \in Hash,
             NEW r \in Role, NEW ts \in CallerClock, RotateSwap(s, p, n, r, ts)
      PROVE  Contract!Next
  BY <1>5, RotateSwapRenews
<1> QED
  BY <1>1, <1>2, <1>3, <1>4, <1>5, StoreSteps, Removals

(* Every behaviour of the store is one its clients were promised: one      *)
(* valid token at a time, no token valid twice, no way back after the end. *)
THEOREM ImplementsContract == StoreSpec => ContractSpec
<1>1. StoreInv /\ [StoreNext]_storeVars => [Contract!Next]_Contract!vars
  BY ContractStep DEF Contract!vars
<1> QED
  BY <1>1, ContractInit, StoreInvariant, PTL
     DEF StoreSpec, ContractSpec, Contract!Spec

=============================================================================
