------------------------- MODULE AuthServiceProofs -------------------------
(***************************************************************************)
(* AuthService drives the session store only in the ways SessionStore      *)
(* allows, so what is proved of the store holds of the service; from there *)
(* revocation is final and the staleness of a role is bounded, for any     *)
(* number of requests, sessions and users.                                 *)
(***************************************************************************)
EXTENDS AuthService, SessionStoreProofs

-----------------------------------------------------------------------------
(* The inductive invariant                                                 *)

(* The record of a session names the user its login was for.               *)
OwnersKept ==
  /\ \A s \in SessionId : creation[s] # "none" => birth[s] # None
  /\ \A s \in SessionId :
       Live(s) => birth[s] # None /\ session[s].user = Owner(s)

(* A session that login has answered with, and its user.                   *)
Known(s, u) ==
  /\ s \in SessionId /\ u \in User
  /\ creation[s] = "acked" /\ birth[s] # None /\ Owner(s) = u

Ahead(q) == at[q] \in {"loginPrepare", "loginCreate", "loginReply"}
Behind(q) == at[q] \in {"refreshFind", "refreshPurge", "refreshPrepare",
                        "refreshRotate", "refreshReply", "authGet", "authed"}
Rotating(q) == at[q] \in {"refreshFind", "refreshPrepare", "refreshRotate"}
Sending(q) == at[q] \in {"loginCreate", "refreshRotate"}
Holding(q) == Sending(q) \/ at[q] \in {"loginReply", "refreshReply"}

(* What the locals of a request are at each of its awaits.                 *)
LocalsOK(q) ==
  /\ Ahead(q) => target[q].user \in User
  /\ at[q] \in {"loginCreate", "loginReply"} => target[q].session \in SessionId
  /\ at[q] = "loginReply" =>
       birth[target[q].session] # None /\ Owner(target[q].session) = target[q].user
  /\ Behind(q) => Known(target[q].session, target[q].user)
  /\ Rotating(q) => target[q].presented \in Hash
  /\ Holding(q) => draft[q].next \in Hash
  /\ Sending(q) => /\ row[q].readAt - MaxSkew <= draft[q].ts
                   /\ draft[q].ts <= now + MaxLead
  /\ Signing(q) => /\ row[q].role \in Role
                   /\ row[q].readAt <= now /\ now <= row[q].readAt + MaxHandling

TokensKnown == \A token \in access : Known(token.session, token.user)

ServiceInv ==
  /\ AuthTypeOK
  /\ OwnersKept
  /\ \A q \in Request : LocalsOK(q)
  /\ TokensKnown

-----------------------------------------------------------------------------
(* Facts about single steps                                                *)

LEMMA DateNowBounds ==
  ASSUME AuthTypeOK, NEW ts \in DateNow
  PROVE  ts \in Int /\ now - MaxSkew <= ts /\ ts <= now + MaxLead
BY AuthAssumption, DurationAssumption DEF AuthTypeOK, TypeOK, DateNow

(* A reading that waits for its command to be executed is one the store    *)
(* expects of a caller.                                                    *)
LEMMA DraftIsCallerClock ==
  ASSUME AuthTypeOK, NEW q \in Request, LocalsOK(q), Sending(q)
  PROVE  draft[q].ts \in CallerClock
<1>1. draft[q].ts \in Int /\ row[q].readAt \in Nat /\ now \in Nat
  BY DEF AuthTypeOK, TypeOK
<1>2. Signing(q)
  BY DEF Sending, Signing
<1> QED
  BY <1>1, <1>2, AuthAssumption, DurationAssumption DEF LocalsOK, CallerClock

(* The steps of AuthNext, seen from the session store.                     *)
LEMMA StepRefines ==
  ASSUME ServiceInv, [AuthNext]_authVars
  PROVE  [StoreNext]_storeVars
<1> USE DEF ServiceInv
<1>1. CASE UNCHANGED storeVars
  BY <1>1
<1>2. CASE AuthTick
  BY <1>2 DEF AuthTick, StoreNext
<1>3. ASSUME NEW q \in Request, NEW failed \in SUBSET {"set", "sadd"},
             LoginCreate(q, failed)
      PROVE  StoreNext
  <2>1. at[q] = "loginCreate" /\ LocalsOK(q)
    BY <1>3 DEF LoginCreate
  <2>2. /\ target[q].session \in SessionId /\ target[q].user \in User
        /\ row[q].role \in Role /\ draft[q].next \in Hash
    BY <2>1 DEF LocalsOK, Ahead, Holding, Sending, Signing
  <2>3. draft[q].ts \in CallerClock
    BY <2>1, DraftIsCallerClock DEF Sending
  <2>4. Create(target[q].session, target[q].user, row[q].role, draft[q].next,
               draft[q].ts, failed)
    BY <1>3 DEF LoginCreate
  <2> QED
    BY <2>2, <2>3, <2>4 DEF StoreNext
<1>4. ASSUME NEW q \in Request, NEW ts \in DateNow, LoginReply(q, ts)
      PROVE  StoreNext
  <2>1. target[q].session \in SessionId
    BY <1>4 DEF LoginReply, LocalsOK
  <2> QED
    BY <1>4, <2>1 DEF LoginReply, StoreNext
<1>5. ASSUME NEW q \in Request, RefreshPurge(q) \/ LogoutAll(q)
      PROVE  StoreNext
  <2>1. Behind(q) /\ LocalsOK(q)
    BY <1>5 DEF RefreshPurge, LogoutAll, Behind
  <2>2. target[q].user \in User
    BY <2>1 DEF LocalsOK, Known
  <2> QED
    BY <1>5, <2>2 DEF RefreshPurge, LogoutAll, RevokeAll, StoreNext
<1>6. ASSUME NEW q \in Request, RefreshRotate(q)
      PROVE  [StoreNext]_storeVars
  <2>1. at[q] = "refreshRotate" /\ LocalsOK(q)
    BY <1>6 DEF RefreshRotate
  <2>2. Known(target[q].session, target[q].user) /\ target[q].presented \in Hash
    BY <2>1 DEF LocalsOK, Behind, Rotating
  <2>3. draft[q].next \in Hash /\ row[q].role \in Role
    BY <2>1 DEF LocalsOK, Holding, Sending, Signing
  <2>4. draft[q].ts \in CallerClock
    BY <2>1, DraftIsCallerClock DEF Sending
  <2> DEFINE s == target[q].session
             u == target[q].user
             p == target[q].presented
             ts == draft[q].ts
  <2>5. CASE RotateSwap(s, p, draft[q].next, row[q].role, ts)
    BY <2>2, <2>3, <2>4, <2>5 DEF StoreNext, Known
  <2>6. CASE RotatePastAbsolute(s, u, p, ts) \/ RotateReuse(s, u, p, ts)
    BY <2>2, <2>4, <2>6 DEF StoreNext, Known
  <2>7. CASE RotateRefused(s, p, ts)
    BY <2>7 DEF RotateRefused
  <2> QED
    BY <1>6, <2>5, <2>6, <2>7 DEF RefreshRotate
<1>7. ASSUME NEW q \in Request, Logout(q)
      PROVE  StoreNext
  <2>1. Known(target[q].session, target[q].user)
    BY <1>7 DEF Logout, LocalsOK, Behind
  <2> QED
    BY <1>7, <2>1 DEF Logout, Known, StoreNext
<1>8. ASSUME NEW q \in Request,
             LoginNext(q) \/ RefreshNext(q) \/ TokenNext(q) \/ Abort(q)
      PROVE  [StoreNext]_storeVars
  BY <1>1, <1>3, <1>4, <1>5, <1>6, <1>7, <1>8
     DEF LoginNext, RefreshNext, TokenNext, LoginFind, LoginPrepare, RefreshGet,
         RefreshFind, RefreshPrepare, RefreshReply, AuthVerify, AuthGet, Abort
<1>9. CASE OperatorNext
  BY <1>9 DEF OperatorNext, ChangeRole, DeleteUser
<1> QED
  BY <1>1, <1>2, <1>8, <1>9 DEF AuthNext, authVars

(* What happens in Redis never changes whose session a session is, nor     *)
(* takes back that login has answered with it.                             *)
LEMMA KnownStays ==
  ASSUME TypeOK, [StoreNext]_storeVars, NEW s \in SessionId
  PROVE  /\ creation[s] = "acked" => creation'[s] = "acked"
         /\ birth[s] # None => birth'[s] = birth[s]
<1>1. CASE Removal
  BY <1>1 DEF Removal
<1>2. CASE UNCHANGED storeVars
  BY <1>2 DEF storeVars, historyVars
<1>3. ASSUME NEW t \in SessionId, Acknowledge(t)
      PROVE  /\ creation[s] = "acked" => creation'[s] = "acked"
             /\ birth' = birth
  BY <1>3 DEF Acknowledge, TypeOK
<1>4. ASSUME NEW t \in SessionId, NEW u \in User, NEW r \in Role, NEW h \in Hash,
             NEW ts \in CallerClock, NEW failed, Create(t, u, r, h, ts, failed)
      PROVE  /\ creation[s] = "acked" => creation'[s] = "acked"
             /\ birth[s] # None => birth'[s] = birth[s]
  BY <1>4 DEF Create, TypeOK
<1>5. ASSUME NEW t \in SessionId, NEW p \in Hash, NEW n \in Hash, NEW r \in Role,
             NEW ts \in CallerClock, RotateSwap(t, p, n, r, ts)
      PROVE  birth' = birth /\ creation' = creation
  BY <1>5 DEF RotateSwap
<1> QED
  BY <1>1, <1>2, <1>3, <1>4, <1>5, StoreSteps, Removals

LEMMA KnownKept ==
  ASSUME TypeOK, [StoreNext]_storeVars, NEW s, NEW u, Known(s, u)
  PROVE  Known(s, u)'
BY KnownStays DEF Known, Owner

-----------------------------------------------------------------------------
(* The invariant is preserved                                              *)

LEMMA StepOwners ==
  ASSUME TypeOK, OwnersKept, [StoreNext]_storeVars
  PROVE  OwnersKept'
<1>1. CASE Removal
  BY <1>1 DEF Removal, OwnersKept, Live, Owner
<1>2. CASE UNCHANGED storeVars
  BY <1>2 DEF storeVars, redisVars, historyVars, OwnersKept, Live, Owner
<1>3. ASSUME NEW s \in SessionId, Acknowledge(s)
      PROVE  OwnersKept'
  BY <1>3 DEF Acknowledge, redisVars, OwnersKept, Live, Owner, TypeOK
<1>4. ASSUME NEW s \in SessionId, NEW u \in User, NEW r \in Role, NEW h \in Hash,
             NEW ts \in CallerClock, NEW failed, Create(s, u, r, h, ts, failed)
      PROVE  OwnersKept'
  <2> DEFINE record == NewSession(u, r, h, ts)
  <2>1. record \in SessionRecord /\ record # None
    BY CallerClockBounds, NewSessionType, NoneAssumption
  <2>2. /\ birth[s] \in {None, record}
        /\ session' \in {session, [session EXCEPT ![s] = record]}
        /\ birth' = [birth EXCEPT ![s] = record]
        /\ \A t \in SessionId : t # s => creation'[t] = creation[t]
    BY <1>4 DEF Create, TypeOK
  <2> QED
    BY <2>1, <2>2 DEF OwnersKept, Live, Owner, TypeOK
<1>5. ASSUME NEW s \in SessionId, NEW p \in Hash, NEW n \in Hash, NEW r \in Role,
             NEW ts \in CallerClock, RotateSwap(s, p, n, r, ts)
      PROVE  OwnersKept'
  BY <1>5 DEF RotateSwap, Rotated, OwnersKept, Live, Owner, TypeOK
<1> QED
  BY <1>1, <1>2, <1>3, <1>4, <1>5, StoreSteps, Removals

(* A request that does not move keeps what it knows while others do.       *)
Stands(q) ==
  /\ at'[q] = at[q] /\ target'[q] = target[q]
  /\ row'[q] = row[q] /\ draft'[q] = draft[q]

LEMMA LocalsKept ==
  ASSUME TypeOK, [StoreNext]_storeVars, now' = now,
         NEW q \in Request, LocalsOK(q), Stands(q)
  PROVE  LocalsOK(q)'
<1> USE DEF Stands
<1>1. Behind(q)' => Known(target[q].session, target[q].user)'
  BY KnownKept DEF LocalsOK, Behind
<1>2. at'[q] = "loginReply" =>
        /\ birth'[target'[q].session] # None
        /\ Owner(target[q].session)' = target'[q].user
  BY KnownStays DEF LocalsOK, Owner
<1>3. /\ Ahead(q)' = Ahead(q) /\ Behind(q)' = Behind(q)
      /\ Rotating(q)' = Rotating(q) /\ Holding(q)' = Holding(q)
      /\ Sending(q)' = Sending(q) /\ Signing(q)' = Signing(q)
  BY DEF Ahead, Behind, Rotating, Holding, Sending, Signing
<1> QED
  BY <1>1, <1>2, <1>3 DEF LocalsOK

(* Only the clock makes a request's reading of it older.                   *)
LEMMA TickLocals ==
  ASSUME ServiceInv, AuthTick, NEW q \in Request
  PROVE  LocalsOK(q)'
<1> USE DEF ServiceInv
<1>1. /\ now' = now + 1 /\ Stands(q)
      /\ UNCHANGED <<birth, creation>>
      /\ Signing(q) => now - row[q].readAt < MaxHandling
  BY DEF AuthTick, Tick, Stands, requestVars, historyVars
<1>2. /\ now \in Nat /\ row[q].readAt \in Nat /\ draft[q].ts \in Int
  BY DEF AuthTypeOK, TypeOK
<1>3. /\ Ahead(q)' = Ahead(q) /\ Behind(q)' = Behind(q)
      /\ Rotating(q)' = Rotating(q) /\ Holding(q)' = Holding(q)
      /\ Sending(q)' = Sending(q) /\ Signing(q)' = Signing(q)
  BY <1>1 DEF Ahead, Behind, Rotating, Holding, Sending, Signing, Stands
<1>4. Sending(q) => draft[q].ts <= now' + MaxLead
  BY <1>1, <1>2, DurationAssumption DEF LocalsOK
<1>5. Signing(q) => row[q].readAt <= now' /\ now' <= row[q].readAt + MaxHandling
  BY <1>1, <1>2, AuthAssumption DEF LocalsOK
<1> QED
  BY <1>1, <1>3, <1>4, <1>5 DEF LocalsOK, Stands, Known, Owner

(* A request that is over knows nothing.                                   *)
LEMMA FinishLocals ==
  ASSUME AuthTypeOK, NEW q \in Request, Finish(q)
  PROVE  LocalsOK(q)'
<1>1. at'[q] = "idle"
  BY DEF Finish, AuthTypeOK
<1> QED
  BY <1>1 DEF LocalsOK, Ahead, Behind, Rotating, Holding, Sending, Signing

(* The request that takes a step of login.                                 *)
LEMMA LoginLocals ==
  ASSUME ServiceInv, [StoreNext]_storeVars, NEW q \in Request, LoginNext(q)
  PROVE  LocalsOK(q)'
<1> USE DEF ServiceInv
<1>a. now \in Nat /\ row[q].readAt \in Nat /\ draft[q].ts \in Int
  BY DEF AuthTypeOK, TypeOK
<1>1. ASSUME NEW u \in User, LoginFind(q, u)
      PROVE  LocalsOK(q)'
  <2>1. /\ at'[q] = "loginPrepare" /\ target'[q].user = u /\ now' = now
        /\ row'[q].role = users[u] /\ row'[q].readAt = now
    BY <1>1 DEF LoginFind, GoTo, AuthTypeOK, storeVars
  <2>2. users[u] \in Role
    BY <1>1 DEF LoginFind, AuthTypeOK
  <2> QED
    BY <1>a, <2>1, <2>2, AuthAssumption
       DEF LocalsOK, Ahead, Behind, Rotating, Holding, Sending, Signing
<1>2. ASSUME NEW s \in SessionId, NEW h \in Hash, NEW ts \in DateNow,
             LoginPrepare(q, s, h, ts)
      PROVE  LocalsOK(q)'
  <2>1. /\ at[q] = "loginPrepare" /\ at'[q] = "loginCreate"
        /\ target'[q].user = target[q].user /\ target'[q].session = s
        /\ draft'[q].next = h /\ draft'[q].ts = ts
        /\ row'[q] = row[q] /\ now' = now
    BY <1>2 DEF LoginPrepare, GoTo, AuthTypeOK, storeVars
  <2>2. /\ ts \in Int /\ now - MaxSkew <= ts /\ ts <= now + MaxLead
    BY DateNowBounds
  <2>3. /\ target[q].user \in User /\ row[q].role \in Role
        /\ row[q].readAt <= now /\ now <= row[q].readAt + MaxHandling
    BY <2>1 DEF LocalsOK, Ahead, Signing
  <2>4. row[q].readAt - MaxSkew <= ts
    BY <1>a, <2>2, <2>3, AuthAssumption
  <2> QED
    BY <2>1, <2>2, <2>3, <2>4
       DEF LocalsOK, Ahead, Behind, Rotating, Holding, Sending, Signing
<1>3. ASSUME NEW failed \in SUBSET {"set", "sadd"}, LoginCreate(q, failed)
      PROVE  LocalsOK(q)'
  <2> DEFINE s == target[q].session
             u == target[q].user
             record == NewSession(u, row[q].role, draft[q].next, draft[q].ts)
  <2>1. /\ at[q] = "loginCreate" /\ s \in SessionId /\ u \in User
        /\ row[q].role \in Role /\ draft[q].next \in Hash
        /\ row[q].readAt <= now /\ now <= row[q].readAt + MaxHandling
    BY <1>3 DEF LoginCreate, LocalsOK, Ahead, Holding, Sending, Signing
  <2>2. birth' = [birth EXCEPT ![s] = record] /\ now' = now
    BY <1>3 DEF LoginCreate, Create
  <2>3. record \in SessionRecord /\ record # None /\ record.user = u
    BY <1>a, <2>1, NewSessionType, NoneAssumption
  <2>4. birth'[s] # None /\ birth'[s].user = u
    BY <2>1, <2>2, <2>3 DEF AuthTypeOK, TypeOK
  <2>5. CASE SentAgain
    BY <2>2, <2>5, LocalsKept DEF SentAgain, Stands, requestVars, AuthTypeOK
  <2>6. CASE GoTo(q, "loginReply") /\ KeepLocals
    <3>1. /\ at'[q] = "loginReply" /\ target'[q] = target[q]
          /\ row'[q] = row[q] /\ draft'[q] = draft[q]
      BY <2>6 DEF GoTo, KeepLocals, AuthTypeOK
    <3> QED
      BY <2>1, <2>2, <2>4, <3>1
         DEF LocalsOK, Ahead, Behind, Rotating, Holding, Sending, Signing, Owner
  <2>7. CASE Finish(q)
    BY <2>7, FinishLocals
  <2> QED
    BY <1>3, <2>5, <2>6, <2>7 DEF LoginCreate
<1>4. ASSUME NEW ts \in DateNow, LoginReply(q, ts)
      PROVE  LocalsOK(q)'
  BY <1>4, FinishLocals DEF LoginReply, HandOut
<1> QED
  BY <1>1, <1>2, <1>3, <1>4 DEF LoginNext

(* A request that goes on after a Redis command was sent again stands.     *)
LEMMA SentAgainLocals ==
  ASSUME ServiceInv, [StoreNext]_storeVars, now' = now, NEW q \in Request,
         SentAgain
  PROVE  LocalsOK(q)'
BY LocalsKept DEF ServiceInv, AuthTypeOK, SentAgain, Stands, requestVars

(* The request that takes a step of refresh.                               *)
LEMMA RefreshLocals ==
  ASSUME ServiceInv, [StoreNext]_storeVars, NEW q \in Request, RefreshNext(q)
  PROVE  LocalsOK(q)'
<1> USE DEF ServiceInv
<1>a. now \in Nat /\ row[q].readAt \in Nat /\ draft[q].ts \in Int
  BY DEF AuthTypeOK, TypeOK
<1>b. \A s, u : Known(s, u) => Known(s, u)'
  BY KnownKept DEF AuthTypeOK
<1>1. ASSUME NEW s \in SessionId, NEW p \in Hash, RefreshGet(q, s, p)
      PROVE  LocalsOK(q)'
  <2>1. /\ at'[q] = "refreshFind" /\ target'[q].user = session[s].user
        /\ target'[q].session = s /\ target'[q].presented = p
        /\ creation[s] = "acked" /\ Live(s)
        /\ UNCHANGED <<now, birth, creation>>
    BY <1>1 DEF RefreshGet, GoTo, AuthTypeOK, storeVars, historyVars
  <2>2. session[s].user \in User /\ birth[s] # None /\ Owner(s) = session[s].user
    BY <2>1 DEF OwnersKept, AuthTypeOK, TypeOK, Live, SessionRecord
  <2> QED
    BY <2>1, <2>2
       DEF LocalsOK, Ahead, Behind, Rotating, Holding, Sending, Signing, Known,
           Owner
<1>2. CASE RefreshFind(q)
  <2>1. /\ at[q] = "refreshFind"
        /\ at'[q] = IF users[target[q].user] = None
                      THEN "refreshPurge" ELSE "refreshPrepare"
        /\ target'[q] = target[q] /\ now' = now
        /\ users[target[q].user] # None =>
             row'[q].role = users[target[q].user] /\ row'[q].readAt = now
    BY <1>2 DEF RefreshFind, GoTo, AuthTypeOK, storeVars
  <2>2. /\ Known(target[q].session, target[q].user)'
        /\ target[q].presented \in Hash
        /\ target[q].user \in User
    BY <1>b, <2>1 DEF LocalsOK, Behind, Rotating, Known
  <2>3. users[target[q].user] \in Role \cup {None}
    BY <2>2 DEF AuthTypeOK
  <2> QED
    BY <1>a, <2>1, <2>2, <2>3, AuthAssumption
       DEF LocalsOK, Ahead, Behind, Rotating, Holding, Sending, Signing
<1>3. CASE RefreshPurge(q)
  BY <1>3, FinishLocals, SentAgainLocals DEF RefreshPurge, RevokeAll, DeleteAll
<1>4. ASSUME NEW h \in Hash, NEW ts \in DateNow, RefreshPrepare(q, h, ts)
      PROVE  LocalsOK(q)'
  <2>1. /\ at[q] = "refreshPrepare" /\ at'[q] = "refreshRotate"
        /\ target'[q] = target[q] /\ draft'[q].next = h /\ draft'[q].ts = ts
        /\ row'[q] = row[q] /\ now' = now
    BY <1>4 DEF RefreshPrepare, GoTo, AuthTypeOK, storeVars
  <2>2. /\ ts \in Int /\ now - MaxSkew <= ts /\ ts <= now + MaxLead
    BY DateNowBounds
  <2>3. /\ Known(target[q].session, target[q].user)'
        /\ target[q].presented \in Hash /\ row[q].role \in Role
        /\ row[q].readAt <= now /\ now <= row[q].readAt + MaxHandling
    BY <1>b, <2>1 DEF LocalsOK, Behind, Rotating, Signing
  <2>4. row[q].readAt - MaxSkew <= ts
    BY <1>a, <2>2, <2>3, AuthAssumption
  <2> QED
    BY <2>1, <2>2, <2>3, <2>4
       DEF LocalsOK, Ahead, Behind, Rotating, Holding, Sending, Signing
<1>5. CASE RefreshRotate(q)
  <2>1. now' = now
    BY <1>5 DEF RefreshRotate, RotateSwap, RotatePastAbsolute, RotateReuse,
                RotateRefused, Drop, storeVars
  <2>2. at[q] = "refreshRotate"
    BY <1>5 DEF RefreshRotate
  <2>3. CASE GoTo(q, "refreshReply") /\ KeepLocals
    <3>1. /\ at'[q] = "refreshReply" /\ target'[q] = target[q]
          /\ row'[q] = row[q] /\ draft'[q] = draft[q]
      BY <2>3 DEF GoTo, KeepLocals, AuthTypeOK
    <3>2. /\ Known(target[q].session, target[q].user)'
          /\ draft[q].next \in Hash /\ row[q].role \in Role
          /\ row[q].readAt <= now /\ now <= row[q].readAt + MaxHandling
      BY <1>b, <2>1, <2>2, <3>1 DEF LocalsOK, Behind, Holding, Sending, Signing
    <3> QED
      BY <2>1, <3>1, <3>2
         DEF LocalsOK, Ahead, Behind, Rotating, Holding, Sending, Signing
  <2> QED
    BY <1>5, <2>1, <2>3, FinishLocals, SentAgainLocals DEF RefreshRotate
<1>6. ASSUME NEW ts \in DateNow, RefreshReply(q, ts)
      PROVE  LocalsOK(q)'
  BY <1>6, FinishLocals DEF RefreshReply, HandOut
<1> QED
  BY <1>1, <1>2, <1>3, <1>4, <1>5, <1>6 DEF RefreshNext

(* The request that presents an access token.                              *)
LEMMA TokenLocals ==
  ASSUME ServiceInv, [StoreNext]_storeVars, NEW q \in Request, TokenNext(q)
  PROVE  LocalsOK(q)'
<1> USE DEF ServiceInv
<1>1. ASSUME NEW token \in access, NEW ts \in DateNow, AuthVerify(q, token, ts)
      PROVE  LocalsOK(q)'
  <2>1. /\ at'[q] = "authGet" /\ target'[q].session = token.session
        /\ target'[q].user = token.user
    BY <1>1 DEF AuthVerify, GoTo, AuthTypeOK
  <2>2. Known(token.session, token.user)'
    BY KnownKept DEF TokensKnown, AuthTypeOK
  <2> QED
    BY <2>1, <2>2
       DEF LocalsOK, Ahead, Behind, Rotating, Holding, Sending, Signing
<1>2. CASE AuthGet(q)
  <2>1. CASE GoTo(q, "authed") /\ KeepLocals
    <3>1. at[q] = "authGet" /\ at'[q] = "authed" /\ target'[q] = target[q]
      BY <1>2, <2>1 DEF AuthGet, GoTo, KeepLocals, AuthTypeOK
    <3>2. Known(target[q].session, target[q].user)'
      BY <3>1, KnownKept DEF LocalsOK, Behind, AuthTypeOK
    <3> QED
      BY <3>1, <3>2
         DEF LocalsOK, Ahead, Behind, Rotating, Holding, Sending, Signing
  <2> QED
    BY <1>2, <2>1, FinishLocals DEF AuthGet
<1>3. CASE Logout(q)
  BY <1>3, FinishLocals, SentAgainLocals DEF Logout, Delete, Drop
<1>4. CASE LogoutAll(q)
  BY <1>4, FinishLocals, SentAgainLocals DEF LogoutAll, RevokeAll, DeleteAll
<1> QED
  BY <1>1, <1>2, <1>3, <1>4 DEF TokenNext

LEMMA StepTokens ==
  ASSUME ServiceInv, [AuthNext]_authVars
  PROVE  TokensKnown'
<1> USE DEF ServiceInv
<1>a. \A s, u : Known(s, u) => Known(s, u)'
  BY StepRefines, KnownKept DEF AuthTypeOK
<1> SUFFICES ASSUME NEW token \in access'
             PROVE  Known(token.session, token.user)'
  BY DEF TokensKnown
<1>1. CASE token \in access
  BY <1>1, <1>a DEF TokensKnown
<1>2. ASSUME NEW q \in Request, NEW ts \in DateNow, token \notin access,
             LoginReply(q, ts)
      PROVE  Known(token.session, token.user)'
  <2>1. /\ at[q] = "loginReply" /\ creation'[target[q].session] = "acked"
        /\ birth' = birth
        /\ token.session = target[q].session /\ token.user = target[q].user
    BY <1>2 DEF LoginReply, HandOut, Sign, Acknowledge, LocalsOK, AuthTypeOK,
                TypeOK
  <2>2. /\ token.session \in SessionId /\ token.user \in User
        /\ birth[token.session] # None /\ Owner(token.session) = token.user
    BY <2>1 DEF LocalsOK, Ahead
  <2> QED
    BY <2>1, <2>2 DEF Known, Owner
<1>3. ASSUME NEW q \in Request, NEW ts \in DateNow, token \notin access,
             RefreshReply(q, ts)
      PROVE  Known(token.session, token.user)'
  <2>1. /\ Behind(q) /\ token.session = target[q].session
        /\ token.user = target[q].user
    BY <1>3 DEF RefreshReply, HandOut, Sign, Behind
  <2> QED
    BY <2>1, <1>a DEF LocalsOK
<1>4. ASSUME token \notin access
      PROVE  \E q \in Request, ts \in DateNow : LoginReply(q, ts) \/ RefreshReply(q, ts)
  BY <1>4 DEF AuthNext, LoginNext, RefreshNext, TokenNext, OperatorNext, AuthTick,
       ChangeRole, DeleteUser, LoginFind, LoginPrepare, LoginCreate, RefreshGet,
       RefreshFind, RefreshPurge, RefreshPrepare, RefreshRotate, AuthVerify,
       AuthGet, Logout, LogoutAll, RevokeAll, Abort, authVars, tokenVars
<1> QED
  BY <1>1, <1>2, <1>3, <1>4

(* Of the locals of all requests, a step changes those of one.             *)
LEMMA OneRequestMoves ==
  ASSUME AuthTypeOK, NEW q \in Request,
         LoginNext(q) \/ RefreshNext(q) \/ TokenNext(q) \/ Abort(q)
  PROVE  now' = now /\ \A p \in Request : p # q => Stands(p)
<1>1. ASSUME Finish(q) \/ SentAgain \/ (\E a : GoTo(q, a) /\ KeepLocals)
      PROVE  \A p \in Request : p # q => Stands(p)
  BY <1>1 DEF Finish, SentAgain, GoTo, KeepLocals, requestVars, Stands, AuthTypeOK
<1>2. CASE LoginNext(q)
  BY <1>1, <1>2 DEF LoginNext, LoginFind, LoginPrepare, LoginCreate, LoginReply,
       HandOut, Create, Acknowledge, GoTo, Stands, storeVars, AuthTypeOK
<1>3. CASE RefreshNext(q)
  <2>1. CASE RefreshRotate(q)
    BY <1>1, <2>1 DEF RefreshRotate, RotateSwap, RotatePastAbsolute, RotateReuse,
         RotateRefused, Drop, storeVars
  <2> QED
    BY <1>1, <1>3, <2>1 DEF RefreshNext, RefreshGet, RefreshFind, RefreshPurge,
         RevokeAll, DeleteAll, RefreshPrepare, RefreshReply, HandOut, GoTo, Stands,
         storeVars, AuthTypeOK
<1>4. CASE TokenNext(q)
  BY <1>1, <1>4 DEF TokenNext, AuthVerify, AuthGet, Logout, Delete, Drop, LogoutAll,
       RevokeAll, DeleteAll, GoTo, Stands, storeVars, AuthTypeOK
<1>5. CASE Abort(q)
  BY <1>1, <1>5 DEF Abort, storeVars
<1> QED
  BY <1>2, <1>3, <1>4, <1>5

LEMMA StepLocals ==
  ASSUME ServiceInv, [AuthNext]_authVars, NEW p \in Request
  PROVE  LocalsOK(p)'
<1> USE DEF ServiceInv
<1>a. [StoreNext]_storeVars
  BY StepRefines
<1>1. CASE UNCHANGED authVars
  BY <1>1, <1>a, LocalsKept DEF authVars, storeVars, requestVars, Stands, AuthTypeOK
<1>2. CASE AuthTick
  BY <1>2, TickLocals
<1>3. CASE OperatorNext
  BY <1>3, <1>a, LocalsKept DEF OperatorNext, ChangeRole, DeleteUser, storeVars,
       requestVars, Stands, AuthTypeOK
<1>4. ASSUME NEW q \in Request,
             LoginNext(q) \/ RefreshNext(q) \/ TokenNext(q) \/ Abort(q)
      PROVE  LocalsOK(p)'
  <2>1. CASE p # q
    BY <1>4, <2>1, <1>a, OneRequestMoves, LocalsKept DEF AuthTypeOK
  <2>2. CASE p = q
    BY <1>4, <2>2, <1>a, LoginLocals, RefreshLocals, TokenLocals, FinishLocals
       DEF Abort
  <2> QED
    BY <2>1, <2>2
<1> QED
  BY <1>1, <1>2, <1>3, <1>4 DEF AuthNext

(* Types of the service's own variables.                                   *)
RequestTypes ==
  /\ at \in [Request -> Await]
  /\ target \in [Request -> [user : User \cup {None},
                             session : SessionId \cup {None},
                             presented : Hash \cup {None}]]
  /\ row \in [Request -> [role : Role \cup {None}, readAt : Nat]]
  /\ draft \in [Request -> [next : Hash \cup {None}, ts : Int]]

LEMMA MovesTyped ==
  ASSUME AuthTypeOK, NEW q \in Request,
         \/ Finish(q) \/ SentAgain
         \/ \E a \in Await : GoTo(q, a) /\ KeepLocals
  PROVE  RequestTypes'
<1> USE DEF AuthTypeOK, RequestTypes
<1>1. CASE Finish(q)
  <2>1. at' \in [Request -> Await]
    BY <1>1 DEF Finish, Await
  <2>2. target' \in [Request -> [user : User \cup {None},
                                session : SessionId \cup {None},
                                presented : Hash \cup {None}]]
    BY <1>1 DEF Finish, NoTarget
  <2>3. row' \in [Request -> [role : Role \cup {None}, readAt : Nat]]
    BY <1>1 DEF Finish, NoRow
  <2>4. draft' \in [Request -> [next : Hash \cup {None}, ts : Int]]
    BY <1>1 DEF Finish, NoDraft
  <2> QED
    BY <2>1, <2>2, <2>3, <2>4
<1>2. CASE SentAgain
  BY <1>2 DEF SentAgain, requestVars
<1>3. ASSUME NEW a \in Await, GoTo(q, a), KeepLocals
      PROVE  RequestTypes'
  BY <1>3 DEF GoTo, KeepLocals
<1> QED
  BY <1>1, <1>2, <1>3

LEMMA LoginTyped ==
  ASSUME ServiceInv, NEW q \in Request, LoginNext(q)
  PROVE  RequestTypes'
<1> USE DEF ServiceInv
<1>1. ASSUME NEW u \in User, LoginFind(q, u)
      PROVE  RequestTypes'
  <2>1. users[u] \in Role /\ now \in Nat
    BY <1>1 DEF LoginFind, AuthTypeOK, TypeOK
  <2> QED
    BY <1>1, <2>1 DEF LoginFind, GoTo, RequestTypes, AuthTypeOK, Await
<1>2. ASSUME NEW s \in SessionId, NEW h \in Hash, NEW ts \in DateNow,
             LoginPrepare(q, s, h, ts)
      PROVE  RequestTypes'
  BY <1>2, DateNowBounds DEF LoginPrepare, GoTo, RequestTypes, AuthTypeOK, Await
<1>3. ASSUME NEW failed, LoginCreate(q, failed)
      PROVE  RequestTypes'
  BY <1>3, MovesTyped DEF LoginCreate, Await
<1>4. ASSUME NEW ts, LoginReply(q, ts)
      PROVE  RequestTypes'
  BY <1>4, MovesTyped DEF LoginReply, HandOut
<1> QED
  BY <1>1, <1>2, <1>3, <1>4 DEF LoginNext

LEMMA RefreshTyped ==
  ASSUME ServiceInv, NEW q \in Request, RefreshNext(q)
  PROVE  RequestTypes'
<1> USE DEF ServiceInv
<1>1. ASSUME NEW s \in SessionId, NEW p \in Hash, RefreshGet(q, s, p)
      PROVE  RequestTypes'
  <2>1. session[s].user \in User
    BY <1>1 DEF RefreshGet, Live, AuthTypeOK, TypeOK, SessionRecord
  <2> QED
    BY <1>1, <2>1 DEF RefreshGet, GoTo, RequestTypes, AuthTypeOK, Await
<1>2. CASE RefreshFind(q)
  <2>1. target[q].user \in User
    BY <1>2 DEF RefreshFind, LocalsOK, Behind, Known
  <2>2. users[target[q].user] \in Role \cup {None} /\ now \in Nat
    BY <2>1 DEF AuthTypeOK, TypeOK
  <2> QED
    BY <1>2, <2>2 DEF RefreshFind, GoTo, RequestTypes, AuthTypeOK, Await, NoRow
<1>3. CASE RefreshPurge(q)
  BY <1>3, MovesTyped DEF RefreshPurge
<1>4. ASSUME NEW h \in Hash, NEW ts \in DateNow, RefreshPrepare(q, h, ts)
      PROVE  RequestTypes'
  BY <1>4, DateNowBounds DEF RefreshPrepare, GoTo, RequestTypes, AuthTypeOK, Await
<1>5. CASE RefreshRotate(q)
  BY <1>5, MovesTyped DEF RefreshRotate, Await
<1>6. ASSUME NEW ts, RefreshReply(q, ts)
      PROVE  RequestTypes'
  BY <1>6, MovesTyped DEF RefreshReply, HandOut
<1> QED
  BY <1>1, <1>2, <1>3, <1>4, <1>5, <1>6 DEF RefreshNext

LEMMA TokenTyped ==
  ASSUME ServiceInv, NEW q \in Request, TokenNext(q)
  PROVE  RequestTypes'
<1> USE DEF ServiceInv
<1>1. ASSUME NEW token \in access, NEW ts, AuthVerify(q, token, ts)
      PROVE  RequestTypes'
  <2>1. token \in AccessToken
    BY DEF AuthTypeOK
  <2> QED
    BY <1>1, <2>1 DEF AuthVerify, GoTo, RequestTypes, AuthTypeOK, Await, AccessToken
<1> QED
  BY <1>1, MovesTyped DEF TokenNext, AuthGet, Logout, LogoutAll, Await

(* A token is signed with what its request knows.                          *)
LEMMA HandOutTyped ==
  ASSUME AuthTypeOK, NEW q \in Request, NEW ts \in DateNow, LocalsOK(q),
         HandOut(q, ts), at[q] \in {"loginReply", "refreshReply"}
  PROVE  access' \subseteq AccessToken /\ refresh' \subseteq RefreshToken
<1>1. /\ target[q].user \in User /\ target[q].session \in SessionId
      /\ row[q].role \in Role /\ draft[q].next \in Hash
  BY DEF LocalsOK, Ahead, Behind, Holding, Signing, Known
<1>2. ts \in Int /\ FloorToSecond(ts) \in Int
  BY DateNowBounds, DurationAssumption DEF FloorToSecond
<1>3. Sign(target[q].user, target[q].session, row[q].role, ts) \in AccessToken
  BY <1>1, <1>2, AuthAssumption DEF Sign, AccessToken
<1> QED
  BY <1>1, <1>3 DEF HandOut, RefreshToken, AuthTypeOK

LEMMA StepAuthType ==
  ASSUME ServiceInv, [AuthNext]_authVars
  PROVE  AuthTypeOK'
<1> USE DEF ServiceInv
<1>1. TypeOK'
  BY StepRefines, StepType DEF AuthTypeOK
<1>2. RequestTypes'
  <2>1. UNCHANGED requestVars => RequestTypes'
    BY DEF requestVars, RequestTypes, AuthTypeOK
  <2>2. \A q \in Request : Abort(q) => RequestTypes'
    BY MovesTyped DEF Abort
  <2> QED
    BY <2>1, <2>2, LoginTyped, RefreshTyped, TokenTyped
       DEF AuthNext, AuthTick, OperatorNext, ChangeRole, DeleteUser, authVars
<1>3. access' \subseteq AccessToken /\ refresh' \subseteq RefreshToken
  <2>1. ASSUME NEW q \in Request, NEW ts \in DateNow,
               LoginReply(q, ts) \/ RefreshReply(q, ts)
        PROVE  access' \subseteq AccessToken /\ refresh' \subseteq RefreshToken
    BY <2>1, HandOutTyped DEF LoginReply, RefreshReply
  <2>2. ASSUME ~ \E q \in Request, ts \in DateNow :
                   LoginReply(q, ts) \/ RefreshReply(q, ts)
        PROVE  UNCHANGED tokenVars
    BY <2>2 DEF AuthNext, LoginNext, RefreshNext, TokenNext, OperatorNext, AuthTick,
         ChangeRole, DeleteUser, LoginFind, LoginPrepare, LoginCreate, RefreshGet,
         RefreshFind, RefreshPurge, RefreshPrepare, RefreshRotate, AuthVerify,
         AuthGet, Logout, LogoutAll, RevokeAll, Abort, authVars, tokenVars
  <2> QED
    BY <2>1, <2>2 DEF tokenVars, AuthTypeOK
<1>4. users' \in [User -> Role \cup {None}] /\ roleSince' \in [User -> Nat]
  <2>1. CASE OperatorNext
    <3>1. PICK u \in User, r \in Role \cup {None} :
            /\ users' = [users EXCEPT ![u] = r]
            /\ roleSince' = [roleSince EXCEPT ![u] = now]
      BY <2>1 DEF OperatorNext, ChangeRole, DeleteUser
    <3> QED
      BY <3>1 DEF AuthTypeOK, TypeOK
  <2>2. CASE ~ OperatorNext
    BY <2>2 DEF AuthNext, LoginNext, RefreshNext, TokenNext, AuthTick, LoginFind,
         LoginPrepare, LoginCreate, LoginReply, RefreshGet, RefreshFind,
         RefreshPurge, RefreshPrepare, RefreshRotate, RefreshReply, AuthVerify,
         AuthGet, Logout, LogoutAll, RevokeAll, Abort, authVars, authHistory,
         AuthTypeOK
  <2> QED
    BY <2>1, <2>2
<1>5. ended' \subseteq SessionId
  <2>1. ASSUME NEW q \in Request, Logout(q)
        PROVE  ended' \subseteq SessionId
    BY <2>1 DEF Logout, LocalsOK, Behind, Known, AuthTypeOK
  <2>2. ASSUME NEW u, RevokeAll(u)
        PROVE  ended' \subseteq SessionId
    BY <2>2 DEF RevokeAll, Answered, AuthTypeOK
  <2>3. ASSUME ~ \E q \in Request : Logout(q) \/ RefreshPurge(q) \/ LogoutAll(q)
        PROVE  ended' = ended
    BY <2>3 DEF AuthNext, LoginNext, RefreshNext, TokenNext, AuthTick, OperatorNext,
         ChangeRole, DeleteUser, LoginFind, LoginPrepare, LoginCreate, LoginReply,
         RefreshGet, RefreshFind, RefreshPrepare, RefreshRotate, RefreshReply,
         AuthVerify, AuthGet, Abort, authVars, authHistory
  <2> QED
    BY <2>1, <2>2, <2>3 DEF RefreshPurge, LogoutAll, AuthTypeOK
<1> QED
  BY <1>1, <1>2, <1>3, <1>4, <1>5 DEF AuthTypeOK, RequestTypes

-----------------------------------------------------------------------------
(* The invariant, and the store behind the service                         *)

LEMMA ServiceInit == AuthInit => ServiceInv
<1> SUFFICES ASSUME AuthInit
             PROVE  ServiceInv
  OBVIOUS
<1>1. TypeOK /\ OwnersKept
  BY DEF AuthInit, StoreInit, TypeOK, CreationStage, OwnersKept, Live
<1>2. AuthTypeOK
  BY <1>1 DEF AuthInit, AuthTypeOK, Await, NoTarget, NoRow, NoDraft
<1>3. \A q \in Request : LocalsOK(q)
  BY DEF AuthInit, LocalsOK, Ahead, Behind, Rotating, Holding, Sending, Signing
<1> QED
  BY <1>1, <1>2, <1>3 DEF ServiceInv, TokensKnown, AuthInit

LEMMA ServiceStep == ServiceInv /\ [AuthNext]_authVars => ServiceInv'
<1> SUFFICES ASSUME ServiceInv, [AuthNext]_authVars
             PROVE  ServiceInv'
  OBVIOUS
<1>1. OwnersKept'
  BY StepRefines, StepOwners DEF ServiceInv, AuthTypeOK
<1> QED
  BY <1>1, StepAuthType, StepLocals, StepTokens DEF ServiceInv

LEMMA ServiceInvariant == AuthSpec => []ServiceInv
<1> QED
  BY ServiceInit, ServiceStep, PTL DEF AuthSpec

(* Every request finds in its locals what its next await needs, and only   *)
(* values of their types are ever handed out.                              *)
THEOREM ServiceTypeCorrect == AuthSpec => []AuthTypeOK
<1>1. ServiceInv => AuthTypeOK
  BY DEF ServiceInv
<1> QED
  BY <1>1, ServiceInvariant, PTL

(* Whatever requests interleave, die or have their commands sent again,    *)
(* AuthService drives the store only in the ways SessionStore allows: what *)
(* is proved of the store holds of the service.                            *)
THEOREM ServiceUsesStore == AuthSpec => StoreSpec
<1>1. AuthInit => StoreInit
  BY DEF AuthInit
<1>2. ServiceInv /\ [AuthNext]_authVars => [StoreNext]_storeVars
  BY StepRefines
<1> QED
  BY <1>1, <1>2, ServiceInvariant, PTL DEF AuthSpec, StoreSpec

(* What clients of the HTTP API see of login, refresh, logout and          *)
(* logout-all keeps the promise of SessionContract: one valid token at a   *)
(* time, none valid twice, no ended session valid again.                   *)
THEOREM ServiceKeepsContract == AuthSpec => ContractSpec
BY ServiceUsesStore, ImplementsContract

-----------------------------------------------------------------------------
(* Revocation is final                                                     *)

(* A session that login has answered with is never written anew: if it is  *)
(* there after a step it was there before, with the same deadline.         *)
LEMMA AnsweredOnlyEnds ==
  ASSUME TypeOK, [StoreNext]_storeVars, NEW s \in SessionId,
         creation[s] = "acked", Live(s)'
  PROVE  /\ Live(s) /\ now <= now'
         /\ session'[s].absoluteExpiresAt = session[s].absoluteExpiresAt
<1>1. now <= now'
  BY DurationAssumption DEF StoreNext, Tick, DeleteAll, Acknowledge, Create,
       RotateSwap, RotatePastAbsolute, RotateReuse, Delete, Drop, storeVars, TypeOK
<1>2. CASE Removal
  BY <1>1, <1>2 DEF Removal, Live
<1>3. CASE UNCHANGED storeVars
  BY <1>1, <1>3 DEF storeVars, redisVars, Live
<1>4. ASSUME NEW t \in SessionId, Acknowledge(t)
      PROVE  session' = session
  BY <1>4 DEF Acknowledge, redisVars
<1>5. ASSUME NEW t \in SessionId, NEW u \in User, NEW r \in Role, NEW h \in Hash,
             NEW ts \in CallerClock, NEW failed, Create(t, u, r, h, ts, failed)
      PROVE  session'[s] = session[s]
  BY <1>5 DEF Create, TypeOK
<1>6. ASSUME NEW t \in SessionId, NEW p \in Hash, NEW n \in Hash, NEW r \in Role,
             NEW ts \in CallerClock, RotateSwap(t, p, n, r, ts)
      PROVE  /\ session[s] # None
             /\ session'[s].absoluteExpiresAt = session[s].absoluteExpiresAt
  BY <1>6 DEF RotateSwap, Rotated, TypeOK, Live
<1> QED
  BY <1>1, <1>2, <1>3, <1>4, <1>5, <1>6, StoreSteps, Removals DEF Live

(* What is over stays over: the inductive form of RevocationFinal.         *)
EndedStay ==
  \A s \in ended :
    /\ creation[s] = "acked"
    /\ Live(s) => now + MaxLead > session[s].absoluteExpiresAt

LEMMA EndedStep ==
  ASSUME StoreInv, ServiceInv, EndedStay, [AuthNext]_authVars
  PROVE  EndedStay'
<1> USE DEF StoreInv, ServiceInv
<1>a. [StoreNext]_storeVars /\ TypeOK'
  BY StepRefines, StepType
<1>b. ASSUME NEW s \in SessionId, creation[s] = "acked"
      PROVE  creation'[s] = "acked"
  BY <1>a, <1>b, KnownStays
<1>1. ASSUME NEW s \in ended
      PROVE  /\ creation'[s] = "acked"
             /\ Live(s)' => now' + MaxLead > session'[s].absoluteExpiresAt
  <2>1. s \in SessionId /\ creation[s] = "acked"
    BY DEF EndedStay, AuthTypeOK
  <2>2. ASSUME Live(s)'
        PROVE  now' + MaxLead > session'[s].absoluteExpiresAt
    <3>1. /\ Live(s) /\ now <= now'
          /\ session'[s].absoluteExpiresAt = session[s].absoluteExpiresAt
      BY <1>a, <2>1, <2>2, AnsweredOnlyEnds
    <3>2. session[s].absoluteExpiresAt \in Int
      BY <2>1, <3>1 DEF Live, TypeOK, SessionRecord
    <3>3. now + MaxLead > session[s].absoluteExpiresAt
      BY <3>1 DEF EndedStay
    <3> QED
      BY <1>a, <3>1, <3>2, <3>3, DurationAssumption DEF TypeOK
  <2> QED
    BY <1>b, <2>1, <2>2
<1>2. ASSUME NEW q \in Request, Logout(q)
      PROVE  /\ ended' = ended \cup {target[q].session}
             /\ creation'[target[q].session] = "acked"
             /\ session'[target[q].session] = None
  <2>1. Known(target[q].session, target[q].user)
    BY <1>2 DEF Logout, LocalsOK, Behind
  <2> QED
    BY <1>2, <1>b, <2>1 DEF Logout, Delete, Drop, Known, TypeOK
<1>3. ASSUME NEW u \in User, RevokeAll(u), NEW s \in Answered(u)
      PROVE  /\ creation'[s] = "acked"
             /\ Live(s)' => now' + MaxLead > session'[s].absoluteExpiresAt
  <2>1. s \in SessionId /\ creation[s] = "acked" /\ Owner(s) = u
    BY <1>3 DEF Answered
  <2>2. ASSUME Live(s)'
        PROVE  now' + MaxLead > session'[s].absoluteExpiresAt
    <3>1. /\ s \notin userSessions[u] /\ session'[s] = session[s] /\ now' = now
          /\ Live(s)
      BY <1>3, <2>1, <2>2 DEF RevokeAll, DeleteAll, Indexed, Live
    <3>2. session[s].user = u
      BY <2>1, <3>1 DEF OwnersKept
    <3>3. ~ (now + MaxLead <= session[s].absoluteExpiresAt)
      BY <2>1, <3>1, <3>2 DEF IndexLasts
    <3>4. session[s].absoluteExpiresAt \in Int /\ now \in Int
      BY <2>1, <3>1 DEF Live, TypeOK, SessionRecord
    <3> QED
      BY <3>1, <3>3, <3>4, DurationAssumption
  <2> QED
    BY <1>b, <2>1, <2>2
<1>4. ASSUME NEW q \in Request, RefreshPurge(q) \/ LogoutAll(q)
      PROVE  RevokeAll(target[q].user) /\ target[q].user \in User
  BY <1>4 DEF RefreshPurge, LogoutAll, LocalsOK, Behind, Known
<1>5. ASSUME ~ \E q \in Request : Logout(q) \/ RefreshPurge(q) \/ LogoutAll(q)
      PROVE  ended' = ended
  BY <1>5 DEF AuthNext, LoginNext, RefreshNext, TokenNext, AuthTick, OperatorNext,
       ChangeRole, DeleteUser, LoginFind, LoginPrepare, LoginCreate, LoginReply,
       RefreshGet, RefreshFind, RefreshPrepare, RefreshRotate, RefreshReply,
       AuthVerify, AuthGet, Abort, authVars, authHistory
<1>6. CASE \E q \in Request : Logout(q)
  BY <1>1, <1>2, <1>6 DEF EndedStay, Live
<1>7. CASE \E q \in Request : RefreshPurge(q) \/ LogoutAll(q)
  <2>1. PICK u \in User : RevokeAll(u)
    BY <1>4, <1>7
  <2>2. ended' = ended \cup Answered(u)
    BY <2>1 DEF RevokeAll
  <2> QED
    BY <1>1, <1>3, <2>1, <2>2 DEF EndedStay
<1> QED
  BY <1>1, <1>5, <1>6, <1>7 DEF EndedStay

LEMMA StoreInvUnderService == AuthSpec => []StoreInv
<1> QED
  BY ServiceUsesStore, StoreInvariant, PTL

(* Logout, logout-all and the purge of a deleted user are final for every  *)
(* number of requests under way, for every loss of a reply and crash.      *)
THEOREM RevocationIsFinal == AuthSpec => []RevocationFinal
<1>1. AuthInit => EndedStay
  BY DEF AuthInit, EndedStay
<1>2. StoreInv /\ ServiceInv /\ EndedStay /\ [AuthNext]_authVars => EndedStay'
  BY EndedStep
<1>3. EndedStay => RevocationFinal
  BY DEF EndedStay, RevocationFinal
<1> QED
  BY <1>1, <1>2, <1>3, StoreInvUnderService, ServiceInvariant, PTL DEF AuthSpec

-----------------------------------------------------------------------------
(* Refresh tokens are used in turn                                         *)

Given(s, h) == [session |-> s, hash |-> h] \in refresh

(* A hash that no session has held and no request is about to install.     *)
Unissued(h) == UnusedHash(h) /\ \A q \in Request : draft[q].next # h

(* What a request presents was given to a client, or is no token at all.   *)
PresentedOK(q) ==
  Rotating(q) => \/ Given(target[q].session, target[q].presented)
                 \/ Unissued(target[q].presented)

(* What a request is about to hand out is in the store.                    *)
DraftStored(q) ==
  /\ at[q] = "loginReply" =>
       draft[q].next = birth[target[q].session].hash
  /\ at[q] = "refreshReply" => draft[q].next \in installed[target[q].session]

GivenStored ==
  \A t \in refresh : creation[t.session] = "acked" /\ t.hash \in installed[t.session]

TradedWereGiven == \A s \in SessionId : \A h \in traded[s] : Given(s, h)

GivenInv ==
  /\ GivenStored /\ TradedWereGiven
  /\ \A q \in Request : PresentedOK(q) /\ DraftStored(q)

(* The hashes of a session change when a request has its draft created or  *)
(* swapped in for what it presents, and at no other time.                  *)
Installs(q) ==
  /\ at[q] = "loginCreate"
  /\ \E failed : Create(target[q].session, target[q].user, row[q].role,
                       draft[q].next, draft[q].ts, failed)
Swaps(q) ==
  /\ at[q] = "refreshRotate"
  /\ RotateSwap(target[q].session, target[q].presented, draft[q].next,
                row[q].role, draft[q].ts)

LEMMA HashSteps ==
  ASSUME [AuthNext]_authVars
  PROVE  \/ \E q \in Request : Installs(q) \/ Swaps(q)
         \/ installed' = installed /\ traded' = traded
<1>1. ASSUME NEW q \in Request, NEW failed, LoginCreate(q, failed)
      PROVE  Installs(q)
  BY <1>1 DEF LoginCreate, Installs
<1>2. ASSUME NEW q \in Request, RefreshRotate(q), ~ Swaps(q)
      PROVE  installed' = installed /\ traded' = traded
  BY <1>2 DEF RefreshRotate, Swaps, RotatePastAbsolute, RotateReuse, RotateRefused,
     Drop, storeVars, historyVars
<1>3. ASSUME NEW q \in Request, NEW ts, LoginReply(q, ts)
      PROVE  installed' = installed /\ traded' = traded
  BY <1>3 DEF LoginReply, Acknowledge
<1>4. ASSUME NEW q \in Request,
             RefreshPurge(q) \/ LogoutAll(q) \/ Logout(q)
      PROVE  installed' = installed /\ traded' = traded
  BY <1>4 DEF RefreshPurge, LogoutAll, Logout, RevokeAll, DeleteAll, Delete, Drop,
     historyVars
<1>5. CASE UNCHANGED storeVars \/ AuthTick
  BY <1>5 DEF AuthTick, Tick, storeVars, historyVars
<1> QED
  BY <1>1, <1>2, <1>3, <1>4, <1>5
     DEF AuthNext, LoginNext, RefreshNext, TokenNext, OperatorNext, LoginFind,
         LoginPrepare, RefreshGet, RefreshFind, RefreshPrepare, RefreshReply,
         AuthVerify, AuthGet, Abort, ChangeRole, DeleteUser, authVars

LEMMA HashesOfStep ==
  ASSUME ServiceInv, [AuthNext]_authVars, NEW s \in SessionId
  PROVE  /\ creation[s] = "acked" => installed[s] \subseteq installed'[s]
         /\ \A h \in installed'[s] :
              h \in installed[s] \/ \E q \in Request : draft[q].next = h
         /\ \A h \in traded'[s] :
              \/ h \in traded[s]
              \/ \E q \in Request :
                   /\ Rotating(q) /\ target[q].session = s
                   /\ target[q].presented = h /\ Live(s) /\ session[s].hash = h
<1> USE DEF ServiceInv, AuthTypeOK, TypeOK
<1>1. ASSUME NEW q \in Request, Installs(q)
      PROVE  /\ traded' = traded
             /\ creation[s] = "acked" => installed'[s] = installed[s]
             /\ installed'[s] \subseteq installed[s] \cup {draft[q].next}
  BY <1>1 DEF Installs, Create
<1>2. ASSUME NEW q \in Request, Swaps(q)
      PROVE  /\ installed[s] \subseteq installed'[s]
             /\ installed'[s] \subseteq installed[s] \cup {draft[q].next}
             /\ \A h \in traded'[s] :
                  \/ h \in traded[s]
                  \/ /\ Rotating(q) /\ target[q].session = s
                     /\ target[q].presented = h /\ Live(s) /\ session[s].hash = h
  BY <1>2 DEF Swaps, RotateSwap, PresentsCurrent, Live, Rotating
<1>3. CASE installed' = installed /\ traded' = traded
  BY <1>3
<1>4. CASE \E q \in Request : Installs(q)
  BY <1>1, <1>4
<1>5. CASE \E q \in Request : Swaps(q)
  BY <1>2, <1>5
<1> QED
  BY <1>3, <1>4, <1>5, HashSteps

(* A token that a client is given is stored, and the login has answered.   *)
LEMMA StepGivenStored ==
  ASSUME StoreInv, ServiceInv, GivenInv, [AuthNext]_authVars
  PROVE  GivenStored' /\ refresh \subseteq refresh'
<1> USE DEF ServiceInv
<1>1. ASSUME NEW t \in refresh
      PROVE  creation'[t.session] = "acked" /\ t.hash \in installed'[t.session]
  <2>1. t.session \in SessionId
    BY DEF AuthTypeOK, RefreshToken
  <2>2. creation[t.session] = "acked" /\ t.hash \in installed[t.session]
    BY DEF GivenInv, GivenStored
  <2> QED
    BY <2>1, <2>2, StepRefines, KnownStays, HashesOfStep DEF AuthTypeOK
<1>2. ASSUME NEW q \in Request, NEW ts \in DateNow, LoginReply(q, ts)
      PROVE  GivenStored' /\ refresh \subseteq refresh'
  <2> DEFINE s == target[q].session
  <2>1. /\ at[q] = "loginReply" /\ s \in SessionId /\ creation[s] = "written"
        /\ creation' = [creation EXCEPT ![s] = "acked"] /\ installed' = installed
        /\ refresh' = refresh \cup {[session |-> s, hash |-> draft[q].next]}
    BY <1>2 DEF LoginReply, Acknowledge, HandOut, LocalsOK
  <2>2. draft[q].next = birth[s].hash
    BY <2>1 DEF GivenInv, DraftStored
  <2>3. draft[q].next \in installed'[s] /\ creation'[s] = "acked"
    BY <2>1, <2>2 DEF StoreInv, HashesOwned, TypeOK
  <2> QED
    BY <1>1, <2>1, <2>3 DEF GivenStored
<1>3. ASSUME NEW q \in Request, NEW ts \in DateNow, RefreshReply(q, ts)
      PROVE  GivenStored' /\ refresh \subseteq refresh'
  <2> DEFINE s == target[q].session
  <2>1. /\ at[q] = "refreshReply" /\ UNCHANGED <<creation, installed>>
        /\ refresh' = refresh \cup {[session |-> s, hash |-> draft[q].next]}
    BY <1>3 DEF RefreshReply, HandOut, storeVars, historyVars
  <2>2. creation[s] = "acked" /\ draft[q].next \in installed[s]
    BY <2>1 DEF GivenInv, DraftStored, LocalsOK, Behind, Known
  <2> QED
    BY <1>1, <2>1, <2>2 DEF GivenStored
<1>4. ASSUME ~ \E q \in Request, ts \in DateNow : LoginReply(q, ts) \/ RefreshReply(q, ts)
      PROVE  refresh' = refresh
  BY <1>4 DEF AuthNext, LoginNext, RefreshNext, TokenNext, OperatorNext, AuthTick,
       ChangeRole, DeleteUser, LoginFind, LoginPrepare, LoginCreate, RefreshGet,
       RefreshFind, RefreshPurge, RefreshPrepare, RefreshRotate, AuthVerify,
       AuthGet, Logout, LogoutAll, RevokeAll, Abort, authVars, tokenVars
<1> QED
  BY <1>1, <1>2, <1>3, <1>4 DEF GivenStored

(* What is traded in is the current token, so no token of nobody.          *)
LEMMA StepTradedGiven ==
  ASSUME StoreInv, ServiceInv, GivenInv, [AuthNext]_authVars
  PROVE  TradedWereGiven'
<1> SUFFICES ASSUME NEW s \in SessionId, NEW h \in traded'[s]
             PROVE  [session |-> s, hash |-> h] \in refresh'
  BY DEF TradedWereGiven, Given
<1>1. Given(s, h) => [session |-> s, hash |-> h] \in refresh'
  BY StepGivenStored DEF Given
<1>2. CASE h \in traded[s]
  BY <1>1, <1>2 DEF GivenInv, TradedWereGiven
<1>3. ASSUME NEW q \in Request, Rotating(q), target[q].session = s,
             target[q].presented = h, Live(s), session[s].hash = h
      PROVE  Given(s, h)
  <2>1. ~ Unissued(h)
    BY <1>3 DEF Unissued, UnusedHash, StoreInv, HashesOwned
  <2> QED
    BY <1>3, <2>1 DEF GivenInv, PresentedOK
<1> QED
  BY <1>1, <1>2, <1>3, HashesOfStep

(* A draft is a hash that nobody has or presents.                          *)
LEMMA DraftsStep ==
  ASSUME ServiceInv, [AuthNext]_authVars, NEW r \in Request
  PROVE  \/ draft'[r].next \in {draft[r].next, None}
         \/ FreshHash(draft'[r].next)
<1> USE DEF ServiceInv
<1>1. CASE UNCHANGED requestVars
  BY <1>1 DEF requestVars
<1>2. ASSUME NEW q \in Request,
             LoginNext(q) \/ RefreshNext(q) \/ TokenNext(q) \/ Abort(q)
      PROVE  \/ draft'[r].next \in {draft[r].next, None}
             \/ FreshHash(draft'[r].next)
  <2>1. CASE r # q
    BY <1>2, <2>1, OneRequestMoves DEF Stands
  <2>2. CASE r = q
    <3>1. CASE Finish(q)
      BY <2>2, <3>1 DEF Finish, NoDraft, AuthTypeOK
    <3>2. ASSUME NEW s \in SessionId, NEW h \in Hash, NEW ts \in DateNow,
                 LoginPrepare(q, s, h, ts) \/ RefreshPrepare(q, h, ts)
          PROVE  FreshHash(draft'[r].next)
      <4>1. draft'[q].next = h /\ FreshHash(h)
        BY <3>2 DEF LoginPrepare, RefreshPrepare, AuthTypeOK
      <4> QED
        BY <2>2, <4>1
    <3>3. ASSUME NEW h \in Hash, NEW ts \in DateNow, RefreshPrepare(q, h, ts)
          PROVE  FreshHash(draft'[r].next)
      <4>1. draft'[q].next = h /\ FreshHash(h)
        BY <3>3 DEF RefreshPrepare, AuthTypeOK
      <4> QED
        BY <2>2, <4>1
    <3>4. CASE draft' = draft
      BY <3>4
    <3> QED
      BY <1>2, <3>1, <3>2, <3>3, <3>4
         DEF LoginNext, RefreshNext, TokenNext, Abort, LoginFind, LoginCreate,
             LoginReply, HandOut, RefreshGet, RefreshFind, RefreshPurge,
             RefreshRotate, RefreshReply, AuthVerify, AuthGet, Logout, LogoutAll,
             SentAgain, KeepLocals, requestVars
  <2> QED
    BY <2>1, <2>2
<1> QED
  BY <1>1, <1>2 DEF AuthNext, AuthTick, OperatorNext, ChangeRole, DeleteUser,
     authVars

(* What a request presents stays given, or stays nobody's.                 *)
LEMMA PresentedStays ==
  ASSUME StoreInv, ServiceInv, GivenInv, [AuthNext]_authVars,
         NEW q \in Request, NEW s, NEW h \in Hash, target[q].presented = h,
         Given(s, h) \/ Unissued(h)
  PROVE  [session |-> s, hash |-> h] \in refresh' \/ Unissued(h)'
<1>1. CASE Given(s, h)
  BY <1>1, StepGivenStored DEF Given
<1>2. CASE Unissued(h)
  <2>1. \A t \in SessionId : h \notin installed'[t]
    BY <1>2, HashesOfStep DEF Unissued, UnusedHash
  <2>2. \A r \in Request : draft'[r].next # h
    <3> TAKE r \in Request
    <3>1. draft[r].next # h /\ h # None
      BY <1>2, NoneAssumption DEF Unissued
    <3>2. FreshHash(draft'[r].next) => draft'[r].next # h
      BY DEF FreshHash
    <3> QED
      BY <3>1, <3>2, DraftsStep
  <2> QED
    BY <2>1, <2>2 DEF Unissued, UnusedHash
<1> QED
  BY <1>1, <1>2

(* A request that rotates carries what it presents along, from RefreshGet. *)
LEMMA RotatingMoves ==
  ASSUME ServiceInv, [AuthNext]_authVars, NEW p \in Request, Rotating(p)'
  PROVE  \/ Rotating(p) /\ target'[p] = target[p]
         \/ \E s \in SessionId, h \in Hash : RefreshGet(p, s, h)
<1> USE DEF ServiceInv
<1>1. ASSUME at'[p] = at[p], target'[p] = target[p]
      PROVE  Rotating(p) /\ target'[p] = target[p]
  BY <1>1 DEF Rotating
<1>2. CASE UNCHANGED requestVars
  BY <1>1, <1>2 DEF requestVars
<1>3. ASSUME NEW q \in Request, q # p,
             LoginNext(q) \/ RefreshNext(q) \/ TokenNext(q) \/ Abort(q)
      PROVE  at'[p] = at[p] /\ target'[p] = target[p]
  BY <1>3, OneRequestMoves DEF Stands
<1>4. ~ Finish(p)
  BY DEF Finish, Rotating, AuthTypeOK
<1>5. CASE SentAgain
  BY <1>1, <1>5 DEF SentAgain, requestVars
<1>6. ~ (\E a \in {"loginReply", "refreshReply", "authed"} : GoTo(p, a))
  BY DEF GoTo, Rotating, AuthTypeOK
<1>7. CASE LoginNext(p)
  BY <1>4, <1>5, <1>6, <1>7
     DEF LoginNext, LoginFind, LoginPrepare, LoginCreate, LoginReply, HandOut,
         GoTo, Rotating, AuthTypeOK
<1>8. CASE RefreshNext(p)
  <2>1. CASE RefreshFind(p) \/ \E h \in Hash, ts \in DateNow : RefreshPrepare(p, h, ts)
    BY <2>1 DEF RefreshFind, RefreshPrepare, Rotating
  <2> QED
    BY <1>4, <1>5, <1>6, <1>8, <2>1
       DEF RefreshNext, RefreshPurge, RefreshRotate, RefreshReply, HandOut
<1>9. CASE TokenNext(p)
  BY <1>4, <1>5, <1>6, <1>9
     DEF TokenNext, AuthVerify, AuthGet, Logout, LogoutAll, GoTo, Rotating,
         AuthTypeOK
<1> QED
  BY <1>1, <1>2, <1>3, <1>4, <1>7, <1>8, <1>9
     DEF AuthNext, AuthTick, OperatorNext, ChangeRole, DeleteUser, Abort, authVars

LEMMA StepPresented ==
  ASSUME StoreInv, ServiceInv, GivenInv, [AuthNext]_authVars, NEW p \in Request
  PROVE  PresentedOK(p)'
<1> USE DEF ServiceInv
<1> SUFFICES ASSUME Rotating(p)', NEW s, NEW h, target'[p].session = s,
                    target'[p].presented = h
             PROVE  [session |-> s, hash |-> h] \in refresh' \/ Unissued(h)'
  BY DEF PresentedOK, Given, Unissued, UnusedHash
<1>1. CASE Rotating(p) /\ target'[p] = target[p]
  <2>1. h \in Hash /\ (Given(s, h) \/ Unissued(h))
    BY <1>1 DEF LocalsOK, GivenInv, PresentedOK
  <2> QED
    BY <1>1, <2>1, PresentedStays
<1>2. ASSUME NEW t \in SessionId, NEW g \in Hash, RefreshGet(p, t, g)
      PROVE  [session |-> s, hash |-> h] \in refresh' \/ Unissued(h)'
  <2>1. s = t /\ h = g
    BY <1>2 DEF RefreshGet, AuthTypeOK
  <2>2. h \in Presentable(s) /\ UNCHANGED <<installed, draft, refresh>>
    BY <1>2, <2>1 DEF RefreshGet, storeVars, historyVars, tokenVars
  <2> QED
    BY <2>2 DEF Presentable, FreshHash, Unissued, UnusedHash
<1> QED
  BY <1>1, <1>2, RotatingMoves

(* A request that is about to answer has just written, or stands.          *)
LEMMA ReplyMoves ==
  ASSUME ServiceInv, [AuthNext]_authVars, NEW p \in Request,
         at'[p] \in {"loginReply", "refreshReply"}
  PROVE  \/ Stands(p)
         \/ /\ target'[p] = target[p] /\ draft'[p] = draft[p]
            /\ \/ at'[p] = "loginReply" /\ Installs(p)
               \/ at'[p] = "refreshReply" /\ Swaps(p)
<1> USE DEF ServiceInv
<1>1. CASE UNCHANGED requestVars
  BY <1>1 DEF requestVars, Stands
<1>2. ASSUME NEW q \in Request, q # p,
             LoginNext(q) \/ RefreshNext(q) \/ TokenNext(q) \/ Abort(q)
      PROVE  Stands(p)
  BY <1>2, OneRequestMoves
<1>3. ~ Finish(p)
  BY DEF Finish, AuthTypeOK
<1>4. ~ (\E a \in Await \ {"loginReply", "refreshReply"} : GoTo(p, a))
  BY DEF GoTo, AuthTypeOK
<1>5. CASE SentAgain
  BY <1>5 DEF SentAgain, requestVars, Stands
<1>6. CASE LoginNext(p)
  <2>1. ASSUME NEW failed, LoginCreate(p, failed)
        PROVE  \/ SentAgain
               \/ /\ at'[p] = "loginReply" /\ Installs(p)
                  /\ target' = target /\ draft' = draft
    BY <1>3, <2>1 DEF LoginCreate, Installs, GoTo, KeepLocals, AuthTypeOK
  <2> QED
    BY <1>3, <1>4, <1>5, <1>6, <2>1
       DEF LoginNext, LoginFind, LoginPrepare, LoginReply, HandOut, Await
<1>7. CASE RefreshNext(p)
  <2>1. ASSUME RefreshRotate(p)
        PROVE  \/ SentAgain
               \/ /\ at'[p] = "refreshReply" /\ Swaps(p)
                  /\ target' = target /\ draft' = draft
    BY <1>3, <2>1 DEF RefreshRotate, Swaps, GoTo, KeepLocals, AuthTypeOK
  <2>2. ~ RefreshFind(p)
    BY <1>4 DEF RefreshFind, Await
  <2> QED
    BY <1>3, <1>4, <1>5, <1>7, <2>1, <2>2
       DEF RefreshNext, RefreshGet, RefreshPurge, RefreshPrepare, RefreshReply,
           HandOut, Await
<1>8. CASE TokenNext(p)
  BY <1>3, <1>4, <1>5, <1>8
     DEF TokenNext, AuthVerify, AuthGet, Logout, LogoutAll, Await
<1> QED
  BY <1>1, <1>2, <1>3, <1>6, <1>7, <1>8
     DEF AuthNext, AuthTick, OperatorNext, ChangeRole, DeleteUser, Abort, authVars

LEMMA StepDrafts ==
  ASSUME ServiceInv, GivenInv, [AuthNext]_authVars, NEW p \in Request
  PROVE  DraftStored(p)'
<1> USE DEF ServiceInv
<1> DEFINE s == target[p].session
<1>1. CASE Stands(p)
  <2>1. ASSUME at[p] = "loginReply"
        PROVE  draft[p].next = birth'[s].hash
    <3>1. s \in SessionId /\ birth[s] # None
      BY <2>1 DEF LocalsOK
    <3>2. birth'[s] = birth[s]
      BY <3>1, StepRefines, KnownStays DEF AuthTypeOK
    <3> QED
      BY <2>1, <3>2 DEF GivenInv, DraftStored
  <2>2. ASSUME at[p] = "refreshReply"
        PROVE  draft[p].next \in installed'[s]
    <3>1. s \in SessionId /\ creation[s] = "acked"
      BY <2>2 DEF LocalsOK, Behind, Known
    <3> QED
      BY <2>2, <3>1, HashesOfStep DEF GivenInv, DraftStored
  <2> QED
    BY <1>1, <2>1, <2>2 DEF DraftStored, Stands
<1>2. CASE /\ target'[p] = target[p] /\ draft'[p] = draft[p]
           /\ at'[p] = "loginReply" /\ Installs(p)
  <2>1. s \in SessionId
    BY <1>2 DEF Installs, LocalsOK
  <2>2. birth'[s].hash = draft[p].next
    BY <1>2, <2>1 DEF Installs, Create, NewSession, AuthTypeOK, TypeOK
  <2> QED
    BY <1>2, <2>2 DEF DraftStored
<1>3. CASE /\ target'[p] = target[p] /\ draft'[p] = draft[p]
           /\ at'[p] = "refreshReply" /\ Swaps(p)
  <2>1. s \in SessionId
    BY <1>3 DEF Swaps, LocalsOK, Behind, Known
  <2>2. draft[p].next \in installed'[s]
    BY <1>3, <2>1 DEF Swaps, RotateSwap, AuthTypeOK, TypeOK
  <2> QED
    BY <1>3, <2>2 DEF DraftStored
<1>4. CASE at'[p] \notin {"loginReply", "refreshReply"}
  BY <1>4 DEF DraftStored
<1> QED
  BY <1>1, <1>2, <1>3, <1>4, ReplyMoves

LEMMA GivenInvariant == AuthSpec => []GivenInv
<1>1. AuthInit => GivenInv
  BY DEF AuthInit, StoreInit, GivenInv, GivenStored, TradedWereGiven, PresentedOK,
     DraftStored, Rotating
<1>2. StoreInv /\ ServiceInv /\ GivenInv /\ [AuthNext]_authVars => GivenInv'
  BY StepGivenStored, StepTradedGiven, StepPresented, StepDrafts DEF GivenInv
<1> QED
  BY <1>1, <1>2, StoreInvUnderService, ServiceInvariant, PTL DEF AuthSpec

(* However many refreshes overlap, are sent again or die before they       *)
(* answer, clients hold one working token of a session at most, and every  *)
(* token before it was traded in by somebody who had been given it.        *)
THEOREM TokensAreUsedInTurn == AuthSpec => []TokensInTurn
<1>1. ASSUME StoreInv, GivenInv, NEW s \in SessionId
      PROVE  LET given == {h \in Hash : Given(s, h)}
             IN  /\ traded[s] \subseteq given
                 /\ Live(s) => given \subseteq traded[s] \cup {session[s].hash}
  <2>1. traded[s] \subseteq {h \in Hash : Given(s, h)}
    BY <1>1 DEF GivenInv, TradedWereGiven, StoreInv, TypeOK
  <2>2. ASSUME NEW h \in Hash, Given(s, h), Live(s)
        PROVE  h \in traded[s] \cup {session[s].hash}
    <3>1. creation[s] = "acked" /\ h \in installed[s]
      BY <1>1, <2>2 DEF GivenInv, GivenStored, Given
    <3> QED
      BY <1>1, <2>2, <3>1 DEF StoreInv, TradedOnce
  <2> QED
    BY <2>1, <2>2
<1>2. StoreInv /\ GivenInv => TokensInTurn
  BY <1>1 DEF TokensInTurn, Given
<1> QED
  BY <1>2, StoreInvUnderService, GivenInvariant, PTL

-----------------------------------------------------------------------------
(* Staleness of roles                                                      *)

(* Cutting a time down to whole seconds keeps it an integer and moves it   *)
(* backwards; a later time can pass a whole second only by reaching it.    *)
LEMMA FloorBounds ==
  ASSUME NEW ms \in Int
  PROVE  FloorToSecond(ms) \in Int /\ FloorToSecond(ms) <= ms
<1>1. ms % Second \in 0 .. (Second - 1)
  BY DurationAssumption
<1> QED
  BY <1>1, DurationAssumption DEF FloorToSecond

LEMMA FloorBelowWhole ==
  ASSUME NEW ms \in Int, NEW whole \in Int, whole % Second = 0,
         FloorToSecond(ms) < whole
  PROVE  ms < whole
<1> DEFINE k == ms \div Second
           m == whole \div Second
<1>0. Second \in Nat \ {0}
  BY DurationAssumption
<1>1. /\ k \in Int /\ m \in Int
      /\ ms = Second * k + (ms % Second) /\ whole = Second * m
      /\ ms % Second \in 0 .. (Second - 1)
  BY <1>0
<1>2. Second * k < Second * m
  BY <1>0, <1>1 DEF FloorToSecond
<1>3. k + 1 <= m
  BY <1>0, <1>1, <1>2
<1>4. Second * (k + 1) <= Second * m
  BY <1>0, <1>1, <1>3
<1>5. Second * (k + 1) = Second * k + Second
  BY <1>0, <1>1
<1> QED
  BY <1>0, <1>1, <1>4, <1>5

LEMMA FloorPlusWhole ==
  ASSUME NEW ms \in Int, NEW t \in Nat, t % Second = 0
  PROVE  (FloorToSecond(ms) + t) % Second = 0
<1> DEFINE k == ms \div Second
           m == t \div Second
<1>0. Second \in Nat \ {0}
  BY DurationAssumption
<1>1. /\ k \in Int /\ m \in Int
      /\ ms = Second * k + (ms % Second) /\ t = Second * m
  BY <1>0
<1>2. FloorToSecond(ms) + t = Second * k + Second * m
  BY <1>0, <1>1 DEF FloorToSecond
<1>3. Second * k + Second * m = Second * (k + m)
  BY <1>0, <1>1
<1>4. (Second * (k + m)) % Second = 0
  BY <1>0, <1>1
<1> QED
  BY <1>2, <1>3, <1>4

(* A request that will sign goes by the role of its user, unless the role  *)
(* has changed since it was read.                                          *)
RowFresh(q) ==
  Signing(q) =>
    \/ row[q].role = users[target[q].user]
    \/ row[q].readAt <= roleSince[target[q].user]

(* A token carries the role of its user, or one that was changed so long   *)
(* before the token expires and no longer.                                 *)
Staleness == MaxHandling + MaxLead + AccessTtl

TokenFresh(token) ==
  /\ token.exp % Second = 0
  /\ token.exp <= now + MaxLead + AccessTtl
  /\ \/ token.role = users[token.user]
     \/ token.exp <= roleSince[token.user] + Staleness

RolesInv ==
  /\ \A q \in Request : RowFresh(q)
  /\ \A token \in access : TokenFresh(token)

LEMMA TimeNeverBack ==
  ASSUME TypeOK, [StoreNext]_storeVars
  PROVE  now' \in Nat /\ now <= now'
<1>1. now' \in Nat
  BY StepType DEF TypeOK
<1> QED
  BY <1>1 DEF StoreNext, Tick, DeleteAll, Acknowledge, Create, RotateSwap,
       RotatePastAbsolute, RotateReuse, Delete, Drop, storeVars, TypeOK

(* A step leaves the row of a user alone, or is the operator's, now.       *)
LEMMA RowsStep ==
  ASSUME AuthTypeOK, [AuthNext]_authVars
  PROVE  \/ users' = users /\ roleSince' = roleSince
         \/ /\ \A u \in User :
                 \/ users'[u] = users[u] /\ roleSince'[u] = roleSince[u]
                 \/ roleSince'[u] = now
            /\ UNCHANGED <<now, requestVars, tokenVars>>
<1>1. CASE OperatorNext
  <2>1. PICK u \in User, r \in Role \cup {None} :
          /\ users' = [users EXCEPT ![u] = r]
          /\ roleSince' = [roleSince EXCEPT ![u] = now]
          /\ UNCHANGED <<storeVars, requestVars, tokenVars>>
    BY <1>1 DEF OperatorNext, ChangeRole, DeleteUser
  <2> QED
    BY <2>1 DEF AuthTypeOK, storeVars
<1>2. ASSUME NEW q \in Request, LoginNext(q)
      PROVE  users' = users /\ roleSince' = roleSince
  BY <1>2 DEF LoginNext, LoginFind, LoginPrepare, LoginCreate, LoginReply,
       authHistory
<1>3. ASSUME NEW q \in Request, RefreshNext(q)
      PROVE  users' = users /\ roleSince' = roleSince
  BY <1>3 DEF RefreshNext, RefreshGet, RefreshFind, RefreshPurge,
       RefreshPrepare, RefreshRotate, RefreshReply, RevokeAll, authHistory
<1>4. ASSUME NEW q \in Request, TokenNext(q)
      PROVE  users' = users /\ roleSince' = roleSince
  BY <1>4 DEF TokenNext, AuthVerify, AuthGet, Logout, LogoutAll, RevokeAll,
       authHistory
<1>5. ASSUME NEW q \in Request, Abort(q)
      PROVE  users' = users /\ roleSince' = roleSince
  BY <1>5 DEF Abort, authHistory
<1>6. CASE AuthTick \/ UNCHANGED authVars
  BY <1>6 DEF AuthTick, authVars, authHistory
<1> QED
  BY <1>1, <1>2, <1>3, <1>4, <1>5, <1>6 DEF AuthNext

LEMMA TokenStaysFresh ==
  ASSUME ServiceInv, [AuthNext]_authVars, NEW token \in access,
         TokenFresh(token)
  PROVE  TokenFresh(token)'
<1> USE DEF ServiceInv
<1>1. /\ now \in Nat /\ now' \in Nat /\ now <= now'
  BY StepRefines, TimeNeverBack DEF AuthTypeOK, TypeOK
<1>2. /\ token.user \in User /\ token.exp \in Int
      /\ roleSince[token.user] \in Nat /\ roleSince'[token.user] \in Nat
  BY StepAuthType DEF AuthTypeOK, AccessToken
<1>3. /\ MaxLead \in Nat /\ AccessTtl \in Nat /\ MaxHandling \in Nat
  BY DurationAssumption, AuthAssumption
<1>4. token.exp <= now' + MaxLead + AccessTtl
  BY <1>1, <1>2, <1>3 DEF TokenFresh
<1>5. \/ users'[token.user] = users[token.user]
         /\ roleSince'[token.user] = roleSince[token.user]
      \/ roleSince'[token.user] = now
  BY <1>2, RowsStep
<1>6. CASE roleSince'[token.user] = now
  <2>1. token.exp <= roleSince'[token.user] + (MaxHandling + MaxLead + AccessTtl)
    BY <1>1, <1>2, <1>3, <1>6 DEF TokenFresh
  <2> QED
    BY <1>4, <2>1 DEF TokenFresh, Staleness
<1> QED
  BY <1>4, <1>5, <1>6 DEF TokenFresh, Staleness

(* A token that is signed now expires an access-token lifetime from now,   *)
(* and the row it was signed by is MaxHandling old at most.                *)
LEMMA SignedFresh ==
  ASSUME ServiceInv, NEW q \in Request, RowFresh(q), NEW ts \in DateNow,
         at[q] \in {"loginReply", "refreshReply"},
         now' = now, users' = users, roleSince' = roleSince,
         NEW token, token = Sign(target[q].user, target[q].session, row[q].role, ts)
  PROVE  TokenFresh(token)'
<1> USE DEF ServiceInv
<1>1. /\ Signing(q) /\ target[q].user \in User
      /\ row[q].readAt <= now /\ now <= row[q].readAt + MaxHandling
  BY DEF Signing, LocalsOK, Ahead, Behind, Known
<1>2. /\ now \in Nat /\ row[q].readAt \in Nat
      /\ roleSince[target[q].user] \in Nat
      /\ MaxLead \in Nat /\ AccessTtl \in Nat /\ MaxHandling \in Nat
      /\ AccessTtl % Second = 0
  BY <1>1, DurationAssumption, AuthAssumption DEF AuthTypeOK, TypeOK
<1>3. ts \in Int /\ ts <= now + MaxLead
  BY DateNowBounds
<1>4. /\ token.exp = FloorToSecond(ts) + AccessTtl
      /\ token.role = row[q].role /\ token.user = target[q].user
  BY DEF Sign
<1>5. FloorToSecond(ts) \in Int /\ FloorToSecond(ts) <= ts
  BY <1>3, FloorBounds
<1>6. token.exp % Second = 0
  BY <1>2, <1>3, <1>4, FloorPlusWhole
<1>7. token.exp <= now + MaxLead + AccessTtl
  BY <1>2, <1>3, <1>4, <1>5
<1>8. row[q].readAt <= roleSince[token.user] =>
        token.exp <= roleSince[token.user] + (MaxHandling + MaxLead + AccessTtl)
  BY <1>1, <1>2, <1>3, <1>4, <1>5
<1> QED
  BY <1>1, <1>4, <1>6, <1>7, <1>8 DEF TokenFresh, Staleness, RowFresh

LEMMA StepTokensFresh ==
  ASSUME ServiceInv, RolesInv, [AuthNext]_authVars, NEW token \in access'
  PROVE  TokenFresh(token)'
<1> USE DEF ServiceInv, RolesInv
<1>1. CASE token \in access
  BY <1>1, TokenStaysFresh
<1>2. ASSUME NEW q \in Request, NEW ts \in DateNow, token \notin access,
             LoginReply(q, ts) \/ RefreshReply(q, ts)
      PROVE  TokenFresh(token)'
  <2>1. /\ at[q] \in {"loginReply", "refreshReply"} /\ now' = now
        /\ users' = users /\ roleSince' = roleSince
        /\ token = Sign(target[q].user, target[q].session, row[q].role, ts)
    BY <1>2 DEF LoginReply, RefreshReply, HandOut, Acknowledge, storeVars,
                authHistory
  <2> QED
    BY <2>1, SignedFresh
<1>3. ASSUME token \notin access
      PROVE  \E q \in Request, ts \in DateNow : LoginReply(q, ts) \/ RefreshReply(q, ts)
  BY <1>3 DEF AuthNext, LoginNext, RefreshNext, TokenNext, OperatorNext, AuthTick,
       ChangeRole, DeleteUser, LoginFind, LoginPrepare, LoginCreate, RefreshGet,
       RefreshFind, RefreshPurge, RefreshPrepare, RefreshRotate, AuthVerify,
       AuthGet, Logout, LogoutAll, RevokeAll, Abort, authVars, tokenVars
<1> QED
  BY <1>1, <1>2, <1>3

LEMMA RowStaysFresh ==
  ASSUME ServiceInv, [AuthNext]_authVars, NEW p \in Request,
         RowFresh(p), Stands(p)
  PROVE  RowFresh(p)'
<1> USE DEF ServiceInv
<1>1. Signing(p)' = Signing(p) /\ row'[p] = row[p] /\ target'[p] = target[p]
  BY DEF Stands, Signing
<1>2. Signing(p) => target[p].user \in User /\ row[p].readAt <= now
  BY DEF Signing, LocalsOK, Ahead, Behind, Known
<1>3. Signing(p) =>
        \/ /\ users'[target[p].user] = users[target[p].user]
           /\ roleSince'[target[p].user] = roleSince[target[p].user]
        \/ roleSince'[target[p].user] = now
  BY <1>2, RowsStep
<1> QED
  BY <1>1, <1>2, <1>3 DEF RowFresh

(* A request goes by the row it has just read, or carries it along.        *)
LEMMA MoverRowFresh ==
  ASSUME ServiceInv, RolesInv, NEW q \in Request,
         LoginNext(q) \/ RefreshNext(q) \/ TokenNext(q) \/ Abort(q)
  PROVE  RowFresh(q)'
<1> USE DEF ServiceInv
<1>1. users' = users /\ roleSince' = roleSince
  BY DEF LoginNext, RefreshNext, TokenNext, LoginFind, LoginPrepare, LoginCreate,
       LoginReply, RefreshGet, RefreshFind, RefreshPurge, RefreshPrepare,
       RefreshRotate, RefreshReply, AuthVerify, AuthGet, Logout, LogoutAll,
       RevokeAll, Abort, authHistory
<1>2. RowFresh(q)
  BY DEF RolesInv
<1>3. ASSUME at'[q] \in {"idle", "refreshFind", "refreshPurge", "authGet", "authed"}
      PROVE  RowFresh(q)'
  BY <1>3 DEF RowFresh, Signing
<1>4. CASE Finish(q)
  BY <1>3, <1>4 DEF Finish, AuthTypeOK
<1>5. ASSUME row'[q] = row[q], target'[q].user = target[q].user, Signing(q)
      PROVE  RowFresh(q)'
  BY <1>1, <1>2, <1>5 DEF RowFresh
<1>6. CASE SentAgain
  BY <1>1, <1>2, <1>6 DEF SentAgain, requestVars, RowFresh, Signing
<1>7. CASE LoginNext(q)
  <2>1. ASSUME NEW u \in User, LoginFind(q, u)
        PROVE  RowFresh(q)'
    <3>1. row'[q].role = users[u] /\ target'[q].user = u
      BY <2>1 DEF LoginFind, AuthTypeOK
    <3> QED
      BY <1>1, <3>1 DEF RowFresh
  <2>2. ASSUME NEW s \in SessionId, NEW h \in Hash, NEW ts \in DateNow,
               LoginPrepare(q, s, h, ts)
        PROVE  RowFresh(q)'
    BY <1>5, <2>2 DEF LoginPrepare, Signing, AuthTypeOK
  <2>3. ASSUME NEW failed \in SUBSET {"set", "sadd"}, LoginCreate(q, failed)
        PROVE  RowFresh(q)'
    BY <1>4, <1>5, <1>6, <2>3 DEF LoginCreate, KeepLocals, Signing
  <2> QED
    BY <1>4, <1>7, <2>1, <2>2, <2>3 DEF LoginNext, LoginReply, HandOut
<1>8. CASE RefreshNext(q)
  <2>1. ASSUME NEW s \in SessionId, NEW p \in Hash, RefreshGet(q, s, p)
        PROVE  RowFresh(q)'
    BY <1>3, <2>1 DEF RefreshGet, GoTo, AuthTypeOK
  <2>2. CASE RefreshFind(q)
    <3>1. CASE users[target[q].user] = None
      BY <1>3, <2>2, <3>1 DEF RefreshFind, GoTo, AuthTypeOK
    <3>2. CASE users[target[q].user] # None
      <4>1. row'[q].role = users[target[q].user] /\ target' = target
        BY <2>2, <3>2 DEF RefreshFind, AuthTypeOK
      <4> QED
        BY <1>1, <4>1 DEF RowFresh
    <3> QED
      BY <3>1, <3>2
  <2>3. CASE RefreshPurge(q)
    BY <1>4, <1>6, <2>3 DEF RefreshPurge
  <2>4. ASSUME NEW h \in Hash, NEW ts \in DateNow, RefreshPrepare(q, h, ts)
        PROVE  RowFresh(q)'
    BY <1>5, <2>4 DEF RefreshPrepare, Signing
  <2>5. CASE RefreshRotate(q)
    BY <1>4, <1>5, <1>6, <2>5 DEF RefreshRotate, KeepLocals, Signing
  <2> QED
    BY <1>4, <1>8, <2>1, <2>2, <2>3, <2>4, <2>5 DEF RefreshNext, RefreshReply, HandOut
<1>9. CASE TokenNext(q)
  <2>1. ASSUME NEW token \in access, NEW ts \in DateNow, AuthVerify(q, token, ts)
        PROVE  RowFresh(q)'
    BY <1>3, <2>1 DEF AuthVerify, GoTo, AuthTypeOK
  <2>2. CASE AuthGet(q)
    BY <1>3, <1>4, <2>2 DEF AuthGet, GoTo, AuthTypeOK
  <2> QED
    BY <1>4, <1>6, <1>9, <2>1, <2>2 DEF TokenNext, Logout, LogoutAll
<1> QED
  BY <1>4, <1>7, <1>8, <1>9 DEF Abort

LEMMA RolesStep ==
  ASSUME ServiceInv, RolesInv, [AuthNext]_authVars
  PROVE  RolesInv'
<1>1. ASSUME NEW p \in Request
      PROVE  RowFresh(p)'
  <2>0. RowFresh(p)
    BY DEF RolesInv
  <2>1. CASE UNCHANGED requestVars
    BY <2>0, <2>1, RowStaysFresh DEF requestVars, Stands
  <2>2. ASSUME NEW q \in Request,
               LoginNext(q) \/ RefreshNext(q) \/ TokenNext(q) \/ Abort(q)
        PROVE  RowFresh(p)'
    <3>1. p # q => Stands(p)
      BY <2>2, OneRequestMoves DEF ServiceInv
    <3> QED
      BY <2>0, <2>2, <3>1, MoverRowFresh, RowStaysFresh
  <2> QED
    BY <2>1, <2>2 DEF AuthNext, AuthTick, OperatorNext, ChangeRole, DeleteUser,
         authVars
<1> QED
  BY <1>1, StepTokensFresh DEF RolesInv

LEMMA FreshIsBounded ==
  ASSUME ServiceInv, RolesInv
  PROVE  StaleRoleBounded
<1> USE DEF ServiceInv
<1> SUFFICES ASSUME NEW token \in access,
                    Unexpired(token, now - MaxSkew),
                    token.role # users[token.user]
             PROVE  now - roleSince[token.user]
                      < AccessTtl + MaxHandling + MaxSkew + MaxLead
  BY DEF StaleRoleBounded
<1>1. /\ token.exp \in Int /\ roleSince[token.user] \in Nat /\ now \in Nat
      /\ MaxSkew \in Nat /\ MaxLead \in Nat /\ AccessTtl \in Nat
      /\ MaxHandling \in Nat
  BY DurationAssumption, AuthAssumption DEF AuthTypeOK, TypeOK, AccessToken
<1>2. /\ token.exp % Second = 0
      /\ token.exp <= roleSince[token.user] + (MaxHandling + MaxLead + AccessTtl)
  BY DEF RolesInv, TokenFresh, Staleness
<1>3. now - MaxSkew < token.exp
  BY <1>1, <1>2, FloorBelowWhole DEF Unexpired
<1> QED
  BY <1>1, <1>2, <1>3

(* A role that was taken from a user is accepted for the lifetime of one   *)
(* access token and the delays the assumptions name, never longer, for any *)
(* number of requests and of changes.                                      *)
THEOREM StalenessBounded == AuthSpec => []StaleRoleBounded
<1>1. AuthInit => RolesInv
  BY DEF AuthInit, RolesInv, RowFresh, Signing
<1>2. ServiceInv /\ RolesInv /\ [AuthNext]_authVars => RolesInv'
  BY RolesStep
<1>3. ServiceInv /\ RolesInv => StaleRoleBounded
  BY FreshIsBounded
<1> QED
  BY <1>1, <1>2, <1>3, ServiceInvariant, PTL DEF AuthSpec

=============================================================================
