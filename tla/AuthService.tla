---------------------------- MODULE AuthService ----------------------------
(***************************************************************************)
(* AuthService and the auth middleware on top of the session store.  Each  *)
(* request is a process that runs one await after another: between two of  *)
(* its steps any other request, the operator's SQL, the clock and a crash  *)
(* may come in.  A command whose reply is lost is sent again by ioredis,   *)
(* so a step may run and leave its request where it was.                   *)
(***************************************************************************)
EXTENDS SessionStore

CONSTANTS
  Request,
  AccessTtl,      \* ACCESS_TOKEN_EXPIRES_IN
  MaxSkew,        \* a replica's clock is at most this far behind Redis
  MaxHandling     \* from reading a user's row to answering the request

ASSUME AuthAssumption ==
  /\ AccessTtl \in Nat /\ AccessTtl % Second = 0
  /\ MaxSkew \in Nat /\ MaxHandling \in Nat
  /\ MaxSkew + MaxHandling <= MaxLag
  /\ None \notin User \cup SessionId \cup Role

VARIABLES
  users,     \* the users table: the role of each user, None once deleted
  at,        \* the await each request stands before
  target,    \* the session, its user and the presented hash
  row,       \* the role the request goes by, and when it was read
  draft,     \* the hash of the generated token and the reading of Date.now()
  access,    \* access tokens that clients hold
  refresh,   \* refresh tokens that clients hold
  roleSince, \* history: when the row of the user last changed
  ended      \* history: sessions revoked after login had answered

requestVars == <<at, target, row, draft>>
tokenVars == <<access, refresh>>
authHistory == <<roleSince, ended>>
authVars == <<storeVars, users, requestVars, tokenVars, authHistory>>

Await == {"idle", "loginPrepare", "loginCreate", "loginReply",
          "refreshFind", "refreshPurge", "refreshPrepare", "refreshRotate",
          "refreshReply", "authGet", "authed"}

NoTarget == [user |-> None, session |-> None, presented |-> None]
NoRow == [role |-> None, readAt |-> 0]
NoDraft == [next |-> None, ts |-> 0]

AccessToken == [user : User, session : SessionId, role : Role, exp : Int]
RefreshToken == [session : SessionId, hash : Hash]

-----------------------------------------------------------------------------
(* Helpers                                                                 *)

DateNow_Hoisted == {0}
DateNow == (now - MaxSkew) .. (now + MaxLead)

FloorToSecond(ms) == ms - (ms % Second)

(* randomUUID() and randomBytes(): never a value that is in use anywhere.  *)
FreshSession(s) ==
  /\ birth[s] = None
  /\ \A q \in Request : target[q].session # s

FreshHash(h) ==
  /\ UnusedHash(h)
  /\ \A q \in Request : h # draft[q].next /\ h # target[q].presented

(* jwt.sign writes iat in whole seconds and exp from it; jwt.verify        *)
(* refuses a token from its exp on.                                        *)
Sign(u, s, r, ts) ==
  [user |-> u, session |-> s, role |-> r, exp |-> FloorToSecond(ts) + AccessTtl]

Unexpired(token, ts) == FloorToSecond(ts) < token.exp

GoTo(q, await) == at' = [at EXCEPT ![q] = await]

(* The request is answered or thrown out; its locals are gone.             *)
Finish(q) ==
  /\ at' = [at EXCEPT ![q] = "idle"]
  /\ target' = [target EXCEPT ![q] = NoTarget]
  /\ row' = [row EXCEPT ![q] = NoRow]
  /\ draft' = [draft EXCEPT ![q] = NoDraft]

KeepLocals == UNCHANGED <<target, row, draft>>

(* The reply of a Redis command was lost and the command is sent again.    *)
SentAgain == UNCHANGED requestVars

(* What becomes of the request once the tokens are signed.                 *)
HandOut_OldToken(q, ts) ==
  LET t == target[q]
  IN /\ access' = access \cup {Sign(t.user, t.session, row[q].role, ts)}
     /\ refresh' = refresh \cup {[session |-> t.session, hash |-> t.presented]}
     /\ Finish(q)
HandOut(q, ts) ==
  LET t == target[q]
  IN /\ access' = access \cup {Sign(t.user, t.session, row[q].role, ts)}
     /\ refresh' = refresh \cup {[session |-> t.session, hash |-> draft[q].next]}
     /\ Finish(q)

-----------------------------------------------------------------------------
(* POST /v1/login, from the SELECT on: a refused login changes nothing     *)
(* here (LoginThrottle counts it).                                         *)

LoginFind(q, u) ==
  /\ at[q] = "idle"
  /\ users[u] # None
  /\ GoTo(q, "loginPrepare")
  /\ target' = [target EXCEPT ![q] =
                  [user |-> u, session |-> None, presented |-> None]]
  /\ row' = [row EXCEPT ![q] = [role |-> users[u], readAt |-> now]]
  /\ UNCHANGED <<storeVars, users, draft, tokenVars, authHistory>>

(* bcrypt and the throttle's reset are over: session id, token, Date.now() *)
LoginPrepare(q, s, h, ts) ==
  /\ at[q] = "loginPrepare"
  /\ FreshSession(s) /\ FreshHash(h)
  /\ GoTo(q, "loginCreate")
  /\ target' = [target EXCEPT ![q] =
                  [user |-> target[q].user, session |-> s, presented |-> None]]
  /\ draft' = [draft EXCEPT ![q] = [next |-> h, ts |-> ts]]
  /\ UNCHANGED <<storeVars, users, row, tokenVars, authHistory>>

LoginCreate(q, failed) ==
  /\ at[q] = "loginCreate"
  /\ Create(target[q].session, target[q].user, row[q].role, draft[q].next,
            draft[q].ts, failed)
  /\ \/ SentAgain
     \/ ExecSucceeded(failed) /\ GoTo(q, "loginReply") /\ KeepLocals
     \/ ~ ExecSucceeded(failed) /\ Finish(q)
  /\ UNCHANGED <<users, tokenVars, authHistory>>

(* The profile-cache write in between cannot fail the login.               *)
LoginReply(q, ts) ==
  /\ at[q] = "loginReply"
  /\ Acknowledge(target[q].session)
  /\ HandOut(q, ts)
  /\ UNCHANGED <<users, authHistory>>

-----------------------------------------------------------------------------
(* POST /v1/auth/refresh                                                   *)

(* A client presents a token it was given, or one that nobody was given.   *)
Presentable(s) ==
  {h \in Hash : [session |-> s, hash |-> h] \in refresh \/ FreshHash(h)}

RefreshGet(q, s, p) ==
  /\ at[q] = "idle"
  /\ creation[s] = "acked"
  /\ p \in Presentable(s)
  /\ Live(s)
  /\ GoTo(q, "refreshFind")
  /\ target' = [target EXCEPT ![q] =
                  [user |-> session[s].user, session |-> s, presented |-> p]]
  /\ UNCHANGED <<storeVars, users, row, draft, tokenVars, authHistory>>

RefreshFind_SessionRole(q) ==
  LET stored == session[target[q].session]
  IN /\ at[q] = "refreshFind"
     /\ stored # None
     /\ GoTo(q, IF users[target[q].user] = None
                THEN "refreshPurge" ELSE "refreshPrepare")
     /\ row' = [row EXCEPT ![q] = [role |-> stored.role, readAt |-> now]]
     /\ UNCHANGED <<storeVars, users, target, draft, tokenVars, authHistory>>

RefreshFind(q) ==
  LET role == users[target[q].user]
  IN /\ at[q] = "refreshFind"
     /\ GoTo(q, IF role = None THEN "refreshPurge" ELSE "refreshPrepare")
     /\ row' = [row EXCEPT ![q] = IF role = None THEN NoRow
                                  ELSE [role |-> role, readAt |-> now]]
     /\ UNCHANGED <<storeVars, users, target, draft, tokenVars, authHistory>>

(* The sessions that clients have and a DeleteAll of the user now ends.    *)
Answered(u) ==
  {s \in SessionId : creation[s] = "acked" /\ Owner(s) = u}

RevokeAll(u) ==
  /\ DeleteAll(u)
  /\ ended' = ended \cup Answered(u)
  /\ UNCHANGED <<users, tokenVars, roleSince>>

RefreshPurge(q) ==
  /\ at[q] = "refreshPurge"
  /\ RevokeAll(target[q].user)
  /\ SentAgain \/ Finish(q)

RefreshPrepare(q, h, ts) ==
  /\ at[q] = "refreshPrepare"
  /\ FreshHash(h)
  /\ GoTo(q, "refreshRotate")
  /\ draft' = [draft EXCEPT ![q] = [next |-> h, ts |-> ts]]
  /\ UNCHANGED <<storeVars, users, target, row, tokenVars, authHistory>>

RefreshRotate(q) ==
  LET s  == target[q].session
      u  == target[q].user
      p  == target[q].presented
      ts == draft[q].ts
  IN /\ at[q] = "refreshRotate"
     /\ \/ /\ RotateSwap(s, p, draft[q].next, row[q].role, ts)
           /\ SentAgain \/ (GoTo(q, "refreshReply") /\ KeepLocals)
        \/ /\ \/ RotatePastAbsolute(s, u, p, ts)
              \/ RotateReuse(s, u, p, ts)
              \/ RotateRefused(s, p, ts)
           /\ SentAgain \/ Finish(q)
     /\ UNCHANGED <<users, tokenVars, authHistory>>

RefreshReply(q, ts) ==
  /\ at[q] = "refreshReply"
  /\ HandOut(q, ts)
  /\ UNCHANGED <<storeVars, users, authHistory>>

-----------------------------------------------------------------------------
(* Requests that carry an access token                                     *)

AuthVerify(q, token, ts) ==
  /\ at[q] = "idle"
  /\ Unexpired(token, ts)
  /\ GoTo(q, "authGet")
  /\ target' = [target EXCEPT ![q] =
                  [user |-> token.user, session |-> token.session,
                   presented |-> None]]
  /\ row' = [row EXCEPT ![q] = [role |-> token.role, readAt |-> 0]]
  /\ UNCHANGED <<storeVars, users, draft, tokenVars, authHistory>>

AuthGet(q) ==
  LET stored == session[target[q].session]
  IN /\ at[q] = "authGet"
     /\ IF stored # None /\ stored.user = target[q].user
          THEN GoTo(q, "authed") /\ KeepLocals
          ELSE Finish(q)
     /\ UNCHANGED <<storeVars, users, tokenVars, authHistory>>

Logout(q) ==
  /\ at[q] = "authed"
  /\ Delete(target[q].session, target[q].user)
  /\ ended' = ended \cup {target[q].session}
  /\ SentAgain \/ Finish(q)
  /\ UNCHANGED <<users, tokenVars, roleSince>>

LogoutAll(q) ==
  /\ at[q] = "authed"
  /\ RevokeAll(target[q].user)
  /\ SentAgain \/ Finish(q)

(* The process dies, or an awaited call rejects and errorHandler answers;  *)
(* any handler that does not write sessions is over in the same way.       *)
Abort(q) ==
  /\ at[q] # "idle"
  /\ Finish(q)
  /\ UNCHANGED <<storeVars, users, tokenVars, authHistory>>

-----------------------------------------------------------------------------
(* Around the requests                                                     *)

(* UPDATE users SET role and DELETE FROM users, run by an operator.        *)
ChangeRole(u, r) ==
  /\ users[u] \notin {None, r}
  /\ users' = [users EXCEPT ![u] = r]
  /\ roleSince' = [roleSince EXCEPT ![u] = now]
  /\ UNCHANGED <<storeVars, requestVars, tokenVars, ended>>

DeleteUser(u) ==
  /\ users[u] # None
  /\ users' = [users EXCEPT ![u] = None]
  /\ roleSince' = [roleSince EXCEPT ![u] = now]
  /\ UNCHANGED <<storeVars, requestVars, tokenVars, ended>>

(* A login or refresh that has read the user's row.                        *)
Signing(q) ==
  at[q] \in {"loginPrepare", "loginCreate", "loginReply",
             "refreshPrepare", "refreshRotate", "refreshReply"}

AuthTick ==
  /\ \A q \in Request : Signing(q) => now - row[q].readAt < MaxHandling
  /\ Tick
  /\ UNCHANGED <<users, requestVars, tokenVars, authHistory>>

-----------------------------------------------------------------------------
AuthInit ==
  /\ StoreInit
  /\ users \in [User -> Role]
  /\ at = [q \in Request |-> "idle"]
  /\ target = [q \in Request |-> NoTarget]
  /\ row = [q \in Request |-> NoRow]
  /\ draft = [q \in Request |-> NoDraft]
  /\ access = {} /\ refresh = {}
  /\ roleSince = [u \in User |-> 0]
  /\ ended = {}

LoginNext(q) ==
  \/ \E u \in User : LoginFind(q, u)
  \/ \E s \in SessionId, h \in Hash, ts \in DateNow : LoginPrepare(q, s, h, ts)
  \/ \E failed \in SUBSET {"set", "sadd"} : LoginCreate(q, failed)
  \/ \E ts \in DateNow : LoginReply(q, ts)

RefreshNext(q) ==
  \/ \E s \in SessionId, p \in Hash : RefreshGet(q, s, p)
  \/ RefreshFind(q)
  \/ RefreshPurge(q)
  \/ \E h \in Hash, ts \in DateNow : RefreshPrepare(q, h, ts)
  \/ RefreshRotate(q)
  \/ \E ts \in DateNow : RefreshReply(q, ts)

TokenNext(q) ==
  \/ \E token \in access, ts \in DateNow : AuthVerify(q, token, ts)
  \/ AuthGet(q)
  \/ Logout(q)
  \/ LogoutAll(q)

OperatorNext ==
  \/ \E u \in User, r \in Role : ChangeRole(u, r)
  \/ \E u \in User : DeleteUser(u)

AuthNext ==
  \/ AuthTick
  \/ OperatorNext
  \/ \E q \in Request : LoginNext(q) \/ RefreshNext(q) \/ TokenNext(q) \/ Abort(q)

AuthSpec == AuthInit /\ [][AuthNext]_authVars

-----------------------------------------------------------------------------
(* Properties                                                              *)

(* Types of the requests, the tokens and the history.                      *)
AuthTypeOK ==
  /\ TypeOK
  /\ users \in [User -> Role \cup {None}]
  /\ at \in [Request -> Await]
  /\ target \in [Request -> [user : User \cup {None},
                             session : SessionId \cup {None},
                             presented : Hash \cup {None}]]
  /\ row \in [Request -> [role : Role \cup {None}, readAt : Nat]]
  /\ draft \in [Request -> [next : Hash \cup {None}, ts : Int]]
  /\ access \subseteq AccessToken
  /\ refresh \subseteq RefreshToken
  /\ roleSince \in [User -> Nat]
  /\ ended \subseteq SessionId

(* Once a logout, a logout-all or the purge of a deleted user has run,     *)
(* no request that was under way at that time, no command sent again and   *)
(* no late login brings one of the revoked sessions back.                  *)
RevocationFinal ==
  \A s \in ended : Live(s) => now + MaxLead > session[s].absoluteExpiresAt

(* The refresh tokens of a session are used in turn: only a token that a   *)
(* client was given is ever traded in, and of those it was given for a     *)
(* session that goes on, all but the current one have been; so however     *)
(* refreshes overlap, are sent again or die before they answer, nobody     *)
(* holds two tokens that work, or one that was passed over.                *)
TokensInTurn ==
  \A s \in SessionId :
    LET given == {h \in Hash : [session |-> s, hash |-> h] \in refresh}
    IN  /\ traded[s] \subseteq given
        /\ Live(s) => given \subseteq traded[s] \cup {session[s].hash}

(* A role that the users table no longer holds, or a deleted user's, is    *)
(* not accepted for longer than an access token lives, plus the time a     *)
(* request may take from reading the row to signing and the clocks'        *)
(* differences, however requests and changes interleave.                   *)
StaleRoleBounded ==
  \A token \in access :
    Unexpired(token, now - MaxSkew) /\ token.role # users[token.user]
      => now - roleSince[token.user]
           < AccessTtl + MaxHandling + MaxSkew + MaxLead

=============================================================================
