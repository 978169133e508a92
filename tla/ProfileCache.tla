---------------------------- MODULE ProfileCache ----------------------------
(***************************************************************************)
(* GET /v1/users/me and the read-through cache of profiles in Redis.  A    *)
(* request passes authentication, asks the cache, falls back to PostgreSQL *)
(* and repopulates the cache; a login writes it too.  Nothing invalidates  *)
(* an entry: it ends by its TTL.  Any command may fail, or be sent again   *)
(* by ioredis after its reply is lost, and an operator's SQL may come      *)
(* between any two steps.                                                  *)
(***************************************************************************)
EXTENDS Naturals

CONSTANTS
  User, Profile, Request, None,
  CacheTtl,       \* DEFAULT_TTL_SECONDS
  MaxHandling,    \* from reading a user's row to the last write of it
  MaxTime         \* where the clock of a run ends

ASSUME CacheAssumption ==
  /\ CacheTtl \in Nat \ {0} /\ MaxHandling \in Nat /\ MaxTime \in Nat
  /\ None \notin Profile \cup User

VARIABLES
  now,
  users,        \* the profile in the row of each user, None once deleted
  changedAt,    \* history: when the row last changed
  cache,        \* user-<id> in Redis
  cacheExpiry,
  at,           \* the await each request stands before
  subject,      \* whose profile it is about
  found,        \* the profile it read from PostgreSQL, and when
  answer        \* what the client has been told

cacheVars == <<cache, cacheExpiry>>
rowVars == <<users, changedAt>>
localVars == <<subject, found>>
profileVars == <<now, rowVars, cacheVars, at, localVars, answer>>

Await == {"idle", "authenticate", "readCache", "findUser", "store"}
NoFinding == [profile |-> None, readAt |-> 0]

GoTo(r, await) == at' = [at EXCEPT ![r] = await]

(* The request is over; the next one that uses r starts from nothing.      *)
Finish(r, what) ==
  /\ at' = [at EXCEPT ![r] = "idle"]
  /\ subject' = [subject EXCEPT ![r] = None]
  /\ found' = [found EXCEPT ![r] = NoFinding]
  /\ answer' = [answer EXCEPT ![r] = what]

-----------------------------------------------------------------------------
(* GET /v1/users/me                                                        *)

GetProfile(r, u) ==
  /\ at[r] = "idle"
  /\ GoTo(r, "authenticate")
  /\ subject' = [subject EXCEPT ![r] = u]
  /\ answer' = [answer EXCEPT ![r] = None]
  /\ UNCHANGED <<now, rowVars, cacheVars, found>>

(* The session of a valid token is read from Redis.                        *)
Authenticate(r) ==
  /\ at[r] = "authenticate"
  /\ \/ GoTo(r, "readCache") /\ UNCHANGED <<localVars, answer>>
     \/ Finish(r, "error")
  /\ UNCHANGED <<now, rowVars, cacheVars>>

CacheHit_Extends(r) ==
  LET u == subject[r]
  IN /\ at[r] = "readCache"
     /\ cache[u] # None
     /\ Finish(r, "profile")
     /\ cacheExpiry' = [cacheExpiry EXCEPT ![u] = now + CacheTtl]
     /\ UNCHANGED <<now, rowVars, cache>>
CacheHit(r) ==
  /\ at[r] = "readCache"
  /\ cache[subject[r]] # None
  /\ Finish(r, "profile")
  /\ UNCHANGED <<now, rowVars, cacheVars>>

(* Nothing there, or the command failed, or the entry is no JSON.          *)
CacheMiss(r) ==
  /\ at[r] = "readCache"
  /\ GoTo(r, "findUser")
  /\ UNCHANGED <<now, rowVars, cacheVars, localVars, answer>>

Found(r, u) ==
  /\ GoTo(r, "store")
  /\ subject' = [subject EXCEPT ![r] = u]
  /\ found' = [found EXCEPT ![r] = [profile |-> users[u], readAt |-> now]]
  /\ UNCHANGED answer

FindUser_Unchecked(r) ==
  /\ at[r] = "findUser"
  /\ Found(r, subject[r]) \/ Finish(r, "error")
  /\ UNCHANGED <<now, rowVars, cacheVars>>
FindUser(r) ==
  /\ at[r] = "findUser"
  /\ \/ users[subject[r]] # None /\ Found(r, subject[r])
     \/ users[subject[r]] = None /\ Finish(r, "notFound")
     \/ Finish(r, "error")
  /\ UNCHANGED <<now, rowVars, cacheVars>>

(* A login reads the row when it begins and caches it when its session is  *)
(* written.                                                                *)
LoginFind(r, u) ==
  /\ at[r] = "idle"
  /\ users[u] # None
  /\ Found(r, u)
  /\ UNCHANGED <<now, rowVars, cacheVars>>

(* SET user-<id> EX; its failure is logged and no more.                    *)
Store(r) ==
  LET u == subject[r]
  IN /\ at[r] = "store"
     /\ \/ /\ cache' = [cache EXCEPT ![u] = found[r].profile]
           /\ cacheExpiry' = [cacheExpiry EXCEPT ![u] = now + CacheTtl]
           /\ \/ UNCHANGED <<at, localVars, answer>>     \* and is sent again
              \/ Finish(r, "profile")
        \/ UNCHANGED cacheVars /\ Finish(r, "profile")
     /\ UNCHANGED <<now, rowVars>>

(* The process dies.                                                       *)
Crash(r) ==
  /\ at[r] # "idle"
  /\ Finish(r, None)
  /\ UNCHANGED <<now, rowVars, cacheVars>>

-----------------------------------------------------------------------------
(* UPDATE users and DELETE FROM users.                                     *)
ChangeRow(u, p) ==
  /\ users[u] \notin {None, p}
  /\ users' = [users EXCEPT ![u] = p]
  /\ changedAt' = [changedAt EXCEPT ![u] = now]
  /\ UNCHANGED <<now, cacheVars, at, localVars, answer>>

(* A key is expired when the clock is past its deadline.                   *)
Tick ==
  /\ now < MaxTime
  /\ \A r \in Request : at[r] = "store" => now - found[r].readAt < MaxHandling
  /\ now' = now + 1
  /\ cache' = [u \in User |-> IF now' > cacheExpiry[u] THEN None ELSE cache[u]]
  /\ UNCHANGED <<rowVars, cacheExpiry, at, localVars, answer>>

-----------------------------------------------------------------------------
ProfileInit ==
  /\ now = 0
  /\ users \in [User -> Profile]
  /\ changedAt = [u \in User |-> 0]
  /\ cache = [u \in User |-> None]
  /\ cacheExpiry = [u \in User |-> 0]
  /\ at = [r \in Request |-> "idle"]
  /\ subject = [r \in Request |-> None]
  /\ found = [r \in Request |-> NoFinding]
  /\ answer = [r \in Request |-> None]

ProfileNext ==
  \/ Tick
  \/ \E u \in User, p \in Profile \cup {None} : ChangeRow(u, p)
  \/ \E r \in Request :
       \/ \E u \in User : GetProfile(r, u) \/ LoginFind(r, u)
       \/ Authenticate(r) \/ CacheHit(r) \/ CacheMiss(r)
       \/ FindUser(r) \/ Store(r) \/ Crash(r)

ProfileSpec == ProfileInit /\ [][ProfileNext]_profileVars

-----------------------------------------------------------------------------
(* Properties                                                              *)

(* Types; a request about to write the cache has somebody's profile, never *)
(* that of a user it did not find.                                         *)
ProfileTypeOK ==
  /\ now \in Nat
  /\ users \in [User -> Profile \cup {None}]
  /\ changedAt \in [User -> Nat]
  /\ cache \in [User -> Profile \cup {None}]
  /\ cacheExpiry \in [User -> Nat]
  /\ at \in [Request -> Await]
  /\ subject \in [Request -> User \cup {None}]
  /\ found \in [Request -> [profile : Profile \cup {None}, readAt : Nat]]
  /\ answer \in [Request -> {None, "profile", "notFound", "error"}]
  /\ \A r \in Request :
       at[r] = "store" => subject[r] \in User /\ found[r].profile \in Profile

(* An entry that PostgreSQL does not agree with, a deleted user's included,*)
(* is gone one TTL and the time a request may hold a row after the change: *)
(* late writes, writes sent again and an older one that overwrites a newer *)
(* do not add up, and no number of readers keeps an old profile alive.     *)
StaleProfileBounded ==
  \A u \in User :
    cache[u] \notin {None, users[u]}
      => now - changedAt[u] <= CacheTtl + MaxHandling

=============================================================================
