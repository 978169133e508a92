-------------------------- MODULE ProfileCacheProofs --------------------------
(***************************************************************************)
(* How long the profile cache can disagree with PostgreSQL, for any number *)
(* of users, requests and changes and any lifetimes.                       *)
(***************************************************************************)
EXTENDS ProfileCache, TLAPS

(* A request on its way to the row knows whose row it wants.               *)
SubjectKnown(r) ==
  at[r] \in {"authenticate", "readCache", "findUser"} => subject[r] \in User

(* What a request is about to write is what the row holds, or what it held *)
(* at a change that is no older than the reading.                          *)
FindingFresh(r) ==
  at[r] = "store" =>
    /\ found[r].readAt <= now /\ now <= found[r].readAt + MaxHandling
    /\ \/ found[r].profile = users[subject[r]]
       \/ found[r].readAt <= changedAt[subject[r]]

(* The same of an entry, whose end is known when it is written.            *)
EntryFresh(u) ==
  cache[u] # None =>
    /\ now <= cacheExpiry[u] /\ cacheExpiry[u] <= now + CacheTtl
    /\ \/ cache[u] = users[u]
       \/ cacheExpiry[u] <= changedAt[u] + MaxHandling + CacheTtl

ProfileInv ==
  /\ ProfileTypeOK
  /\ \A r \in Request : SubjectKnown(r) /\ FindingFresh(r)
  /\ \A u \in User : changedAt[u] <= now /\ EntryFresh(u)

LEMMA InitInv == ProfileInit => ProfileInv
<1> SUFFICES ASSUME ProfileInit
             PROVE  ProfileInv
  OBVIOUS
<1>1. ProfileTypeOK
  BY CacheAssumption DEF ProfileInit, ProfileTypeOK, Await, NoFinding
<1>2. \A r \in Request : SubjectKnown(r) /\ FindingFresh(r)
  BY DEF ProfileInit, SubjectKnown, FindingFresh
<1>3. ASSUME NEW u \in User
      PROVE  changedAt[u] <= now /\ EntryFresh(u)
  <2>1. changedAt[u] = 0 /\ now = 0 /\ cache[u] = None
    BY DEF ProfileInit
  <2> QED
    BY <2>1 DEF EntryFresh
<1> QED
  BY <1>1, <1>2, <1>3 DEF ProfileInv

-----------------------------------------------------------------------------
(* Steps of a request that leave the clock, the rows and the cache alone   *)

LEMMA FinishKeeps ==
  ASSUME ProfileInv, NEW r \in Request, NEW what, Finish(r, what),
         what \in {None, "profile", "notFound", "error"},
         UNCHANGED <<now, rowVars, cacheVars>>
  PROVE  ProfileInv'
<1> USE DEF ProfileInv, ProfileTypeOK
<1>1. ProfileTypeOK'
  BY DEF Finish, NoFinding, Await, rowVars, cacheVars
<1>2. ASSUME NEW p \in Request
      PROVE  SubjectKnown(p)' /\ FindingFresh(p)'
  BY <1>2 DEF Finish, SubjectKnown, FindingFresh, rowVars
<1>3. \A u \in User : (changedAt[u] <= now /\ EntryFresh(u))'
  BY DEF EntryFresh, rowVars, cacheVars
<1> QED
  BY <1>1, <1>2, <1>3

LEMMA FoundKeeps ==
  ASSUME ProfileInv, NEW r \in Request, NEW u \in User, users[u] # None,
         Found(r, u), UNCHANGED <<now, rowVars, cacheVars>>
  PROVE  ProfileInv'
<1> USE DEF ProfileInv, ProfileTypeOK
<1>1. users[u] \in Profile /\ now \in Nat
  OBVIOUS
<1>2. ProfileTypeOK'
  BY <1>1 DEF Found, GoTo, Await, rowVars, cacheVars
<1>3. ASSUME NEW p \in Request
      PROVE  SubjectKnown(p)' /\ FindingFresh(p)'
  BY <1>1, <1>3, CacheAssumption
     DEF Found, GoTo, SubjectKnown, FindingFresh, rowVars
<1>4. \A v \in User : (changedAt[v] <= now /\ EntryFresh(v))'
  BY DEF EntryFresh, rowVars, cacheVars
<1> QED
  BY <1>2, <1>3, <1>4

LEMMA ForwardKeeps ==
  ASSUME ProfileInv, NEW r \in Request,
         \/ \E u \in User : GetProfile(r, u)
         \/ Authenticate(r) /\ GoTo(r, "readCache") /\ UNCHANGED <<localVars, answer>>
         \/ CacheMiss(r)
  PROVE  ProfileInv'
<1> USE DEF ProfileInv, ProfileTypeOK, rowVars, cacheVars, localVars
<1>1. ProfileTypeOK'
  <2>1. CASE \E u \in User : GetProfile(r, u)
    BY <2>1 DEF GetProfile, GoTo, Await
  <2>2. CASE Authenticate(r) /\ GoTo(r, "readCache") /\ UNCHANGED <<localVars, answer>>
    BY <2>2 DEF Authenticate, GoTo, Await
  <2>3. CASE CacheMiss(r)
    BY <2>3 DEF CacheMiss, GoTo, Await
  <2> QED
    BY <2>1, <2>2, <2>3
<1>2. ASSUME NEW p \in Request
      PROVE  SubjectKnown(p)' /\ FindingFresh(p)'
  BY <1>2 DEF GetProfile, Authenticate, CacheMiss, GoTo, SubjectKnown, FindingFresh
<1>3. \A u \in User : (changedAt[u] <= now /\ EntryFresh(u))'
  BY DEF GetProfile, Authenticate, CacheMiss, EntryFresh
<1> QED
  BY <1>1, <1>2, <1>3

-----------------------------------------------------------------------------
(* The steps that write                                                    *)

LEMMA StoreKeeps ==
  ASSUME ProfileInv, NEW r \in Request, Store(r)
  PROVE  ProfileInv'
<1> USE DEF ProfileInv, ProfileTypeOK
<1> DEFINE u == subject[r]
<1>1. CASE UNCHANGED cacheVars /\ Finish(r, "profile")
  BY <1>1, FinishKeeps DEF Store
<1>2. CASE /\ cache' = [cache EXCEPT ![u] = found[r].profile]
           /\ cacheExpiry' = [cacheExpiry EXCEPT ![u] = now + CacheTtl]
           /\ UNCHANGED <<at, localVars, answer>> \/ Finish(r, "profile")
  <2>1. /\ u \in User /\ found[r].profile \in Profile /\ FindingFresh(r)
        /\ UNCHANGED <<now, rowVars>> /\ at[r] = "store"
    BY <1>2 DEF Store
  <2>2. /\ now \in Nat /\ found[r].readAt \in Nat /\ changedAt[u] \in Nat
        /\ CacheTtl \in Nat \ {0} /\ MaxHandling \in Nat
    BY <2>1, CacheAssumption
  <2>3. ProfileTypeOK'
    <3>1. cache' \in [User -> Profile \cup {None}] /\ cacheExpiry' \in [User -> Nat]
      BY <1>2, <2>1, <2>2
    <3>2. CASE UNCHANGED <<at, localVars, answer>>
      BY <2>1, <3>1, <3>2 DEF rowVars, localVars
    <3>3. CASE Finish(r, "profile")
      BY <2>1, <3>1, <3>3 DEF Finish, NoFinding, Await, rowVars
    <3> QED
      BY <1>2, <3>2, <3>3
  <2>4. ASSUME NEW p \in Request
        PROVE  SubjectKnown(p)' /\ FindingFresh(p)'
    BY <1>2, <2>1, <2>4 DEF Finish, SubjectKnown, FindingFresh, rowVars, localVars
  <2>5. ASSUME NEW v \in User, v = subject[r]
        PROVE  EntryFresh(v)'
    <3>1. /\ cache'[v] = found[r].profile /\ cacheExpiry'[v] = now + CacheTtl
          /\ now' = now /\ users' = users /\ changedAt' = changedAt
      BY <1>2, <2>1, <2>5 DEF rowVars
    <3>2. \/ found[r].profile = users[v]
          \/ now + CacheTtl <= changedAt[v] + MaxHandling + CacheTtl
      BY <2>1, <2>2, <2>5 DEF FindingFresh
    <3>3. now <= now + CacheTtl /\ now + CacheTtl <= now + CacheTtl
      BY <2>2
    <3> QED
      BY <3>1, <3>2, <3>3 DEF EntryFresh
  <2>6. ASSUME NEW v \in User, v # subject[r]
        PROVE  EntryFresh(v)'
    BY <1>2, <2>1, <2>6 DEF EntryFresh, rowVars
  <2>7. \A v \in User : EntryFresh(v)'
    BY <2>5, <2>6
  <2>8. \A v \in User : changedAt'[v] <= now'
    BY <2>1 DEF rowVars
  <2> QED
    BY <2>3, <2>4, <2>7, <2>8
<1> QED
  BY <1>1, <1>2 DEF Store

LEMMA ChangeKeeps ==
  ASSUME ProfileInv, NEW u \in User, NEW p \in Profile \cup {None}, ChangeRow(u, p)
  PROVE  ProfileInv'
<1> USE DEF ProfileInv, ProfileTypeOK
<1>1. /\ UNCHANGED <<now, cacheVars, at, localVars, answer>>
      /\ users' = [users EXCEPT ![u] = p]
      /\ changedAt' = [changedAt EXCEPT ![u] = now]
      /\ now \in Nat /\ CacheTtl \in Nat /\ MaxHandling \in Nat
  BY CacheAssumption DEF ChangeRow
<1>2. ProfileTypeOK'
  BY <1>1 DEF cacheVars, localVars
<1>3. ASSUME NEW r \in Request
      PROVE  SubjectKnown(r)' /\ FindingFresh(r)'
  BY <1>1, <1>3 DEF SubjectKnown, FindingFresh, localVars
<1>4. ASSUME NEW v \in User
      PROVE  changedAt'[v] <= now' /\ EntryFresh(v)'
  <2>1. CASE v = u
    BY <1>1, <2>1 DEF EntryFresh, cacheVars
  <2>2. CASE v # u
    BY <1>1, <2>2 DEF EntryFresh, cacheVars
  <2> QED
    BY <2>1, <2>2
<1> QED
  BY <1>2, <1>3, <1>4

LEMMA TickKeeps ==
  ASSUME ProfileInv, Tick
  PROVE  ProfileInv'
<1> USE DEF ProfileInv, ProfileTypeOK
<1>1. /\ now' = now + 1 /\ now \in Nat
      /\ UNCHANGED <<rowVars, cacheExpiry, at, localVars, answer>>
      /\ cache' = [u \in User |-> IF now' > cacheExpiry[u] THEN None ELSE cache[u]]
      /\ CacheTtl \in Nat /\ MaxHandling \in Nat
  BY CacheAssumption DEF Tick
<1>2. ProfileTypeOK'
  BY <1>1 DEF rowVars, localVars
<1>3. ASSUME NEW r \in Request
      PROVE  SubjectKnown(r)' /\ FindingFresh(r)'
  <2>1. at[r] = "store" => now - found[r].readAt < MaxHandling
    BY DEF Tick
  <2> QED
    BY <1>1, <2>1 DEF SubjectKnown, FindingFresh, rowVars, localVars
<1>4. ASSUME NEW u \in User
      PROVE  changedAt'[u] <= now' /\ EntryFresh(u)'
  BY <1>1, <1>4 DEF EntryFresh, rowVars
<1> QED
  BY <1>2, <1>3, <1>4

-----------------------------------------------------------------------------
LEMMA StepInv == ProfileInv /\ [ProfileNext]_profileVars => ProfileInv'
<1> SUFFICES ASSUME ProfileInv, [ProfileNext]_profileVars
             PROVE  ProfileInv'
  OBVIOUS
<1>1. CASE UNCHANGED profileVars
  BY <1>1 DEF profileVars, rowVars, cacheVars, localVars, ProfileInv,
       ProfileTypeOK, SubjectKnown, FindingFresh, EntryFresh
<1>2. ASSUME NEW r \in Request, Authenticate(r)
      PROVE  ProfileInv'
  <2>1. CASE Finish(r, "error")
    BY <1>2, <2>1, FinishKeeps DEF Authenticate, ProfileInv, ProfileTypeOK
  <2> QED
    BY <1>2, <2>1, ForwardKeeps DEF Authenticate
<1>3. ASSUME NEW r \in Request, FindUser(r)
      PROVE  ProfileInv'
  <2>1. subject[r] \in User
    BY <1>3 DEF FindUser, ProfileInv, SubjectKnown
  <2>3. CASE \E what \in {"notFound", "error"} : Finish(r, what)
    BY <1>3, <2>3, FinishKeeps DEF FindUser
  <2>4. CASE users[subject[r]] # None /\ Found(r, subject[r])
    BY <1>3, <2>1, <2>4, FoundKeeps DEF FindUser
  <2> QED
    BY <1>3, <2>3, <2>4 DEF FindUser
<1>4. ASSUME NEW r \in Request, CacheHit(r) \/ Crash(r)
      PROVE  ProfileInv'
  BY <1>4, FinishKeeps DEF CacheHit, Crash, ProfileInv, ProfileTypeOK
<1>5. ASSUME NEW r \in Request, NEW u \in User, LoginFind(r, u)
      PROVE  ProfileInv'
  BY <1>5, FoundKeeps DEF LoginFind
<1> QED
  BY <1>1, <1>2, <1>3, <1>4, <1>5, ForwardKeeps, StoreKeeps, ChangeKeeps,
     TickKeeps DEF ProfileNext

LEMMA ProfileInvariant == ProfileSpec => []ProfileInv
<1> QED
  BY InitInv, StepInv, PTL DEF ProfileSpec

(* No read of a row that failed or found nobody ever reaches the cache.    *)
THEOREM ProfileTypeCorrect == ProfileSpec => []ProfileTypeOK
<1>1. ProfileInv => ProfileTypeOK
  BY DEF ProfileInv
<1> QED
  BY <1>1, ProfileInvariant, PTL

(* However many requests read, delay, repeat and overwrite, an entry that  *)
(* disagrees with PostgreSQL is gone one TTL and one request's handling    *)
(* after the change.                                                       *)
THEOREM CacheStalenessBounded == ProfileSpec => []StaleProfileBounded
<1>1. ASSUME ProfileInv
      PROVE  StaleProfileBounded
  <2> SUFFICES ASSUME NEW u \in User, cache[u] \notin {None, users[u]}
               PROVE  now - changedAt[u] <= CacheTtl + MaxHandling
    BY DEF StaleProfileBounded
  <2>1. /\ now \in Nat /\ changedAt[u] \in Nat /\ cacheExpiry[u] \in Nat
        /\ CacheTtl \in Nat /\ MaxHandling \in Nat
    BY <1>1, CacheAssumption DEF ProfileInv, ProfileTypeOK
  <2>2. now <= cacheExpiry[u] /\ cacheExpiry[u] <= changedAt[u] + MaxHandling + CacheTtl
    BY <1>1 DEF ProfileInv, EntryFresh
  <2> QED
    BY <2>1, <2>2
<1> QED
  BY <1>1, ProfileInvariant, PTL

=============================================================================
