--------------------------- MODULE GatewayProofs ---------------------------
(***************************************************************************)
(* Theorems about Gateway: no request reaches a handler unless it met what *)
(* the route asks, for any number of requests, clients and sessions and    *)
(* any limits; and the limiters behind the routes are those of             *)
(* RateLimiter, with the bound proved there.                               *)
(***************************************************************************)
EXTENDS Gateway, RateLimiterProofs, SequenceTheorems

(* What a check that a request has behind it vouches for.                  *)
Vouched(q, check) ==
  LET r == request[q]
  IN /\ check \in Limiter =>
          \E key \in CountedFor(check, r) : <<check, key>> \in passed[q]
     /\ check = "authentication" => r.role # None
     /\ check = "requireAdmin" => r.role = "admin"
     /\ check = "guard" =>
          IF deployment.metricsToken THEN r.metrics ELSE ~deployment.production

(* A request under way stands in its chain, with every check before it     *)
(* met; one that is over has left nothing.                                 *)
RequestOK(q) ==
  /\ at[q] \in Nat \ {0}
  /\ request[q] = None => at[q] = 1 /\ passed[q] = {}
  /\ request[q] # None =>
       /\ at[q] \in 1..Len(Chain[request[q].route])
       /\ \A i \in 1..(at[q] - 1) : Vouched(q, Chain[request[q].route][i])
       /\ \A b \in passed[q] : \E i \in 1..(at[q] - 1) :
            b \in Bucket /\ b[1] = Chain[request[q].route][i]

LocalTypeOK ==
  /\ deployment \in Deployment
  /\ request \in [Request -> Incoming \cup {None}]
  /\ at \in [Request -> Nat \ {0}]
  /\ passed \in [Request -> SUBSET Bucket]
  /\ answer \in [Request -> [route : Route,
                             status : {0} \cup Status]]

GatewayInv ==
  /\ LimiterInv
  /\ LocalTypeOK
  /\ \A q \in Request : RequestOK(q)

-----------------------------------------------------------------------------
(* The data of a request                                                   *)

LEMMA DeploymentTyped ==
  ASSUME deployment \in Deployment
  PROVE  /\ deployment.proxies \in 0..Len(Proxies) /\ deployment.proxies \in Nat
         /\ deployment.trusted \in Nat
<1>1. deployment.proxies \in 0..Len(Proxies) /\ deployment.trusted \in 0..MaxHops
  BY DEF Deployment
<1> QED
  BY <1>1, GatewayAssumption

(* The address a request is counted for, by how many of the hops that are  *)
(* there TRUST_PROXY names.                                                *)
LEMMA IpBelieved ==
  ASSUME deployment \in Deployment, NEW client \in Client,
         NEW claimed \in {<<>>, <<Elsewhere>>}
  PROVE  /\ Ip(client, claimed) \in CountedAddresses(client)
         /\ Ip(client, claimed) \in Key
<1>1. PICK n, t : n = deployment.proxies /\ t = deployment.trusted
  OBVIOUS
<1>2. n \in Nat /\ t \in Nat /\ n <= Len(Proxies)
  BY <1>1, DeploymentTyped
<1>3. /\ Len(claimed) \in 0..1
      /\ Len(claimed) = 1 => claimed[1] = Elsewhere
  <2>1. CASE claimed = <<>>
    BY <2>1
  <2>2. CASE claimed = <<Elsewhere>>
    BY <2>2
  <2> QED
    BY <2>1, <2>2
<1> DEFINE last == n + 1 + Len(claimed)
           i == IF t < last THEN t + 1 ELSE last
<1>4. Ip(client, claimed) = CASE i <= n    -> Proxies[i]
                              [] i = n + 1 -> client
                              [] i > n + 1 -> claimed[i - (n + 1)]
  BY <1>1 DEF Ip
<1>5. /\ t < n => i \in 1..n
      /\ t = n => i = n + 1
      /\ t > n => i = n + 1 \/ (i = n + 2 /\ Len(claimed) = 1)
  <2>1. PICK l : l = Len(claimed)
    OBVIOUS
  <2>2. l \in 0..1
    BY <1>3, <2>1
  <2>3. i = IF t < n + 1 + l THEN t + 1 ELSE n + 1 + l
    BY <2>1
  <2>4. t < n => i \in 1..n
    BY <1>2, <2>2, <2>3
  <2>5. t = n => i = n + 1
    BY <1>2, <2>2, <2>3
  <2>6. t > n => i = n + 1 \/ (i = n + 2 /\ l = 1)
    BY <1>2, <2>2, <2>3
  <2> QED
    BY <2>1, <2>4, <2>5, <2>6
<1> HIDE DEF i
<1>6. CASE t < n
  <2>1. Ip(client, claimed) = Proxies[i] /\ i \in 1..n /\ i \in 1..Len(Proxies)
    BY <1>2, <1>4, <1>5, <1>6, GatewayAssumption
  <2>2. CountedAddresses(client) = ProxiesOf(n)
    BY <1>1, <1>2, <1>6 DEF CountedAddresses
  <2> QED
    BY <2>1, <2>2, GatewayAssumption DEF ProxiesOf
<1>7. CASE t = n
  <2>1. Ip(client, claimed) = client
    BY <1>2, <1>4, <1>5, <1>7
  <2>2. CountedAddresses(client) = {client}
    BY <1>1, <1>2, <1>7 DEF CountedAddresses
  <2> QED
    BY <2>1, <2>2, GatewayAssumption
<1>8. CASE t > n
  <2>1. Ip(client, claimed) \in {client, Elsewhere}
    <3>1. CASE i = n + 1
      BY <1>2, <1>4, <3>1
    <3>2. CASE i = n + 2 /\ Len(claimed) = 1
      BY <1>2, <1>3, <1>4, <3>2
    <3> QED
      BY <1>5, <1>8, <3>1, <3>2
  <2>2. CountedAddresses(client) = {client, Elsewhere}
    BY <1>1, <1>2, <1>8 DEF CountedAddresses
  <2> QED
    BY <2>1, <2>2, GatewayAssumption
<1> QED
  BY <1>2, <1>6, <1>7, <1>8

LEMMA IncomingTyped ==
  ASSUME NEW r \in Incoming
  PROVE  /\ r.route \in Route /\ r.client \in Client
         /\ r.claimed \in {<<>>, <<Elsewhere>>} /\ r.token \in Token
BY DEF Incoming

LEMMA TokenForms ==
  ASSUME NEW token \in Token
  PROVE  \/ /\ token.form = "string" /\ token.separator = 36
            /\ token.id \in Session
         \/ /\ token.form = "string" /\ token.separator \notin 1..MaxSessionIdLength
            /\ token.id = None
         \/ token.form \in {"list", "other", "missing"}
<1>1. CASE token \in [form : {"string"}, separator : {36}, id : Session, validator : BOOLEAN]
  BY <1>1
<1>2. CASE token \in [form : {"list"}, separator : {1}, id : Session, validator : BOOLEAN]
  BY <1>2
<1>3. CASE token \in [form : {"string"}, separator : {0, MaxSessionIdLength + 1},
                     id : {None}, validator : {TRUE}]
  BY <1>3 DEF MaxSessionIdLength
<1>4. CASE token \in [form : {"list", "other"}, separator : {0}, id : {None},
                     validator : {FALSE}]
  BY <1>4
<1>5. CASE token = NoToken
  BY <1>5 DEF NoToken
<1> QED
  BY <1>1, <1>2, <1>3, <1>4, <1>5 DEF Token

LEMMA RefreshAnswered ==
  ASSUME NEW token \in Token
  PROVE  RefreshAnswers(token) \subseteq Status
<1>1. token.form \in {"missing", "other", "list", "string"}
  BY TokenForms
<1>2. {200, 401, 409} \subseteq Status /\ {400, 500} \subseteq Status
  BY DEF Status
<1>3. RefreshAnswers(token) \in {{400, 500}, {500}, {401}, {401, 500}, {200, 401, 409}}
  BY <1>1 DEF RefreshAnswers
<1> QED
  BY <1>2, <1>3

(* What refreshTokenSessionKey and the service make of one token: a token  *)
(* that may renew a session is a string whose dot both of them find, and   *)
(* no key but a string's is a session.                                     *)
LEMMA KeyAgrees ==
  ASSUME NEW token \in Token, NEW ip
  PROVE  LET key == refreshTokenSessionKey(token, ip)
         IN /\ key \in Session \cup {ip}
            /\ 200 \in RefreshAnswers(token) => key = token.id
            /\ key # ip => token.form = "string" /\ token.id = key /\ key \in Session
<1>1. CASE token.form = "string" /\ token.separator = 36 /\ token.id \in Session
  BY <1>1 DEF refreshTokenSessionKey, MaxSessionIdLength
<1>2. CASE /\ token.form = "string" /\ token.separator \notin 1..MaxSessionIdLength
           /\ token.id = None
  <2>1. splitRefreshToken(token) = None
    BY <1>2 DEF splitRefreshToken
  <2>2. RefreshAnswers(token) = {401}
    BY <1>2, <2>1 DEF RefreshAnswers
  <2> QED
    BY <1>2, <2>2 DEF refreshTokenSessionKey
<1>3. CASE token.form \in {"list", "other", "missing"}
  <2>1. 200 \notin RefreshAnswers(token)
    BY <1>3 DEF RefreshAnswers
  <2> QED
    BY <1>3, <2>1 DEF refreshTokenSessionKey
<1> QED
  BY <1>1, <1>2, <1>3, TokenForms

(* The limiter a request stands before counts it for whom it should.       *)
LEMMA BucketCountsFor ==
  ASSUME LocalTypeOK, NEW q \in Request, Here(q) \in Limiter
  PROVE  /\ BucketOf(q) \in Bucket
         /\ \E key \in CountedFor(Here(q), request[q]) : BucketOf(q) = <<Here(q), key>>
<1>1. request[q] # None
  BY GatewayAssumption DEF Here
<1>2. request[q] \in Incoming
  BY <1>1 DEF LocalTypeOK
<1> DEFINE r == request[q]
           ip == Ip(r.client, r.claimed)
<1>3. ip \in CountedAddresses(r.client) /\ ip \in Key /\ r.token \in Token
  BY <1>2, IncomingTyped, IpBelieved DEF LocalTypeOK
<1>4. CASE Here(q) = "refresh"
  <2>1. PICK key : key = refreshTokenSessionKey(r.token, ip)
    OBVIOUS
  <2>2. /\ key \in Session \cup {ip}
        /\ 200 \in RefreshAnswers(r.token) => key = r.token.id
        /\ key # ip => r.token.form = "string" /\ r.token.id = key /\ key \in Session
    BY <1>3, <2>1, KeyAgrees
  <2>3. BucketOf(q) = <<Here(q), key>>
    BY <1>4, <2>1 DEF BucketOf
  <2>4. key \in CountedFor(Here(q), r)
    BY <1>3, <1>4, <2>2 DEF CountedFor
  <2>5. key \in Key
    BY <1>3, <2>2, GatewayAssumption
  <2> QED
    BY <2>3, <2>4, <2>5 DEF Bucket
<1>5. CASE Here(q) # "refresh"
  <2>1. BucketOf(q) = <<Here(q), ip>>
    BY <1>5 DEF BucketOf
  <2>2. ip \in CountedFor(Here(q), r)
    BY <1>3, <1>5 DEF CountedFor
  <2> QED
    BY <1>3, <2>1, <2>2 DEF Bucket
<1> QED
  BY <1>4, <1>5

-----------------------------------------------------------------------------
(* Chains                                                                  *)

LEMMA Chains ==
  ASSUME NEW route \in Route
  PROVE  LET chain == Chain[route]
         IN /\ Len(chain) \in 2..4 /\ chain[Len(chain)] = "handler"
            /\ \A i \in 1..(Len(chain) - 1) : chain[i] # "handler"
<1>1. route \in {"users", "login", "refresh", "logout", "me", "admin", "ready", "metrics"}
  BY DEF Route, Chain
<1> DEFINE chain == Chain[route]
<1>2. CASE route \in {"users", "ready"}
  <2>1. chain = <<"api", "handler">> \/ chain = <<"meta", "handler">>
    BY <1>2 DEF Chain
  <2>2. Len(chain) = 2 /\ chain[2] = "handler" /\ chain[1] # "handler"
    BY <2>1
  <2> QED
    BY <2>2
<1>3. CASE route \in {"login", "refresh", "logout", "me", "metrics"}
  <2>1. \E a \in {"api", "meta"}, b \in {"login", "refresh", "authentication", "guard"} :
          chain = <<a, b, "handler">>
    BY <1>3 DEF Chain
  <2>2. /\ Len(chain) = 3 /\ chain[3] = "handler"
        /\ chain[1] # "handler" /\ chain[2] # "handler"
    BY <2>1
  <2> QED
    BY <2>2
<1>4. CASE route = "admin"
  <2>1. chain = <<"api", "authentication", "requireAdmin", "handler">>
    BY <1>4 DEF Chain
  <2>2. /\ Len(chain) = 4 /\ chain[4] = "handler"
        /\ chain[1] # "handler" /\ chain[2] # "handler" /\ chain[3] # "handler"
    BY <2>1
  <2> QED
    BY <2>2
<1> QED
  BY <1>1, <1>2, <1>3, <1>4

(* Every route has its limiters, and its checks, before its handler.       *)
LEMMA ChecksInChain ==
  ASSUME NEW route \in Route
  PROVE  LET before(check) ==
               \E i \in 1..(Len(Chain[route]) - 1) : Chain[route][i] = check
         IN /\ \A limiter \in Limits(route) : before(limiter)
            /\ route \in {"logout", "me", "admin"} => before("authentication")
            /\ route = "admin" => before("requireAdmin")
            /\ route = "metrics" => before("guard")
<1> DEFINE before(check) ==
             \E i \in 1..(Len(Chain[route]) - 1) : Chain[route][i] = check
<1>1. route \in {"users", "login", "refresh", "logout", "me", "admin", "ready", "metrics"}
  BY DEF Route, Chain
<1>2. CASE route = "users"
  <2>1. Len(Chain[route]) = 2 /\ Chain[route][1] = "api"
    BY <1>2 DEF Chain
  <2> QED
    BY <1>2, <2>1 DEF Limits
<1>3. CASE route \in {"login", "refresh"}
  <2>1. Len(Chain[route]) = 3 /\ Chain[route][1] = "api" /\ Chain[route][2] = route
    BY <1>3 DEF Chain
  <2> QED
    BY <1>3, <2>1 DEF Limits
<1>4. CASE route \in {"logout", "me"}
  <2>1. /\ Len(Chain[route]) = 3
        /\ Chain[route][1] = "api" /\ Chain[route][2] = "authentication"
    BY <1>4 DEF Chain
  <2> QED
    BY <1>4, <2>1 DEF Limits
<1>5. CASE route = "admin"
  <2>1. /\ Len(Chain[route]) = 4 /\ Chain[route][1] = "api"
        /\ Chain[route][2] = "authentication" /\ Chain[route][3] = "requireAdmin"
    BY <1>5 DEF Chain
  <2> QED
    BY <1>5, <2>1 DEF Limits
<1>6. CASE route = "ready"
  <2>1. Len(Chain[route]) = 2 /\ Chain[route][1] = "meta"
    BY <1>6 DEF Chain
  <2> QED
    BY <1>6, <2>1 DEF Limits
<1>7. CASE route = "metrics"
  <2>1. Len(Chain[route]) = 3 /\ Chain[route][1] = "meta" /\ Chain[route][2] = "guard"
    BY <1>7 DEF Chain
  <2> QED
    BY <1>7, <2>1 DEF Limits
<1> QED
  BY <1>1, <1>2, <1>3, <1>4, <1>5, <1>6, <1>7

(* A request before a check is under way, and that check is not the last.  *)
LEMMA StandsBefore ==
  ASSUME LocalTypeOK, NEW q \in Request, RequestOK(q), Here(q) # "over"
  PROVE  /\ request[q] # None /\ request[q] \in Incoming
         /\ request[q].route \in Route
         /\ Here(q) = Chain[request[q].route][at[q]]
         /\ at[q] \in 1..Len(Chain[request[q].route])
         /\ Here(q) = "handler" <=> at[q] = Len(Chain[request[q].route])
<1>1. request[q] # None /\ Here(q) = Chain[request[q].route][at[q]]
  BY DEF Here
<1>2. request[q] \in Incoming /\ request[q].route \in Route
  BY <1>1, IncomingTyped DEF LocalTypeOK
<1>3. at[q] \in 1..Len(Chain[request[q].route])
  BY <1>1 DEF RequestOK
<1>4. /\ Len(Chain[request[q].route]) \in 2..4
      /\ Chain[request[q].route][Len(Chain[request[q].route])] = "handler"
      /\ \A i \in 1..(Len(Chain[request[q].route]) - 1) :
           Chain[request[q].route][i] # "handler"
  BY <1>2, Chains
<1>5. at[q] # Len(Chain[request[q].route]) =>
        at[q] \in 1..(Len(Chain[request[q].route]) - 1)
  BY <1>3, <1>4
<1> QED
  BY <1>1, <1>2, <1>3, <1>4, <1>5

-----------------------------------------------------------------------------
(* The steps of a chain                                                    *)

LEMMA GatewayInitInv == GatewayInit => GatewayInv
<1> SUFFICES ASSUME GatewayInit PROVE GatewayInv
  OBVIOUS
<1>1. LimiterInv
  BY InitInv DEF GatewayInit
<1>2. LocalTypeOK
  BY DEF GatewayInit, LocalTypeOK
<1>3. \A q \in Request : RequestOK(q)
  BY DEF GatewayInit, RequestOK
<1> QED
  BY <1>1, <1>2, <1>3 DEF GatewayInv

(* Requests do not share what a step of one of them changes.               *)
LEMMA OthersKept ==
  ASSUME NEW p \in Request, RequestOK(p), deployment' = deployment,
         request'[p] = request[p], at'[p] = at[p], passed'[p] = passed[p]
  PROVE  RequestOK(p)'
<1>1. \A check : Vouched(p, check) => Vouched(p, check)'
  BY DEF Vouched, CountedFor, CountedAddresses
<1> QED
  BY <1>1 DEF RequestOK

(* A request that goes on has met the check it stood before.               *)
LEMMA AdvanceKeeps ==
  ASSUME LocalTypeOK, \A p \in Request : RequestOK(p),
         NEW q \in Request, NEW counted \in SUBSET Bucket, Advance(q, counted),
         Here(q) # "over", Here(q) # "handler",
         \A b \in counted : b[1] = Here(q),
         Here(q) \in Limiter =>
           \E key \in CountedFor(Here(q), request[q]) : <<Here(q), key>> \in counted,
         Here(q) \notin Limiter => Vouched(q, Here(q)),
         Here(q) \in Limiter =>
           Here(q) \notin {"authentication", "requireAdmin", "guard"}
  PROVE  LocalTypeOK' /\ \A p \in Request : RequestOK(p)'
<1>a. PICK chain, check, place :
        chain = Chain[request[q].route] /\ check = Here(q) /\ place = at[q]
  OBVIOUS
<1>0. /\ chain = Chain[request[q].route] /\ check = Here(q)
      /\ place = at[q] /\ place \in Nat \ {0}
  BY <1>a DEF LocalTypeOK
<1>1. /\ deployment' = deployment /\ request' = request /\ answer' = answer
      /\ at' = [at EXCEPT ![q] = at[q] + 1]
      /\ passed' = [passed EXCEPT ![q] = passed[q] \cup counted]
  BY DEF Advance
<1>2. /\ at \in [Request -> Nat \ {0}] /\ passed \in [Request -> SUBSET Bucket]
      /\ at[q] \in Nat \ {0}
  BY DEF LocalTypeOK
<1>3. /\ at'[q] = at[q] + 1 /\ passed'[q] = passed[q] \cup counted
      /\ \A p \in Request \ {q} : at'[p] = at[p] /\ passed'[p] = passed[p]
  BY <1>1, <1>2
<1>4. LocalTypeOK'
  BY <1>1, <1>2 DEF LocalTypeOK
<1>5. ASSUME NEW p \in Request \ {q} PROVE RequestOK(p)'
  BY <1>1, <1>3, OthersKept
<1>6. RequestOK(q)'
  <2>1. /\ request[q] # None /\ check = chain[place] /\ request[q].route \in Route
        /\ place \in 1..Len(chain) /\ place # Len(chain)
    BY <1>0, StandsBefore
  <2>2. Len(chain) \in Nat
    BY <1>0, <2>1, Chains
  <2>3. at'[q] = place + 1 /\ place + 1 \in 1..Len(chain) /\ (place + 1) - 1 = place
    BY <1>0, <1>3, <2>1, <2>2
  <2>4. ASSUME NEW any, Vouched(q, any) PROVE Vouched(q, any)'
    <3>1. any \in Limiter =>
            \E key \in CountedFor(any, request[q]) : <<any, key>> \in passed'[q]
      BY <1>3, <2>4 DEF Vouched
    <3> QED
      BY <1>1, <2>4, <3>1 DEF Vouched, CountedFor, CountedAddresses
  <2>5. Vouched(q, check)'
    <3>1. CASE check \in Limiter
      <4>1. \E key \in CountedFor(check, request[q]) : <<check, key>> \in passed'[q]
        BY <1>0, <1>3, <3>1
      <4>2. check \notin {"authentication", "requireAdmin", "guard"}
        BY <1>0, <3>1
      <4> QED
        BY <1>1, <4>1, <4>2 DEF Vouched, CountedFor, CountedAddresses
    <3>2. CASE check \notin Limiter
      BY <1>0, <2>4, <3>2
    <3> QED
      BY <3>1, <3>2
  <2>a. /\ \A i \in 1..(at[q] - 1) : Vouched(q, Chain[request[q].route][i])
        /\ \A b \in passed[q] : \E i \in 1..(at[q] - 1) :
             b \in Bucket /\ b[1] = Chain[request[q].route][i]
    BY <2>1 DEF RequestOK
  <2>b. /\ \A i \in 1..(place - 1) : Vouched(q, chain[i])
        /\ \A b \in passed[q] : \E i \in 1..(place - 1) : b \in Bucket /\ b[1] = chain[i]
    BY <1>0, <2>a
  <2>6. ASSUME NEW i \in 1..place PROVE Vouched(q, chain[i])'
    <3>1. CASE i = place
      BY <2>1, <2>5, <3>1
    <3>2. CASE i \in 1..(place - 1)
      BY <2>4, <2>b, <3>2
    <3> QED
      BY <1>0, <3>1, <3>2
  <2>7. ASSUME NEW b \in passed'[q]
        PROVE  \E i \in 1..place : b \in Bucket /\ b[1] = chain[i]
    <3>1. CASE b \in passed[q]
      <4>1. \E i \in 1..(place - 1) : b \in Bucket /\ b[1] = chain[i]
        BY <2>b, <3>1
      <4> QED
        BY <1>0, <4>1
    <3>2. CASE b \in counted
      BY <1>0, <2>1, <3>2
    <3> QED
      BY <1>3, <3>1, <3>2
  <2>8. Chain[request'[q].route] = chain
    BY <1>0, <1>1
  <2> QED
    BY <1>1, <2>1, <2>3, <2>6, <2>7, <2>8 DEF RequestOK
<1> QED
  BY <1>4, <1>5, <1>6

(* A request that is answered leaves nothing behind.                       *)
LEMMA AnswerKeeps ==
  ASSUME LocalTypeOK, \A p \in Request : RequestOK(p), NEW q \in Request,
         NEW status \in Status, Answer(q, status),
         Here(q) # "over"
  PROVE  LocalTypeOK' /\ \A p \in Request : RequestOK(p)'
<1>1. /\ deployment' = deployment
      /\ request' = [request EXCEPT ![q] = None]
      /\ at' = [at EXCEPT ![q] = 1]
      /\ passed' = [passed EXCEPT ![q] = {}]
      /\ answer' = [answer EXCEPT ![q] = [route |-> request[q].route, status |-> status]]
  BY DEF Answer
<1>2. [route |-> request[q].route, status |-> status]
        \in [route : Route, status : {0} \cup Status]
  BY StandsBefore
<1>3. LocalTypeOK'
  BY <1>1, <1>2 DEF LocalTypeOK
<1>4. /\ request'[q] = None /\ at'[q] = 1 /\ passed'[q] = {}
      /\ \A p \in Request \ {q} :
           request'[p] = request[p] /\ at'[p] = at[p] /\ passed'[p] = passed[p]
  BY <1>1 DEF LocalTypeOK
<1>5. ASSUME NEW p \in Request \ {q} PROVE RequestOK(p)'
  BY <1>1, <1>4, OthersKept
<1>6. RequestOK(q)'
  BY <1>4 DEF RequestOK
<1> QED
  BY <1>3, <1>5, <1>6

LEMMA ArriveKeeps ==
  ASSUME LocalTypeOK, \A p \in Request : RequestOK(p),
         NEW q \in Request, NEW r \in Incoming, Arrive(q, r)
  PROVE  LocalTypeOK' /\ \A p \in Request : RequestOK(p)'
<1>1. /\ request[q] = None /\ deployment' = deployment /\ at' = at /\ passed' = passed
      /\ request' = [request EXCEPT ![q] = r]
      /\ answer' = [answer EXCEPT ![q] = [route |-> r.route, status |-> 0]]
  BY DEF Arrive
<1>2. r.route \in Route
  BY IncomingTyped
<1>3. LocalTypeOK'
  BY <1>1, <1>2 DEF LocalTypeOK
<1>4. /\ request'[q] = r
      /\ \A p \in Request \ {q} : request'[p] = request[p]
  BY <1>1 DEF LocalTypeOK
<1>5. ASSUME NEW p \in Request \ {q} PROVE RequestOK(p)'
  BY <1>1, <1>4, OthersKept
<1>6. RequestOK(q)'
  <2>1. at'[q] = 1 /\ passed'[q] = {}
    BY <1>1 DEF RequestOK
  <2>2. 1 \in 1..Len(Chain[r.route])
    <3>1. PICK n : n = Len(Chain[r.route])
      OBVIOUS
    <3>2. n \in 2..4
      BY <1>2, <3>1, Chains
    <3>3. 1 \in 1..n
      BY <3>2
    <3> QED
      BY <3>1, <3>3
  <2>3. \A i : i \in 1..(1 - 1) => FALSE
    OBVIOUS
  <2> QED
    BY <1>4, <2>1, <2>2, <2>3 DEF RequestOK
<1> QED
  BY <1>3, <1>5, <1>6

-----------------------------------------------------------------------------
(* Every step                                                              *)

(* What a chain does to its counters is what RateLimiter allows.           *)
LEMMA LimiterStep ==
  ASSUME LocalTypeOK, GatewayNext
  PROVE  [LimiterNext]_limiterVars
<1>1. CASE GatewayTick
  BY <1>1 DEF GatewayTick, LimiterNext
<1>2. ASSUME NEW q \in Request, NEW r \in Incoming, Arrive(q, r)
      PROVE  [LimiterNext]_limiterVars
  BY <1>2 DEF Arrive
<1>3. ASSUME NEW q \in Request, CountAgain(q) PROVE [LimiterNext]_limiterVars
  <2>1. BucketOf(q) \in Bucket /\ Waste(BucketOf(q))
    BY <1>3, BucketCountsFor DEF CountAgain
  <2> QED
    BY <2>1 DEF LimiterNext
<1>4. ASSUME NEW q \in Request, Limit(q) PROVE [LimiterNext]_limiterVars
  <2>1. BucketOf(q) \in Bucket /\ (Pass(BucketOf(q)) \/ Waste(BucketOf(q)))
    BY <1>4, BucketCountsFor DEF Limit
  <2> QED
    BY <2>1 DEF LimiterNext
<1>5. ASSUME NEW q \in Request,
             \/ Fail(q) \/ Authenticate(q) \/ RequireAdmin(q)
             \/ GuardMetrics(q) \/ Handle(q)
      PROVE  [LimiterNext]_limiterVars
  BY <1>5 DEF Fail, Authenticate, RequireAdmin, GuardMetrics, Handle
<1> QED
  BY <1>1, <1>2, <1>3, <1>4, <1>5 DEF GatewayNext, Proceed

LEMMA ProceedKeeps ==
  ASSUME LocalTypeOK, \A p \in Request : RequestOK(p), NEW q \in Request, Proceed(q)
  PROVE  LocalTypeOK' /\ \A p \in Request : RequestOK(p)'
<1>0. Limiter = {"api", "login", "refresh", "meta"}
  BY GatewayAssumption
<1>1. CASE Limit(q)
  <2>1. Here(q) \in Limiter /\ Here(q) \notin
          {"over", "handler", "authentication", "requireAdmin", "guard"}
    BY <1>0, <1>1 DEF Limit
  <2>2. /\ BucketOf(q) \in Bucket
        /\ \E key \in CountedFor(Here(q), request[q]) : BucketOf(q) = <<Here(q), key>>
    BY <2>1, BucketCountsFor
  <2>3. CASE Advance(q, {BucketOf(q)})
    <3>1. PICK counted : counted = {BucketOf(q)}
      OBVIOUS
    <3>2. counted \in SUBSET Bucket /\ Advance(q, counted)
      BY <2>2, <2>3, <3>1
    <3>3. \A b \in counted : b[1] = Here(q)
      BY <2>2, <3>1
    <3>4. \E key \in CountedFor(Here(q), request[q]) : <<Here(q), key>> \in counted
      BY <2>2, <3>1
    <3> QED
      BY <2>1, <3>2, <3>3, <3>4, AdvanceKeeps
  <2>4. CASE Answer(q, 429)
    BY <2>1, <2>4, AnswerKeeps DEF Status
  <2> QED
    BY <1>1, <2>3, <2>4 DEF Limit
<1>2. CASE Fail(q)
  BY <1>0, <1>2, AnswerKeeps DEF Fail, Status
<1>3. ASSUME Advance(q, {}), Here(q) \in {"authentication", "requireAdmin", "guard"},
             Vouched(q, Here(q))
      PROVE  LocalTypeOK' /\ \A p \in Request : RequestOK(p)'
  <2>1. {} \in SUBSET Bucket /\ \A b \in {} : b[1] = Here(q)
    OBVIOUS
  <2>2. Here(q) \notin Limiter /\ Here(q) # "over" /\ Here(q) # "handler"
    BY <1>0, <1>3
  <2> QED
    BY <1>3, <2>1, <2>2, AdvanceKeeps
<1>4. CASE Authenticate(q)
  <2>1. Here(q) = "authentication" /\ Here(q) \notin Limiter
    BY <1>0, <1>4 DEF Authenticate
  <2>2. CASE request[q].role # None /\ Advance(q, {})
    BY <1>3, <2>1, <2>2 DEF Vouched
  <2>3. CASE Answer(q, 401)
    BY <2>1, <2>3, AnswerKeeps DEF Status
  <2> QED
    BY <1>4, <2>2, <2>3 DEF Authenticate
<1>5. CASE RequireAdmin(q)
  <2>1. Here(q) = "requireAdmin" /\ Here(q) \notin Limiter
    BY <1>0, <1>5 DEF RequireAdmin
  <2>2. CASE request[q].role = "admin" /\ Advance(q, {})
    BY <1>3, <2>1, <2>2 DEF Vouched
  <2>3. CASE Answer(q, 403)
    BY <2>1, <2>3, AnswerKeeps DEF Status
  <2> QED
    BY <1>5, <2>2, <2>3 DEF RequireAdmin
<1>6. CASE GuardMetrics(q)
  <2>1. Here(q) = "guard" /\ Here(q) \notin Limiter
    BY <1>0, <1>6 DEF GuardMetrics
  <2>2. CASE Advance(q, {}) /\
              IF deployment.metricsToken THEN request[q].metrics ELSE ~deployment.production
    BY <1>3, <2>1, <2>2 DEF Vouched
  <2>3. CASE Answer(q, 401) \/ Answer(q, 404)
    BY <2>1, <2>3, AnswerKeeps DEF Status
  <2> QED
    BY <1>6, <2>2, <2>3 DEF GuardMetrics
<1>7. CASE Handle(q)
  <2>1. PICK status \in IF request[q].route = "refresh"
                          THEN RefreshAnswers(request[q].token) ELSE {200} :
             Answer(q, status)
    BY <1>7 DEF Handle
  <2>2. Here(q) = "handler" /\ request[q] \in Incoming
    BY <1>7, StandsBefore DEF Handle
  <2>3. status \in Status
    BY <2>1, <2>2, IncomingTyped, RefreshAnswered DEF Status
  <2> QED
    BY <2>1, <2>2, <2>3, AnswerKeeps
<1> QED
  BY <1>1, <1>2, <1>4, <1>5, <1>6, <1>7 DEF Proceed

LEMMA LocalKept ==
  ASSUME LocalTypeOK, \A p \in Request : RequestOK(p),
         UNCHANGED <<deployment, localVars>>
  PROVE  LocalTypeOK' /\ \A p \in Request : RequestOK(p)'
<1>1. /\ deployment' = deployment /\ request' = request /\ at' = at
      /\ passed' = passed /\ answer' = answer
  BY DEF localVars
<1>2. LocalTypeOK'
  BY <1>1 DEF LocalTypeOK
<1>3. ASSUME NEW p \in Request PROVE RequestOK(p)'
  BY <1>1, OthersKept
<1> QED
  BY <1>2, <1>3

LEMMA GatewayStepKeeps == GatewayInv /\ [GatewayNext]_gatewayVars => GatewayInv'
<1> SUFFICES ASSUME GatewayInv, [GatewayNext]_gatewayVars PROVE GatewayInv'
  OBVIOUS
<1>1. LimiterInv /\ LocalTypeOK /\ \A p \in Request : RequestOK(p)
  BY DEF GatewayInv
<1>2. LimiterInv'
  <2>1. CASE GatewayNext
    BY <1>1, <2>1, LimiterStep, StepKeeps, StutterKeeps
  <2>2. CASE UNCHANGED gatewayVars
    BY <1>1, <2>2, StutterKeeps DEF gatewayVars
  <2> QED
    BY <2>1, <2>2
<1>3. LocalTypeOK' /\ \A p \in Request : RequestOK(p)'
  <2>1. CASE GatewayTick
    BY <1>1, <2>1, LocalKept DEF GatewayTick
  <2>2. ASSUME NEW q \in Request, NEW r \in Incoming, Arrive(q, r)
        PROVE  LocalTypeOK' /\ \A p \in Request : RequestOK(p)'
    BY <1>1, <2>2, ArriveKeeps
  <2>3. ASSUME NEW q \in Request, CountAgain(q)
        PROVE  LocalTypeOK' /\ \A p \in Request : RequestOK(p)'
    BY <1>1, <2>3, LocalKept DEF CountAgain
  <2>4. ASSUME NEW q \in Request, Proceed(q)
        PROVE  LocalTypeOK' /\ \A p \in Request : RequestOK(p)'
    BY <1>1, <2>4, ProceedKeeps
  <2>5. CASE UNCHANGED gatewayVars
    BY <1>1, <2>5, LocalKept DEF gatewayVars
  <2> QED
    BY <2>1, <2>2, <2>3, <2>4, <2>5 DEF GatewayNext
<1> QED
  BY <1>2, <1>3 DEF GatewayInv

LEMMA GatewayInvariant == GatewaySpec => []GatewayInv
  BY GatewayInitInv, GatewayStepKeeps, PTL DEF GatewaySpec

-----------------------------------------------------------------------------
(* A request carries what it may, stands within the chain of its route and *)
(* was counted by limiters of that route alone.                            *)
THEOREM GatewayTypeCorrect == GatewaySpec => []GatewayTypeOK
<1>1. GatewayInv => GatewayTypeOK
  BY DEF GatewayInv, LimiterInv, LocalTypeOK, RequestOK, GatewayTypeOK
<1> QED
  BY <1>1, GatewayInvariant, PTL

(* No handler of createRouter and createApp runs uncounted: a refresh that *)
(* may renew a session was counted for that session, whatever the JSON of  *)
(* its token; anything else for an address, the client's own if TRUST_PROXY *)
(* names the hops there are, and one of its choice only if it names more.  *)
(* Nor without authentication, requireAdmin or the metrics guard where     *)
(* they stand before it: for any proxies, any number of hops, any claims,  *)
(* and whatever Redis fails to do.                                         *)
THEOREM HandlersAreGuarded == GatewaySpec => []HandlersGuarded
<1>1. GatewayInv => HandlersGuarded
  <2> SUFFICES ASSUME GatewayInv, NEW q \in Request, Here(q) = "handler"
               PROVE  LET r == request[q]
                      IN /\ \A limiter \in Limits(r.route) :
                              \E key \in CountedFor(limiter, r) :
                                <<limiter, key>> \in passed[q]
                         /\ r.route \in {"logout", "me", "admin"} => r.role # None
                         /\ r.route = "admin" => r.role = "admin"
                         /\ r.route = "metrics" =>
                              IF deployment.metricsToken THEN r.metrics
                                                         ELSE ~deployment.production
    BY DEF HandlersGuarded
  <2>1. LocalTypeOK /\ RequestOK(q)
    BY DEF GatewayInv
  <2>2. /\ request[q] # None /\ request[q].route \in Route
        /\ at[q] = Len(Chain[request[q].route])
    BY <2>1, StandsBefore
  <2>3. \A i \in 1..(at[q] - 1) : Vouched(q, Chain[request[q].route][i])
    BY <2>1, <2>2 DEF RequestOK
  <2>4. ASSUME NEW check, \E i \in 1..(Len(Chain[request[q].route]) - 1) :
                            Chain[request[q].route][i] = check
        PROVE  Vouched(q, check)
    BY <2>2, <2>3, <2>4
  <2>5. ASSUME NEW limiter \in Limits(request[q].route)
        PROVE  \E key \in CountedFor(limiter, request[q]) : <<limiter, key>> \in passed[q]
    <3>1. limiter \in Limiter
      BY <2>2, GatewayAssumption DEF Limits
    <3>2. Vouched(q, limiter)
      BY <2>2, <2>4, ChecksInChain
    <3> QED
      BY <3>1, <3>2 DEF Vouched
  <2>6. request[q].route \in {"logout", "me", "admin"} => request[q].role # None
    BY <2>2, <2>4, ChecksInChain DEF Vouched
  <2>7. request[q].route = "admin" => request[q].role = "admin"
    BY <2>2, <2>4, ChecksInChain DEF Vouched
  <2>8. request[q].route = "metrics" =>
          IF deployment.metricsToken THEN request[q].metrics ELSE ~deployment.production
    BY <2>2, <2>4, ChecksInChain DEF Vouched
  <2> QED
    BY <2>5, <2>6, <2>7, <2>8
<1> QED
  BY <1>1, GatewayInvariant, PTL

(* The routes use the limiters as RateLimiter describes them.              *)
THEOREM GatewayUsesLimiters == GatewaySpec => LimiterSpec
<1>1. GatewayInit => LimiterInit
  BY DEF GatewayInit
<1>2. GatewayInv /\ [GatewayNext]_gatewayVars => [LimiterNext]_limiterVars
  BY LimiterStep DEF GatewayInv, gatewayVars
<1> QED
  BY <1>1, <1>2, GatewayInvariant, PTL DEF GatewaySpec, LimiterSpec

(* So a client, a session or a proxy gets no more than twice a limit, less *)
(* one, through any route in less than a window.                           *)
THEOREM GatewayBurstIsBounded == GatewaySpec => []BurstBounded
BY GatewayUsesLimiters, BurstIsBounded, PTL

=============================================================================
