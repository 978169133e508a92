------------------------------ MODULE Gateway ------------------------------
(***************************************************************************)
(* What stands between a client and a handler: createApp and createRouter  *)
(* give each route a chain of limiters and checks, which a request passes  *)
(* one after the other.  Limiters and authentication ask Redis, which may  *)
(* fail, or count a hit and lose the reply.  Who a request is counted for  *)
(* depends on TRUST_PROXY, on the proxies that are really there, and on    *)
(* what the client claims in X-Forwarded-For.  An address stands for all   *)
(* of its /56 subnet, for which ipKeyGenerator makes one key.              *)
(***************************************************************************)
EXTENDS RateLimiter

CONSTANTS
  Request,    \* requests that may be under way at once
  Client,     \* addresses of clients
  Proxies,    \* addresses of the reverse proxies there may be, nearest first
  Elsewhere,  \* an address that a client may claim
  MaxHops,    \* bound of the hops that TRUST_PROXY may name
  Session,    \* session ids
  None

MaxSessionIdLength == 64

ProxiesOf(n) == {Proxies[i] : i \in 1..n}

(* Keys of sessions and of addresses have prefixes that keep them apart.   *)
ASSUME GatewayAssumption ==
  /\ Limiter = {"api", "login", "refresh", "meta"}
  /\ Proxies \in Seq(Key) /\ MaxHops \in Nat
  /\ Key = Client \cup Session \cup ProxiesOf(Len(Proxies)) \cup {Elsewhere}
  /\ None \notin Key /\ Elsewhere \notin Client \cup ProxiesOf(Len(Proxies))
  /\ Client \cap ProxiesOf(Len(Proxies)) = {}
  /\ Session \cap (Client \cup ProxiesOf(Len(Proxies)) \cup {Elsewhere}) = {}

VARIABLES
  deployment,  \* the environment the process was started in
  request,     \* what each request under way carries
  at,          \* its place in the chain of its route
  passed,      \* the limiters that have let it through, with its keys
  answer       \* the status it is answered, 0 before, and its route

localVars == <<request, at, passed, answer>>
gatewayVars == <<limiterVars, deployment, localVars>>

-----------------------------------------------------------------------------
(* The environment                                                         *)

(* TRUST_PROXY as the number of hops to believe; a list of subnets is read *)
(* as the number of hops it covers.  "true" refuses to start.              *)
Refused == MaxHops + 1
parseTrustProxy(value) ==
  CASE value.form \in {"", "false"} -> 0
    [] value.form = "true" -> Refused
    [] value.form \in {"digits", "subnets"} -> value.hops

(* Nothing compares a number of hops with the proxies that are there; the  *)
(* subnets of a list are taken to be proxies'.                             *)
Deployment ==
  {d \in [proxies : 0..Len(Proxies), trusted : 0..MaxHops,
          production : BOOLEAN, metricsToken : BOOLEAN] :
     \E value \in [form : {"", "false", "true", "digits", "subnets"}, hops : 0..MaxHops] :
        /\ value.form = "subnets" => value.hops <= d.proxies
        /\ d.trusted = parseTrustProxy(value)}

(* request.ip: the first address, from the socket outwards, that is not of *)
(* a believed hop, or the last one; every proxy appends the address that   *)
(* it was called from to what the client has claimed.                      *)
Ip(client, claimed) ==
  LET n == deployment.proxies
      last == n + 1 + Len(claimed)
      i == IF deployment.trusted < last THEN deployment.trusted + 1 ELSE last
  IN CASE i <= n    -> Proxies[i]
       [] i = n + 1 -> client
       [] i > n + 1 -> claimed[i - (n + 1)]

-----------------------------------------------------------------------------
(* Refresh tokens: request.body.refreshToken is whatever the JSON holds.   *)
(* separator is where the first dot stands, a character of a string or an  *)
(* element of a list, 0 when there is none or nothing before it; id is     *)
(* what is before it, None if no session can have that id; validator tells *)
(* whether anything follows.                                               *)

NoToken == [form |-> "missing", separator |-> 0, id |-> None, validator |-> FALSE]

Token ==
  [form : {"string"}, separator : {36}, id : Session, validator : BOOLEAN]
    \cup [form : {"list"}, separator : {1}, id : Session, validator : BOOLEAN]
    \cup [form : {"string"}, separator : {0, MaxSessionIdLength + 1}, id : {None},
          validator : {TRUE}]
    \cup [form : {"list", "other"}, separator : {0}, id : {None}, validator : {FALSE}]
    \cup {NoToken}

refreshTokenSessionKey_PerClient(token, ip) == ip
refreshTokenSessionKey(token, ip) ==
  IF token.form = "string" /\ token.separator \in 1..MaxSessionIdLength
    THEN token.id ELSE ip

(* Strings and lists both have indexOf and slice, and the key of a session *)
(* is made of either.                                                      *)
splitRefreshToken(token) ==
  IF token.separator <= 0 \/ ~token.validator THEN None ELSE token.id

(* What refresh may answer: 500 without a body and for a value that has no *)
(* indexOf; 401 where no session is found; 500 for a list that finds one,  *)
(* because its validator cannot be hashed.                                 *)
RefreshAnswers(token) ==
  CASE token.form = "missing" -> {400, 500}
    [] token.form = "other" -> {500}
    [] token.form = "list" -> IF splitRefreshToken(token) = None THEN {401} ELSE {401, 500}
    [] token.form = "string" ->
         IF splitRefreshToken(token) = None THEN {401} ELSE {200, 401, 409}

-----------------------------------------------------------------------------
(* Routes                                                                  *)

Chain ==
  [users     |-> <<"api", "handler">>,
   login     |-> <<"api", "login", "handler">>,
   refresh   |-> <<"api", "refresh", "handler">>,
   logout    |-> <<"api", "authentication", "handler">>,
   me        |-> <<"api", "authentication", "handler">>,
   admin     |-> <<"api", "authentication", "requireAdmin", "handler">>,
   ready     |-> <<"meta", "handler">>,
   metrics   |-> <<"meta", "guard", "handler">>]

Route == DOMAIN Chain

(* A request: the route; who sends it and what it claims about that; the   *)
(* refresh token of its body; the role of a valid access token, if it has  *)
(* one; whether it presents METRICS_TOKEN.                                 *)
Incoming ==
  {r \in [route : Route, client : Client, claimed : {<<>>, <<Elsewhere>>},
          token : Token, role : {None, "user", "admin"}, metrics : BOOLEAN] :
     /\ r.route # "refresh" => r.token = NoToken
     /\ r.route \notin {"logout", "me", "admin"} => r.role = None
     /\ r.route # "metrics" => ~r.metrics}

Here(q) == IF request[q] = None THEN "over" ELSE Chain[request[q].route][at[q]]

(* Prefix and keyGenerator of the limiter that a request stands before     *)
BucketOf_SharedPrefix(q) ==
  LET r == request[q]
      ip == Ip(r.client, r.claimed)
  IN IF Here(q) = "refresh" THEN <<"login", refreshTokenSessionKey(r.token, ip)>>
                            ELSE <<Here(q), ip>>
BucketOf(q) ==
  LET r == request[q]
      ip == Ip(r.client, r.claimed)
  IN <<Here(q), IF Here(q) = "refresh" THEN refreshTokenSessionKey(r.token, ip)
                                       ELSE ip>>

-----------------------------------------------------------------------------
(* One step of a chain                                                     *)

Advance(q, counted) ==
  /\ at' = [at EXCEPT ![q] = @ + 1]
  /\ passed' = [passed EXCEPT ![q] = @ \cup counted]
  /\ UNCHANGED <<deployment, request, answer>>

Status == {200, 400, 401, 403, 404, 409, 429, 500}

Answer(q, status) ==
  /\ answer' = [answer EXCEPT ![q] = [route |-> request[q].route, status |-> status]]
  /\ request' = [request EXCEPT ![q] = None]
  /\ at' = [at EXCEPT ![q] = 1]
  /\ passed' = [passed EXCEPT ![q] = {}]
  /\ UNCHANGED deployment

Arrive(q, r) ==
  /\ request[q] = None
  /\ request' = [request EXCEPT ![q] = r]
  /\ answer' = [answer EXCEPT ![q] = [route |-> r.route, status |-> 0]]
  /\ UNCHANGED <<limiterVars, deployment, at, passed>>

(* rateLimit: count, then 429 above the limit.                             *)
Limit(q) ==
  /\ Here(q) \in Limiter
  /\ \/ Pass(BucketOf(q)) /\ Advance(q, {BucketOf(q)})
     \/ ~Admitted(BucketOf(q)) /\ Waste(BucketOf(q)) /\ Answer(q, 429)

(* The reply is lost and ioredis sends the command again.                  *)
CountAgain(q) ==
  /\ Here(q) \in Limiter
  /\ Waste(BucketOf(q))
  /\ UNCHANGED <<deployment, localVars>>

(* Redis fails, or ioredis gives up: the rejection of a limiter and of     *)
(* authentication reaches errorHandler.                                    *)
Fail(q) ==
  /\ Here(q) \in Limiter \cup {"authentication"}
  /\ Answer(q, 500)
  /\ UNCHANGED limiterVars

(* A missing, invalid or expired token, and a session that has ended.      *)
Authenticate(q) ==
  /\ Here(q) = "authentication"
  /\ \/ request[q].role # None /\ Advance(q, {})
     \/ Answer(q, 401)
  /\ UNCHANGED limiterVars

RequireAdmin(q) ==
  /\ Here(q) = "requireAdmin"
  /\ IF request[q].role = "admin" THEN Advance(q, {}) ELSE Answer(q, 403)
  /\ UNCHANGED limiterVars

GuardMetrics(q) ==
  /\ Here(q) = "guard"
  /\ IF deployment.metricsToken
       THEN IF request[q].metrics THEN Advance(q, {}) ELSE Answer(q, 401)
       ELSE IF deployment.production THEN Answer(q, 404) ELSE Advance(q, {})
  /\ UNCHANGED limiterVars

(* The controller; what others than refresh answer is in the models of the *)
(* services.                                                               *)
Handle(q) ==
  /\ Here(q) = "handler"
  /\ \E status \in IF request[q].route = "refresh" THEN RefreshAnswers(request[q].token)
                                                   ELSE {200} : Answer(q, status)
  /\ UNCHANGED limiterVars

-----------------------------------------------------------------------------
GatewayTick == Tick /\ UNCHANGED <<deployment, localVars>>

GatewayInit ==
  /\ LimiterInit
  /\ deployment \in Deployment
  /\ request = [q \in Request |-> None]
  /\ at = [q \in Request |-> 1]
  /\ passed = [q \in Request |-> {}]
  /\ answer \in [Request -> [route : Route, status : {0}]]

Proceed(q) ==
  \/ Limit(q) \/ Fail(q)
  \/ Authenticate(q) \/ RequireAdmin(q) \/ GuardMetrics(q) \/ Handle(q)

GatewayNext ==
  \/ GatewayTick
  \/ \E q \in Request :
       \/ \E r \in Incoming : Arrive(q, r)
       \/ CountAgain(q)
       \/ Proceed(q)

GatewaySpec == GatewayInit /\ [][GatewayNext]_gatewayVars

-----------------------------------------------------------------------------
(* Properties                                                              *)

(* Types; a request stands within the chain of its route, and what it has  *)
(* passed are limiters of that route.                                      *)
GatewayTypeOK ==
  /\ LimiterTypeOK
  /\ deployment \in Deployment
  /\ request \in [Request -> Incoming \cup {None}]
  /\ \A q \in Request : request[q] # None =>
       /\ at[q] \in 1..Len(Chain[request[q].route])
       /\ \A b \in passed[q] : \E i \in 1..(at[q] - 1) :
            b \in Bucket /\ b[1] = Chain[request[q].route][i]
  /\ answer \in [Request -> [route : Route,
                             status : {0} \cup Status]]

(* docs/security.md:74 to 82: the limiters of each route.                  *)
Limits(route) ==
  CASE route \in {"ready", "metrics"} -> {"meta"}
    [] route \in {"login", "refresh"} -> {"api", route}
    [] OTHER -> {"api"}

(* The addresses a client may be counted for: its own where TRUST_PROXY    *)
(* names the hops there are; a proxy's where it names fewer; and only      *)
(* where it names more, one that the client has picked.                    *)
CountedAddresses(client) ==
  LET n == deployment.proxies
  IN CASE deployment.trusted < n -> ProxiesOf(n)
       [] deployment.trusted = n -> {client}
       [] deployment.trusted > n -> {client, Elsewhere}

(* Whom a hit is counted for: a refresh that may renew a session, for that *)
(* session; no other session than the one that a string names; everything  *)
(* else for an address.                                                    *)
CountedFor(limiter, r) ==
  IF limiter # "refresh" THEN CountedAddresses(r.client)
  ELSE IF 200 \in RefreshAnswers(r.token) THEN {r.token.id}
  ELSE CountedAddresses(r.client)
         \cup {s \in Session : r.token.form = "string" /\ r.token.id = s}

(* No request reaches its handler uncounted, counted for somebody else, or *)
(* past a check it does not meet; when Redis fails the chain fails closed. *)
HandlersGuarded ==
  \A q \in Request : Here(q) = "handler" =>
    LET r == request[q]
    IN /\ \A limiter \in Limits(r.route) : \E key \in CountedFor(limiter, r) :
            <<limiter, key>> \in passed[q]
       /\ r.route \in {"logout", "me", "admin"} => r.role # None
       /\ r.route = "admin" => r.role = "admin"
       /\ r.route = "metrics" =>
            IF deployment.metricsToken THEN r.metrics ELSE ~deployment.production

(* docs/api.md:138 and :175: with Redis down a profile is slower, not      *)
(* unavailable, and a readiness probe is told 503 by its handler.          *)
RedisOutageTolerated ==
  \A q \in Request : answer[q].route \in {"ready", "me"} => answer[q].status # 500

=============================================================================
