----------------------------- MODULE MCGateway -----------------------------
(* Gateway with limits of one or two hits and windows of two ticks.  All   *)
(* requests of a behaviour are for one route, so that every limit can be   *)
(* met; METRICS_TOKEN and NODE_ENV vary where they are looked at.  There   *)
(* are up to two proxies, and TRUST_PROXY names any number of hops up to   *)
(* one too many; for refresh, whose tokens vary, it is 1.  What a client   *)
(* claims varies on the routes that only one limiter counts by address.    *)
EXTENDS Gateway, TLC

CONSTANTS LoadBalancer, Edge

Symmetry ==
  Permutations(Request) \cup Permutations(Client) \cup Permutations(Session)

MCLimiter == {"api", "login", "refresh", "meta"}
MCProxies == <<LoadBalancer, Edge>>
MCKey == Client \cup Session \cup {LoadBalancer, Edge, Elsewhere}
MCMax == [l \in MCLimiter |-> IF l = "meta" THEN 2 ELSE 1]
MCWindow == [l \in MCLimiter |-> 2]

MCInit ==
  /\ GatewayInit
  /\ \A p, q \in Request : answer[p] = answer[q]
  /\ \A q \in Request : answer[q].route # "metrics" =>
       ~deployment.metricsToken /\ ~deployment.production
  /\ deployment.trusted <= deployment.proxies + 1
  /\ \A q \in Request : answer[q].route = "refresh" => deployment.trusted = 1

MCNext ==
  \/ GatewayTick
  \/ \E q \in Request :
       \/ \E r \in Incoming :
            /\ r.route = answer[q].route
            /\ Limits(r.route) # {"api"} => r.claimed = <<Elsewhere>>
            /\ Arrive(q, r)
       \/ CountAgain(q)
       \/ Proceed(q)

MCSpec == MCInit /\ [][MCNext]_gatewayVars

=============================================================================
