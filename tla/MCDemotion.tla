----------------------------- MODULE MCDemotion -----------------------------
(* Demotion followed by logout-all: a history variable says of each user   *)
(* whether a logout-all has run since the row last changed.                *)
EXTENDS AuthService, TLC

VARIABLE purged

DemotionInit == AuthInit /\ purged = [u \in User |-> FALSE]

DemotionNext ==
  \/ /\ AuthTick \/ \E q \in Request : LoginNext(q) \/ AuthGet(q)
     /\ UNCHANGED purged
  \/ /\ \E q \in Request, token \in access, ts \in DateNow :
          AuthVerify(q, token, ts)
     /\ UNCHANGED purged
  \/ \E u \in User, r \in Role :
        /\ ChangeRole(u, r)
        /\ purged' = [purged EXCEPT ![u] = FALSE]
  \/ \E q \in Request :
        /\ LogoutAll(q)
        /\ purged' = [purged EXCEPT ![target[q].user] = TRUE]

DemotionSpec == DemotionInit /\ [][DemotionNext]_<<authVars, purged>>

(* docs/security.md:42 and docs/design-decisions.md:41: revoking the       *)
(* sessions of a user makes a demotion immediate.                          *)
LogoutAllDemotes ==
  \A token \in access :
    purged[token.user] /\ Live(token.session) /\ Unexpired(token, now)
      => token.role = users[token.user]

=============================================================================
