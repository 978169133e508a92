------------------------------ MODULE MCGrace ------------------------------
(* SessionStore with the time each token was rotated away, and the tokens  *)
(* whose presentation ended the session within the grace period of that.   *)
EXTENDS SessionStore, TLC

VARIABLES retiredAt, misjudged

GraceInit ==
  /\ StoreInit
  /\ retiredAt = [h \in Hash |-> 0]
  /\ misjudged = {}

GraceNext ==
  \/ /\ \/ Tick
        \/ \E s \in SessionId : Acknowledge(s)
        \/ \E s \in SessionId, u \in User, r \in Role, h \in Hash,
              ts \in CallerClock : Create(s, u, r, h, ts, {})
     /\ UNCHANGED <<retiredAt, misjudged>>
  \/ \E s \in SessionId, p \in Hash, n \in Hash, r \in Role, ts \in CallerClock :
        /\ RotateSwap(s, p, n, r, ts)
        /\ retiredAt' = [retiredAt EXCEPT ![p] = ts]
        /\ UNCHANGED misjudged
  \/ \E s \in SessionId, p \in Hash, ts \in CallerClock :
        /\ p \in installed[s]
        /\ RotateReuse(s, Owner(s), p, ts)
        /\ misjudged' = IF ts - retiredAt[p] <= GracePeriod
                          THEN misjudged \cup {p} ELSE misjudged
        /\ UNCHANGED retiredAt

GraceSpec == GraceInit /\ [][GraceNext]_<<storeVars, retiredAt, misjudged>>

(* SessionRepository.ts:38-41: a token that was rotated away within the    *)
(* grace period is rejected and the session left alive; a session is       *)
(* deleted for a token that is stale beyond the grace period.              *)
ReuseIsBeyondGrace == misjudged = {}

=============================================================================
