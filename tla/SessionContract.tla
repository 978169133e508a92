-------------------------- MODULE SessionContract --------------------------
(***************************************************************************)
(* What a client may rely on about the sessions it was given, whatever the *)
(* store does underneath: a session is issued once, holds one refresh      *)
(* token at a time, every renewal retires the token it was bought with,    *)
(* and a session that has ended stays ended.                               *)
(* SessionStore implements this specification.                             *)
(***************************************************************************)
CONSTANTS SessionId, Hash, None

VARIABLES
  status,   \* "unissued" until a login answers with the session
  current,  \* the one token that can renew an open session
  spent     \* the tokens of the session that can never renew it again

vars == <<status, current, spent>>

Init ==
  /\ status = [s \in SessionId |-> "unissued"]
  /\ current = [s \in SessionId |-> None]
  /\ spent = [s \in SessionId |-> {}]

Fresh(h) == \A s \in SessionId : h # current[s] /\ h \notin spent[s]

(* A login answers.  The session may already be over: it was revoked while *)
(* the answer was on its way.                                              *)
Issue(s, h) ==
  /\ status[s] = "unissued"
  /\ Fresh(h)
  /\ \/ /\ status' = [status EXCEPT ![s] = "open"]
        /\ current' = [current EXCEPT ![s] = h]
        /\ UNCHANGED spent
     \/ /\ status' = [status EXCEPT ![s] = "closed"]
        /\ spent' = [spent EXCEPT ![s] = {h}]
        /\ UNCHANGED current

(* The current token, and no other, is traded for a new one.               *)
Renew(s, h) ==
  /\ status[s] = "open"
  /\ Fresh(h)
  /\ current' = [current EXCEPT ![s] = h]
  /\ spent' = [spent EXCEPT ![s] = @ \cup {current[s]}]
  /\ UNCHANGED status

(* Sessions end: logout, logout everywhere, reuse detection or expiry.     *)
Close(S) ==
  /\ \A s \in S : status[s] = "open"
  /\ status' = [s \in SessionId |-> IF s \in S THEN "closed" ELSE status[s]]
  /\ current' = [s \in SessionId |-> IF s \in S THEN None ELSE current[s]]
  /\ spent' = [s \in SessionId |->
                 IF s \in S THEN spent[s] \cup {current[s]} ELSE spent[s]]

Next ==
  \/ \E s \in SessionId, h \in Hash : Issue(s, h) \/ Renew(s, h)
  \/ \E S \in SUBSET SessionId : Close(S)

Spec == Init /\ [][Next]_vars

=============================================================================
