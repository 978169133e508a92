------------------------------ MODULE Registry ------------------------------
(***************************************************************************)
(* What POST /v1/users promises.  Of the signups that want one username or *)
(* one email, whatever their timing, at most one has the account; a signup *)
(* is refused only for a field that an account really holds at that        *)
(* moment, and is told which one; "created" means the account is there.    *)
(* Users implements this specification.                                    *)
(***************************************************************************)
CONSTANTS Signup, Form

VARIABLES
  form,      \* what each signup asks for: a name and an email
  accounts,  \* the signups whose account exists
  status     \* what the signup has been decided to be

vars == <<form, accounts, status>>

Init ==
  /\ form \in [Signup -> Form]
  /\ accounts = {}
  /\ status = [q \in Signup |-> "open"]

NameHeld(q) == \E p \in accounts : form[p].name = form[q].name
EmailHeld(q) == \E p \in accounts : form[p].email = form[q].email

Decide(q, outcome) ==
  /\ status[q] = "open"
  /\ status' = [status EXCEPT ![q] = outcome]

(* The account of a signup that was told nothing, or that the request      *)
(* failed, may still appear.                                               *)
Accept(q) ==
  /\ q \notin accounts
  /\ ~ NameHeld(q) /\ ~ EmailHeld(q)
  /\ accounts' = accounts \cup {q}
  /\ \/ Decide(q, "created")
     \/ status[q] = "failed" /\ UNCHANGED status
  /\ UNCHANGED form

Refuse(q) ==
  /\ \/ NameHeld(q) /\ Decide(q, "usernameTaken")
     \/ EmailHeld(q) /\ Decide(q, "emailTaken")
  /\ UNCHANGED <<form, accounts>>

(* The connection breaks or the process dies; the client knows nothing.    *)
Fail(q) ==
  /\ status[q] # "failed"
  /\ status' = [status EXCEPT ![q] = "failed"]
  /\ UNCHANGED <<form, accounts>>

(* An operator deletes the account.                                        *)
Remove(q) ==
  /\ q \in accounts
  /\ accounts' = accounts \ {q}
  /\ UNCHANGED <<form, status>>

Next == \E q \in Signup : Accept(q) \/ Refuse(q) \/ Fail(q) \/ Remove(q)

Spec == Init /\ [][Next]_vars

=============================================================================
