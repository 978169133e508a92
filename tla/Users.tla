-------------------------------- MODULE Users --------------------------------
(***************************************************************************)
(* POST /v1/users and the users table.  UserService.createUser asks twice  *)
(* whether a field is taken, hashes, and inserts; PostgreSQL enters a row  *)
(* into the unique indexes one after the other and makes a statement wait  *)
(* for a transaction that holds the same key.  The connection may break    *)
(* under a statement, which then may or may not take effect.               *)
(***************************************************************************)
EXTENDS Naturals

CONSTANTS Signup, Name, Spelling, Email

VARIABLES
  form,       \* the parsed body of each signup
  at,         \* the step each signup stands before
  answer,     \* what the client has been told
  rows,       \* the signups whose row is in the users table, committed
  createdAt,  \* created_at: when the INSERT of the signup began
  clock       \* PostgreSQL's, in ticks that two INSERTs may share

signupVars == <<form, at, answer>>
tableVars == <<rows, createdAt, clock>>
userVars == <<signupVars, tableVars>>

(* A name in one of its spellings: lower() makes them one.                 *)
Form == [name : Name, spelling : Spelling, email : Email]

InDatabase == {"emailKey", "usernameKey", "commit"}
Decided == {"created", "usernameTaken", "emailTaken"}
Step == {"idle", "checkUsername", "checkEmail", "hash", "over"}
          \cup InDatabase \cup Decided

-----------------------------------------------------------------------------
(* Helpers                                                                 *)

Lower_Exact(q) == <<form[q].name, form[q].spelling>>
Lower(q) == form[q].name

UsernameTaken(q) == \E p \in rows : Lower(p) = Lower(q)
EmailTaken(q) == \E p \in rows : form[p].email = form[q].email

(* Transactions that have entered their row into the index and not ended.  *)
HoldsEmail(p) == at[p] \in {"usernameKey", "commit"}
HoldsUsername(p) == at[p] = "commit"

(* The error a unique violation becomes.                                   *)
Conflict_Swapped(constraint) ==
  IF constraint = "users_email_key" THEN "usernameTaken" ELSE "emailTaken"
Conflict(constraint) ==
  IF constraint = "users_email_key" THEN "emailTaken" ELSE "usernameTaken"

GoTo(q, step) == at' = [at EXCEPT ![q] = step]

Tell(q, what) ==
  answer' = [answer EXCEPT ![q] = IF @ = "none" THEN what ELSE @]

-----------------------------------------------------------------------------
(* createUser, one await after another                                     *)

Submit(q) ==
  /\ at[q] = "idle"
  /\ GoTo(q, "checkUsername")
  /\ UNCHANGED <<form, answer, tableVars>>

CheckUsername(q) ==
  /\ at[q] = "checkUsername"
  /\ GoTo(q, IF UsernameTaken(q) THEN "usernameTaken" ELSE "checkEmail")
  /\ UNCHANGED <<form, answer, tableVars>>

CheckEmail(q) ==
  /\ at[q] = "checkEmail"
  /\ GoTo(q, IF EmailTaken(q) THEN "emailTaken" ELSE "hash")
  /\ UNCHANGED <<form, answer, tableVars>>

(* bcrypt is over: the id is drawn and the INSERT begins.                  *)
Insert_NoDefault(q) ==
  /\ at[q] = "hash"
  /\ GoTo(q, "emailKey")
  /\ clock' \in {clock, clock + 1}
  /\ UNCHANGED <<form, answer, rows, createdAt>>
Insert(q) ==
  /\ at[q] = "hash"
  /\ GoTo(q, "emailKey")
  /\ clock' \in {clock, clock + 1}
  /\ createdAt' = [createdAt EXCEPT ![q] = clock']
  /\ UNCHANGED <<form, answer, rows>>

(* users_email_key is the older of the two indexes, so it comes first.     *)
EmailKey(q) ==
  /\ at[q] = "emailKey"
  /\ \A p \in Signup : HoldsEmail(p) => form[p].email # form[q].email
  /\ GoTo(q, IF EmailTaken(q) THEN Conflict("users_email_key")
                              ELSE "usernameKey")
  /\ UNCHANGED <<form, answer, tableVars>>

UsernameKey(q) ==
  /\ at[q] = "usernameKey"
  /\ \A p \in Signup : HoldsUsername(p) => Lower(p) # Lower(q)
  /\ GoTo(q, IF UsernameTaken(q) THEN Conflict("users_username_lower_key")
                                 ELSE "commit")
  /\ UNCHANGED <<form, answer, tableVars>>

Commit(q) ==
  /\ at[q] = "commit"
  /\ GoTo(q, "created")
  /\ rows' = rows \cup {q}
  /\ UNCHANGED <<form, answer, createdAt, clock>>

Respond_Unhandled(q) ==
  /\ at[q] \in Decided
  /\ GoTo(q, "over")
  /\ IF at[q] = "created" THEN Tell(q, at[q]) ELSE UNCHANGED answer
  /\ UNCHANGED <<form, tableVars>>
Respond(q) ==
  /\ at[q] \in Decided
  /\ GoTo(q, "over")
  /\ Tell(q, at[q])
  /\ UNCHANGED <<form, tableVars>>

-----------------------------------------------------------------------------
(* What may happen to it                                                   *)

(* The process dies or its connection breaks; a statement that PostgreSQL  *)
(* has begun goes on without it.                                           *)
Lose(q) ==
  /\ at[q] \notin {"idle", "over"} /\ answer[q] = "none"
  /\ Tell(q, "error")
  /\ GoTo(q, IF at[q] \in InDatabase THEN at[q] ELSE "over")
  /\ UNCHANGED <<form, tableVars>>

(* Or PostgreSQL rolls it back, and pool.query rejects with an error that  *)
(* is no unique violation.                                                 *)
Rollback(q) ==
  /\ at[q] \in InDatabase
  /\ GoTo(q, "over")
  /\ Tell(q, "error")
  /\ UNCHANGED <<form, tableVars>>

(* An operator's DELETE FROM users.                                        *)
DeleteRow(q) ==
  /\ q \in rows
  /\ rows' = rows \ {q}
  /\ UNCHANGED <<signupVars, createdAt, clock>>

-----------------------------------------------------------------------------
UsersInit ==
  /\ form \in [Signup -> Form]
  /\ at = [q \in Signup |-> "idle"]
  /\ answer = [q \in Signup |-> "none"]
  /\ rows = {}
  /\ createdAt = [q \in Signup |-> 0]
  /\ clock = 1

(* What the event loop and PostgreSQL go on with once it has begun.        *)
Proceed(q) ==
  CheckUsername(q) \/ CheckEmail(q) \/ Insert(q) \/ EmailKey(q)
    \/ UsernameKey(q) \/ Commit(q) \/ Respond(q)

UsersNext ==
  \E q \in Signup :
    Submit(q) \/ Proceed(q) \/ Lose(q) \/ Rollback(q) \/ DeleteRow(q)

UsersSpec == UsersInit /\ [][UsersNext]_userVars

UsersFairness == \A q \in Signup : WF_userVars(Proceed(q))

-----------------------------------------------------------------------------
(* Properties                                                              *)

(* Types, and created_at is set before a row can be seen.                  *)
UsersTypeOK ==
  /\ form \in [Signup -> Form]
  /\ at \in [Signup -> Step]
  /\ answer \in [Signup -> Decided \cup {"none", "error"}]
  /\ rows \subseteq Signup
  /\ clock \in Nat \ {0}
  /\ createdAt \in [Signup -> 0 .. clock]
  /\ \A q \in rows : createdAt[q] > 0

(* The decision on a signup, as the client would put it.                   *)
Status ==
  [q \in Signup |-> IF answer[q] # "none"
                      THEN IF answer[q] = "error" THEN "failed" ELSE answer[q]
                      ELSE IF at[q] \in Decided THEN at[q] ELSE "open"]

Contract == INSTANCE Registry WITH accounts <- rows, status <- Status

(* Two checks, a hash of a quarter of a second and an INSERT, interleaved  *)
(* with those of other signups, are as good as one step: whoever is        *)
(* refused is refused for what somebody else has, and nobody is told       *)
(* "created" without an account of his own.                                *)
RegistrySpec == Contract!Spec

(* Signups that wait for each other's keys do not wait for ever, and one   *)
(* that loses the race is answered like one that wins it.                  *)
EveryoneAnswered ==
  \A q \in Signup : at[q] = "checkUsername" ~> answer[q] # "none"

=============================================================================
