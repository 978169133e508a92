------------------------------ MODULE UsersProofs ------------------------------
(***************************************************************************)
(* Users implements Registry for any number of signups, names and emails,  *)
(* and a walk through the pages of UserListing is complete, whatever the   *)
(* size of the table and of a page.                                        *)
(***************************************************************************)
EXTENDS UserListing, FiniteSetTheorems, SequenceTheorems, TLAPS

Differ(p, q) == form[p].name # form[q].name /\ form[p].email # form[q].email

(* Whoever holds a key holds it alone, among transactions and rows alike.  *)
EmailsAlone ==
  \A p, q \in Signup :
    p # q /\ HoldsEmail(p) /\ (HoldsEmail(q) \/ q \in rows)
      => form[p].email # form[q].email

NamesAlone ==
  \A p, q \in Signup :
    p # q /\ HoldsUsername(p) /\ (HoldsUsername(q) \/ q \in rows)
      => form[p].name # form[q].name

(* What has been said does not run ahead of what has been decided.         *)
AnswersLast ==
  \A q \in Signup :
    /\ at[q] # "over" => answer[q] \in {"none", "error"}
    /\ at[q] \in InDatabase \cup {"idle", "checkUsername", "checkEmail", "hash"}
         => q \notin rows
    /\ at[q] \in InDatabase => createdAt[q] > 0

UsersInv == UsersTypeOK /\ EmailsAlone /\ NamesAlone /\ AnswersLast

LEMMA InitInv == UsersInit => UsersInv
<1> SUFFICES ASSUME UsersInit
             PROVE  UsersInv
  OBVIOUS
<1>1. UsersTypeOK
  BY DEF UsersInit, UsersTypeOK, Step
<1> QED
  BY <1>1 DEF UsersInit, UsersInv, EmailsAlone, NamesAlone, AnswersLast,
     HoldsEmail, HoldsUsername, InDatabase

-----------------------------------------------------------------------------
(* The invariant is preserved                                              *)

LEMMA StepType ==
  ASSUME UsersInv, [UsersNext]_userVars
  PROVE  UsersTypeOK'
<1> USE DEF UsersInv, UsersTypeOK, Step, InDatabase, Decided
<1>1. CASE UNCHANGED userVars
  BY <1>1 DEF userVars, signupVars, tableVars
<1>2. ASSUME NEW q \in Signup,
             Submit(q) \/ CheckUsername(q) \/ CheckEmail(q)
      PROVE  UsersTypeOK'
  BY <1>2 DEF Submit, CheckUsername, CheckEmail, GoTo, tableVars
<1>3. ASSUME NEW q \in Signup, Insert(q)
      PROVE  UsersTypeOK'
  <2>1. /\ clock' \in Nat \ {0}
        /\ createdAt' \in [Signup -> 0 .. clock']
        /\ \A p \in rows : createdAt'[p] > 0
    BY <1>3 DEF Insert
  <2> QED
    BY <1>3, <2>1 DEF Insert, GoTo
<1>4. ASSUME NEW q \in Signup, EmailKey(q) \/ UsernameKey(q)
      PROVE  UsersTypeOK'
  BY <1>4 DEF EmailKey, UsernameKey, Conflict, GoTo, tableVars
<1>5. ASSUME NEW q \in Signup, Commit(q)
      PROVE  UsersTypeOK'
  BY <1>5 DEF Commit, GoTo, AnswersLast
<1>6. ASSUME NEW q \in Signup, Respond(q)
      PROVE  UsersTypeOK'
  BY <1>6 DEF Respond, GoTo, Tell, tableVars
<1>7. ASSUME NEW q \in Signup, Lose(q) \/ Rollback(q)
      PROVE  UsersTypeOK'
  BY <1>7 DEF Lose, Rollback, GoTo, Tell, tableVars
<1>8. ASSUME NEW q \in Signup, DeleteRow(q)
      PROVE  UsersTypeOK'
  BY <1>8 DEF DeleteRow, signupVars
<1> QED
  BY <1>1, <1>2, <1>3, <1>4, <1>5, <1>6, <1>7, <1>8 DEF UsersNext, Proceed

(* A step that gives nobody a key and adds no row.                         *)
Retreats ==
  /\ form' = form /\ rows' \subseteq rows
  /\ \A p \in Signup : /\ HoldsEmail(p)' => HoldsEmail(p)
                       /\ HoldsUsername(p)' => HoldsUsername(p)

LEMMA MostRetreat ==
  ASSUME UsersInv, NEW q \in Signup,
         Submit(q) \/ CheckUsername(q) \/ CheckEmail(q) \/ Insert(q) \/ Respond(q)
           \/ Lose(q) \/ Rollback(q) \/ DeleteRow(q)
  PROVE  Retreats
<1> USE DEF UsersInv, UsersTypeOK, Retreats, HoldsEmail, HoldsUsername, GoTo,
            tableVars, signupVars, InDatabase, Decided
<1>1. CASE Submit(q) \/ CheckUsername(q) \/ CheckEmail(q) \/ Insert(q)
  BY <1>1 DEF Submit, CheckUsername, CheckEmail, Insert
<1>2. CASE Respond(q) \/ Rollback(q)
  BY <1>2 DEF Respond, Rollback
<1>3. CASE Lose(q)
  BY <1>3 DEF Lose
<1>4. CASE DeleteRow(q)
  BY <1>4 DEF DeleteRow
<1> QED
  BY <1>1, <1>2, <1>3, <1>4

LEMMA StepEmails ==
  ASSUME UsersInv, [UsersNext]_userVars
  PROVE  EmailsAlone'
<1> USE DEF UsersInv
<1>1. CASE Retreats
  BY <1>1 DEF Retreats, EmailsAlone
<1>2. CASE UNCHANGED userVars
  BY <1>2 DEF userVars, signupVars, tableVars, EmailsAlone, HoldsEmail
<1>3. ASSUME NEW q \in Signup, EmailKey(q)
      PROVE  EmailsAlone'
  <2>1. /\ form' = form /\ rows' = rows
        /\ \A p \in Signup : p # q => HoldsEmail(p)' = HoldsEmail(p)
        /\ \A p \in Signup : HoldsEmail(p) => form[p].email # form[q].email
        /\ HoldsEmail(q)' => \A p \in rows : form[p].email # form[q].email
    BY <1>3 DEF EmailKey, Conflict, GoTo, HoldsEmail, tableVars, UsersTypeOK,
         EmailTaken
  <2> QED
    BY <2>1 DEF EmailsAlone
<1>4. ASSUME NEW q \in Signup, UsernameKey(q)
      PROVE  EmailsAlone'
  <2>1. /\ form' = form /\ rows' = rows
        /\ \A p \in Signup : HoldsEmail(p)' => HoldsEmail(p)
    BY <1>4 DEF UsernameKey, Conflict, GoTo, HoldsEmail, tableVars, UsersTypeOK
  <2> QED
    BY <2>1 DEF EmailsAlone
<1>5. ASSUME NEW q \in Signup, Commit(q)
      PROVE  EmailsAlone'
  <2>1. /\ form' = form /\ rows' = rows \cup {q}
        /\ \A p \in Signup : HoldsEmail(p)' => p # q /\ HoldsEmail(p)
        /\ HoldsEmail(q)
    BY <1>5 DEF Commit, GoTo, HoldsEmail, UsersTypeOK
  <2> QED
    BY <2>1 DEF EmailsAlone
<1> QED
  BY <1>1, <1>2, <1>3, <1>4, <1>5, MostRetreat DEF UsersNext, Proceed

LEMMA StepNames ==
  ASSUME UsersInv, [UsersNext]_userVars
  PROVE  NamesAlone'
<1> USE DEF UsersInv
<1>1. CASE Retreats
  BY <1>1 DEF Retreats, NamesAlone
<1>2. CASE UNCHANGED userVars
  BY <1>2 DEF userVars, signupVars, tableVars, NamesAlone, HoldsUsername
<1>3. ASSUME NEW q \in Signup, UsernameKey(q)
      PROVE  NamesAlone'
  <2>1. /\ form' = form /\ rows' = rows
        /\ \A p \in Signup : p # q => HoldsUsername(p)' = HoldsUsername(p)
        /\ \A p \in Signup : HoldsUsername(p) => form[p].name # form[q].name
        /\ HoldsUsername(q)' => \A p \in rows : form[p].name # form[q].name
    BY <1>3 DEF UsernameKey, Conflict, GoTo, HoldsUsername, tableVars,
         UsersTypeOK, UsernameTaken, Lower
  <2> QED
    BY <2>1 DEF NamesAlone
<1>4. ASSUME NEW q \in Signup, EmailKey(q)
      PROVE  NamesAlone'
  <2>1. /\ form' = form /\ rows' = rows
        /\ \A p \in Signup : HoldsUsername(p)' => HoldsUsername(p)
    BY <1>4 DEF EmailKey, Conflict, GoTo, HoldsUsername, tableVars, UsersTypeOK
  <2> QED
    BY <2>1 DEF NamesAlone
<1>5. ASSUME NEW q \in Signup, Commit(q)
      PROVE  NamesAlone'
  <2>1. /\ form' = form /\ rows' = rows \cup {q}
        /\ \A p \in Signup : HoldsUsername(p)' => p # q /\ HoldsUsername(p)
        /\ HoldsUsername(q)
    BY <1>5 DEF Commit, GoTo, HoldsUsername, UsersTypeOK
  <2> QED
    BY <2>1 DEF NamesAlone
<1> QED
  BY <1>1, <1>2, <1>3, <1>4, <1>5, MostRetreat DEF UsersNext, Proceed

LEMMA StepAnswers ==
  ASSUME UsersInv, [UsersNext]_userVars
  PROVE  AnswersLast'
<1> USE DEF UsersInv, UsersTypeOK, AnswersLast, InDatabase, Decided, GoTo,
            tableVars, signupVars
<1>1. CASE UNCHANGED userVars
  BY <1>1 DEF userVars
<1>2. ASSUME NEW q \in Signup, Submit(q) \/ CheckUsername(q) \/ CheckEmail(q)
      PROVE  AnswersLast'
  BY <1>2 DEF Submit, CheckUsername, CheckEmail
<1>3. ASSUME NEW q \in Signup, Insert(q)
      PROVE  AnswersLast'
  <2>1. /\ createdAt'[q] > 0
        /\ \A p \in Signup : p # q => createdAt'[p] = createdAt[p]
    BY <1>3 DEF Insert
  <2> QED
    BY <1>3, <2>1 DEF Insert
<1>4. ASSUME NEW q \in Signup, EmailKey(q) \/ UsernameKey(q)
      PROVE  AnswersLast'
  BY <1>4 DEF EmailKey, UsernameKey, Conflict
<1>5. ASSUME NEW q \in Signup, Commit(q)
      PROVE  AnswersLast'
  BY <1>5 DEF Commit
<1>6. ASSUME NEW q \in Signup, Respond(q) \/ Rollback(q)
      PROVE  AnswersLast'
  BY <1>6 DEF Respond, Rollback, Tell
<1>7. ASSUME NEW q \in Signup, Lose(q)
      PROVE  AnswersLast'
  BY <1>7 DEF Lose, Tell
<1>8. ASSUME NEW q \in Signup, DeleteRow(q)
      PROVE  AnswersLast'
  BY <1>8 DEF DeleteRow
<1> QED
  BY <1>1, <1>2, <1>3, <1>4, <1>5, <1>6, <1>7, <1>8 DEF UsersNext, Proceed

LEMMA UsersInvariant == UsersSpec => []UsersInv
<1>1. UsersInv /\ [UsersNext]_userVars => UsersInv'
  BY StepType, StepEmails, StepNames, StepAnswers DEF UsersInv
<1> QED
  BY <1>1, InitInv, PTL DEF UsersSpec

(* created_at is set before a row can be seen, answers are decisions.      *)
THEOREM UsersTypeCorrect == UsersSpec => []UsersTypeOK
<1>1. UsersInv => UsersTypeOK
  BY DEF UsersInv
<1> QED
  BY <1>1, UsersInvariant, PTL

-----------------------------------------------------------------------------
(* Users implements Registry                                               *)

(* How the decision on one signup follows from its step and its answer.    *)
StatusOf(q) ==
  IF answer[q] # "none" THEN IF answer[q] = "error" THEN "failed" ELSE answer[q]
                        ELSE IF at[q] \in Decided THEN at[q] ELSE "open"

LEMMA StatusIs == Status = [q \in Signup |-> StatusOf(q)]
BY DEF Status, StatusOf

(* A step of one signup decides that signup or nothing.                    *)
LEMMA OneDecided ==
  ASSUME NEW q \in Signup, \A p \in Signup : p # q => StatusOf(p)' = StatusOf(p),
         NEW s, StatusOf(q)' = s
  PROVE  Status' = [Status EXCEPT ![q] = s]
<1>1. Status' = [p \in Signup |-> StatusOf(p)']
  BY DEF Status, StatusOf
<1>2. [Status EXCEPT ![q] = s] = [p \in Signup |-> IF p = q THEN s ELSE StatusOf(p)]
  BY StatusIs
<1> QED
  BY <1>1, <1>2

LEMMA NoneDecided ==
  ASSUME \A p \in Signup : StatusOf(p)' = StatusOf(p)
  PROVE  Status' = Status
<1>1. Status' = [p \in Signup |-> StatusOf(p)']
  BY DEF Status, StatusOf
<1> QED
  BY <1>1, StatusIs

(* The other signups stand while one moves.                                *)
LEMMA OthersStand ==
  ASSUME UsersTypeOK, NEW q \in Signup,
         Submit(q) \/ Proceed(q) \/ Lose(q) \/ Rollback(q) \/ DeleteRow(q)
  PROVE  /\ form' = form
         /\ \A p \in Signup : p # q => StatusOf(p)' = StatusOf(p)
<1>1. /\ form' = form
      /\ \A p \in Signup : p # q => at'[p] = at[p] /\ answer'[p] = answer[p]
  BY DEF Submit, Proceed, CheckUsername, CheckEmail, Insert, EmailKey,
     UsernameKey, Commit, Respond, Lose, Rollback, DeleteRow, GoTo, Tell,
     signupVars, UsersTypeOK
<1> QED
  BY <1>1 DEF StatusOf

AbstractVars == <<form, rows, Status>>

(* A refusal, whether a SELECT or an index noticed it.                     *)
LEMMA RefusalIsJust ==
  ASSUME UsersInv, NEW q \in Signup,
         CheckUsername(q) \/ CheckEmail(q) \/ EmailKey(q) \/ UsernameKey(q)
  PROVE  Contract!Refuse(q) \/ UNCHANGED AbstractVars
<1> USE DEF UsersInv, UsersTypeOK
<1>1. /\ form' = form /\ rows' = rows /\ answer' = answer
      /\ \A p \in Signup : p # q => StatusOf(p)' = StatusOf(p)
  BY OthersStand DEF Proceed, CheckUsername, CheckEmail, EmailKey, UsernameKey,
     tableVars
<1>2. answer[q] \in {"none", "error"} /\ at[q] \notin Decided
  BY DEF CheckUsername, CheckEmail, EmailKey, UsernameKey, AnswersLast, Decided
<1>3. CASE answer[q] = "error" \/ at'[q] \notin Decided
  <2>1. StatusOf(q)' = StatusOf(q)
    BY <1>1, <1>2, <1>3 DEF StatusOf
  <2> QED
    BY <1>1, <2>1, NoneDecided DEF AbstractVars
<1>4. CASE answer[q] = "none" /\ at'[q] \in Decided
  <2>1. StatusOf(q) = "open" /\ StatusOf(q)' = at'[q]
    BY <1>1, <1>2, <1>4 DEF StatusOf
  <2>2. \/ at'[q] = "usernameTaken" /\ UsernameTaken(q)
        \/ at'[q] = "emailTaken" /\ EmailTaken(q)
    BY <1>4 DEF CheckUsername, CheckEmail, EmailKey, UsernameKey, Conflict, GoTo,
         Decided
  <2>3. /\ UsernameTaken(q) => Contract!NameHeld(q)
        /\ EmailTaken(q) => Contract!EmailHeld(q)
    BY DEF UsernameTaken, EmailTaken, Lower, Contract!NameHeld, Contract!EmailHeld
  <2>4. Status' = [Status EXCEPT ![q] = at'[q]] /\ Status[q] = "open"
    BY <1>1, <2>1, OneDecided, StatusIs
  <2> QED
    BY <1>1, <2>2, <2>3, <2>4 DEF Contract!Refuse, Contract!Decide
<1> QED
  BY <1>2, <1>3, <1>4

LEMMA CommitAccepts ==
  ASSUME UsersInv, NEW q \in Signup, Commit(q)
  PROVE  Contract!Accept(q)
<1> USE DEF UsersInv, UsersTypeOK
<1>1. /\ form' = form /\ rows' = rows \cup {q} /\ answer' = answer
      /\ at[q] = "commit" /\ at'[q] = "created"
      /\ \A p \in Signup : p # q => StatusOf(p)' = StatusOf(p)
  BY OthersStand DEF Proceed, Commit, GoTo
<1>2. answer[q] \in {"none", "error"} /\ q \notin rows
  BY <1>1 DEF AnswersLast, InDatabase
<1>3. /\ ~ Contract!NameHeld(q)
      /\ ~ Contract!EmailHeld(q)
  BY <1>1, <1>2 DEF EmailsAlone, NamesAlone, HoldsEmail, HoldsUsername,
     Contract!NameHeld, Contract!EmailHeld
<1>4. CASE answer[q] = "error"
  <2>1. StatusOf(q)' = StatusOf(q) /\ StatusOf(q) = "failed"
    BY <1>1, <1>4 DEF StatusOf
  <2>2. Status' = Status /\ Status[q] = "failed"
    BY <1>1, <2>1, NoneDecided, StatusIs
  <2> QED
    BY <1>1, <1>2, <1>3, <2>2 DEF Contract!Accept
<1>5. CASE answer[q] = "none"
  <2>1. StatusOf(q)' = "created" /\ StatusOf(q) = "open"
    BY <1>1, <1>5 DEF StatusOf, Decided
  <2>2. Status' = [Status EXCEPT ![q] = "created"] /\ Status[q] = "open"
    BY <1>1, <2>1, OneDecided, StatusIs
  <2> QED
    BY <1>1, <1>2, <1>3, <2>2 DEF Contract!Accept, Contract!Decide
<1> QED
  BY <1>2, <1>4, <1>5

(* The client is left without an answer, or gets the one that stands.      *)
LEMMA FailureFails ==
  ASSUME UsersInv, NEW q \in Signup,
         Lose(q) \/ Rollback(q) \/ Respond(q) \/ Submit(q) \/ Insert(q)
  PROVE  Contract!Fail(q) \/ UNCHANGED AbstractVars
<1> USE DEF UsersInv, UsersTypeOK
<1>1. /\ form' = form /\ rows' = rows
      /\ \A p \in Signup : p # q => StatusOf(p)' = StatusOf(p)
  BY OthersStand DEF Proceed, Lose, Rollback, Respond, Submit, Insert, tableVars
<1>2. \/ StatusOf(q)' = StatusOf(q)
      \/ StatusOf(q)' = "failed" /\ StatusOf(q) # "failed"
  <2>1. CASE Submit(q) \/ Insert(q)
    BY <2>1 DEF Submit, Insert, GoTo, StatusOf, Decided
  <2>2. CASE Lose(q)
    BY <2>2 DEF Lose, Tell, StatusOf, Decided
  <2>3. CASE Rollback(q)
    BY <2>3 DEF Rollback, Tell, StatusOf, AnswersLast, InDatabase
  <2>4. CASE Respond(q)
    BY <2>4 DEF Respond, Tell, StatusOf, AnswersLast, Decided
  <2> QED
    BY <2>1, <2>2, <2>3, <2>4
<1>3. CASE StatusOf(q)' = StatusOf(q)
  BY <1>1, <1>3, NoneDecided DEF AbstractVars
<1>4. CASE StatusOf(q)' = "failed" /\ StatusOf(q) # "failed"
  <2>1. Status' = [Status EXCEPT ![q] = "failed"] /\ Status[q] # "failed"
    BY <1>1, <1>4, OneDecided, StatusIs
  <2> QED
    BY <1>1, <2>1 DEF Contract!Fail
<1> QED
  BY <1>2, <1>3, <1>4

LEMMA StepImplements ==
  ASSUME UsersInv, [UsersNext]_userVars
  PROVE  [Contract!Next]_(Contract!vars)
<1>1. CASE UNCHANGED userVars
  BY <1>1 DEF userVars, signupVars, tableVars, Status, Contract!vars
<1>2. ASSUME NEW q \in Signup, DeleteRow(q)
      PROVE  Contract!Remove(q)
  <2>1. /\ form' = form /\ at' = at /\ answer' = answer
    BY <1>2 DEF DeleteRow, signupVars
  <2> QED
    BY <1>2, <2>1 DEF DeleteRow, Status, Contract!Remove
<1> QED
  BY <1>1, <1>2, RefusalIsJust, CommitAccepts, FailureFails
     DEF UsersNext, Proceed, Contract!Next, Contract!vars, AbstractVars

(* Of any number of signups for a name or an email at most one has the     *)
(* account, each is told so truthfully, and the two checks before the      *)
(* INSERT, however stale, never make a difference to that.                 *)
THEOREM ImplementsRegistry == UsersSpec => RegistrySpec
<1>1. UsersInit => Contract!Init
  BY DEF UsersInit, Status, Decided, Contract!Init
<1>2. UsersInv /\ [UsersNext]_userVars => [Contract!Next]_(Contract!vars)
  BY StepImplements
<1> QED
  BY <1>1, <1>2, UsersInvariant, PTL DEF UsersSpec, RegistrySpec, Contract!Spec

-----------------------------------------------------------------------------
(* The order of the rows                                                   *)

(* Where each row stands in ORDER BY created_at, id.                       *)
Place == [p \in rows |-> Position(p)]

(* A sequence shows the rows from one place to before another: in order,   *)
(* and those that were there when the walk began without exception.        *)
Shows(s, from, to) ==
  /\ \A i \in DOMAIN s : s[i] \in rows /\ Place[s[i]] \in from .. to - 1
  /\ \A i, j \in DOMAIN s : i < j => Place[s[i]] < Place[s[j]]
  /\ \A p \in atStart : Place[p] \in from .. to - 1 => p \in Range(s)

ListTypeOK ==
  /\ IsFiniteSet(rows)
  /\ walk \in {"idle", "asked", "done"}
  /\ pending \subseteq {"items", "total"}
  /\ walk # "asked" => pending = {}
  /\ offset \in Nat /\ total \in Nat
  /\ items \in Seq(Signup) /\ seen \in Seq(Signup)
  /\ atStart \subseteq Signup /\ appended \in BOOLEAN

Asked ==
  /\ atStart \subseteq rows
  /\ Shows(seen, 0, offset)
  /\ "items" \notin pending => Shows(items, offset, offset + Limit)
  /\ "total" \notin pending => \A p \in atStart : Place[p] < total

Done ==
  /\ atStart \subseteq rows
  /\ Shows(seen, 0, offset + Limit)
  /\ \A p \in atStart : Place[p] < offset + Limit

WalkInv ==
  /\ walk = "idle" => seen = <<>> /\ offset = 0
  /\ walk = "asked" /\ appended => Asked
  /\ walk = "done" /\ appended => Done

ListInv == UsersInv /\ ListTypeOK /\ WalkInv

(* created_at and id order the rows completely.                            *)
LEMMA Ordered ==
  ASSUME UsersTypeOK
  PROVE  \A p, q, r \in Signup :
           /\ ~ InOrder(p, p)
           /\ p # q => InOrder(p, q) \/ InOrder(q, p)
           /\ InOrder(p, q) /\ InOrder(q, r) => InOrder(p, r)
<1> SUFFICES ASSUME NEW p \in Signup, NEW q \in Signup, NEW r \in Signup
             PROVE  /\ ~ InOrder(p, p)
                    /\ p # q => InOrder(p, q) \/ InOrder(q, p)
                    /\ InOrder(p, q) /\ InOrder(q, r) => InOrder(p, r)
  OBVIOUS
<1>1. /\ p \in Nat /\ q \in Nat /\ r \in Nat
      /\ createdAt[p] \in Nat /\ createdAt[q] \in Nat /\ createdAt[r] \in Nat
  BY ListingAssumption DEF UsersTypeOK
<1> QED
  BY <1>1 DEF InOrder

(* A row's place is below the size of the table, and further on the later  *)
(* the row.                                                                *)
LEMMA PlacesRise ==
  ASSUME UsersTypeOK, IsFiniteSet(rows)
  PROVE  /\ Cardinality(rows) \in Nat
         /\ \A p \in rows : Place[p] \in 0 .. Cardinality(rows) - 1
         /\ \A p, q \in rows : InOrder(p, q) => Place[p] < Place[q]
<1> DEFINE Earlier(p) == {q \in rows : InOrder(q, p)}
<1>1. Cardinality(rows) \in Nat
  BY FS_CardinalityType
<1>2. \A p \in rows : IsFiniteSet(Earlier(p)) /\ Cardinality(Earlier(p)) \in Nat
  <2> TAKE p \in rows
  <2>1. IsFiniteSet(Earlier(p))
    BY FS_Subset
  <2> QED
    BY <2>1, FS_CardinalityType
<1>3. \A p \in rows : Place[p] = Cardinality(Earlier(p))
  BY DEF Place, Position
<1>4. ASSUME NEW p \in rows
      PROVE  Cardinality(Earlier(p)) < Cardinality(rows)
  <2>1. p \notin Earlier(p) /\ Earlier(p) \in SUBSET rows
    BY Ordered DEF UsersTypeOK
  <2>2. /\ Cardinality(Earlier(p)) <= Cardinality(rows)
        /\ Cardinality(rows) = Cardinality(Earlier(p)) => rows = Earlier(p)
    BY <2>1, FS_Subset
  <2> QED
    BY <1>1, <1>2, <2>1, <2>2
<1>5. ASSUME NEW p \in rows, NEW q \in rows, InOrder(p, q)
      PROVE  Cardinality(Earlier(p)) < Cardinality(Earlier(q))
  <2>1. p \in Earlier(q) /\ p \notin Earlier(p)
    BY <1>5, Ordered DEF UsersTypeOK
  <2>2. Earlier(p) \in SUBSET Earlier(q)
    BY <1>5, Ordered DEF UsersTypeOK
  <2>3. /\ Cardinality(Earlier(p)) <= Cardinality(Earlier(q))
        /\ Cardinality(Earlier(q)) = Cardinality(Earlier(p))
             => Earlier(q) = Earlier(p)
    BY <1>2, <2>2, FS_Subset
  <2>4. Earlier(p) # Earlier(q)
    BY <2>1
  <2>5. Cardinality(Earlier(p)) \in Nat /\ Cardinality(Earlier(q)) \in Nat
    BY <1>2
  <2> HIDE DEF Earlier
  <2> QED
    BY <2>3, <2>4, <2>5
<1> HIDE DEF Earlier
<1> QED
  BY <1>1, <1>2, <1>3, <1>4, <1>5

(* So no two rows share a place, and every place below that has its row.   *)
LEMMA PlacesFilled ==
  ASSUME UsersTypeOK, IsFiniteSet(rows)
  PROVE  /\ \A p, q \in rows : Place[p] = Place[q] => p = q
         /\ \A n \in 0 .. Cardinality(rows) - 1 : \E p \in rows : Place[p] = n
<1> DEFINE N == Cardinality(rows)
           Places == 0 .. N - 1
<1>1. N \in Nat /\ \A p \in rows : Place[p] \in Places
  BY PlacesRise
<1>2. \A p, q \in rows : Place[p] = Place[q] => p = q
  <2> SUFFICES ASSUME NEW p \in rows, NEW q \in rows, p # q
               PROVE  Place[p] # Place[q]
    OBVIOUS
  <2>1. InOrder(p, q) \/ InOrder(q, p)
    BY Ordered DEF UsersTypeOK
  <2>2. Place[p] < Place[q] \/ Place[q] < Place[p]
    BY <2>1, PlacesRise
  <2>3. Place[p] \in Nat /\ Place[q] \in Nat
    BY <1>1
  <2> QED
    BY <2>2, <2>3
<1>3. IsFiniteSet(Places) /\ Cardinality(Places) = N
  BY <1>1, FS_Interval
<1>4. Place \in Injection(rows, Places)
  <2>1. Place \in [rows -> Places]
    BY <1>1 DEF Place
  <2> HIDE DEF Places
  <2> QED
    BY <1>2, <2>1 DEF Injection, IsInjective
<1>5. Place \in Surjection(rows, Places)
  <2> HIDE DEF Places
  <2> QED
    BY <1>3, <1>4, FS_Injection
<1>6. \A n \in Places : \E p \in rows : Place[p] = n
  <2> HIDE DEF Places
  <2> QED
    BY <1>5 DEF Surjection
<1> QED
  BY <1>2, <1>6

-----------------------------------------------------------------------------
(* The pages                                                               *)

Left(from) == Cardinality(rows) - from
Shown(from) == IF Left(from) < Limit THEN Left(from) ELSE Limit

(* A page has the rows at its places, one after the other.                 *)
LEMMA PageRows ==
  ASSUME UsersTypeOK, IsFiniteSet(rows), NEW from \in Nat
  PROVE  /\ Page(from) \in Seq(Signup)
         /\ DOMAIN Page(from) = 1 .. Shown(from)
         /\ Shown(from) <= Limit /\ from + Shown(from) <= Cardinality(rows)
         /\ \A i \in 1 .. Shown(from) :
              /\ Page(from)[i] \in rows
              /\ Place[Page(from)[i]] = from + i - 1
<1>1. /\ Limit \in Nat /\ Cardinality(rows) \in Nat
  BY ListingAssumption, PlacesRise
<1>2. /\ Shown(from) \in Int /\ Shown(from) <= Limit
      /\ from + Shown(from) <= Cardinality(rows)
  BY <1>1 DEF Shown, Left
<1>3. Page(from) = [i \in 1 .. Shown(from) |-> RowAt(from + i - 1)]
  BY DEF Page, Shown, Left
<1>4. ASSUME NEW i \in 1 .. Shown(from)
      PROVE  /\ RowAt(from + i - 1) \in rows
             /\ Place[RowAt(from + i - 1)] = from + i - 1
  <2>1. from + i - 1 \in 0 .. Cardinality(rows) - 1
    BY <1>1, <1>2
  <2>2. \E p \in rows : Position(p) = from + i - 1
    <3>1. PICK p \in rows : Place[p] = from + i - 1
      BY <2>1, PlacesFilled
    <3> QED
      BY <3>1 DEF Place
  <2>3. RowAt(from + i - 1) \in rows /\ Position(RowAt(from + i - 1)) = from + i - 1
    BY <2>2 DEF RowAt
  <2> QED
    BY <2>3 DEF Place
<1>5. Page(from) \in Seq(Signup)
  <2>1. \A i \in 1 .. Shown(from) : RowAt(from + i - 1) \in Signup
    BY <1>4 DEF UsersTypeOK
  <2>2. CASE Shown(from) \in Nat
    <3>1. Page(from) \in [1 .. Shown(from) -> Signup]
      BY <1>3, <2>1
    <3> QED
      BY <2>2, <3>1
  <2>3. CASE Shown(from) < 0
    <3>1. 1 .. Shown(from) = 1 .. 0
      BY <1>2, <2>3
    <3>2. Page(from) \in [1 .. 0 -> Signup]
      BY <1>3, <2>1, <3>1
    <3> QED
      BY <3>2
  <2> QED
    BY <1>2, <2>2, <2>3
<1> QED
  BY <1>2, <1>3, <1>4, <1>5

LEMMA PageShows ==
  ASSUME UsersTypeOK, IsFiniteSet(rows), atStart \subseteq rows, NEW from \in Nat
  PROVE  Shows(Page(from), from, from + Limit)
<1> DEFINE page == Page(from)
           shown == Shown(from)
<1>1. /\ Limit \in Nat /\ Cardinality(rows) \in Nat
      /\ shown \in Int /\ shown <= Limit
      /\ shown = Cardinality(rows) - from \/ shown = Limit
  BY ListingAssumption, PlacesRise DEF Shown, Left
<1>2. /\ DOMAIN page = 1 .. shown
      /\ \A i \in 1 .. shown : page[i] \in rows /\ Place[page[i]] = from + i - 1
  BY PageRows
<1> HIDE DEF page, shown
<1>3. \A i \in DOMAIN page :
        page[i] \in rows /\ Place[page[i]] \in from .. (from + Limit) - 1
  BY <1>1, <1>2
<1>4. \A i, j \in DOMAIN page : i < j => Place[page[i]] < Place[page[j]]
  BY <1>1, <1>2
<1>5. ASSUME NEW p \in atStart, Place[p] \in from .. (from + Limit) - 1
      PROVE  p \in Range(page)
  <2>1. p \in rows /\ Place[p] \in 0 .. Cardinality(rows) - 1
    BY PlacesRise
  <2>2. Place[p] - from + 1 \in 1 .. shown
    BY <1>1, <1>5, <2>1
  <2>3. page[Place[p] - from + 1] = p
    <3>1. /\ page[Place[p] - from + 1] \in rows
          /\ Place[page[Place[p] - from + 1]] = from + (Place[p] - from + 1) - 1
      BY <1>2, <2>2
    <3>2. Place[page[Place[p] - from + 1]] = Place[p]
      BY <2>1, <3>1
    <3> QED
      BY <2>1, <3>1, <3>2, PlacesFilled
  <2> QED
    BY <1>2, <2>2, <2>3 DEF Range
<1> QED
  BY <1>3, <1>4, <1>5 DEF Shows, page

(* Pages one after the other show what they show together.                 *)
LEMMA ShowsOn ==
  ASSUME NEW s \in Seq(Signup), NEW t \in Seq(Signup),
         NEW from \in Nat, NEW mid \in Nat, NEW to \in Nat,
         from <= mid, mid <= to,
         \A p \in rows : Place[p] \in Nat, atStart \subseteq rows,
         Shows(s, from, mid), Shows(t, mid, to)
  PROVE  Shows(s \o t, from, to)
<1> DEFINE w == s \o t
<1>1. /\ Len(s) \in Nat /\ Len(t) \in Nat
      /\ DOMAIN s = 1 .. Len(s) /\ DOMAIN t = 1 .. Len(t)
      /\ DOMAIN w = 1 .. Len(s) + Len(t)
  BY LenProperties, ConcatProperties
<1>2. /\ \A i \in 1 .. Len(s) : i \in DOMAIN w /\ w[i] = s[i]
      /\ \A i \in 1 .. Len(t) : Len(s) + i \in DOMAIN w /\ w[Len(s) + i] = t[i]
      /\ \A i \in DOMAIN w : i > Len(s) =>
            i - Len(s) \in 1 .. Len(t) /\ w[i] = t[i - Len(s)]
  BY <1>1, ConcatProperties
<1> HIDE DEF w
<1>3. /\ \A i \in 1 .. Len(s) : s[i] \in rows /\ Place[s[i]] \in from .. mid - 1
      /\ \A i \in 1 .. Len(t) : t[i] \in rows /\ Place[t[i]] \in mid .. to - 1
      /\ \A i, j \in 1 .. Len(s) : i < j => Place[s[i]] < Place[s[j]]
      /\ \A i, j \in 1 .. Len(t) : i < j => Place[t[i]] < Place[t[j]]
  BY <1>1 DEF Shows
<1>4. ASSUME NEW i \in DOMAIN w
      PROVE  w[i] \in rows /\ Place[w[i]] \in from .. to - 1
  <2>1. CASE i <= Len(s)
    BY <1>1, <1>2, <1>3, <2>1
  <2>2. CASE i > Len(s)
    BY <1>1, <1>2, <1>3, <2>2
  <2> QED
    BY <1>1, <2>1, <2>2
<1>5. ASSUME NEW i \in DOMAIN w, NEW j \in DOMAIN w, i < j
      PROVE  Place[w[i]] < Place[w[j]]
  <2>1. CASE j <= Len(s)
    BY <1>1, <1>2, <1>3, <1>5, <2>1
  <2>2. CASE i > Len(s)
    <3>1. /\ i - Len(s) \in 1 .. Len(t) /\ w[i] = t[i - Len(s)]
          /\ j - Len(s) \in 1 .. Len(t) /\ w[j] = t[j - Len(s)]
      BY <1>1, <1>2, <1>5, <2>2
    <3>2. i - Len(s) < j - Len(s)
      BY <1>1, <1>5
    <3> QED
      BY <1>3, <3>1, <3>2
  <2>3. CASE i <= Len(s) /\ j > Len(s)
    <3>1. Place[w[i]] \in from .. mid - 1
      BY <1>1, <1>2, <1>3, <2>3
    <3>2. Place[w[j]] \in mid .. to - 1
      BY <1>1, <1>2, <1>3, <2>3
    <3> QED
      BY <3>1, <3>2
  <2> QED
    BY <1>1, <2>1, <2>2, <2>3
<1>6. ASSUME NEW p \in atStart, Place[p] \in from .. to - 1
      PROVE  p \in Range(w)
  <2>1. Range(s) \subseteq Range(w) /\ Range(t) \subseteq Range(w)
    BY <1>1, <1>2 DEF Range
  <2>2. Place[p] \in from .. mid - 1 \/ Place[p] \in mid .. to - 1
    BY <1>6
  <2> QED
    BY <2>1, <2>2 DEF Shows
<1> QED
  BY <1>4, <1>5, <1>6 DEF Shows, w

-----------------------------------------------------------------------------
(* The table during a walk                                                 *)

(* A row keeps its created_at.                                             *)
LEMMA RowsKeepTheirTime ==
  ASSUME UsersInv, [UsersNext]_userVars
  PROVE  /\ \A p \in rows \cup rows' : createdAt'[p] = createdAt[p]
         /\ rows' = rows \/ \E q \in Signup : rows' \subseteq rows \cup {q}
<1> USE DEF UsersInv, UsersTypeOK
<1>1. CASE UNCHANGED userVars
  BY <1>1 DEF userVars, tableVars
<1>2. ASSUME NEW q \in Signup, Insert(q)
      PROVE  rows' = rows /\ \A p \in rows : createdAt'[p] = createdAt[p]
  <2>1. q \notin rows
    BY <1>2 DEF Insert, AnswersLast
  <2> QED
    BY <1>2, <2>1 DEF Insert
<1>3. ASSUME NEW q \in Signup,
             \/ Submit(q) \/ CheckUsername(q) \/ CheckEmail(q) \/ EmailKey(q)
             \/ UsernameKey(q) \/ Commit(q) \/ Respond(q)
             \/ Lose(q) \/ Rollback(q) \/ DeleteRow(q)
      PROVE  createdAt' = createdAt /\ rows' \subseteq rows \cup {q}
  BY <1>3 DEF Submit, CheckUsername, CheckEmail, EmailKey, UsernameKey, Commit,
     Respond, Lose, Rollback, DeleteRow, tableVars
<1> QED
  BY <1>1, <1>2, <1>3 DEF UsersNext, Proceed

LEMMA StaysFinite ==
  ASSUME UsersInv, [UsersNext]_userVars, IsFiniteSet(rows)
  PROVE  IsFiniteSet(rows')
<1>1. CASE rows' = rows
  BY <1>1
<1>2. ASSUME NEW q \in Signup, rows' \subseteq rows \cup {q}
      PROVE  IsFiniteSet(rows')
  <2>1. IsFiniteSet(rows \cup {q})
    BY FS_AddElement
  <2> QED
    BY <1>2, <2>1, FS_Subset
<1> QED
  BY <1>1, <1>2, RowsKeepTheirTime

(* Younger rows leave the places of those before them alone.               *)
LEMMA GrewKeepsPlaces ==
  ASSUME UsersInv, [UsersNext]_userVars, Grew
  PROVE  \A p \in rows : p \in rows' /\ Place'[p] = Place[p]
<1> SUFFICES ASSUME NEW p \in rows
             PROVE  p \in rows' /\ Place'[p] = Place[p]
  OBVIOUS
<1>1. p \in rows' /\ p \in Signup /\ createdAt[p] \in Nat
  BY DEF Grew, UsersInv, UsersTypeOK
<1>2. {q \in rows' : InOrder(q, p)'} = {q \in rows : InOrder(q, p)}
  <2>1. \A q \in rows \cup rows' : InOrder(q, p)' <=> InOrder(q, p)
    BY <1>1, RowsKeepTheirTime DEF InOrder
  <2>2. ASSUME NEW q \in rows' \ rows
        PROVE  ~ InOrder(q, p)
    <3>1. createdAt[p] < createdAt[q]
      BY DEF Grew
    <3>2. createdAt[q] \in Nat
      BY StepType DEF UsersInv, UsersTypeOK
    <3> QED
      BY <1>1, <3>1, <3>2 DEF InOrder
  <2> QED
    BY <2>1, <2>2 DEF Grew
<1>3. Place[p] = Cardinality({q \in rows : InOrder(q, p)})
  BY DEF Place, Position
<1>4. Place'[p] = Cardinality({q \in rows' : InOrder(q, p)'})
  BY <1>1 DEF Place, Position
<1> QED
  BY <1>1, <1>2, <1>3, <1>4

(* And what a sequence shows it still shows.                               *)
LEMMA ShowsStill ==
  ASSUME \A p \in rows : p \in rows' /\ Place'[p] = Place[p],
         atStart \subseteq rows, atStart' = atStart,
         NEW s, NEW from, NEW to, Shows(s, from, to)
  PROVE  /\ \A i \in DOMAIN s : s[i] \in rows' /\ Place'[s[i]] \in from .. to - 1
         /\ \A i, j \in DOMAIN s : i < j => Place'[s[i]] < Place'[s[j]]
         /\ \A p \in atStart' : Place'[p] \in from .. to - 1 => p \in Range(s)
BY DEF Shows

-----------------------------------------------------------------------------
(* The walk                                                                *)

LEMMA InitListInv == ListInit => ListInv
<1> SUFFICES ASSUME ListInit
             PROVE  ListInv
  OBVIOUS
<1>1. UsersInv
  BY InitInv DEF ListInit
<1>2. ListTypeOK
  BY FS_EmptySet DEF ListInit, UsersInit, ListTypeOK
<1> QED
  BY <1>1, <1>2 DEF ListInit, ListInv, WalkInv

LEMMA StepListType ==
  ASSUME ListInv, [ListNext]_listVars
  PROVE  ListTypeOK'
<1> USE DEF ListInv, ListTypeOK
<1>1. CASE UNCHANGED listVars
  BY <1>1 DEF listVars, userVars, tableVars, pageVars, historyVars
<1>2. CASE Ask
  BY <1>2 DEF Ask, userVars, tableVars, UsersInv, UsersTypeOK
<1>3. CASE SelectItems
  <2>1. items' \in Seq(Signup)
    BY <1>3, PageRows DEF SelectItems, UsersInv
  <2> QED
    BY <1>3, <2>1 DEF SelectItems, userVars, tableVars, historyVars
<1>4. CASE SelectCount
  <2>1. total' \in Nat
    BY <1>4, FS_CardinalityType DEF SelectCount
  <2> QED
    BY <1>4, <2>1 DEF SelectCount, userVars, tableVars, historyVars
<1>5. CASE Turn
  <2>1. seen' \in Seq(Signup)
    BY <1>5, ConcatProperties DEF Turn
  <2>2. offset' \in Nat
    BY <1>5, ListingAssumption DEF Turn
  <2> QED
    BY <1>5, <2>1, <2>2 DEF Turn, userVars, tableVars, historyVars
<1>6. CASE TableStep
  <2>1. IsFiniteSet(rows')
    BY <1>6, StaysFinite DEF TableStep
  <2>2. appended' \in BOOLEAN
    BY <1>6 DEF TableStep, Watch
  <2> QED
    BY <1>6, <2>1, <2>2 DEF TableStep, Watch, pageVars
<1> QED
  BY <1>1, <1>2, <1>3, <1>4, <1>5, <1>6 DEF ListNext

LEMMA AskWalks ==
  ASSUME ListInv, Ask
  PROVE  WalkInv'
<1>1. /\ seen = <<>> /\ offset = 0
      /\ seen' = seen /\ offset' = offset /\ atStart' = rows /\ rows' = rows
      /\ walk' = "asked" /\ pending' = {"items", "total"}
  BY DEF Ask, ListInv, WalkInv, userVars, tableVars
<1>2. Shows(seen, 0, offset)'
  BY <1>1, PlacesRise DEF Shows, ListInv, ListTypeOK, UsersInv, Place, Position
<1> QED
  BY <1>1, <1>2 DEF WalkInv, Asked

LEMMA SelectItemsWalks ==
  ASSUME ListInv, SelectItems
  PROVE  WalkInv'
<1>1. /\ UNCHANGED <<rows, createdAt, walk, offset, total, seen, historyVars>>
      /\ "items" \in pending /\ pending' = pending \ {"items"}
      /\ items' = Page(offset) /\ walk = "asked"
  BY DEF SelectItems, userVars, tableVars, ListInv, ListTypeOK
<1>2. Place' = Place
  BY <1>1 DEF Place, Position, InOrder
<1>3. ASSUME appended
      PROVE  Asked'
  <2>1. Asked
    BY <1>1, <1>3 DEF ListInv, WalkInv
  <2>2. Shows(items', offset, offset + Limit)
    BY <1>1, <2>1, PageShows DEF Asked, ListInv, ListTypeOK, UsersInv
  <2> QED
    BY <1>1, <1>2, <2>1, <2>2 DEF Asked, Shows, historyVars
<1> QED
  BY <1>1, <1>3 DEF WalkInv, historyVars

LEMMA SelectCountWalks ==
  ASSUME ListInv, SelectCount
  PROVE  WalkInv'
<1>1. /\ UNCHANGED <<rows, createdAt, walk, offset, items, seen, historyVars>>
      /\ "total" \in pending /\ pending' = pending \ {"total"}
      /\ total' = Cardinality(rows) /\ walk = "asked"
  BY DEF SelectCount, userVars, tableVars, ListInv, ListTypeOK
<1>2. Place' = Place
  BY <1>1 DEF Place, Position, InOrder
<1>3. ASSUME appended
      PROVE  Asked'
  <2>1. Asked
    BY <1>1, <1>3 DEF ListInv, WalkInv
  <2>2. \A p \in atStart : Place[p] < total'
    BY <1>1, <2>1, PlacesRise DEF Asked, ListInv, ListTypeOK, UsersInv
  <2> QED
    BY <1>1, <1>2, <2>1, <2>2 DEF Asked, Shows, historyVars
<1> QED
  BY <1>1, <1>3 DEF WalkInv, historyVars

(* The page joins those before it; the walk ends when the total, counted   *)
(* before or after the page was read, is reached.                          *)
LEMMA TurnWalks ==
  ASSUME ListInv, Turn
  PROVE  WalkInv'
<1>1. /\ UNCHANGED <<rows, createdAt, items, total, historyVars>>
      /\ walk = "asked" /\ pending = {} /\ seen' = seen \o items
      /\ \/ walk' = "asked" /\ offset' = offset + Limit
            /\ pending' = {"items", "total"}
         \/ walk' = "done" /\ offset' = offset /\ offset + Limit >= total
  BY ListingAssumption DEF Turn, userVars, tableVars, ListInv, ListTypeOK
<1>2. Place' = Place
  BY <1>1 DEF Place, Position, InOrder
<1>3. CASE appended
  <2>1. Asked /\ atStart \subseteq rows
    BY <1>1, <1>3 DEF ListInv, WalkInv, Asked
  <2>2. /\ offset \in Nat /\ offset + Limit \in Nat /\ offset <= offset + Limit
        /\ total \in Nat /\ \A p \in rows : Place[p] \in Nat
        /\ seen \in Seq(Signup) /\ items \in Seq(Signup)
    BY ListingAssumption, PlacesRise DEF ListInv, ListTypeOK, UsersInv
  <2>3. Shows(seen', 0, offset + Limit)
    <3>1. Shows(seen, 0, offset) /\ Shows(items, offset, offset + Limit)
      BY <1>1, <2>1 DEF Asked
    <3> QED
      BY <1>1, <2>1, <2>2, <3>1, ShowsOn
  <2>4. CASE walk' = "asked"
    BY <1>1, <1>2, <2>1, <2>3, <2>4 DEF WalkInv, Asked, Shows, historyVars
  <2>5. CASE walk' = "done"
    <3>1. \A p \in atStart : Place[p] < offset + Limit
      BY <1>1, <2>1, <2>2, <2>5 DEF Asked
    <3> QED
      BY <1>1, <1>2, <2>1, <2>3, <2>5, <3>1 DEF WalkInv, Done, Shows, historyVars
  <2> QED
    BY <1>1, <2>4, <2>5
<1>4. CASE ~ appended
  BY <1>1, <1>4 DEF WalkInv, historyVars
<1> QED
  BY <1>3, <1>4

LEMMA TableWalks ==
  ASSUME ListInv, TableStep
  PROVE  WalkInv'
<1>1. /\ UNCHANGED <<walk, offset, pending, items, total, seen, atStart>>
      /\ appended' = (appended /\ (walk = "idle" \/ Grew))
      /\ [UsersNext]_userVars
  BY DEF TableStep, Watch, pageVars
<1>2. CASE walk # "idle" /\ appended'
  <2>1. appended /\ Grew
    BY <1>1, <1>2
  <2>2. \A p \in rows : p \in rows' /\ Place'[p] = Place[p]
    BY <1>1, <2>1, GrewKeepsPlaces DEF ListInv
  <2>3. CASE walk = "asked"
    <3>1. Asked
      BY <2>1, <2>3 DEF ListInv, WalkInv
    <3>2. /\ Shows(seen, 0, offset)'
          /\ ("items" \notin pending)' => Shows(items, offset, offset + Limit)'
      BY <1>1, <2>2, <3>1, ShowsStill DEF Asked, Shows
    <3> QED
      BY <1>1, <2>2, <2>3, <3>1, <3>2 DEF WalkInv, Asked
  <2>4. CASE walk = "done"
    <3>1. Done
      BY <2>1, <2>4 DEF ListInv, WalkInv
    <3>2. Shows(seen, 0, offset + Limit)'
      BY <1>1, <2>2, <3>1, ShowsStill DEF Done, Shows
    <3> QED
      BY <1>1, <2>2, <2>4, <3>1, <3>2 DEF WalkInv, Done
  <2> QED
    BY <1>2, <2>3, <2>4 DEF ListInv, ListTypeOK
<1>3. CASE ~ (walk # "idle" /\ appended')
  BY <1>1, <1>3 DEF ListInv, WalkInv
<1> QED
  BY <1>2, <1>3

LEMMA ListInvariant == ListSpec => []ListInv
<1>1. ASSUME ListInv, [ListNext]_listVars
      PROVE  ListInv'
  <2>1. [UsersNext]_userVars
    BY <1>1 DEF ListNext, Ask, SelectItems, SelectCount, Turn, TableStep, listVars
  <2>2. UsersInv'
    BY <1>1, <2>1, StepType, StepEmails, StepNames, StepAnswers
       DEF ListInv, UsersInv
  <2>3. CASE UNCHANGED listVars
    <3>1. /\ UNCHANGED <<rows, createdAt, walk, offset, pending, items, total>>
          /\ UNCHANGED <<seen, atStart, appended>>
      BY <2>3 DEF listVars, userVars, tableVars, pageVars, historyVars
    <3>2. Place' = Place
      BY <3>1 DEF Place, Position, InOrder
    <3>3. WalkInv'
      BY <1>1, <3>1, <3>2 DEF ListInv, WalkInv, Asked, Done, Shows
    <3> QED
      BY <1>1, <2>2, <3>3, StepListType DEF ListInv
  <2> QED
    BY <1>1, <2>2, <2>3, StepListType, AskWalks, SelectItemsWalks,
       SelectCountWalks, TurnWalks, TableWalks DEF ListInv, ListNext
<1> QED
  BY <1>1, InitListInv, PTL DEF ListSpec

(* An admin who walks through the pages while accounts are only created    *)
(* sees every account that was there at the start, and none twice.         *)
THEOREM WalksAreComplete == ListSpec => []WalkIsComplete
<1>1. ASSUME ListInv, walk # "idle", appended
      PROVE  /\ IsInjective(seen) /\ Range(seen) \subseteq rows
             /\ walk = "done" => atStart \subseteq Range(seen)
  <2> DEFINE UpTo(to) ==
               /\ Shows(seen, 0, to)
               /\ walk = "done" => \A p \in atStart : Place[p] < to
  <2>1. atStart \subseteq rows /\ (UpTo(offset) \/ UpTo(offset + Limit))
    BY <1>1 DEF ListInv, ListTypeOK, WalkInv, Asked, Done
  <2>2. PICK to \in Nat : UpTo(to)
    <3>1. offset \in Nat /\ offset + Limit \in Nat
      BY <1>1, ListingAssumption DEF ListInv, ListTypeOK
    <3> QED
      BY <2>1, <3>1
  <2>3. \A p \in rows : Place[p] \in Nat
    BY <1>1, PlacesRise DEF ListInv, ListTypeOK, UsersInv
  <2>4. Len(seen) \in Nat /\ DOMAIN seen = 1 .. Len(seen)
    BY <1>1, LenProperties DEF ListInv, ListTypeOK
  <2>5. ASSUME NEW i \in DOMAIN seen, NEW j \in DOMAIN seen, seen[i] = seen[j]
        PROVE  i = j
    BY <2>2, <2>3, <2>4, <2>5 DEF Shows
  <2>6. walk = "done" => atStart \subseteq Range(seen)
    BY <2>1, <2>2, <2>3 DEF Shows
  <2> QED
    BY <2>2, <2>5, <2>6 DEF Shows, IsInjective, Range
<1>2. ListInv => WalkIsComplete
  BY <1>1 DEF WalkIsComplete
<1> QED
  BY <1>2, ListInvariant, PTL

(* Whoever lists changes nothing: signups under a walk still do what       *)
(* Registry promises.                                                      *)
THEOREM ListingImplementsRegistry == ListSpec => RegistrySpec
<1>1. ListInit => UsersInit
  BY DEF ListInit
<1>2. [ListNext]_listVars => [UsersNext]_userVars
  BY DEF ListNext, Ask, SelectItems, SelectCount, Turn, TableStep, listVars
<1> QED
  BY <1>1, <1>2, ImplementsRegistry, PTL DEF ListSpec, UsersSpec

=============================================================================
