--------------------------- MODULE MCUserListing ---------------------------
(* UserListing on small sets.  The order of ids matters, so signups are    *)
(* numbers; names, spellings and emails are numbers too, but nothing       *)
(* distinguishes them: one signup may as well have the first of each.      *)
EXTENDS UserListing

MCInit ==
  /\ ListInit
  /\ form[1] = [name |-> 1, spelling |-> 1, email |-> 1]

MCSpec == MCInit /\ [][ListNext]_listVars /\ UsersFairness

(* Signups whose connections hold, and accounts that nobody deletes.       *)
CreateNext == \E q \in Signup : Submit(q) \/ Proceed(q)

GrowNext ==
  \/ Ask \/ SelectItems \/ SelectCount \/ Turn
  \/ CreateNext /\ Watch /\ UNCHANGED pageVars

GrowSpec == MCInit /\ [][GrowNext]_listVars

=============================================================================
