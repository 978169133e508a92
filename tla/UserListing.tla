----------------------------- MODULE UserListing -----------------------------
(***************************************************************************)
(* GET /v1/admin/users while accounts are created and deleted: an admin's  *)
(* client walks through the pages.  UserRepository.listPaginated sends the *)
(* query for the page and the one for the total to two connections of the  *)
(* pool, so each sees the table at a moment of its own.                    *)
(***************************************************************************)
EXTENDS Users, Sequences, FiniteSets, Functions

CONSTANT Limit

ASSUME ListingAssumption == Limit \in Nat \ {0} /\ Signup \subseteq Nat

VARIABLES
  walk,     \* "idle", "asked" for the page at offset, "done"
  offset,
  pending,  \* the queries of this page that are not answered
  items,    \* their answers
  total,
  seen,     \* the rows of the pages so far
  atStart,  \* history: the rows when the walk began
  appended  \* history: since then rows have only come, younger than all there

pageVars == <<walk, offset, pending, items, total, seen>>
historyVars == <<atStart, appended>>
listVars == <<userVars, pageVars, historyVars>>

(* ORDER BY created_at, id                                                 *)
InOrder_NewestFirst(p, q) ==
  createdAt[p] > createdAt[q] \/ (createdAt[p] = createdAt[q] /\ p < q)
InOrder(p, q) ==
  createdAt[p] < createdAt[q] \/ (createdAt[p] = createdAt[q] /\ p < q)

Position(p) == Cardinality({q \in rows : InOrder(q, p)})

RowAt(n) == CHOOSE p \in rows : Position(p) = n

(* LIMIT and OFFSET.                                                       *)
Page(from) ==
  LET left == Cardinality(rows) - from
  IN  [i \in 1 .. (IF left < Limit THEN left ELSE Limit) |-> RowAt(from + i - 1)]

-----------------------------------------------------------------------------
Ask ==
  /\ walk = "idle"
  /\ walk' = "asked"
  /\ pending' = {"items", "total"}
  /\ atStart' = rows
  /\ UNCHANGED <<userVars, offset, items, total, seen, appended>>

SelectItems ==
  /\ "items" \in pending
  /\ pending' = pending \ {"items"}
  /\ items' = Page(offset)
  /\ UNCHANGED <<userVars, walk, offset, total, seen, historyVars>>

SelectCount ==
  /\ "total" \in pending
  /\ pending' = pending \ {"total"}
  /\ total' = Cardinality(rows)
  /\ UNCHANGED <<userVars, walk, offset, items, seen, historyVars>>

(* The client has its page; it asks for the next one up to the total.      *)
Turn ==
  /\ walk = "asked" /\ pending = {}
  /\ seen' = seen \o items
  /\ IF offset + Limit < total
       THEN /\ offset' = offset + Limit
            /\ pending' = {"items", "total"}
            /\ UNCHANGED walk
       ELSE walk' = "done" /\ UNCHANGED <<offset, pending>>
  /\ UNCHANGED <<userVars, items, total, historyVars>>

(* No row went, and those that came are younger than all that were there.  *)
Grew ==
  /\ rows \subseteq rows'
  /\ \A p \in rows, q \in rows' \ rows : createdAt[p] < createdAt[q]

Watch ==
  /\ appended' = (appended /\ (walk = "idle" \/ Grew))
  /\ UNCHANGED atStart

TableStep == UsersNext /\ Watch /\ UNCHANGED pageVars

-----------------------------------------------------------------------------
ListInit ==
  /\ UsersInit
  /\ walk = "idle" /\ offset = 0 /\ pending = {}
  /\ items = <<>> /\ total = 0 /\ seen = <<>>
  /\ atStart = {} /\ appended = TRUE

ListNext == Ask \/ SelectItems \/ SelectCount \/ Turn \/ TableStep

ListSpec == ListInit /\ [][ListNext]_listVars

(* The processes go on once begun; nobody has to send a request.           *)
FairListSpec == ListSpec /\ UsersFairness

-----------------------------------------------------------------------------
(* Properties                                                              *)

(* A walk through a table to which younger rows are only added shows no    *)
(* row twice and, when it ends, has every row that was there when it       *)
(* began, whichever query of a page is answered first.  If none came, it   *)
(* has exactly the table.                                                  *)
WalkIsComplete ==
  walk # "idle" /\ appended =>
    /\ IsInjective(seen)
    /\ Range(seen) \subseteq rows
    /\ walk = "done" => atStart \subseteq Range(seen)

(* docs/api.md:158 and UserRepository.ts:58: offset pages never repeat a   *)
(* row.  Here no account is ever deleted.                                  *)
PagesNeverRepeat == IsInjective(seen)

=============================================================================
