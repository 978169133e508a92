--------------------------- MODULE MCSessionStore ---------------------------
(* SessionStore on small sets, with the symmetries that safety allows.     *)
EXTENDS SessionStore, TLC

Symmetry ==
  Permutations(SessionId) \cup Permutations(User) \cup Permutations(Hash)

=============================================================================
