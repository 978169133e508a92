--------------------------- MODULE MCAuthService ---------------------------
(* AuthService on small sets, with the symmetries that safety allows.      *)
EXTENDS AuthService, TLC

Symmetry ==
  Permutations(SessionId) \cup Permutations(Hash) \cup Permutations(Request)
    \cup Permutations(Role)

=============================================================================
