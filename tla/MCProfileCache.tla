--------------------------- MODULE MCProfileCache ---------------------------
(* ProfileCache on small sets; profiles, users and requests are alike.     *)
EXTENDS ProfileCache, TLC

Symmetry ==
  Permutations(User) \cup Permutations(Profile) \cup Permutations(Request)

=============================================================================
