-------------------------- MODULE MCLoginThrottle --------------------------
(* LoginThrottle on small delays.                                          *)
EXTENDS LoginThrottle, TLC

Symmetry == Permutations(Attempt)

=============================================================================
