----------------------------- MODULE MCOperator -----------------------------
(* Two users, two groups, two topics; every part of the menus, one at a time. *)
EXTENDS Operator, TLC
CONSTANTS u1, u2, g1, g2, pA, pB
Symmetry == Permutations(Users) \cup Permutations(Groups) \cup Permutations(Places)
=============================================================================
