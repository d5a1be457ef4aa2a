---------------------------- MODULE MCSessionMap ----------------------------
(* Instances of SessionMap for TLC. *)
EXTENDS SessionMap, TLC

CONSTANTS c1, w1, s1, s2, t1, t2

TaskSymmetry == Permutations(Tasks)
Symmetry == Permutations(Sids) \cup TaskSymmetry
=============================================================================
