------------------------------ MODULE MCIRTree ------------------------------
(* The instances of IRTree that TLC explores. *)
EXTENDS IRTree, TLC

Symmetry == Permutations(Op) \cup Permutations(Block) \cup Permutations(Region)
=============================================================================
