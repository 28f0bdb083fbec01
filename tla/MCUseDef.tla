------------------------------ MODULE MCUseDef ------------------------------
(* The instances of UseDef that TLC explores: operations o1 (two results) and *)
(* o2 in block b1; o2 has a region with block b2, which holds o3.             *)
EXTENDS UseDef, TLC

CONSTANTS o1, o2, o3, r1, r2, r3, b1, b2

Nesting == o1 :> b1 @@ o2 :> b1 @@ o3 :> b2
Hosts == b1 :> NULL @@ b2 :> o2

\* Most uses are o2's: two operands, so that it can use one value twice.
UserResults == o1 :> <<r1, r2>> @@ o2 :> <<r3>> @@ o3 :> <<>>
UserArity == o1 :> 0 @@ o2 :> 2 @@ o3 :> 1

Symmetry == Permutations(Arg)
=============================================================================
