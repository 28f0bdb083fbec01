------------------------------ MODULE MCInterp ------------------------------
(* A function of two blocks, 1 and 2, that calls itself, and an operation with a   *)
(* region of two blocks, 3 and 4, at any point of the function.                    *)
EXTENDS Interp

MCBlocks == 1..4
MCRegion == <<"f", "f", "body", "body">>

Before(p) == {<<p[1], j>> : j \in 0..(p[2] - 1)}

\* d: where blocks 2 and 4 are branched to first; o: the operation with the region.
MCPrograms ==
  {LET in2 == Before(<<1, d>>)
       in3 == Before(o) \cup IF o[1] = 2 THEN in2 ELSE {}
   IN  [in |-> <<{}, in2, in3, in3 \cup Before(<<3, e>>)>>, owner |-> [b \in {3} |-> o]] :
   d, e \in 1..(MaxLen + 1), o \in {1, 2} \X (1..MaxLen)}
=============================================================================
