----------------------------- MODULE MCRegAlloc -----------------------------
(* The functions that TLC allocates and runs. *)
EXTENDS RegAlloc, TLC

CONSTANTS a, v1, v2, v3, v4, i, w1, w2, j, x, c, s, r1, r2, f1

KindsF == [v \in Value |-> IF v \in {v3, v4} THEN "float" ELSE "int"]
Ints == [v \in Value |-> "int"]
RegLists == [k \in Kind |-> IF k = "int" THEN <<r1, r2>> ELSE <<f1>>]

\* Up to two operands from the set S.
Lists(S) == {<<>>} \cup {<<p>> : p \in S} \cup {<<p, q>> : p, q \in S}

Op(res, opnds) == [kind |-> "riscv", res |-> res, opnds |-> opnds, body |-> NULL]
For(res, opnds, b) == [kind |-> "for", res |-> res, opnds |-> opnds, body |-> b]
Yield(opnds) == [kind |-> "yield", res |-> <<>>, opnds |-> opnds, body |-> NULL]
Blk(args, ops) == [args |-> args, ops |-> ops]
None == Blk(<<>>, <<>>)

Unallocated == [v \in Value |-> NULL]
Fixed(v, r) == [Unallocated EXCEPT ![v] = r]
Fun(types, entry, body, inner) ==
  [type |-> types, block |-> "entry" :> entry @@ "body" :> body @@ "inner" :> inner]

\* Straight-line functions: one argument, four operations with a result each.
Straight ==
  {Fun(t, Blk(<<a>>, <<Op(<<v1>>, p), Op(<<v2>>, q), Op(<<v3>>, r), Op(<<v4>>, u)>>), None, None) :
     t \in {Unallocated, Fixed(v2, r1)},
     p \in {<<>>, <<a>>}, q \in Lists({a, v1}), r \in {<<>>} \cup {<<y>> : y \in {a, v1, v2}},
     u \in Lists({a, v1, v2, v3})}

\* A loop without carried variables, and a loop in it.
Loops ==
  {Fun(t, Blk(<<>>, <<Op(<<v1>>, <<>>), Op(<<v2>>, <<>>), For(<<>>, <<v1, v1, v1>>, "body"), Op(<<>>, u)>>),
       Blk(<<i>>, <<Op(<<w1>>, p), For(<<>>, <<v1, v1, v1>>, "inner"), Op(<<w2>>, q), Yield(<<>>)>>),
       Blk(<<j>>, <<Op(<<x>>, r), Op(<<>>, <<x, i>>), Yield(<<>>)>>)) :
     t \in {Unallocated, Fixed(v2, r1)}, u \in {<<>>, <<v1>>, <<v2>>},
     p \in {<<>>, <<i>>, <<v2, i>>}, q \in Lists({v2, w1, i}), r \in Lists({w1, j})}

\* A loop that carries one variable.
Carrying ==
  {Fun(Unallocated,
       Blk(<<>>, <<Op(<<v1>>, <<>>), Op(<<v2>>, <<>>), For(<<s>>, <<v1, v1, v1, v2>>, "body"), Op(<<>>, <<s>>)>>),
       Blk(<<i, c>>, <<Op(<<w1>>, <<>>), Op(<<w2>>, <<w1, c>>), Yield(<<w2>>)>>), None)}

\* An operation with two results.
TwoResults ==
  {Fun(Unallocated, Blk(<<>>, <<Op(<<v1, v2>>, <<>>), Op(<<>>, <<v1>>)>>), None, None)}

AllPrograms == Straight \cup Loops
=============================================================================
