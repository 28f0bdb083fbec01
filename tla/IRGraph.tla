------------------------------- MODULE IRGraph -------------------------------
(***************************************************************************)
(* Operations with regions, as Clone and Text use them: operations and     *)
(* blocks are numbered in the order in which they are created.  An         *)
(* operation has a name, operands, successors and at most one region, a    *)
(* sequence of blocks; a block has at most one argument, its operations,   *)
(* and the operation around it.                                            *)
(***************************************************************************)
EXTENDS Naturals, FiniteSets, SequencesExt

VARIABLES op, block

ir == <<op, block>>

Root == 1                     \* the operation that everything is built in
Outer == <<"outer", 0>>       \* a value defined outside of Root
Result(o) == <<"result", o>>
BlockArg(b) == <<"arg", b>>

\* A module "m" and a terminator "t" have no result, the others one.
HasResult(o) == op[o].name \notin {"m", "t"}

NewOp(name, operands, succs, region) ==
  [name |-> name, operands |-> operands, succs |-> succs, region |-> region]
NewBlock(args, parent) == [args |-> args, ops |-> <<>>, parent |-> parent]

NextOp == Len(op) + 1
NextBlock == Len(block) + 1

\* Dictionaries: map.get(x, x), and the entries for keys.
Mapped(map, x) == IF x \in DOMAIN map THEN map[x] ELSE x
Extend(map, keys, Image(_)) == [x \in DOMAIN map \cup keys |->
                                  IF x \in keys THEN Image(x) ELSE map[x]]
With(map, x, y) == Extend(map, {x}, LAMBDA k : y)

InitIR ==
  /\ op = <<NewOp("m", <<>>, <<>>, <<1, 2>>)>>
  /\ block = <<NewBlock(0, Root), NewBlock(1, Root)>>

----------------------------------------------------------------------------
(* The walk over an operation and everything in it. *)

Concat(F(_), s) == FoldLeft(LAMBDA acc, x : acc \o F(x), <<>>, s)

RECURSIVE OpsOf(_), BlocksOf(_), Trace(_)
OpsOf(o) == <<o>> \o Concat(LAMBDA b : Concat(OpsOf, block[b].ops), op[o].region)
BlocksOf(o) == Concat(LAMBDA b : <<b>> \o Concat(BlocksOf, block[b].ops), op[o].region)

\* The values in the order in which they are used and defined: operands, then the
\* regions, then the result.
Trace(o) ==
  [i \in DOMAIN op[o].operands |-> <<"use", op[o].operands[i]>>]
  \o Concat(LAMBDA b : (IF block[b].args = 0 THEN <<>> ELSE <<<<"def", BlockArg(b)>>>>)
                       \o Concat(Trace, block[b].ops), op[o].region)
  \o IF HasResult(o) THEN <<<<"def", Result(o)>>>> ELSE <<>>

DefinedIn(o) == {e[2] : e \in {d \in ToSet(Trace(o)) : d[1] = "def"}}

\* Every value of o is defined before it is used.
DefinedFirst(o) ==
  LET t == Trace(o)
  IN  \A i, j \in DOMAIN t : t[i][1] = "use" /\ t[j] = <<"def", t[i][2]>> => j < i

InBlock(o) == \E b \in DOMAIN block : o \in ToSet(block[b].ops)
BlockOf(o) == CHOOSE b \in DOMAIN block : o \in ToSet(block[b].ops)

\* The operations around block b.
RECURSIVE Around(_)
Around(b) == LET o == block[b].parent
             IN  IF o = Root THEN {o} ELSE {o} \cup Around(BlockOf(o))

----------------------------------------------------------------------------
(* Building: a client adds operations. *)

\* An operation without a region or with one, or a terminator, at the end of b.
AddOp(b, values, targets) ==
  \E new \in {NewOp("a", <<v>>, <<>>, r) : v \in values, r \in {<<>>, <<NextBlock>>}}
             \cup {NewOp("t", <<>>, <<c>>, <<>>) : c \in targets} :
    /\ op' = Append(op, new)
    /\ block' = [block EXCEPT ![b].ops = Append(@, NextOp)]
                \o [i \in DOMAIN new.region |-> NewBlock(1, NextOp)]

----------------------------------------------------------------------------
(* Operation.verify: the rules on terminators and successors.  Operations with   *)
(* one block have the NoTerminator trait here, as builtin.module has.            *)

VerifiedOp(o) ==
  LET b == BlockOf(o)
      region == op[block[b].parent].region
  IN  /\ op[o].succs # <<>> => Last(block[b].ops) = o /\ ToSet(op[o].succs) \subseteq ToSet(region)
      /\ Len(region) > 1 /\ Last(block[b].ops) = o => op[o].name = "t"

Verified(r) == \A o \in ToSet(OpsOf(r)) \ {r} : VerifiedOp(o)

\* The walk orders of o and p pair every operation, block and value of o with one
\* of p; o and p are alike if that pairing respects everything.
Isomorphic(o, p) ==
  LET os == OpsOf(o)  ps == OpsOf(p)  bs == BlocksOf(o)  cs == BlocksOf(p)
      own == DefinedIn(o)
      Pair(x, xs, ys) == ys[CHOOSE i \in DOMAIN xs : xs[i] = x]
      PairValue(v) == IF v \notin own THEN v
                      ELSE IF v[1] = "arg" THEN BlockArg(Pair(v[2], bs, cs))
                      ELSE Result(Pair(v[2], os, ps))
      PairBlock(b) == IF b \in ToSet(bs) THEN Pair(b, bs, cs) ELSE b
  IN  /\ Len(os) = Len(ps) /\ Len(bs) = Len(cs)
      /\ \A i \in DOMAIN bs : /\ block[cs[i]].args = block[bs[i]].args
                              /\ block[cs[i]].parent = Pair(block[bs[i]].parent, os, ps)
                              /\ Len(block[cs[i]].ops) = Len(block[bs[i]].ops)
      /\ \A i \in DOMAIN os :
           /\ op[ps[i]].name = op[os[i]].name
           /\ op[ps[i]].operands = [k \in DOMAIN op[os[i]].operands |-> PairValue(op[os[i]].operands[k])]
           /\ op[ps[i]].succs = [k \in DOMAIN op[os[i]].succs |-> PairBlock(op[os[i]].succs[k])]

=============================================================================
