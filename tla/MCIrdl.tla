------------------------------- MODULE MCIrdl -------------------------------
(* The operation definitions that TLC explores. *)
EXTENDS Irdl

\* An argument that is passed alone, as a list, or not at all.
Given(form, vals) == [form |-> form, vals |-> vals]
Forms ==
  {Given("none", <<>>), Given("single", <<"s">>), Given("single", <<"t">>)}
    \cup {Given("list", vals) : vals \in {<<>>, <<"t">>, <<"s", "t">>}}

AnyAttr == [kind |-> "any"]
Only(t) == [kind |-> "base", types |-> {t}]
T == [kind |-> "var", name |-> "T", of |-> AnyAttr]
SOrT == [kind |-> "anyof", of |-> <<Only("s"), T>>]
TAndSOrT == [kind |-> "anyof", of |-> <<[kind |-> "allof", of |-> <<T, Only("s")>>], Only("t")>>]
Constraints == {AnyAttr, Only("s"), T, SOrT, TAndSOrT}

Field(arity, constr) == [arity |-> arity, constr |-> constr]
Arity == {"one", "opt", "var"}
Option == {"none", "attribute", "property"}

Def(defs, option) ==
  [defs   |-> [c \in Construct |-> IF c \in DOMAIN defs THEN defs[c] ELSE <<>>],
   option |-> [c \in Construct |-> IF c \in DOMAIN defs THEN option ELSE "none"]]

\* n fields of every arity in one construct.
Shapes(c, n, options) ==
  {Def([x \in {c} |-> [i \in 1..n |-> Field(a[i], AnyAttr)]], o) : a \in [1..n -> Arity], o \in options}

\* Constraints on two operands and a result, which share their variables.
Typed ==
  {Def([operand |-> <<Field(a, p), Field("one", q)>>, result |-> <<Field("one", r)>>], "none") :
     a \in {"one", "var"}, p \in Constraints, q, r \in {T, SOrT, TAndSOrT}}

\* Regions that should have a single block.
SingleBlocks(arities) ==
  {Def([region |-> <<Field(a, [kind |-> "single"]), Field("one", [kind |-> "single"])>>], "none") : a \in arities}

AllDefinitions ==
  Shapes("operand", 3, {"property"})
    \cup UNION {Shapes(c, 2, Option) : c \in Construct}
    \cup Typed \cup SingleBlocks({"one"})

\* Definitions that VerifyExact is false of: an AnyOf that binds T where it need not;
\* single-block regions that are optional or variadic.
TOrS == [kind |-> "anyof", of |-> <<T, Only("s")>>]
GreedyDefinitions == {Def([operand |-> <<Field("one", TOrS), Field("one", T)>>], "none")}
UncheckedDefinitions == SingleBlocks({"opt", "var"})
=============================================================================
