------------------------------- MODULE Affine -------------------------------
(***************************************************************************)
(* Affine expressions and maps: the simplifying constructors, eval,        *)
(* replace_dims_and_symbols and compose of xdsl/ir/affine, and the         *)
(* operator precedence parser of xdsl/parser/affine_parser.py.             *)
(*                                                                         *)
(* An expression is <<"const", n>>, <<"dim", p>>, <<"sym", p>> or          *)
(* <<kind, lhs, rhs>>; Error stands for an exception.  A token is a pair,  *)
(* the kind and the number or position.                                    *)
(***************************************************************************)
EXTENDS Integers, SequencesExt

CONSTANTS Modes,     \* what is checked: "build" expressions, read "text"
          Consts,    \* constants of expressions
          Operators, \* what expressions are built with; "rsub" is an int minus an expression
          MaxSteps,  \* bound: operations on expressions
          MaxText    \* bound: tokens of a text

ASSUME AffineInput ==
  /\ Modes \subseteq {"build", "text"} /\ Consts \subseteq Int /\ {MaxSteps, MaxText} \subseteq Nat
  /\ Operators \subseteq {"+", "-", "rsub", "*", "floordiv", "ceildiv", "mod"}

VARIABLES mode,
          pool,    \* expressions built so far, each with its meaning
          text,    \* tokens
          steps

vars == <<mode, pool, text, steps>>

----------------------------------------------------------------------------
(* Expressions. *)

Error == <<"error", 0>>
Const(n) == <<"const", n>>
Dim(p) == <<"dim", p>>
Sym(p) == <<"sym", p>>
IsConst(e) == e[1] = "const"
Divisions == {"floordiv", "ceildiv", "mod"}

\* Python's // and %, which round towards minus infinity.
Abs(n) == IF n < 0 THEN -n ELSE n
PyDiv(a, b) == IF b > 0 THEN a \div b ELSE (-a) \div (-b)
PyMod(a, b) == a - b * PyDiv(a, b)

\* The arithmetic of eval, and of _try_fold_constant.
Arith(kind, a, b) ==
  CASE kind = "+" -> a + b
    [] kind = "*" -> a * b
    [] kind = "floordiv" -> PyDiv(a, b)
    [] kind = "ceildiv" -> -PyDiv(-a, b)
    [] kind = "mod" -> PyMod(a, b)

\* eval; dims and symbols are functions from positions.
RECURSIVE Eval(_, _, _)
Eval(e, dims, symbols) ==
  CASE e[1] = "const" -> e[2]
    [] e[1] = "dim" -> dims[e[2]]
    [] e[1] = "sym" -> symbols[e[2]]
    [] OTHER -> Arith(e[1], Eval(e[2], dims, symbols), Eval(e[3], dims, symbols))

\* _simplify_add, _simplify_mul: (expr op constant) op constant is folded.
Absorbs(kind, e, f) == Len(e) = 3 /\ e[1] = kind /\ IsConst(e[3]) /\ IsConst(f)

\* __add__, __mul__, floor_div, ceil_div, __mod__: constants are folded; sums and
\* products have their constant on the right and the neutral element left out;
\* only constants may be factors and divisors.
RECURSIVE Binary(_, _, _)
Binary(kind, e, f) ==
  LET neutral == IF kind = "+" THEN 0 ELSE 1
  IN  CASE e = Error \/ f = Error -> Error
        [] kind \in Divisions /\ f = Const(0) /\ IsConst(e) -> Error
        [] IsConst(e) /\ IsConst(f) -> Const(Arith(kind, e[2], f[2]))
        [] kind \in Divisions -> IF IsConst(f) THEN <<kind, e, f>> ELSE Error
        [] IsConst(e) -> Binary(kind, f, e)
        [] f = Const(neutral) -> e
        [] Absorbs(kind, e, f) -> Binary(kind, e[2], Const(Arith(kind, e[3][2], f[2])))
        [] kind = "*" /\ ~IsConst(f) -> Error
        [] OTHER -> <<kind, e, f>>

\* __neg__, __sub__ and __rsub__, which is __sub__: the int f minus e becomes e - f.
Neg(e) == Binary("*", e, Const(-1))
Combine(kind, e, f) == IF kind \in {"-", "rsub"} THEN Binary("+", e, Neg(f)) ELSE Binary(kind, e, f)

\* replace_dims_and_symbols: positions that are not given stay.
RECURSIVE Replace(_, _, _)
Replace(e, dims, symbols) ==
  CASE e[1] = "const" -> e
    [] e[1] = "dim" -> IF e[2] < Len(dims) THEN dims[e[2] + 1] ELSE e
    [] e[1] = "sym" -> IF e[2] < Len(symbols) THEN symbols[e[2] + 1] ELSE e
    [] OTHER -> <<e[1], Replace(e[2], dims, symbols), Replace(e[3], dims, symbols)>>

\* Mutant: the symbols of the inner map are not moved.
ComposedUnmoved(e, fs) ==
  Replace(e, [i \in DOMAIN fs |-> Replace(fs[i], <<Dim(0), Dim(1)>>, <<Sym(0)>>)], <<>>)

\* AffineMap.compose of a map with result e and one with results fs, all over two
\* dimensions and one symbol: the symbols of the inner map follow those of the outer.
Composed(e, fs) ==
  Replace(e, [i \in DOMAIN fs |-> Replace(fs[i], <<Dim(0), Dim(1)>>, <<Sym(1)>>)], <<>>)

----------------------------------------------------------------------------
(* Building expressions, with what they mean on a few points.                *)

Coords == {-2, 1, 3}
DimPoints == [0..1 -> Coords]
SymPoints == [0..1 -> {-1, 2}]
Meanings == [DimPoints \X SymPoints -> Int]
Leaf(e) == [e |-> e, syms |-> 1, meaning |-> [q \in DimPoints \X SymPoints |-> Eval(e, q[1], q[2])]]

\* What the operators mean: x floordiv y is the q with x = q * y + r and r between 0
\* and y, x mod y that r, x ceildiv y the least integer that is not below the quotient.
Meant(kind, x, y) ==
  LET range == -Abs(x)..Abs(x)
      floor == CHOOSE q \in range : IF y > 0 THEN x - q * y \in 0..(y - 1) ELSE x - q * y \in (y + 1)..0
  IN  CASE kind = "+" -> x + y
        [] kind = "-" -> x - y
        [] kind = "rsub" -> y - x
        [] kind = "*" -> x * y
        [] kind = "floordiv" -> floor
        [] kind = "mod" -> x - floor * y
        [] kind = "ceildiv" -> IF floor * y = x THEN floor ELSE floor + 1

\* The expression handed to the next operation; a division by zero is left out, since
\* folding or evaluating it raises.
Build ==
  /\ mode = "build" /\ steps < MaxSteps
  /\ \E a, b \in ToSet(pool), kind \in Operators :
       /\ a = Last(pool) \/ b = Last(pool) \/ steps = 0
       /\ ~(kind \in Divisions /\ b.e = Const(0)) /\ (kind = "rsub" => IsConst(b.e))
       /\ Combine(kind, a.e, b.e) # Error
       /\ pool' = Append(pool, [e |-> Combine(kind, a.e, b.e), syms |-> IF a.syms > b.syms THEN a.syms ELSE b.syms,
                                meaning |-> [q \in DOMAIN a.meaning |-> Meant(kind, a.meaning[q], b.meaning[q])]])
  /\ steps' = steps + 1
  /\ UNCHANGED <<mode, text>>

\* The inner maps' results take the place of the dimensions; symbol 0 of the inner
\* map is symbol 1 of the composition.
Compose ==
  /\ mode = "build" /\ steps < MaxSteps
  /\ \E a, b, c \in {x \in ToSet(pool) : x.syms = 1} :
       /\ Last(pool) \in {a, b, c}
       /\ LET Inner(x, q) == Eval(x.e, q[1], [p \in 0..1 |-> q[2][1]])
          IN  pool' = Append(pool,
                [e |-> Composed(a.e, <<b.e, c.e>>), syms |-> 2,
                 meaning |-> [q \in DimPoints \X SymPoints |->
                                Eval(a.e, [p \in 0..1 |-> IF p = 0 THEN Inner(b, q) ELSE Inner(c, q)], q[2])]])
  /\ steps' = steps + 1
  /\ UNCHANGED <<mode, text>>

----------------------------------------------------------------------------
(* Text.  str() brackets every operation; what users write does not. *)

Tok(k) == <<k, 0>>

RECURSIVE Str(_), StrUnbracketed(_)
\* Mutant: no brackets.
StrUnbracketed(e) ==
  CASE IsConst(e) -> IF e[2] < 0 THEN <<Tok("-"), Const(-e[2])>> ELSE <<e>>
    [] Len(e) = 2 -> <<e>>
    [] OTHER -> Str(e[2]) \o <<Tok(e[1])>> \o Str(e[3])

\* __str__
Str(e) ==
  CASE IsConst(e) -> IF e[2] < 0 THEN <<Tok("-"), Const(-e[2])>> ELSE <<e>>
    [] Len(e) = 2 -> <<e>>
    [] OTHER -> <<Tok("(")>> \o Str(e[2]) \o <<Tok(e[1])>> \o Str(e[3]) \o <<Tok(")")>>

\* Mutant: all operators bind alike.
PrecedenceFlat(t, i) ==
  IF i > Len(t) THEN -1
  ELSE IF t[i][1] \in {"+", "-", "*"} \cup Divisions THEN 10 ELSE -1

\* _get_token_precedence
Precedence(t, i) ==
  IF i > Len(t) THEN -1
  ELSE CASE t[i][1] \in {"+", "-"} -> 10
         [] t[i][1] \in {"*"} \cup Divisions -> 20
         [] OTHER -> -1

\* _parse_primary, _parse_binop_rhs and _parse_affine_expr, at token i of t: the
\* expression, and the token after it.
RECURSIVE ParsePrimary(_, _), ParseBinopRhs(_, _, _, _)
ParseAffineExpr(t, i) ==
  LET p == ParsePrimary(t, i) IN ParseBinopRhs(t, p.e, p.i, 0)
ParsePrimary(t, i) ==
  CASE t[i][1] = "(" -> LET p == ParseAffineExpr(t, i + 1) IN [p EXCEPT !.i = @ + 1]
    [] t[i][1] = "-" -> LET p == ParsePrimary(t, i + 1) IN [p EXCEPT !.e = Neg(@)]
    [] OTHER -> [e |-> t[i], i |-> i + 1]
ParseBinopRhs(t, lhs, i, prec) ==
  LET here == Precedence(t, i)
      p == ParsePrimary(t, i + 1)
      rhs == IF here < Precedence(t, p.i) THEN ParseBinopRhs(t, p.e, p.i, here + 1) ELSE p
  IN  IF here < prec THEN [e |-> lhs, i |-> i]
      ELSE ParseBinopRhs(t, Combine(t[i][1], lhs, rhs.e), rhs.i, prec)

Parse(t) == ParseAffineExpr(t, 1).e

\* Texts: an operand, then an operator and an operand at either end, or brackets.
Operands == {<<Dim(0)>>, <<Const(2)>>, <<Tok("-"), Dim(1)>>}
Write ==
  /\ mode = "text" /\ Len(text) < MaxText
  /\ \/ \E o \in Operands, k \in {"+", "-", "*"} \cup Divisions : text' = text \o <<Tok(k)>> \o o
     \/ \E o \in Operands, k \in {"+", "-", "*"} : text' = o \o <<Tok(k)>> \o text
     \/ text' = <<Tok("(")>> \o text \o <<Tok(")")>> /\ text[1] # Tok("(")
  /\ UNCHANGED <<mode, pool, steps>>

\* What a text means: the operator outside of all brackets that binds least and
\* comes last is applied last.
DepthAt(t, i) == Len(SelectSeq(SubSeq(t, 1, i), LAMBDA x : x[1] = "("))
                 - Len(SelectSeq(SubSeq(t, 1, i), LAMBDA x : x[1] = ")"))
IsBinary(t, i) == i > 1 /\ t[i - 1][1] \in {"const", "dim", "sym", ")"}
Splits(t, kinds) == {i \in DOMAIN t : t[i][1] \in kinds /\ DepthAt(t, i) = 0 /\ IsBinary(t, i)}

RECURSIVE Reading(_, _)
Reading(t, dims) ==
  LET sums == Splits(t, {"+", "-"})
      all == IF sums # {} THEN sums ELSE Splits(t, {"*"} \cup Divisions)
      i == Max(all)
      left == Reading(SubSeq(t, 1, i - 1), dims)
      right == Reading(SubSeq(t, i + 1, Len(t)), dims)
  IN  IF all # {} THEN Meant(t[i][1], left, right)
      ELSE CASE t[1][1] = "-" -> -Reading(Tail(t), dims)
             [] t[1][1] = "(" -> Reading(SubSeq(t, 2, Len(t) - 1), dims)
             [] OTHER -> Eval(t[1], dims, <<>>)

Init ==
  /\ mode \in Modes
  /\ pool = IF mode # "build" THEN <<>>
            ELSE SetToSeq({Leaf(Const(n)) : n \in Consts} \cup {Leaf(Dim(0)), Leaf(Dim(1)), Leaf(Sym(0))})
  /\ text \in (IF mode = "text" THEN Operands ELSE {<<>>})
  /\ steps = 0

Next == Build \/ Compose \/ Write

Spec == Init /\ [][Next]_vars

----------------------------------------------------------------------------
(* Properties. *)

RECURSIVE IsExpr(_)
IsExpr(e) ==
  \/ e[1] = "const" /\ e[2] \in Int
  \/ e[1] \in {"dim", "sym"} /\ e[2] \in 0..1
  \/ Len(e) = 3 /\ e[1] \in {"+", "*"} \cup Divisions /\ IsExpr(e[2]) /\ IsExpr(e[3])

TypeOK ==
  /\ mode \in Modes /\ steps \in 0..MaxSteps
  /\ \A i \in DOMAIN pool : IsExpr(pool[i].e) /\ pool[i].syms \in 1..2

\* Folding, reordering, leaving out neutral elements and composing with another map
\* never change what an expression evaluates to, for negative values and divisors too.
MeaningKept ==
  pool # <<>> => \A q \in DOMAIN Last(pool).meaning :
                   Eval(Last(pool).e, q[1], q[2]) = Last(pool).meaning[q]

\* What str() writes is read back as an expression with the same values.
TextRight ==
  pool # <<>> => \A q \in DOMAIN Last(pool).meaning :
                   Eval(Parse(Str(Last(pool).e)), q[1], q[2]) = Last(pool).meaning[q]

\* Operators bind and associate as written: the precedence parser agrees with reading
\* the text from its weakest operator, whenever it accepts the text.
PrecedenceRight ==
  text # <<>> /\ Parse(text) # Error =>
    \A dims \in DimPoints : Eval(Parse(text), dims, <<>>) = Reading(text, dims)

=============================================================================
