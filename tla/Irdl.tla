-------------------------------- MODULE Irdl --------------------------------
(***************************************************************************)
(* The life of an operation that is defined with IRDL (irdl/irdl.py): its  *)
(* definition, the builder that sorts what it is given into flat lists of  *)
(* operands, results, regions and successors, the accessors that cut the   *)
(* lists into the definition's fields again, and verification, which walks *)
(* the lists once more and unifies constraint variables on the way.        *)
(*                                                                         *)
(* A value, a result or a region is represented by what verification reads *)
(* of it: its type, or for a region whether it has a single block.         *)
(***************************************************************************)
EXTENDS Integers, Sequences, SequencesExt

CONSTANTS
  Definitions,      \* the operation definitions to explore
  GivenForms,       \* what a caller passes for one field of a definition
  Type, Single,     \* the types; Single stands for a region with one block
  Var,              \* constraint variables
  MaxSize,          \* largest segment size a caller writes
  MaxEdits,         \* edits between the builder and verification
  Liberties,        \* "none": None is passed for results and successors with sizes
  NULL

ASSUME ConstantsAssumption ==
  MaxSize \in Nat /\ MaxEdits \in Nat /\ Single \in Type /\ Liberties \subseteq {"none"}

Construct == {"operand", "result", "region", "successor"}
Container == {"attribute", "property"}

VARIABLES
  opDef,    \* the definition, NULL before irdl_op_definition
  given,    \* ghost: the builder's arguments, NULL once the operation was edited
  op,       \* the operation: lists of args, and segment sizes in two dictionaries
  status,   \* how far it got
  edits

vars == <<opDef, given, op, status, edits>>

Defs(c) == opDef.defs[c]
IsVariadic(d) == d.arity # "one"
IsOptional(d) == d.arity = "opt"

Indices(s) == [i \in DOMAIN s |-> i]
VariadicIndices(c) == SelectSeq(Indices(Defs(c)), LAMBDA i : IsVariadic(Defs(c)[i]))
VariadicBefore(c, i) == Len(SelectSeq(VariadicIndices(c), LAMBDA j : j < i))
Total(s) == FoldLeft(+, 0, s)

-----------------------------------------------------------------------------
(* Definition *)

\* More than one variadic field needs an option that says where sizes are kept.
Definable(d) ==
  \A c \in Construct :
    Len(SelectSeq(d.defs[c], IsVariadic)) > 1 => d.option[c] # "none"

IrdlOpDefinition(d) ==
  /\ status = "new"
  /\ IF Definable(d)
       THEN opDef' = d /\ status' = "defined"
       ELSE opDef' = NULL /\ status' = "refused"
  /\ UNCHANGED <<given, op, edits>>

-----------------------------------------------------------------------------
(* The builder *)

\* irdl_build_operations_arg and irdl_build_regions_arg turn None into [].
Prepared(c, g) ==
  IF c \in {"operand", "region"} /\ g.form = "none" THEN [g EXCEPT !.form = "list"] ELSE g

Accepts(d, g) ==
  CASE g.form = "none" -> IsOptional(d)
    [] g.form = "list" -> IsVariadic(d) /\ (IsOptional(d) => Len(g.vals) <= 1)
    [] OTHER           -> TRUE

\* Mutant: sizes are recorded for lists only.
ArgSizesOfLists(gs) ==
  LET sized == SelectSeq(gs, LAMBDA g : g.form = "list") IN
  [i \in DOMAIN sized |-> Len(sized[i].vals)]

\* Nothing is recorded for None.
ArgSizes(gs) ==
  LET sized == SelectSeq(gs, LAMBDA g : g.form # "none") IN
  [i \in DOMAIN sized |-> Len(sized[i].vals)]

BuildArgList(c, gs) ==
  LET prepared == [i \in DOMAIN gs |-> Prepared(c, gs[i])] IN
  [ok    |-> Len(gs) = Len(Defs(c)) /\ \A i \in DOMAIN gs : Accepts(Defs(c)[i], prepared[i]),
   args  |-> FlattenSeq([i \in DOMAIN gs |-> gs[i].vals]),
   sizes |-> ArgSizes(prepared)]

IrdlOpInit(gs) ==
  /\ status = "defined"
  /\ LET built == [c \in Construct |-> BuildArgList(c, gs[c])]
         Kept(k) == [c \in Construct |-> IF opDef.option[c] = k THEN built[c].sizes ELSE NULL]
     IN IF \A c \in Construct : built[c].ok
          THEN /\ op' = [args |-> [c \in Construct |-> built[c].args],
                         attribute |-> Kept("attribute"), property |-> Kept("property")]
               /\ status' = "built"
          ELSE op' = NULL /\ status' = "raised"
  /\ given' = gs
  /\ UNCHANGED <<opDef, edits>>

-----------------------------------------------------------------------------
(* What callers do to an operation: its lists and dictionaries are plain ones *)

Edit(o) ==
  /\ status \in {"built", "edited"}
  /\ edits < MaxEdits
  /\ op' = o
  /\ status' = "edited" /\ given' = NULL /\ edits' = edits + 1
  /\ UNCHANGED opDef

AppendArg(c, t) == Edit([op EXCEPT !.args[c] = Append(@, t)])
DropArg(c) == op.args[c] # <<>> /\ Edit([op EXCEPT !.args[c] = Front(@)])
SetSizes(c, k, sizes) == Edit([op EXCEPT ![k][c] = sizes])

-----------------------------------------------------------------------------
(* Segments: NULL stands for an exception *)

\* Mutant: an optional field may have a size above one.
GetVariadicSizesFromAttrLoose(c) ==
  LET sizes == op[opDef.option[c]][c]
      Fits(i) == ~IsVariadic(Defs(c)[i]) => sizes[i] = 1
  IN IF \/ sizes = NULL
        \/ Len(sizes) # Len(Defs(c))
        \/ \E i \in DOMAIN sizes : ~Fits(i)
       THEN NULL
       ELSE [k \in DOMAIN VariadicIndices(c) |-> sizes[VariadicIndices(c)[k]]]

GetVariadicSizesFromAttr(c) ==
  LET sizes == op[opDef.option[c]][c]
      Fits(i) == /\ IsOptional(Defs(c)[i]) => sizes[i] <= 1
                 /\ ~IsVariadic(Defs(c)[i]) => sizes[i] = 1
  IN IF \/ sizes = NULL
        \/ Len(sizes) # Len(Defs(c))
        \/ \E i \in DOMAIN sizes : ~Fits(i)
       THEN NULL
       ELSE [k \in DOMAIN VariadicIndices(c) |-> sizes[VariadicIndices(c)[k]]]

GetVariadicSizes(c) ==
  LET missing == Len(op.args[c]) - Len(Defs(c)) IN
  CASE opDef.option[c] # "none"     -> GetVariadicSizesFromAttr(c)
    [] VariadicIndices(c) = <<>>    -> IF missing # 0 THEN NULL ELSE <<>>
    [] OTHER                        -> IF missing + 1 < 0 THEN NULL ELSE <<missing + 1>>

\* The accessor of the i-th field, as a list: of at most one element when it
\* is optional (None is the empty one), of one when it is not variadic.
GetOperandResultOrRegion(c, i) ==
  LET sizes == GetVariadicSizes(c)
      before == VariadicBefore(c, i)
      begin == i - before + Total(SubSeq(sizes, 1, before))
      At(k) == IF k <= Len(op.args[c]) THEN <<op.args[c][k]>> ELSE NULL
  IN CASE sizes = NULL              -> NULL
       [] ~IsVariadic(Defs(c)[i])   -> At(begin)
       [] IsOptional(Defs(c)[i])    -> IF sizes[before + 1] = 0 THEN <<>> ELSE At(begin)
       [] OTHER -> SubSeq(op.args[c], begin, Min({Len(op.args[c]), begin + sizes[before + 1] - 1}))

-----------------------------------------------------------------------------
(* Constraints. bound maps the variables to types, or to NULL when unset.     *)

Outcome(ok, bound) == [ok |-> ok, bound |-> bound]

\* Mutant: the alternatives that fail leave what they bound.
AnyOfUncopied(results, bound) ==
  LET accepted == SelectSeq(Indices(results), LAMBDA i : results[i].ok)
      tried == {results[i].bound : i \in 1..accepted[1]}
  IN IF accepted = <<>> THEN Outcome(FALSE, bound)
     ELSE Outcome(TRUE, [v \in Var |->
            IF \E b \in tried : b[v] # NULL THEN (CHOOSE b \in tried : b[v] # NULL)[v] ELSE NULL])

\* The alternatives of AnyOf, tried in order, each on a copy of bound.
AnyOf(results, bound) ==
  LET accepted == SelectSeq(results, LAMBDA r : r.ok) IN
  IF accepted = <<>> THEN Outcome(FALSE, bound) ELSE accepted[1]

RECURSIVE VerifyConstr(_, _, _)
VerifyConstr(c, t, bound) ==
  CASE c.kind = "any"  -> Outcome(TRUE, bound)
    [] c.kind = "base" -> Outcome(t \in c.types, bound)
    [] c.kind = "var"  ->
         IF bound[c.name] # NULL
           THEN Outcome(bound[c.name] = t, bound)
           ELSE LET r == VerifyConstr(c.of, t, bound) IN
                IF r.ok THEN Outcome(TRUE, [r.bound EXCEPT ![c.name] = t]) ELSE r
    [] c.kind = "anyof" ->
         AnyOf([i \in DOMAIN c.of |-> VerifyConstr(c.of[i], t, bound)], bound)
    [] c.kind = "allof" ->
         FoldLeft(LAMBDA r, k : LET n == VerifyConstr(k, t, r.bound) IN Outcome(r.ok /\ n.ok, n.bound),
                  Outcome(TRUE, bound), c.of)

\* Only a region that is not variadic is looked at for a single block: the
\* variadic and optional variants are no subclasses of SingleBlockRegionDef.
VerifyArg(c, d, t, bound) ==
  CASE c \in {"operand", "result"} -> VerifyConstr(d.constr, t, bound)
    [] c = "region" -> Outcome(d.constr.kind = "single" /\ ~IsVariadic(d) => t = Single, bound)
    [] OTHER        -> Outcome(TRUE, bound)

\* The fields in the order of the arguments that they are verified against.
FieldsInOrder(c, sizes) ==
  FlattenSeq([i \in DOMAIN Defs(c) |->
    [k \in 1..(IF IsVariadic(Defs(c)[i]) THEN sizes[VariadicBefore(c, i) + 1] ELSE 1) |-> Defs(c)[i]]])

VerifyArgList(c, start) ==
  LET sizes == GetVariadicSizes(c)
      fields == FieldsInOrder(c, sizes)
      args == op.args[c]
      Step(r, k) == LET n == VerifyArg(c, fields[k], args[k], r.bound) IN Outcome(r.ok /\ n.ok, n.bound)
  IN IF sizes = NULL \/ Len(fields) > Len(args)
       THEN Outcome(FALSE, start.bound)
       ELSE FoldLeft(Step, start, Indices(fields))

\* A property that no definition asks for is an error, an attribute is not.
KnownProperties == \A c \in Construct : op.property[c] # NULL => opDef.option[c] = "property"

\* OpDef.verify: one set of constraint variables for the whole operation.
Verify ==
  /\ status \in {"built", "edited"}
  /\ LET unbound == Outcome(TRUE, [v \in Var |-> NULL])
         r == FoldLeft(LAMBDA o, c : IF o.ok THEN VerifyArgList(c, o) ELSE o,
                       unbound, <<"operand", "result", "region", "successor">>)
     IN status' = IF r.ok /\ KnownProperties THEN "verified" ELSE "rejected"
  /\ UNCHANGED <<opDef, given, op, edits>>

-----------------------------------------------------------------------------
Init == opDef = NULL /\ given = NULL /\ op = NULL /\ status = "new" /\ edits = 0

\* The builder's inputs. None for a result or a successor comes with segment
\* sizes only under the liberty.
Fitting(c, gs) ==
  /\ Len(gs) <= Len(Defs(c))
  /\ "none" \notin Liberties /\ c \in {"result", "successor"} /\ opDef.option[c] # "none"
       => \A i \in DOMAIN gs : gs[i].form # "none"

GivenLists(c) ==
  {gs \in UNION {[1..n -> GivenForms] : n \in {0, Len(Defs(c))}} : Fitting(c, gs)}

\* NULL: the attribute is missing, or is no array of i32.
SizeLists(c) == {NULL, <<>>} \cup [1..Len(Defs(c)) -> 0..MaxSize]

Used == {c \in Construct : Defs(c) # <<>>}

Next ==
  \/ \E d \in Definitions : IrdlOpDefinition(d)
  \/ /\ status = "defined"
     /\ \E o \in GivenLists("operand"), r \in GivenLists("result"),
           g \in GivenLists("region"), s \in GivenLists("successor") :
          IrdlOpInit([operand |-> o, result |-> r, region |-> g, successor |-> s])
  \/ /\ status \in {"built", "edited"} /\ edits < MaxEdits
     /\ \E c \in Used :
          \/ \E t \in Type : AppendArg(c, t)
          \/ DropArg(c)
          \/ \E k \in Container, sizes \in SizeLists(c) : SetSizes(c, k, sizes)
  \/ Verify

Spec == Init /\ [][Next]_vars

-----------------------------------------------------------------------------
(* Properties *)

HasOp == status \in {"built", "edited", "verified", "rejected"}

\* The types of the variables. What an operation has of segment sizes is never
\* negative, however few arguments it is left with.
TypeOK ==
  /\ status \in {"new", "refused", "defined", "raised"} \/ HasOp
  /\ opDef \in Definitions \cup {NULL}
  /\ edits \in 0..MaxEdits
  /\ HasOp => \A c \in Construct :
       /\ op.args[c] \in Seq(Type)
       /\ GetVariadicSizes(c) # NULL => GetVariadicSizes(c) \in Seq(Nat)

Segments(c) == [i \in DOMAIN Defs(c) |-> GetOperandResultOrRegion(c, i)]
Reads(c) == \A i \in DOMAIN Defs(c) : Segments(c)[i] # NULL

\* Whether a field can hold what it is given.
Holds(c, d, g) ==
  CASE d.arity = "one" -> g.form = "single"
    [] d.arity = "opt" -> Len(g.vals) <= 1
    [] OTHER           -> g.form = "none" => c \in {"operand", "region"}

\* The builder and the accessors are inverse: irdl_op_init accepts exactly the
\* arguments that the fields can hold, and every accessor then returns the
\* argument its field was given, although in between there are only flat lists
\* and, for some constructs, a list of sizes in one of two dictionaries.
BuiltRight ==
  /\ status = "built" =>
       \A c \in Construct : Segments(c) = [i \in DOMAIN Defs(c) |-> given[c][i].vals]
  /\ status = "raised" =>
       \E c \in Construct : \/ Len(given[c]) # Len(Defs(c))
                            \/ \E i \in DOMAIN given[c] : ~Holds(c, Defs(c)[i], given[c][i])

\* Too many arguments for an optional field alone in its list go unnoticed.
Overfull(c) ==
  opDef.option[c] = "none" /\ \E i \in DOMAIN Defs(c) :
    IsOptional(Defs(c)[i]) /\ Len(op.args[c]) > Len(Defs(c))

\* After OpDef.verify has accepted an operation no accessor raises, and what the
\* accessors return are consecutive parts of the list, from its first element
\* on: verification walks the lists with counters, the accessors compute where
\* their segment begins.
VerifiedReads ==
  status = "verified" =>
    \A c \in Construct : Reads(c) /\ (Overfull(c) \/ IsPrefix(FlattenSeq(Segments(c)), op.args[c]))

RECURSIVE Satisfies(_, _, _)
Satisfies(c, t, values) ==
  CASE c.kind = "any"   -> TRUE
    [] c.kind = "base"  -> t \in c.types
    [] c.kind = "var"   -> values[c.name] = t /\ Satisfies(c.of, t, values)
    [] c.kind = "anyof" -> \E i \in DOMAIN c.of : Satisfies(c.of[i], t, values)
    [] c.kind = "allof" -> \A i \in DOMAIN c.of : Satisfies(c.of[i], t, values)

\* There are types for the constraint variables with which everything that the
\* accessors return satisfies the constraint of its field, and every region of a
\* single-block field "expects exactly one block".
Meets ==
  /\ KnownProperties
  /\ \E values \in [Var -> Type] : \A c \in {"operand", "result"} : \A i \in DOMAIN Defs(c) :
       \A t \in Range(Segments(c)[i]) : Satisfies(Defs(c)[i].constr, t, values)
  /\ \A i \in DOMAIN Defs("region") : Defs("region")[i].constr.kind = "single" =>
       \A t \in Range(Segments("region")[i]) : t = Single

\* The sizes add up to the length of the list.
Covered(c) ==
  /\ Reads(c) /\ ~Overfull(c)
  /\ Len(Defs(c)) - Len(VariadicIndices(c)) + Total(GetVariadicSizes(c)) = Len(op.args[c])

\* On operations whose segment sizes add up, OpDef.verify accepts exactly the ones
\* that meet their definition: variables are bound in the order in which arguments
\* are met, and an alternative that fails half way leaves nothing bound. False of two
\* kinds of definitions: an AnyOf with an alternative that binds a variable although a
\* later one would do without is rejected when the variable is needed for another
\* type, and optional and variadic single-block regions are never looked at.
VerifyExact ==
  status \in {"verified", "rejected"} /\ (\A c \in Construct : Covered(c))
  => (status = "verified" <=> Meets)
=============================================================================
