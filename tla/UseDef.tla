------------------------------- MODULE UseDef -------------------------------
(***************************************************************************)
(* SSA values and their uses in xDSL's IR (xdsl/ir/core.py and             *)
(* xdsl/rewriter.py): every operation keeps a tuple of operands, every     *)
(* value the set of its uses, and each method that changes one side has to *)
(* change the other.  Which operation sits in which block is fixed here    *)
(* (module IRTree is about its changes): erasing an operation or a block   *)
(* reaches everything nested in it.  Positions count from 1.               *)
(***************************************************************************)
EXTENDS Naturals, FiniteSets, SequencesExt

CONSTANTS Op, Block,
          Arg,         \* BlockArgument objects
          Result,      \* OpResult objects
          ResultsOf,   \* Operation.results, a sequence for every operation
          Holder,      \* the block an operation sits in, or NULL
          Host,        \* the operation whose region holds a block, or NULL
          NULL,
          MaxOperands, \* bound on the number of operands of each operation
          Scoped,      \* operands are visible where they are used
          Retry        \* callers may call erase_arg again after it raised

ASSUME Shape ==
  /\ ResultsOf \in [Op -> Seq(Result)]
  /\ \A o \in Op : IsInjective(ResultsOf[o])
  /\ \A r \in Result : \E o \in Op : r \in ToSet(ResultsOf[o])
  /\ \A o, p \in Op : o # p => ToSet(ResultsOf[o]) \cap ToSet(ResultsOf[p]) = {}
  /\ Holder \in [Op -> Block \cup {NULL}]
  /\ Host \in [Block -> Op \cup {NULL}]
  /\ MaxOperands \in [Op -> Nat]
  /\ Scoped \in BOOLEAN /\ Retry \in BOOLEAN

\* The ErasedSSAValue that takes the place of v; old_value is v.
Erased(v) == [old_value |-> v]
ErasedValue == {Erased(v) : v \in Arg \cup Result}

ASSUME ValueKinds ==
  /\ Arg \cap Result = {}
  /\ ErasedValue \cap (Arg \cup Result) = {}
  /\ NULL \notin Block \cup Arg \cup Result

Value == Arg \cup Result \cup ErasedValue

Use == UNION {{o} \X (1..MaxOperands[o]) : o \in Op}

VARIABLES operands,  \* Operation._operands
          uses,      \* SSAValue.uses
          args,      \* Block._args
          index,     \* BlockArgument.index, from 1
          block,     \* BlockArgument.block, NULL before the argument exists
          created,   \* operations that have been constructed
          dropped,   \* operations whose references have been dropped
          gone,      \* blocks passed to Block.erase
          asked,     \* arguments passed to Block.erase_arg
          failed     \* values that were used when a checked erasure raised: it
                     \* was for one of them, and did not come to the others

vars == <<operands, uses, args, index, block, created, dropped, gone, asked, failed>>
blockVars == <<args, index, block, asked>>

Live == created \ dropped

----------------------------------------------------------------------------
(* The nesting of operations. *)

\* The operations drop_all_references reaches from o, o included.
Subtree == [o \in Op |->
  {p \in Op : \A S \in SUBSET Op :
     (o \in S /\ \A q \in Op : Holder[q] # NULL /\ Host[Holder[q]] \in S => q \in S)
       => p \in S}]

Body(b) == {o \in Op : Holder[o] = b}
BlockSubtree(b) == UNION {Subtree[o] : o \in Body(b)}

Def(r) == CHOOSE o \in Op : r \in ToSet(ResultsOf[o])

ListedArgs == UNION {ToSet(args[b]) : b \in Block}

\* The values of operations that have not been erased and of argument lists.
Usable == {r \in Result : Def(r) \in Live} \cup ListedArgs

\* A value may be used inside the block that defines it.
Visible(o, v) ==
  LET home == IF v \in Arg THEN block[v] ELSE Holder[Def(v)]
  IN  Scoped => o \in BlockSubtree(home)

----------------------------------------------------------------------------
(* The two sides of the use relation, as each primitive changes them. *)

\* Mutant of WriteOperands: the old operands keep their uses.
WriteOperandsKeepingUses(o, vs) ==
  /\ operands' = [operands EXCEPT ![o] = vs]
  /\ uses' = [v \in Value |-> uses[v] \cup {<<o, i>> : i \in {j \in DOMAIN vs : vs[j] = v}}]

\* Operation.operands = vs: uses of the old operands go, uses of vs come.
WriteOperands(o, vs) ==
  /\ operands' = [operands EXCEPT ![o] = vs]
  /\ uses' = [v \in Value |->
       (uses[v] \ {<<o, i>> : i \in {j \in DOMAIN operands[o] : operands[o][j] = v}})
         \cup {<<o, i>> : i \in {j \in DOMAIN vs : vs[j] = v}}]

\* SSAValue.replace_by for every value of DOMAIN sub, by its image, when the uses
\* are U and no image is replaced itself.
OperandsReplaced(U, sub) ==
  [o \in Op |-> [i \in DOMAIN operands[o] |->
     LET v == operands[o][i]
     IN  IF v \in DOMAIN sub /\ <<o, i>> \in U[v] THEN sub[v] ELSE v]]

UsesReplaced(U, sub) ==
  [w \in Value |-> IF w \in DOMAIN sub THEN {}
                   ELSE U[w] \cup UNION {U[v] : v \in {x \in DOMAIN sub : sub[x] = w}}]

Replace(U, sub) ==
  /\ operands' = OperandsReplaced(U, sub)
  /\ uses' = UsesReplaced(U, sub)

\* Operation.drop_all_references for the operations of S: every use by one of
\* them is removed, their operands stay as they are.
UsesDropped(U, S) == [v \in Value |-> {u \in U[v] : u[1] \notin S}]

\* SSAValue.erase for the values of V, when the uses are U.  A checked erasure
\* raises at the first of them that is used and leaves the rest as they are: all
\* that are used have failed.  An unchecked one puts ErasedSSAValues.
Used(U, V) == {v \in V : U[v] # {}}
\* Mutant of EraseValues: an unchecked erasure leaves the uses alone.
EraseValuesKeepingUses(U, V, safe) ==
  /\ uses' = U
  /\ failed' = IF safe THEN failed \cup Used(U, V) ELSE failed
  /\ UNCHANGED operands

EraseValues(U, V, safe) ==
  IF safe THEN /\ uses' = U
               /\ failed' = failed \cup Used(U, V)
               /\ UNCHANGED operands
          ELSE /\ Replace(U, [v \in V |-> Erased(v)])
               /\ UNCHANGED failed

----------------------------------------------------------------------------
(* The calls. *)

OperandLists(o) == SeqOf({v \in Usable : Visible(o, v)}, MaxOperands[o])

\* Operation.__init__
Create(o, vs) ==
  /\ o \notin created
  /\ WriteOperands(o, vs)
  /\ created' = created \cup {o}
  /\ UNCHANGED <<blockVars, dropped, gone, failed>>

\* Operation.operands.setter
SetOperands(o, vs) ==
  /\ WriteOperands(o, vs)
  /\ UNCHANGED <<blockVars, created, dropped, gone, failed>>

\* OpOperands.__setitem__
SetOperand(o, i, v) ==
  /\ Visible(o, v)
  /\ operands' = [operands EXCEPT ![o][i] = v]
  /\ uses' = [w \in Value |-> (uses[w] \ (IF w = operands[o][i] THEN {<<o, i>>} ELSE {}))
                                \cup (IF w = v THEN {<<o, i>>} ELSE {})]
  /\ UNCHANGED <<blockVars, created, dropped, gone, failed>>

\* SSAValue.replace_by.  Replacing a used value by itself runs into the
\* assertion at its end and changes nothing.
ReplaceBy(v, w) ==
  /\ v # w
  /\ \A u \in uses[v] : Visible(u[1], w)
  /\ Replace(uses, [x \in {v} |-> w])
  /\ UNCHANGED <<blockVars, created, dropped, gone, failed>>

\* Block.erase_op and Operation.erase: the references of everything in o are
\* dropped before the results are checked, so they are gone if that raises.
EraseOp(o, safe) ==
  /\ EraseValues(UsesDropped(uses, Subtree[o]), ToSet(ResultsOf[o]), safe)
  /\ dropped' = dropped \cup Subtree[o]
  /\ UNCHANGED <<blockVars, created, gone>>

\* Block.erase, after the block has been detached: the results of the block's
\* own operations are erased, not those of operations nested in them.
EraseBlock(b, safe) ==
  /\ b \notin gone
  /\ BlockSubtree(b) \subseteq created
  /\ Host[b] \notin dropped
  /\ EraseValues(UsesDropped(uses, BlockSubtree(b)),
                 UNION {ToSet(ResultsOf[o]) : o \in Body(b) \cap Live}, safe)
  /\ dropped' = dropped \cup BlockSubtree(b)
  /\ gone' = gone \cup {b}
  /\ UNCHANGED <<blockVars, created>>

\* Mutant of InsertArg: the arguments after the new one keep their index.
InsertArgUnshifted(b, a, i) ==
  /\ block[a] = NULL
  /\ i \in 1..(Len(args[b]) + 1)
  /\ args' = [args EXCEPT ![b] = InsertAt(@, i, a)]
  /\ block' = [block EXCEPT ![a] = b]
  /\ index' = [index EXCEPT ![a] = i]
  /\ UNCHANGED <<operands, uses, created, dropped, gone, asked, failed>>

\* Block.insert_arg: the arguments from position i on move up.
InsertArg(b, a, i) ==
  /\ block[a] = NULL
  /\ i \in 1..(Len(args[b]) + 1)
  /\ args' = [args EXCEPT ![b] = InsertAt(@, i, a)]
  /\ block' = [block EXCEPT ![a] = b]
  /\ index' = [x \in Arg |-> IF x = a THEN i
                             ELSE IF \E j \in i..Len(args[b]) : args[b][j] = x
                             THEN index[x] + 1 ELSE index[x]]
  /\ UNCHANGED <<operands, uses, created, dropped, gone, asked, failed>>

\* The arguments of b without the one at position k.
WithoutArg(b, k) == IF k \in DOMAIN args[b] THEN RemoveAt(args[b], k) ELSE args[b]

\* Block.erase_arg: the argument leaves the list before its uses are checked.
EraseArg(b, a, safe) ==
  /\ block[a] = b
  /\ a \in ToSet(args[b]) \/ (Retry /\ a \in failed)
  /\ args' = [args EXCEPT ![b] = WithoutArg(b, index[a])]
  /\ index' = [x \in Arg |-> IF \E j \in (index[a] + 1)..Len(args[b]) : args[b][j] = x
                             THEN index[x] - 1 ELSE index[x]]
  /\ asked' = asked \cup {a}
  /\ EraseValues(uses, {a}, safe)
  /\ UNCHANGED <<block, created, dropped, gone>>

\* Rewriter.replace_op: result k of o is replaced by new[k], or erased where
\* new[k] is None (NULL).
NewResults(o) == [DOMAIN ResultsOf[o] ->
                    {v \in Usable : v \notin ToSet(ResultsOf[o])} \cup {NULL}]

\* Mutant of Substitution: None is not treated apart.
SubstitutionWithNone(o, new, n) ==
  [r \in {ResultsOf[o][k] : k \in 1..n} |-> new[CHOOSE j \in 1..n : ResultsOf[o][j] = r]]

\* The first n results of o with what takes their place.
Substitution(o, new, n) ==
  [r \in {ResultsOf[o][k] : k \in 1..n} |->
     LET k == CHOOSE j \in 1..n : ResultsOf[o][j] = r
     IN  IF new[k] = NULL THEN Erased(r) ELSE new[k]]

\* result.erase raises for the k-th result
Refused(o, new, safe, k) == safe /\ new[k] = NULL /\ uses[ResultsOf[o][k]] # {}

InScope(o, new) ==
  \A k \in DOMAIN new : new[k] # NULL =>
     \A u \in uses[ResultsOf[o][k]] : Visible(u[1], new[k])

ReplaceOp(o, new, safe) ==
  /\ InScope(o, new)
  /\ \A k \in DOMAIN new : ~Refused(o, new, safe, k)
  /\ LET sub == Substitution(o, new, Len(ResultsOf[o]))
     IN  /\ operands' = OperandsReplaced(uses, sub)
         /\ uses' = UsesDropped(UsesReplaced(uses, sub), Subtree[o])
  /\ dropped' = dropped \cup Subtree[o]
  /\ UNCHANGED <<blockVars, created, gone, failed>>

\* replace_op when erasing the k-th result raises: the results before it have
\* been replaced, o is still there.
ReplaceOpRaises(o, new, k) ==
  /\ InScope(o, new)
  /\ Refused(o, new, TRUE, k)
  /\ \A j \in 1..(k - 1) : ~Refused(o, new, TRUE, j)
  /\ Replace(uses, Substitution(o, new, k - 1))
  /\ UNCHANGED <<blockVars, created, dropped, gone, failed>>

----------------------------------------------------------------------------
Init ==
  /\ operands = [o \in Op |-> <<>>]
  /\ uses = [v \in Value |-> {}]
  /\ args = [b \in Block |-> <<>>]
  /\ index = [a \in Arg |-> 0]
  /\ block = [a \in Arg |-> NULL]
  /\ created = {} /\ dropped = {} /\ gone = {} /\ asked = {} /\ failed = {}

\* Calls that give operations their operands.
NextOperands ==
  \/ \E o \in Op \ dropped : \E vs \in OperandLists(o) : Create(o, vs)
  \/ \E o \in Live : \E vs \in OperandLists(o) : SetOperands(o, vs)
  \/ \E o \in Live : \E i \in DOMAIN operands[o], v \in Usable : SetOperand(o, i, v)
  \/ \E v \in Value, w \in Usable : ReplaceBy(v, w)

\* Calls that erase or replace.
NextErase ==
  \/ \E o \in Live, safe \in BOOLEAN : EraseOp(o, safe)
  \/ \E b \in Block, safe \in BOOLEAN : EraseBlock(b, safe)
  \/ \E b \in Block, a \in Arg, safe \in BOOLEAN : EraseArg(b, a, safe)
  \/ \E o \in Live : \E new \in NewResults(o) :
        \/ \E safe \in BOOLEAN : ReplaceOp(o, new, safe)
        \/ \E k \in DOMAIN new : ReplaceOpRaises(o, new, k)

NextArgs == \E b \in Block, a \in Arg : \E i \in 1..(Len(args[b]) + 1) : InsertArg(b, a, i)

Next == NextOperands \/ NextErase \/ NextArgs

Spec == Init /\ [][Next]_vars

----------------------------------------------------------------------------
(* Properties. *)

TypeOK ==
  /\ DOMAIN operands = Op
  /\ \A o \in Op : operands[o] \in SeqOf(Value, MaxOperands[o])
  /\ uses \in [Value -> SUBSET Use]
  /\ args \in [Block -> Seq(Arg)]
  /\ index \in [Arg -> Nat]
  /\ block \in [Arg -> Block \cup {NULL}]
  /\ created \subseteq Op
  /\ dropped \subseteq Op
  /\ gone \subseteq Block
  /\ asked \subseteq Arg
  /\ failed \subseteq Value

\* The uses U are those of the operands O of the operations in L.
Matches(U, O, L) ==
  \A v \in Value :
     U[v] = {u \in Use : u[1] \in L /\ u[2] \in DOMAIN O[u[1]] /\ O[u[1]][u[2]] = v}

\* The uses of a value are exactly the places where a live operation has it as
\* operand: what remove_use asserts ("use to be removed was not in use list"),
\* what replace_by needs to find them all, and what makes a value without uses
\* safe to erase.
UseDefInv == Matches(uses, operands, Live)

\* An operand of a live operation is the result of a live operation, a listed
\* block argument or an ErasedSSAValue, unless a checked erasure of it, or of the
\* values of its operation or block, raised.
NoDangling ==
  \A o \in Live : \A i \in DOMAIN operands[o] :
     operands[o][i] \in Usable \cup ErasedValue \cup failed

\* BlockArgument.index is the position of the argument in its block's list,
\* which erase_arg relies on to find the argument it removes.
ArgIndexInv ==
  \A b \in Block : \A i \in DOMAIN args[b] : index[args[b][i]] = i /\ block[args[b][i]] = b

\* An argument that exists has a position, listed or not.
IndexPositive == \A a \in Arg : block[a] # NULL => index[a] >= 1

\* The inductive invariant of the proofs.
IInv == TypeOK /\ UseDefInv /\ ArgIndexInv /\ IndexPositive

\* An argument or result is an operand only of operations that it is visible to.
OperandsVisible ==
  \A o \in Live : \A i \in DOMAIN operands[o] :
    LET v == operands[o][i]
    IN  /\ v \in Arg => block[v] # NULL
        /\ v \in Arg \cup Result => Visible(o, v)

\* The invariant that NoDangling needs, where operands are Scoped and there is no Retry.
ScopeInv == IInv /\ NoDangling /\ OperandsVisible

\* erase_arg takes out the argument it is given: an argument it was never given
\* stays in the list of its block. Broken when a caller repeats an erase_arg that
\* raised (Retry).
OnlyNamedArgsErased ==
  \A a \in Arg \ asked : block[a] # NULL => a \in ToSet(args[block[a]])

=============================================================================
