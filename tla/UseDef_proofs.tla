---------------------------- MODULE UseDef_proofs ----------------------------
(***************************************************************************)
(* Proof that the uses of every value are exactly the operands that name   *)
(* it, and that every block argument knows its position, for any sets of   *)
(* operations, blocks, arguments and results and any nesting; and that no  *)
(* live operation is left with an operand whose definition has been        *)
(* erased, where operands are visible to the operations that use them and  *)
(* no erase_arg that raised is repeated.                                   *)
(***************************************************************************)
EXTENDS UseDef, ListLemmas

----------------------------------------------------------------------------
(* The shape of operand tuples and of uses. *)

\* O holds a tuple of at most MaxOperands values for every operation.
Tuples(O) ==
  /\ DOMAIN O = Op
  /\ \A o \in Op : O[o] \in SeqOf(Value, MaxOperands[o])

UseSets(U) == U \in [Value -> SUBSET Use]

\* Tuples is what TypeOK says of operands.
LEMMA TypesOfOperands ==
  TypeOK => Tuples(operands) /\ UseSets(uses)
BY DEF TypeOK, Tuples, UseSets

\* What a tuple of operands consists of.
LEMMA TupleFacts ==
  ASSUME NEW O, Tuples(O), NEW o \in Op
  PROVE  \E n \in 0..MaxOperands[o] :
            DOMAIN O[o] = 1..n /\ \A i \in 1..n : O[o][i] \in Value
<1>1. PICK n \in 0..MaxOperands[o] : O[o] \in [1..n -> Value]
  BY DEF Tuples, SeqOf
<1> QED  BY <1>1

\* A use is a pair of an operation and one of its operand positions.
LEMMA UseFacts ==
  ASSUME NEW u \in Use
  PROVE  u[1] \in Op /\ u[2] \in 1..MaxOperands[u[1]] /\ u = <<u[1], u[2]>>
BY DEF Use

\* Every operand position is a possible use.
LEMMA PositionIsUse ==
  ASSUME NEW O, Tuples(O), NEW o \in Op, NEW i \in DOMAIN O[o]
  PROVE  <<o, i>> \in Use /\ O[o][i] \in Value
<1>1. PICK n \in 0..MaxOperands[o] :
        DOMAIN O[o] = 1..n /\ \A j \in 1..n : O[o][j] \in Value
  BY TupleFacts
<1>2. MaxOperands[o] \in Nat
  BY Shape
<1>3. i \in 1..MaxOperands[o] /\ O[o][i] \in Value
  BY <1>1, <1>2
<1> QED  BY <1>3 DEF Use

----------------------------------------------------------------------------
(* Replacing values. *)

\* sub maps values to values that it does not itself replace.
IsSubstitution(sub) ==
  /\ DOMAIN sub \subseteq Value
  /\ \A v \in DOMAIN sub : sub[v] \in Value /\ sub[v] \notin DOMAIN sub

\* replace_by leaves tuples of values.
LEMMA ReplacedTypes ==
  ASSUME NEW U, NEW sub, Tuples(operands), UseSets(U), IsSubstitution(sub)
  PROVE  Tuples(OperandsReplaced(U, sub)) /\ UseSets(UsesReplaced(U, sub))
<1>1. ASSUME NEW o \in Op
      PROVE  OperandsReplaced(U, sub)[o] \in SeqOf(Value, MaxOperands[o])
  <2>1. PICK n \in 0..MaxOperands[o] :
          DOMAIN operands[o] = 1..n /\ \A i \in 1..n : operands[o][i] \in Value
    BY TupleFacts
  <2>2. OperandsReplaced(U, sub)[o] \in [1..n -> Value]
    BY <2>1 DEF OperandsReplaced, IsSubstitution
  <2> QED  BY <2>2 DEF SeqOf
<1>2. DOMAIN OperandsReplaced(U, sub) = Op
  BY DEF OperandsReplaced
<1>3. UseSets(UsesReplaced(U, sub))
  <2>1. ASSUME NEW w \in Value
        PROVE  UsesReplaced(U, sub)[w] \in SUBSET Use
    BY <2>1 DEF UsesReplaced, UseSets, IsSubstitution
  <2> QED  BY <2>1 DEF UseSets, UsesReplaced
<1> QED  BY <1>1, <1>2, <1>3 DEF Tuples

\* After replace_by, the uses are again those of the operands: every place where
\* a live operation has a replaced value now has, and is a use of, its image.
LEMMA ReplaceKeeps ==
  ASSUME NEW U, NEW sub, NEW L \in SUBSET Op,
         Tuples(operands), UseSets(U), IsSubstitution(sub), Matches(U, operands, L)
  PROVE  Matches(UsesReplaced(U, sub), OperandsReplaced(U, sub), L)
<1> DEFINE O == OperandsReplaced(U, sub)
           N == UsesReplaced(U, sub)
           At(u) == operands[u[1]][u[2]]
           Here(u) == u[1] \in L /\ u[2] \in DOMAIN operands[u[1]]
<1>1. \A v \in Value, u \in Use : u \in U[v] <=> Here(u) /\ At(u) = v
  BY DEF Matches
<1>2. \A u \in Use : Here(u) => At(u) \in Value
  BY UseFacts, PositionIsUse
<1>3. \A u \in Use : DOMAIN O[u[1]] = DOMAIN operands[u[1]]
  BY UseFacts DEF OperandsReplaced
<1>4. ASSUME NEW u \in Use, Here(u)
      PROVE  O[u[1]][u[2]] = IF At(u) \in DOMAIN sub THEN sub[At(u)] ELSE At(u)
  <2>1. u \in U[At(u)] /\ u = <<u[1], u[2]>> /\ u[1] \in Op
    BY <1>1, <1>2, <1>4, UseFacts
  <2>2. O[u[1]][u[2]] = IF At(u) \in DOMAIN sub /\ <<u[1], u[2]>> \in U[At(u)]
                        THEN sub[At(u)] ELSE At(u)
    BY <2>1, <1>4 DEF OperandsReplaced
  <2> QED  BY <2>1, <2>2
<1>5. ASSUME NEW w \in Value, NEW u \in Use
      PROVE  u \in N[w] <=> Here(u) /\ O[u[1]][u[2]] = w
  <2>1. CASE w \in DOMAIN sub
    <3>1. N[w] = {}
      BY <2>1 DEF UsesReplaced
    <3>2. ~(Here(u) /\ O[u[1]][u[2]] = w)
      BY <2>1, <1>4 DEF IsSubstitution
    <3> QED  BY <3>1, <3>2
  <2>2. CASE w \notin DOMAIN sub
    <3>1. u \in N[w] <=> u \in U[w] \/ \E v \in DOMAIN sub : sub[v] = w /\ u \in U[v]
      BY <2>2 DEF UsesReplaced
    <3>2. \A v \in DOMAIN sub : u \in U[v] <=> Here(u) /\ At(u) = v
      BY <1>1 DEF IsSubstitution
    <3>3. u \in U[w] <=> Here(u) /\ At(u) = w
      BY <1>1
    <3> QED  BY <2>2, <3>1, <3>2, <3>3, <1>4
  <2> QED  BY <2>1, <2>2
<1>6. \A w \in Value : N[w] \subseteq Use
  BY ReplacedTypes DEF UseSets
<1> HIDE DEF O, N, At, Here
<1>7. \A w \in Value : N[w] = {u \in Use : u[1] \in L /\ u[2] \in DOMAIN O[u[1]] /\ O[u[1]][u[2]] = w}
  BY <1>3, <1>5, <1>6 DEF Here
<1> QED  BY <1>7 DEF Matches, O, N

----------------------------------------------------------------------------
(* Dropping references and erasing values. *)

\* Dropping the references of the operations in S leaves the uses of the others.
LEMMA DropKeeps ==
  ASSUME NEW U, NEW O, NEW L, NEW S, UseSets(U), Matches(U, O, L)
  PROVE  UseSets(UsesDropped(U, S)) /\ Matches(UsesDropped(U, S), O, L \ S)
<1>1. \A v \in Value : UsesDropped(U, S)[v] = {u \in U[v] : u[1] \notin S}
  BY DEF UsesDropped
<1>2. UseSets(UsesDropped(U, S))
  <2>1. \A v \in Value : UsesDropped(U, S)[v] \in SUBSET Use
    BY <1>1 DEF UseSets
  <2> QED  BY <2>1 DEF UsesDropped, UseSets
<1>3. Matches(UsesDropped(U, S), O, L \ S)
  BY <1>1 DEF Matches
<1> QED  BY <1>2, <1>3

\* The ErasedSSAValues of arguments and results are a substitution.
LEMMA ErasedIsSubstitution ==
  ASSUME NEW V \in SUBSET (Arg \cup Result)
  PROVE  IsSubstitution([v \in V |-> Erased(v)])
<1>1. \A v \in V : Erased(v) \in ErasedValue
  BY DEF ErasedValue
<1> QED  BY <1>1, ValueKinds DEF IsSubstitution, Value

\* SSAValue.erase, checked or not, keeps uses and operands together.
LEMMA EraseValuesKeeps ==
  ASSUME NEW U, NEW V \in SUBSET (Arg \cup Result), NEW safe \in BOOLEAN,
         NEW L \in SUBSET Op,
         Tuples(operands), UseSets(U), Matches(U, operands, L), failed \subseteq Value,
         EraseValues(U, V, safe)
  PROVE  /\ Tuples(operands') /\ UseSets(uses') /\ Matches(uses', operands', L)
         /\ failed' \subseteq Value
<1>1. CASE safe
  <2>1. uses' = U /\ operands' = operands /\ failed' = failed \cup Used(U, V)
    BY <1>1 DEF EraseValues
  <2> QED  BY <2>1 DEF Used, Value
<1>2. CASE ~safe
  <2> DEFINE sub == [v \in V |-> Erased(v)]
  <2>1. /\ operands' = OperandsReplaced(U, sub) /\ uses' = UsesReplaced(U, sub)
        /\ failed' = failed
    BY <1>2 DEF EraseValues, Replace
  <2>2. IsSubstitution(sub)
    BY ErasedIsSubstitution
  <2> HIDE DEF sub
  <2>3. Tuples(OperandsReplaced(U, sub)) /\ UseSets(UsesReplaced(U, sub))
    BY <2>2, ReplacedTypes
  <2>4. Matches(UsesReplaced(U, sub), OperandsReplaced(U, sub), L)
    BY <2>2, ReplaceKeeps
  <2> QED  BY <2>1, <2>3, <2>4
<1> QED  BY <1>1, <1>2

----------------------------------------------------------------------------
(* Writing operands. *)

\* The operand lists that callers pass are tuples of values.
LEMMA OperandListTypes ==
  ASSUME TypeOK, NEW o \in Op, NEW vs \in OperandLists(o)
  PROVE  vs \in SeqOf(Value, MaxOperands[o])
<1>1. Usable \subseteq Value
  <2>1. ListedArgs \subseteq Arg
    BY LenProperties DEF TypeOK, ListedArgs, ToSet
  <2> QED  BY <2>1 DEF Usable, Value
<1>2. PICK n \in 0..MaxOperands[o] : vs \in [1..n -> {v \in Usable : Visible(o, v)}]
  BY DEF OperandLists, SeqOf
<1>3. vs \in [1..n -> Value]
  BY <1>1, <1>2
<1> QED  BY <1>3 DEF SeqOf

\* The operands setter, on an operation that was live or becomes live with it.
LEMMA WriteKeeps ==
  ASSUME NEW o \in Op, NEW vs \in SeqOf(Value, MaxOperands[o]), NEW L \in SUBSET Op,
         Tuples(operands), UseSets(uses), Matches(uses, operands, L),
         WriteOperands(o, vs)
  PROVE  Tuples(operands') /\ UseSets(uses') /\ Matches(uses', operands', L \cup {o})
<1>1. Tuples(operands')
  BY DEF WriteOperands, Tuples
<1>2. PICK n \in 0..MaxOperands[o] : vs \in [1..n -> Value]
  BY DEF SeqOf
<1>3. operands' = [operands EXCEPT ![o] = vs] /\ DOMAIN operands = Op
  BY DEF WriteOperands, Tuples
<1>4. ASSUME NEW v \in Value, NEW u \in Use
      PROVE  u \in uses'[v] <=> /\ u[1] \in L \cup {o}
                                /\ u[2] \in DOMAIN operands'[u[1]]
                                /\ operands'[u[1]][u[2]] = v
  <2>1. u[1] \in Op /\ u = <<u[1], u[2]>>
    BY UseFacts
  <2>2. u \in uses[v] <=> /\ u[1] \in L /\ u[2] \in DOMAIN operands[u[1]]
                          /\ operands[u[1]][u[2]] = v
    BY DEF Matches
  <2>3. u \in uses'[v] <=>
          \/ u \in uses[v] /\ ~\E i \in DOMAIN operands[o] : operands[o][i] = v /\ u = <<o, i>>
          \/ \E i \in DOMAIN vs : vs[i] = v /\ u = <<o, i>>
    BY DEF WriteOperands
  <2>4. CASE u[1] = o
    BY <1>3, <2>1, <2>2, <2>3, <2>4
  <2>5. CASE u[1] # o
    BY <1>3, <2>1, <2>2, <2>3, <2>5
  <2> QED  BY <2>4, <2>5
<1>5. \A v \in Value : uses'[v] \subseteq Use
  <2>1. ASSUME NEW v \in Value, NEW u \in uses'[v]
        PROVE  u \in Use
    <3>1. u \in uses[v] \/ \E i \in DOMAIN vs : u = <<o, i>>
      BY DEF WriteOperands
    <3>2. \A i \in DOMAIN vs : <<o, i>> \in Use
      BY <1>2, Shape DEF Use
    <3> QED  BY <3>1, <3>2 DEF UseSets
  <2> QED  BY <2>1
<1>6. UseSets(uses')
  BY <1>5 DEF WriteOperands, UseSets
<1>7. Matches(uses', operands', L \cup {o})
  BY <1>4, <1>5 DEF Matches
<1> QED  BY <1>1, <1>6, <1>7

\* OpOperands.__setitem__ on a live operation.
LEMMA SetOperandKeeps ==
  ASSUME NEW L \in SUBSET Op, NEW o \in L, NEW i \in DOMAIN operands[o], NEW w \in Value,
         Tuples(operands), UseSets(uses), Matches(uses, operands, L),
         SetOperand(o, i, w)
  PROVE  Tuples(operands') /\ UseSets(uses') /\ Matches(uses', operands', L)
<1>1. PICK n \in 0..MaxOperands[o] :
        DOMAIN operands[o] = 1..n /\ operands[o] \in [1..n -> Value]
  BY DEF Tuples, SeqOf
<1>2. /\ operands' = [operands EXCEPT ![o] = [operands[o] EXCEPT ![i] = w]]
      /\ DOMAIN operands = Op
  BY DEF SetOperand, Tuples
<1>3. operands'[o] \in [1..n -> Value] /\ \A p \in Op \ {o} : operands'[p] = operands[p]
  BY <1>1, <1>2
<1>4. Tuples(operands')
  <2>1. operands'[o] \in SeqOf(Value, MaxOperands[o])
    BY <1>3 DEF SeqOf
  <2> QED  BY <1>2, <1>3, <2>1 DEF Tuples
<1>5. <<o, i>> \in Use
  BY PositionIsUse
<1>6. ASSUME NEW v \in Value
      PROVE  uses'[v] = (uses[v] \ (IF v = operands[o][i] THEN {<<o, i>>} ELSE {}))
                           \cup (IF v = w THEN {<<o, i>>} ELSE {})
  BY DEF SetOperand
<1>7. ASSUME NEW v \in Value, NEW u \in Use
      PROVE  u \in uses'[v] <=> /\ u[1] \in L
                                /\ u[2] \in DOMAIN operands'[u[1]]
                                /\ operands'[u[1]][u[2]] = v
  <2>1. u[1] \in Op /\ u = <<u[1], u[2]>>
    BY UseFacts
  <2>2. u \in uses[v] <=> /\ u[1] \in L /\ u[2] \in DOMAIN operands[u[1]]
                          /\ operands[u[1]][u[2]] = v
    BY DEF Matches
  <2>3. CASE u = <<o, i>>
    <3>1. operands'[o][i] = w /\ i \in DOMAIN operands'[o] /\ u[1] = o /\ u[2] = i
      BY <1>2, <1>1, <2>3
    <3>2. u \in uses'[v] <=> (v = w \/ (u \in uses[v] /\ v # operands[o][i]))
      BY <1>6, <2>3
    <3> QED  BY <3>1, <3>2, <2>2
  <2>4. CASE u # <<o, i>>
    <3>1. u \in uses'[v] <=> u \in uses[v]
      BY <1>6, <2>4
    <3>2. DOMAIN operands'[u[1]] = DOMAIN operands[u[1]]
      BY <1>1, <1>3, <2>1
    <3>3. u[2] \in DOMAIN operands[u[1]] => operands'[u[1]][u[2]] = operands[u[1]][u[2]]
      BY <1>1, <1>2, <2>1, <2>4
    <3> QED  BY <2>2, <3>1, <3>2, <3>3
  <2> QED  BY <2>3, <2>4
<1>8. \A v \in Value : uses'[v] \subseteq Use
  BY <1>5, <1>6 DEF UseSets
<1>9. UseSets(uses')
  BY <1>8 DEF SetOperand, UseSets
<1>10. Matches(uses', operands', L)
  BY <1>7, <1>8 DEF Matches
<1> QED  BY <1>4, <1>9, <1>10

----------------------------------------------------------------------------
(* Argument lists. *)

\* The positions of all arguments: what is needed of TypeOK, and the invariant.
Positions ==
  /\ args \in [Block -> Seq(Arg)]
  /\ index \in [Arg -> Nat]
  /\ block \in [Arg -> Block \cup {NULL}]
  /\ ArgIndexInv
  /\ IndexPositive

\* An argument list with one argument more.
LEMMA InsertedArg ==
  ASSUME NEW list \in Seq(Arg), NEW x \in Arg, NEW k \in 1..(Len(list) + 1)
  PROVE  /\ InsertAt(list, k, x) \in Seq(Arg)
         /\ DOMAIN InsertAt(list, k, x) = 1..(Len(list) + 1)
         /\ \A j \in 1..(Len(list) + 1) :
               InsertAt(list, k, x)[j] = IF j < k THEN list[j] ELSE IF j = k THEN x ELSE list[j - 1]
<1> DEFINE w == InsertAt(list, k, x)
<1>1. w \in Seq(Arg)
  BY InsertedAt
<1>2. DOMAIN w = 1..(Len(list) + 1)
  BY InsertedAt
<1>3. ASSUME NEW j \in 1..(Len(list) + 1)
      PROVE  w[j] = IF j < k THEN list[j] ELSE IF j = k THEN x ELSE list[j - 1]
  BY InsertedAt
<1> QED  BY <1>1, <1>2, <1>3

\* insert_arg keeps every argument at its index.
LEMMA InsertArgKeeps ==
  ASSUME Positions, NEW b \in Block, NEW a \in Arg, NEW i \in 1..(Len(args[b]) + 1),
         InsertArg(b, a, i)
  PROVE  Positions'
<1> DEFINE s == args[b]
<1>1. s \in Seq(Arg) /\ Len(s) \in Nat /\ DOMAIN s = 1..Len(s)
  BY LenProperties DEF Positions
<1>2. args' = [args EXCEPT ![b] = InsertAt(s, i, a)] /\ block' = [block EXCEPT ![a] = b]
      /\ block[a] = NULL
  BY DEF InsertArg
<1>3. ASSUME NEW x \in Arg
      PROVE  index'[x] = IF x = a THEN i ELSE IF \E j \in i..Len(s) : s[j] = x
                         THEN index[x] + 1 ELSE index[x]
  BY DEF InsertArg
<1>4. \A c \in Block : \A j \in DOMAIN args[c] :
         args[c][j] \in Arg /\ index[args[c][j]] = j /\ block[args[c][j]] = c
  BY LenProperties DEF Positions, ArgIndexInv
<1>5. /\ InsertAt(s, i, a) \in Seq(Arg) /\ DOMAIN InsertAt(s, i, a) = 1..(Len(s) + 1)
      /\ \A j \in 1..(Len(s) + 1) :
            InsertAt(s, i, a)[j] = IF j < i THEN s[j] ELSE IF j = i THEN a ELSE s[j - 1]
  <2>1. i \in 1..(Len(s) + 1)
    OBVIOUS
  <2>2. s \in Seq(Arg)
    BY <1>1
  <2> HIDE DEF s
  <2> QED  BY <2>1, <2>2, InsertedArg
<1>7. args' \in [Block -> Seq(Arg)] /\ block' \in [Arg -> Block \cup {NULL}]
  BY <1>2, <1>5 DEF Positions
<1>8. \A x \in Arg : index'[x] \in Nat
  BY <1>1, <1>3 DEF Positions
<1>9. index' \in [Arg -> Nat]
  <2>1. DOMAIN index' = Arg /\ index' = [x \in Arg |-> index'[x]]
    BY DEF InsertArg
  <2> QED  BY <1>8, <2>1
<1>10. ASSUME NEW x \in Arg, block'[x] # NULL
       PROVE  index'[x] >= 1
  <2>1. CASE x = a
    BY <1>3, <2>1
  <2>2. CASE x # a
    <3>1. block[x] # NULL /\ index[x] \in Nat
      BY <1>2, <1>10, <2>2 DEF Positions
    <3>2. index[x] >= 1
      BY <3>1 DEF Positions, IndexPositive
    <3>3. index'[x] = index[x] + 1 \/ index'[x] = index[x]
      BY <1>3, <2>2
    <3> QED  BY <3>1, <3>2, <3>3
  <2> QED  BY <2>1, <2>2
<1>11. ASSUME NEW c \in Block, NEW j \in DOMAIN args'[c]
       PROVE  index'[args'[c][j]] = j /\ block'[args'[c][j]] = c
  <2>1. CASE c # b
    <3>1. args'[c] = args[c]
      BY <1>2, <2>1 DEF Positions
    <3>2. LET x == args[c][j] IN x \in Arg /\ index[x] = j /\ block[x] = c
      BY <1>4, <3>1
    <3>3. args[c][j] # a
      BY <1>2, <3>2, ValueKinds
    <3>4. ~\E k \in i..Len(s) : s[k] = args[c][j]
      BY <1>1, <1>4, <2>1, <3>2
    <3> QED  BY <1>2, <1>3, <3>1, <3>2, <3>3, <3>4 DEF Positions
  <2>2. CASE c = b
    <3>1. args'[c] = InsertAt(s, i, a) /\ j \in 1..(Len(s) + 1)
      BY <1>2, <1>5, <2>2 DEF Positions
    <3>2. CASE j = i
      BY <1>1, <1>2, <1>3, <1>5, <2>2, <3>1, <3>2 DEF Positions
    <3>3. CASE j < i
      <4>1. j \in DOMAIN s /\ args'[c][j] = s[j]
        BY <1>1, <1>5, <3>1, <3>3
      <4>2. s[j] \in Arg /\ index[s[j]] = j /\ block[s[j]] = b /\ s[j] # a
        BY <1>2, <1>4, <4>1, ValueKinds
      <4>3. ~\E k \in i..Len(s) : s[k] = s[j]
        BY <1>1, <1>4, <3>3, <4>2
      <4> QED  BY <1>2, <1>3, <2>2, <4>1, <4>2, <4>3 DEF Positions
    <3>4. CASE j > i
      <4>1. (j - 1) \in i..Len(s) /\ j - 1 \in DOMAIN s /\ args'[c][j] = s[j - 1]
        BY <1>1, <1>5, <3>1, <3>4
      <4>2. s[j - 1] \in Arg /\ index[s[j - 1]] = j - 1 /\ block[s[j - 1]] = b /\ s[j - 1] # a
        BY <1>2, <1>4, <4>1, ValueKinds
      <4>3. index'[s[j - 1]] = (j - 1) + 1
        BY <1>3, <4>1, <4>2
      <4> QED  BY <1>1, <1>2, <2>2, <3>1, <4>1, <4>2, <4>3 DEF Positions
    <3> QED  BY <1>1, <3>1, <3>2, <3>3, <3>4
  <2> QED  BY <2>1, <2>2
<1> QED  BY <1>7, <1>9, <1>10, <1>11 DEF Positions, ArgIndexInv, IndexPositive

\* erase_arg keeps every argument that is still listed at its index, even when
\* it is called again on an argument that has left the list.
LEMMA EraseArgKeeps ==
  ASSUME Positions, NEW b \in Block, NEW a \in Arg, NEW safe \in BOOLEAN,
         EraseArg(b, a, safe)
  PROVE  Positions'
<1> DEFINE s == args[b]
           k == index[a]
<1>1. s \in Seq(Arg) /\ Len(s) \in Nat /\ DOMAIN s = 1..Len(s)
  BY LenProperties DEF Positions
<1>2. /\ args' = [args EXCEPT ![b] = WithoutArg(b, k)] /\ block' = block
      /\ block[a] = b
  BY DEF EraseArg
<1>3. k \in Nat /\ k >= 1
  BY <1>2, ValueKinds DEF Positions, IndexPositive
<1>4. ASSUME NEW x \in Arg
      PROVE  index'[x] = IF \E j \in (k + 1)..Len(s) : s[j] = x THEN index[x] - 1 ELSE index[x]
  BY DEF EraseArg
<1>5. \A c \in Block : \A j \in DOMAIN args[c] :
         args[c][j] \in Arg /\ index[args[c][j]] = j /\ block[args[c][j]] = c
  BY LenProperties DEF Positions, ArgIndexInv
<1> DEFINE w == WithoutArg(b, k)
<1>6. /\ w \in Seq(Arg)
      /\ k \in DOMAIN s => /\ DOMAIN w = 1..(Len(s) - 1)
                           /\ \A j \in 1..(Len(s) - 1) : w[j] = IF j < k THEN s[j] ELSE s[j + 1]
      /\ k \notin DOMAIN s => w = s
  <2>1. CASE k \in DOMAIN s
    BY <1>1, <2>1, RemovedAt DEF WithoutArg
  <2>2. CASE k \notin DOMAIN s
    BY <1>1, <2>2 DEF WithoutArg
  <2> QED  BY <2>1, <2>2
<1> HIDE DEF w
<1>8. args' \in [Block -> Seq(Arg)] /\ block' \in [Arg -> Block \cup {NULL}]
  BY <1>2, <1>6 DEF Positions, w
<1>9. \A x \in Arg : index'[x] \in Nat /\ (block[x] # NULL => index'[x] >= 1)
  <2>1. ASSUME NEW x \in Arg, NEW j \in (k + 1)..Len(s), s[j] = x
        PROVE  index[x] = j /\ j >= 2
    BY <1>1, <1>3, <1>5, <2>1
  <2>2. ASSUME NEW x \in Arg
        PROVE  index'[x] \in Nat /\ (block[x] # NULL => index'[x] >= 1)
    <3>1. CASE \E j \in (k + 1)..Len(s) : s[j] = x
      <4>1. PICK j \in (k + 1)..Len(s) : s[j] = x
        BY <3>1
      <4>2. index[x] = j /\ j \in Nat /\ j >= 2
        BY <1>1, <1>3, <2>1, <4>1
      <4>3. index'[x] = index[x] - 1
        BY <1>4, <3>1
      <4> QED  BY <4>2, <4>3
    <3>2. CASE ~\E j \in (k + 1)..Len(s) : s[j] = x
      <4>1. index'[x] = index[x]
        BY <1>4, <3>2
      <4> QED  BY <4>1 DEF Positions, IndexPositive
    <3> QED  BY <3>1, <3>2
  <2> QED  BY <2>2
<1>10. index' \in [Arg -> Nat]
  <2>1. index' = [x \in Arg |-> index'[x]]
    BY DEF EraseArg
  <2> QED  BY <1>9, <2>1
<1>11. ASSUME NEW c \in Block, NEW j \in DOMAIN args'[c]
       PROVE  index'[args'[c][j]] = j /\ block'[args'[c][j]] = c
  <2>1. CASE c # b
    <3>1. args'[c] = args[c]
      BY <1>2, <2>1 DEF Positions
    <3>2. args[c][j] \in Arg /\ index[args[c][j]] = j /\ block[args[c][j]] = c
      BY <1>5, <3>1
    <3>3. ~\E m \in (k + 1)..Len(s) : s[m] = args[c][j]
      BY <1>1, <1>3, <1>5, <2>1, <3>2
    <3> QED  BY <1>2, <1>4, <3>1, <3>2, <3>3
  <2>2. CASE c = b /\ k \in DOMAIN s
    <3>1. args'[c] = w /\ j \in 1..(Len(s) - 1)
      BY <1>1, <1>2, <1>6, <2>2 DEF Positions, w
    <3>2. CASE j < k
      <4>1. j \in DOMAIN s /\ args'[c][j] = s[j]
        BY <1>1, <1>6, <2>2, <3>1, <3>2
      <4>2. s[j] \in Arg /\ index[s[j]] = j /\ block[s[j]] = b
        BY <1>5, <4>1
      <4>3. ~\E m \in (k + 1)..Len(s) : s[m] = s[j]
        BY <1>1, <1>3, <1>5, <3>2, <4>2
      <4> QED  BY <1>2, <1>4, <2>2, <4>1, <4>2, <4>3
    <3>3. CASE j >= k
      <4>1. j + 1 \in (k + 1)..Len(s) /\ j + 1 \in DOMAIN s /\ args'[c][j] = s[j + 1]
        BY <1>1, <1>3, <1>6, <2>2, <3>1, <3>3
      <4>2. s[j + 1] \in Arg /\ index[s[j + 1]] = j + 1 /\ block[s[j + 1]] = b
        BY <1>5, <4>1
      <4>3. index'[s[j + 1]] = (j + 1) - 1
        BY <1>4, <4>1, <4>2
      <4> QED  BY <1>1, <1>2, <2>2, <3>1, <4>1, <4>2, <4>3
    <3> QED  BY <1>1, <1>3, <3>1, <3>2, <3>3
  <2>3. CASE c = b /\ k \notin DOMAIN s
    <3>1. args'[c] = s
      BY <1>2, <1>6, <2>3 DEF Positions, w
    <3>2. s[j] \in Arg /\ index[s[j]] = j /\ block[s[j]] = b
      BY <1>5, <2>3, <3>1
    <3>3. ~\E m \in (k + 1)..Len(s) : s[m] = s[j]
      BY <1>1, <1>3, <2>3
    <3> QED  BY <1>2, <1>4, <2>3, <3>1, <3>2, <3>3
  <2> QED  BY <2>1, <2>2, <2>3
<1> QED  BY <1>2, <1>8, <1>9, <1>10, <1>11 DEF Positions, ArgIndexInv, IndexPositive

----------------------------------------------------------------------------
(* Every call preserves the invariant. *)

\* The invariant, read as what the lemmas above keep.
LEMMA IInvParts ==
  IInv <=> /\ Tuples(operands) /\ UseSets(uses) /\ Matches(uses, operands, Live)
           /\ Positions
           /\ created \subseteq Op /\ dropped \subseteq Op /\ gone \subseteq Block
           /\ asked \subseteq Arg /\ failed \subseteq Value
BY DEF IInv, TypeOK, UseDefInv, Tuples, UseSets, Positions

\* The same, for the state after a call.
LEMMA IInvNext ==
  ASSUME Tuples(operands'), UseSets(uses'), Matches(uses', operands', Live'), Positions',
         created' \subseteq Op, dropped' \subseteq Op, gone' \subseteq Block,
         asked' \subseteq Arg, failed' \subseteq Value
  PROVE  IInv'
BY DEF IInv, TypeOK, UseDefInv, Tuples, UseSets, Positions

\* Calls that leave the arguments of all blocks alone keep their positions.
LEMMA PositionsKept ==
  ASSUME Positions, UNCHANGED <<args, index, block>>
  PROVE  Positions'
BY DEF Positions, ArgIndexInv, IndexPositive

\* Usable values are arguments or results.
LEMMA UsableValues ==
  ASSUME Positions
  PROVE  Usable \subseteq Arg \cup Result
<1>1. ListedArgs \subseteq Arg
  BY LenProperties DEF Positions, ListedArgs, ToSet
<1> QED  BY <1>1 DEF Usable

\* The results of an operation that replace_op has dealt with are replaced by
\* values that are not results of that operation.
LEMMA SubstitutionFacts ==
  ASSUME Positions, NEW o \in Op, NEW new \in NewResults(o), NEW n \in 0..Len(ResultsOf[o])
  PROVE  IsSubstitution(Substitution(o, new, n))
<1> DEFINE R == ResultsOf[o]
           D == {R[k] : k \in 1..n}
           sub == Substitution(o, new, n)
<1>1. R \in Seq(Result) /\ Len(R) \in Nat /\ DOMAIN R = 1..Len(R)
  BY Shape, LenProperties
<1>2. \A k \in 1..n : k \in DOMAIN R /\ R[k] \in Result /\ R[k] \in ToSet(R)
  BY <1>1, ElementOfSeq DEF ToSet
<1>3. \A k \in 1..n : new[k] = NULL \/ (new[k] \in Arg \cup Result /\ new[k] \notin ToSet(R))
  BY <1>2, UsableValues DEF NewResults
<1>4. DOMAIN sub = D /\ D \subseteq Result /\ D \subseteq ToSet(R)
  BY <1>2 DEF Substitution
<1>5. ASSUME NEW r \in D
      PROVE  sub[r] \in Value /\ sub[r] \notin D
  <2> DEFINE k == CHOOSE j \in 1..n : R[j] = r
  <2>1. k \in 1..n
    BY <1>5
  <2>2. sub[r] = IF new[k] = NULL THEN Erased(r) ELSE new[k]
    BY <1>5 DEF Substitution
  <2> HIDE DEF k
  <2>3. CASE new[k] = NULL
    <3>1. Erased(r) \in ErasedValue
      BY <1>4 DEF ErasedValue
    <3> QED  BY <1>4, <2>2, <2>3, <3>1, ValueKinds DEF Value
  <2>4. CASE new[k] # NULL
    BY <1>3, <1>4, <2>1, <2>2, <2>4 DEF Value
  <2> QED  BY <2>3, <2>4
<1> HIDE DEF sub, D
<1> QED  BY <1>4, <1>5 DEF IsSubstitution, Value, sub

\* Calls that write operands.
LEMMA NextOperandsStep ==
  ASSUME IInv, NextOperands
  PROVE  IInv'
<1> USE IInvParts
<1>0. TypeOK /\ Live \subseteq Op
  BY DEF IInv, TypeOK, Live
<1>1. ASSUME NEW o \in Op \ dropped, NEW vs \in OperandLists(o), Create(o, vs)
      PROVE  IInv'
  <2>1. /\ WriteOperands(o, vs) /\ created' = created \cup {o}
        /\ UNCHANGED <<args, index, block, asked, dropped, gone, failed>>
    BY <1>1 DEF Create, blockVars
  <2>2. vs \in SeqOf(Value, MaxOperands[o])
    BY <1>0, OperandListTypes
  <2>3. Tuples(operands') /\ UseSets(uses') /\ Matches(uses', operands', Live \cup {o})
    BY <1>0, <2>1, <2>2, WriteKeeps
  <2>4. Live' = Live \cup {o}
    BY <2>1 DEF Live
  <2> QED  BY <2>1, <2>3, <2>4, PositionsKept, IInvNext
<1>2. ASSUME NEW o \in Live, NEW vs \in OperandLists(o), SetOperands(o, vs)
      PROVE  IInv'
  <2>1. /\ WriteOperands(o, vs)
        /\ UNCHANGED <<args, index, block, asked, created, dropped, gone, failed>>
    BY <1>2 DEF SetOperands, blockVars
  <2>2. o \in Op /\ vs \in SeqOf(Value, MaxOperands[o])
    BY <1>0, OperandListTypes
  <2>3. Tuples(operands') /\ UseSets(uses') /\ Matches(uses', operands', Live \cup {o})
    BY <1>0, <2>1, <2>2, WriteKeeps
  <2>4. Live' = Live /\ Live \cup {o} = Live
    BY <2>1 DEF Live
  <2> QED  BY <2>1, <2>3, <2>4, PositionsKept, IInvNext
<1>3. ASSUME NEW o \in Live, NEW i \in DOMAIN operands[o], NEW v \in Usable, SetOperand(o, i, v)
      PROVE  IInv'
  <2>1. UNCHANGED <<args, index, block, asked, created, dropped, gone, failed>>
    BY <1>3 DEF SetOperand, blockVars
  <2>2. v \in Value
    BY UsableValues DEF Value
  <2>3. Tuples(operands') /\ UseSets(uses') /\ Matches(uses', operands', Live)
    BY <1>0, <1>3, <2>2, SetOperandKeeps
  <2>4. Live' = Live
    BY <2>1 DEF Live
  <2> QED  BY <2>1, <2>3, <2>4, PositionsKept, IInvNext
<1>4. ASSUME NEW v \in Value, NEW w \in Usable, ReplaceBy(v, w)
      PROVE  IInv'
  <2> DEFINE sub == [x \in {v} |-> w]
  <2>1. /\ v # w /\ operands' = OperandsReplaced(uses, sub) /\ uses' = UsesReplaced(uses, sub)
        /\ UNCHANGED <<args, index, block, asked, created, dropped, gone, failed>>
    BY <1>4 DEF ReplaceBy, Replace, blockVars
  <2>2. IsSubstitution(sub)
    BY <2>1, UsableValues DEF IsSubstitution, Value
  <2> HIDE DEF sub
  <2>3. Tuples(OperandsReplaced(uses, sub)) /\ UseSets(UsesReplaced(uses, sub))
    BY <2>2, ReplacedTypes
  <2>4. Matches(UsesReplaced(uses, sub), OperandsReplaced(uses, sub), Live)
    BY <1>0, <2>2, ReplaceKeeps
  <2>5. Live' = Live
    BY <2>1 DEF Live
  <2> QED  BY <2>1, <2>3, <2>4, <2>5, PositionsKept, IInvNext
<1> QED  BY <1>1, <1>2, <1>3, <1>4 DEF NextOperands

\* Erasing an operation or a block: S is what drop_all_references reaches, V the
\* results that are then erased.
LEMMA EraseTreeStep ==
  ASSUME IInv, NEW S \in SUBSET Op, NEW V \in SUBSET Result, NEW safe \in BOOLEAN,
         EraseValues(UsesDropped(uses, S), V, safe),
         dropped' = dropped \cup S,
         gone' \subseteq Block,
         UNCHANGED <<args, index, block, asked, created>>
  PROVE  IInv'
<1> USE IInvParts
<1> DEFINE U == UsesDropped(uses, S)
           L == Live \ S
<1>1. UseSets(U) /\ Matches(U, operands, L)
  BY DropKeeps
<1>2. L \in SUBSET Op /\ Live' = L /\ dropped' \subseteq Op
  BY DEF Live
<1>3. /\ Tuples(operands') /\ UseSets(uses') /\ Matches(uses', operands', L)
      /\ failed' \subseteq Value
  <2> HIDE DEF U, L
  <2> QED  BY <1>1, <1>2, EraseValuesKeeps DEF U
<1> QED  BY <1>2, <1>3, PositionsKept, IInvNext

\* Everything nested in an operation is an operation, and results are results.
LEMMA TreeTypes ==
  /\ \A o \in Op : Subtree[o] \subseteq Op /\ ToSet(ResultsOf[o]) \subseteq Result
  /\ \A b \in Block : BlockSubtree(b) \subseteq Op
<1>1. \A o \in Op : Subtree[o] \subseteq Op
  BY DEF Subtree
<1>2. \A o \in Op : ToSet(ResultsOf[o]) \subseteq Result
  BY Shape, ElementOfSeq, LenProperties DEF ToSet
<1> QED  BY <1>1, <1>2 DEF BlockSubtree, Body

\* Calls that erase or replace.
LEMMA NextEraseStep ==
  ASSUME IInv, NextErase
  PROVE  IInv'
<1> USE IInvParts
<1>0. Live \subseteq Op
  BY DEF Live
<1>1. ASSUME NEW o \in Live, NEW safe \in BOOLEAN, EraseOp(o, safe)
      PROVE  IInv'
  <2>1. /\ EraseValues(UsesDropped(uses, Subtree[o]), ToSet(ResultsOf[o]), safe)
        /\ dropped' = dropped \cup Subtree[o]
        /\ UNCHANGED <<args, index, block, asked, created, gone>>
    BY <1>1 DEF EraseOp, blockVars
  <2>2. Subtree[o] \in SUBSET Op /\ ToSet(ResultsOf[o]) \in SUBSET Result
    BY <1>0, TreeTypes
  <2> QED  BY <2>1, <2>2, EraseTreeStep
<1>2. ASSUME NEW b \in Block, NEW safe \in BOOLEAN, EraseBlock(b, safe)
      PROVE  IInv'
  <2> DEFINE V == UNION {ToSet(ResultsOf[o]) : o \in Body(b) \cap Live}
  <2>1. /\ EraseValues(UsesDropped(uses, BlockSubtree(b)), V, safe)
        /\ dropped' = dropped \cup BlockSubtree(b)
        /\ gone' = gone \cup {b}
        /\ UNCHANGED <<args, index, block, asked, created>>
    BY <1>2 DEF EraseBlock, blockVars
  <2>2. BlockSubtree(b) \in SUBSET Op /\ V \in SUBSET Result
    BY <1>0, TreeTypes
  <2>3. gone' \subseteq Block
    BY <2>1
  <2> HIDE DEF V
  <2> QED  BY <2>1, <2>2, <2>3, EraseTreeStep
<1>3. ASSUME NEW b \in Block, NEW a \in Arg, NEW safe \in BOOLEAN, EraseArg(b, a, safe)
      PROVE  IInv'
  <2>1. /\ EraseValues(uses, {a}, safe) /\ asked' = asked \cup {a}
        /\ UNCHANGED <<created, dropped, gone>>
    BY <1>3 DEF EraseArg
  <2>2. {a} \in SUBSET (Arg \cup Result) /\ Live \in SUBSET Op
    BY <1>0
  <2>3. /\ Tuples(operands') /\ UseSets(uses') /\ Matches(uses', operands', Live)
        /\ failed' \subseteq Value
    BY <2>1, <2>2, EraseValuesKeeps
  <2>4. Positions'
    BY <1>3, EraseArgKeeps
  <2>5. Live' = Live
    BY <2>1 DEF Live
  <2> QED  BY <2>1, <2>3, <2>4, <2>5, IInvNext
<1>4. ASSUME NEW o \in Live, NEW new \in NewResults(o), NEW safe \in BOOLEAN,
             ReplaceOp(o, new, safe)
      PROVE  IInv'
  <2> DEFINE n == Len(ResultsOf[o])
             sub == Substitution(o, new, n)
             U == UsesReplaced(uses, sub)
             O == OperandsReplaced(uses, sub)
  <2>1. /\ operands' = O /\ uses' = UsesDropped(U, Subtree[o])
        /\ dropped' = dropped \cup Subtree[o]
        /\ UNCHANGED <<args, index, block, asked, created, gone, failed>>
    BY <1>4 DEF ReplaceOp, blockVars
  <2>2. IsSubstitution(sub)
    <3>1. o \in Op /\ n \in 0..Len(ResultsOf[o])
      BY <1>0, Shape, LenProperties
    <3> QED  BY <3>1, SubstitutionFacts
  <2> HIDE DEF sub
  <2>3. Tuples(O) /\ UseSets(U)
    BY <2>2, ReplacedTypes
  <2>4. Matches(U, O, Live)
    BY <1>0, <2>2, ReplaceKeeps
  <2> HIDE DEF U, O
  <2>5. UseSets(UsesDropped(U, Subtree[o])) /\ Matches(UsesDropped(U, Subtree[o]), O, Live \ Subtree[o])
    BY <2>3, <2>4, DropKeeps
  <2>6. Live' = Live \ Subtree[o] /\ dropped' \subseteq Op
    BY <1>0, <2>1, TreeTypes DEF Live
  <2> QED  BY <2>1, <2>3, <2>5, <2>6, PositionsKept, IInvNext
<1>5. ASSUME NEW o \in Live, NEW new \in NewResults(o), NEW k \in DOMAIN new,
             ReplaceOpRaises(o, new, k)
      PROVE  IInv'
  <2> DEFINE sub == Substitution(o, new, k - 1)
  <2>1. /\ operands' = OperandsReplaced(uses, sub) /\ uses' = UsesReplaced(uses, sub)
        /\ UNCHANGED <<args, index, block, asked, created, dropped, gone, failed>>
    BY <1>5 DEF ReplaceOpRaises, Replace, blockVars
  <2>2. IsSubstitution(sub)
    <3>1. DOMAIN new = DOMAIN ResultsOf[o] /\ o \in Op
      BY <1>0 DEF NewResults
    <3>2. DOMAIN ResultsOf[o] = 1..Len(ResultsOf[o]) /\ Len(ResultsOf[o]) \in Nat
      BY <3>1, Shape, LenProperties
    <3>3. k - 1 \in 0..Len(ResultsOf[o])
      BY <3>1, <3>2
    <3> QED  BY <3>1, <3>3, SubstitutionFacts
  <2> HIDE DEF sub
  <2>3. Tuples(OperandsReplaced(uses, sub)) /\ UseSets(UsesReplaced(uses, sub))
    BY <2>2, ReplacedTypes
  <2>4. Matches(UsesReplaced(uses, sub), OperandsReplaced(uses, sub), Live)
    BY <1>0, <2>2, ReplaceKeeps
  <2>5. Live' = Live
    BY <2>1 DEF Live
  <2> QED  BY <2>1, <2>3, <2>4, <2>5, PositionsKept, IInvNext
<1> QED  BY <1>1, <1>2, <1>3, <1>4, <1>5 DEF NextErase

\* insert_arg.
LEMMA NextArgsStep ==
  ASSUME IInv, NextArgs
  PROVE  IInv'
<1> USE IInvParts
<1>1. PICK b \in Block, a \in Arg : \E i \in 1..(Len(args[b]) + 1) : InsertArg(b, a, i)
  BY DEF NextArgs
<1>2. PICK i \in 1..(Len(args[b]) + 1) : InsertArg(b, a, i)
  BY <1>1
<1>3. UNCHANGED <<operands, uses, created, dropped, gone, asked, failed>>
  BY <1>2 DEF InsertArg
<1>4. Positions'
  BY <1>2, InsertArgKeeps
<1>5. Live' = Live
  BY <1>3 DEF Live
<1> QED  BY <1>3, <1>4, <1>5, IInvNext

----------------------------------------------------------------------------
(* The theorems. *)

\* Before anything is created there are no operands, no uses and no arguments.
LEMMA InitIInv == Init => IInv
<1> SUFFICES ASSUME Init PROVE IInv
  OBVIOUS
<1>1. Tuples(operands) /\ UseSets(uses)
  <2>1. ASSUME NEW o \in Op PROVE operands[o] \in SeqOf(Value, MaxOperands[o])
    <3>1. operands[o] \in [1..0 -> Value] /\ 0 \in 0..MaxOperands[o]
      BY Shape DEF Init
    <3> QED  BY <3>1 DEF SeqOf
  <2> QED  BY <2>1 DEF Init, Tuples, UseSets
<1>2. Matches(uses, operands, Live)
  BY DEF Init, Matches, Live
<1>3. Positions
  <2>1. args \in [Block -> Seq(Arg)]
    BY DEF Init
  <2>2. \A b \in Block : DOMAIN args[b] = {}
    BY DEF Init
  <2> QED  BY <2>1, <2>2 DEF Init, Positions, ArgIndexInv, IndexPositive
<1> QED  BY <1>1, <1>2, <1>3, IInvParts DEF Init

\* Uses and operands agree, and arguments know their positions, after any
\* sequence of calls, those that raise half way and repeated ones included.
THEOREM UsesAndPositions == Spec => []IInv
<1>1. IInv /\ [Next]_vars => IInv'
  <2> SUFFICES ASSUME IInv, [Next]_vars PROVE IInv'
    OBVIOUS
  <2>1. CASE Next
    BY <2>1, NextOperandsStep, NextEraseStep, NextArgsStep DEF Next
  <2>2. CASE UNCHANGED vars
    BY <2>2 DEF vars, IInv, TypeOK, UseDefInv, Matches, Live, ArgIndexInv, IndexPositive
  <2> QED  BY <2>1, <2>2
<1> QED  BY <1>1, InitIInv, PTL DEF Spec

\* The state of values, operations and blocks is of the expected type.
THEOREM ValuesTyped == Spec => []TypeOK
<1>1. IInv => TypeOK
  BY DEF IInv
<1> QED  BY <1>1, UsesAndPositions, PTL

\* The use sets are exactly the operands of live operations: remove_use never
\* runs into its assertion, and replace_by reaches every operand.
THEOREM UsesAreOperands == Spec => []UseDefInv
<1>1. IInv => UseDefInv
  BY DEF IInv
<1> QED  BY <1>1, UsesAndPositions, PTL

\* BlockArgument.index is the argument's position in its block.
THEOREM ArgumentPositions == Spec => []ArgIndexInv
<1>1. IInv => ArgIndexInv
  BY DEF IInv
<1> QED  BY <1>1, UsesAndPositions, PTL

----------------------------------------------------------------------------
(* The nesting of operations. *)

\* Subtree[o] is closed: it has what is nested in its operations.
LEMMA SubtreeClosed ==
  ASSUME NEW o \in Op
  PROVE  /\ o \in Subtree[o] /\ Subtree[o] \subseteq Op
         /\ \A q \in Op : Holder[q] # NULL /\ Host[Holder[q]] \in Subtree[o] => q \in Subtree[o]
<1>1. \A p : p \in Subtree[o] <=>
        /\ p \in Op
        /\ \A S \in SUBSET Op :
             (o \in S /\ \A q \in Op : Holder[q] # NULL /\ Host[Holder[q]] \in S => q \in S)
               => p \in S
  BY DEF Subtree
<1>2. ASSUME NEW q \in Op, Holder[q] # NULL, Host[Holder[q]] \in Subtree[o]
      PROVE  q \in Subtree[o]
  <2>1. SUFFICES ASSUME NEW S \in SUBSET Op, o \in S,
                        \A x \in Op : Holder[x] # NULL /\ Host[Holder[x]] \in S => x \in S
                 PROVE  q \in S
    BY <1>1
  <2>2. Host[Holder[q]] \in S
    BY <1>1, <1>2, <2>1
  <2> QED  BY <1>2, <2>1, <2>2
<1> QED  BY <1>1, <1>2

\* ... and it is the least such set.
LEMMA SubtreeLeast ==
  ASSUME NEW o \in Op, NEW S \in SUBSET Op, o \in S,
         \A q \in Op : Holder[q] # NULL /\ Host[Holder[q]] \in S => q \in S
  PROVE  Subtree[o] \subseteq S
BY DEF Subtree

\* An operation below o sits in a block of an operation of Subtree[o], and so does
\* everything that is in that block.
LEMMA Nested ==
  ASSUME NEW o \in Op, NEW p \in Subtree[o], p # o
  PROVE  BlockSubtree(Holder[p]) \subseteq Subtree[o]
<1>1. /\ o \in Subtree[o] /\ Subtree[o] \subseteq Op
      /\ \A q \in Op : Holder[q] # NULL /\ Host[Holder[q]] \in Subtree[o] => q \in Subtree[o]
  BY SubtreeClosed
<1>2. Holder[p] # NULL /\ Host[Holder[p]] \in Subtree[o]
  <2>1. SUFFICES ASSUME ~(Holder[p] # NULL /\ Host[Holder[p]] \in Subtree[o])
                 PROVE  FALSE
    OBVIOUS
  <2> DEFINE S == Subtree[o] \ {p}
  <2>2. \A q \in Op : Holder[q] # NULL /\ Host[Holder[q]] \in S => q \in S
    BY <1>1, <2>1
  <2>3. o \in S /\ S \in SUBSET Op /\ p \notin S
    BY <1>1
  <2> HIDE DEF S
  <2>4. Subtree[o] \subseteq S
    BY <2>2, <2>3, SubtreeLeast
  <2> QED  BY <2>3, <2>4
<1>3. ASSUME NEW q \in Body(Holder[p]) PROVE Subtree[q] \subseteq Subtree[o]
  <2>1. q \in Op /\ Holder[q] = Holder[p]
    BY DEF Body
  <2>2. q \in Subtree[o]
    BY <1>1, <1>2, <2>1
  <2> QED  BY <1>1, <2>1, <2>2, SubtreeLeast
<1> QED  BY <1>3 DEF BlockSubtree

\* The same for everything below the operations of a block.
LEMMA NestedInBlock ==
  ASSUME NEW b, NEW p \in BlockSubtree(b), p \notin Body(b)
  PROVE  BlockSubtree(Holder[p]) \subseteq BlockSubtree(b)
<1>1. PICK o \in Body(b) : p \in Subtree[o]
  BY DEF BlockSubtree
<1>2. o \in Op /\ p # o
  BY <1>1 DEF Body
<1>3. BlockSubtree(Holder[p]) \subseteq Subtree[o]
  BY <1>1, <1>2, Nested
<1>4. Subtree[o] \subseteq BlockSubtree(b)
  BY <1>1 DEF BlockSubtree
<1> QED  BY <1>3, <1>4

\* Every result has the operation that defines it.
LEMMA DefFacts ==
  ASSUME NEW r \in Result
  PROVE  Def(r) \in Op /\ r \in ToSet(ResultsOf[Def(r)])
BY Shape DEF Def

----------------------------------------------------------------------------
(* Operands that do not dangle. *)

\* v may be an operand of o.
Fine(o, v) ==
  /\ v \in Value
  /\ v \in Usable \cup ErasedValue \cup failed
  /\ v \in Arg => block[v] # NULL
  /\ v \in Arg \cup Result => Visible(o, v)

AllFine == \A o \in Live : \A i \in DOMAIN operands[o] : Fine(o, operands[o][i])

LEMMA ScopeParts == ScopeInv => IInv /\ AllFine
<1> SUFFICES ASSUME ScopeInv PROVE IInv /\ AllFine
  OBVIOUS
<1>1. IInv /\ NoDangling /\ OperandsVisible /\ Tuples(operands) /\ Live \subseteq Op
  BY IInvParts DEF ScopeInv, Live
<1>2. ASSUME NEW o \in Live, NEW i \in DOMAIN operands[o] PROVE Fine(o, operands[o][i])
  <2>1. operands[o][i] \in Value
    BY <1>1, PositionIsUse
  <2> QED  BY <1>1, <2>1 DEF NoDangling, OperandsVisible, Fine
<1> QED  BY <1>1, <1>2 DEF AllFine

LEMMA ScopeNext ==
  ASSUME IInv', AllFine'
  PROVE  ScopeInv'
BY DEF AllFine, Fine, ScopeInv, NoDangling, OperandsVisible

\* A usable value is fine where it is visible.
LEMMA NewFine ==
  ASSUME IInv, NEW o, NEW v \in Usable, Visible(o, v)
  PROVE  Fine(o, v)
<1>1. Positions
  BY IInvParts
<1>2. v \in Arg \cup Result
  BY <1>1, UsableValues
<1>3. v \in Arg => block[v] # NULL
  <2> SUFFICES ASSUME v \in Arg PROVE block[v] # NULL
    OBVIOUS
  <2>1. v \in ListedArgs
    BY ValueKinds DEF Usable
  <2>2. PICK b \in Block : \E i \in DOMAIN args[b] : args[b][i] = v
    BY <2>1 DEF ListedArgs, ToSet
  <2>3. block[v] = b
    BY <1>1, <2>2 DEF Positions, ArgIndexInv
  <2> QED  BY <2>3, ValueKinds
<1> QED  BY <1>2, <1>3 DEF Fine, Value

\* What a call has to show: every operand that is not an ErasedSSAValue was fine
\* before the call and, if it could be used then, can be used now.
LEMMA AllFineNext ==
  ASSUME \A a \in Arg : block[a] # NULL => block'[a] = block[a],
         failed \subseteq failed',
         \A o \in Live' : \A i \in DOMAIN operands'[o] :
           \/ operands'[o][i] \in ErasedValue
           \/ /\ Fine(o, operands'[o][i])
              /\ operands'[o][i] \in Usable => operands'[o][i] \in Usable' \cup failed'
  PROVE  AllFine'
<1>1. ASSUME NEW v \in ErasedValue, NEW o PROVE Fine(o, v)'
  BY ValueKinds DEF Fine, Value
<1>2. ASSUME NEW v, NEW o, Fine(o, v), v \in Usable => v \in Usable' \cup failed'
      PROVE  Fine(o, v)'
  <2>1. v \in Value /\ v \in Usable' \cup ErasedValue \cup failed'
    BY <1>2 DEF Fine
  <2>2. v \in Arg => block[v] # NULL /\ block'[v] = block[v]
    BY <1>2 DEF Fine
  <2>3. v \in Arg \cup Result => Visible(o, v)'
    BY <1>2, <2>2 DEF Fine, Visible
  <2> QED  BY <2>1, <2>2, <2>3 DEF Fine
<1> QED  BY <1>1, <1>2 DEF AllFine

----------------------------------------------------------------------------
(* What the calls do to the operands. *)

\* After replace_by, an operand is as before or the image of a replaced value whose
\* use it is.
LEMMA OperandAfterReplace ==
  ASSUME NEW U, NEW sub, NEW L \in SUBSET Op, Tuples(operands), Matches(U, operands, L),
         NEW o \in L, NEW i \in DOMAIN OperandsReplaced(U, sub)[o]
  PROVE  /\ i \in DOMAIN operands[o]
         /\ \/ /\ operands[o][i] \notin DOMAIN sub
               /\ OperandsReplaced(U, sub)[o][i] = operands[o][i]
            \/ /\ operands[o][i] \in DOMAIN sub /\ <<o, i>> \in U[operands[o][i]]
               /\ OperandsReplaced(U, sub)[o][i] = sub[operands[o][i]]
<1>1. o \in Op /\ i \in DOMAIN operands[o]
  BY DEF OperandsReplaced
<1> DEFINE v == operands[o][i]
<1>2. <<o, i>> \in Use /\ v \in Value
  BY <1>1, PositionIsUse
<1>3. <<o, i>> \in U[v]
  BY <1>1, <1>2 DEF Matches
<1>4. OperandsReplaced(U, sub)[o][i] = IF v \in DOMAIN sub /\ <<o, i>> \in U[v] THEN sub[v] ELSE v
  BY <1>1 DEF OperandsReplaced
<1> QED  BY <1>1, <1>3, <1>4

\* After SSAValue.erase of the values of V, checked or not, an operand is an
\* ErasedSSAValue or as before, and then not in V unless the erasure raised.
LEMMA OperandAfterErase ==
  ASSUME NEW U, NEW V \in SUBSET (Arg \cup Result), NEW safe \in BOOLEAN, NEW L \in SUBSET Op,
         Tuples(operands), Matches(U, operands, L), EraseValues(U, V, safe),
         NEW o \in L, NEW i \in DOMAIN operands'[o]
  PROVE  \/ operands'[o][i] \in ErasedValue
         \/ /\ i \in DOMAIN operands[o] /\ operands'[o][i] = operands[o][i]
            /\ operands[o][i] \in V => operands[o][i] \in failed'
<1>1. CASE safe
  <2>1. operands' = operands /\ failed' = failed \cup Used(U, V)
    BY <1>1 DEF EraseValues
  <2>2. <<o, i>> \in Use /\ operands[o][i] \in Value
    BY <2>1, PositionIsUse
  <2>3. <<o, i>> \in U[operands[o][i]]
    BY <2>1, <2>2 DEF Matches
  <2> QED  BY <2>1, <2>3 DEF Used
<1>2. CASE ~safe
  <2> DEFINE sub == [v \in V |-> Erased(v)]
  <2>1. operands' = OperandsReplaced(U, sub) /\ failed' = failed
    BY <1>2 DEF EraseValues, Replace
  <2>2. DOMAIN sub = V /\ \A v \in V : sub[v] \in ErasedValue
    BY DEF ErasedValue
  <2> HIDE DEF sub
  <2>3. i \in DOMAIN OperandsReplaced(U, sub)[o]
    BY <2>1
  <2>4. /\ i \in DOMAIN operands[o]
        /\ \/ /\ operands[o][i] \notin DOMAIN sub
              /\ OperandsReplaced(U, sub)[o][i] = operands[o][i]
           \/ /\ operands[o][i] \in DOMAIN sub /\ <<o, i>> \in U[operands[o][i]]
              /\ OperandsReplaced(U, sub)[o][i] = sub[operands[o][i]]
    BY ONLY L \in SUBSET Op, Tuples(operands), Matches(U, operands, L), o \in L, <2>3,
            OperandAfterReplace
  <2>5. \/ operands[o][i] \notin DOMAIN sub /\ operands'[o][i] = operands[o][i]
        \/ operands[o][i] \in DOMAIN sub /\ operands'[o][i] = sub[operands[o][i]]
    BY ONLY <2>1, <2>4
  <2>6. i \in DOMAIN operands[o]
    BY <2>4
  <2> QED  BY <2>2, <2>5, <2>6
<1> QED  BY <1>1, <1>2

LEMMA EraseKeepsFailed ==
  ASSUME NEW U, NEW V, NEW safe \in BOOLEAN, EraseValues(U, V, safe)
  PROVE  failed \subseteq failed'
BY DEF EraseValues

\* The references of the operations of S are dropped, and T are those of them that
\* are not nested in others of S.  A value that can be used, and is visible to an
\* operation outside of S, can still be used unless it is a result of T.
LEMMA StillUsable ==
  ASSUME Scoped, NEW S \in SUBSET Op, NEW T,
         \A p \in S \ T : BlockSubtree(Holder[p]) \subseteq S,
         dropped' = dropped \cup S, UNCHANGED <<args, created>>,
         NEW o \in Op \ S, NEW v \in Usable, Fine(o, v),
         v \notin UNION {ToSet(ResultsOf[p]) : p \in T \cap Live}
  PROVE  v \in Usable'
<1>1. CASE v \in ListedArgs
  BY <1>1 DEF Usable, ListedArgs
<1>2. CASE v \in Result /\ Def(v) \in Live
  <2>1. Def(v) \in Op /\ v \in ToSet(ResultsOf[Def(v)])
    BY <1>2, DefFacts
  <2>2. Def(v) \notin T
    BY <1>2, <2>1
  <2>3. Def(v) \notin S
    <3>1. SUFFICES ASSUME Def(v) \in S PROVE FALSE
      OBVIOUS
    <3>2. o \in BlockSubtree(Holder[Def(v)])
      BY <1>2, ValueKinds DEF Fine, Visible
    <3> QED  BY <2>2, <3>1, <3>2
  <2>4. Def(v) \in Live'
    BY <1>2, <2>3 DEF Live
  <2> QED  BY <1>2, <2>4 DEF Usable
<1> QED  BY <1>1, <1>2 DEF Usable

----------------------------------------------------------------------------
(* The calls. *)

\* Calls that only give operands that are visible and can be used, or leave them.
LEMMA OperandsStep ==
  ASSUME ScopeInv, IInv', Usable \subseteq Usable', failed' = failed, block' = block,
         \A o \in Live' : \A i \in DOMAIN operands'[o] :
           \/ operands'[o][i] \in ErasedValue
           \/ o \in Live /\ i \in DOMAIN operands[o] /\ operands'[o][i] = operands[o][i]
           \/ operands'[o][i] \in Usable /\ Visible(o, operands'[o][i])
  PROVE  ScopeInv'
<1>1. IInv /\ AllFine
  BY ScopeParts
<1>2. ASSUME NEW o \in Live', NEW i \in DOMAIN operands'[o], operands'[o][i] \notin ErasedValue
      PROVE  Fine(o, operands'[o][i])
  <2>1. CASE o \in Live /\ i \in DOMAIN operands[o] /\ operands'[o][i] = operands[o][i]
    BY <1>1, <2>1 DEF AllFine
  <2>2. CASE operands'[o][i] \in Usable /\ Visible(o, operands'[o][i])
    BY <1>1, <2>2, NewFine
  <2> QED  BY <1>2, <2>1, <2>2
<1>3. AllFine'
  BY <1>2, AllFineNext
<1> QED  BY <1>3, ScopeNext

\* Erasing an operation or a block.
LEMMA EraseTreeScope ==
  ASSUME ScopeInv, IInv', Scoped, NEW S \in SUBSET Op, NEW T, NEW V \in SUBSET Result,
         V = UNION {ToSet(ResultsOf[p]) : p \in T \cap Live},
         \A p \in S \ T : BlockSubtree(Holder[p]) \subseteq S, NEW safe \in BOOLEAN,
         EraseValues(UsesDropped(uses, S), V, safe), dropped' = dropped \cup S,
         UNCHANGED <<args, block, created>>
  PROVE  ScopeInv'
<1> DEFINE U == UsesDropped(uses, S)
           L == Live \ S
<1>1. IInv /\ AllFine /\ Tuples(operands) /\ UseSets(uses) /\ Matches(uses, operands, Live)
  BY ScopeParts, IInvParts
<1>2. Matches(U, operands, L)
  BY <1>1, DropKeeps
<1>3. L \in SUBSET Op /\ Live' = L
  BY <1>1, IInvParts DEF Live
<1>4. V \in SUBSET (Arg \cup Result) /\ failed \subseteq failed'
  BY EraseKeepsFailed
<1>5. ASSUME NEW o \in Live', NEW i \in DOMAIN operands'[o], operands'[o][i] \notin ErasedValue
      PROVE  /\ Fine(o, operands'[o][i])
             /\ operands'[o][i] \in Usable => operands'[o][i] \in Usable' \cup failed'
  <2>1. /\ i \in DOMAIN operands[o] /\ operands'[o][i] = operands[o][i]
        /\ operands[o][i] \in V => operands[o][i] \in failed'
    <3> HIDE DEF U, L
    <3> QED  BY <1>1, <1>2, <1>3, <1>4, <1>5, OperandAfterErase DEF U
  <2>2. o \in Live /\ o \in Op \ S /\ Fine(o, operands[o][i])
    BY <1>1, <1>3, <2>1 DEF AllFine
  <2>3. ASSUME operands[o][i] \in Usable, operands[o][i] \notin V
        PROVE  operands[o][i] \in Usable'
    BY <2>2, <2>3, StillUsable
  <2> QED  BY <2>1, <2>2, <2>3
<1>6. AllFine'
  BY <1>4, <1>5, AllFineNext
<1> QED  BY <1>6, ScopeNext

\* Usable grows with the operations that are created, and does not change with the
\* operands.
LEMMA UsableKept ==
  ASSUME created \subseteq created', UNCHANGED <<args, dropped>>
  PROVE  Usable \subseteq Usable'
BY DEF Usable, ListedArgs, Live

LEMMA NextOperandsScope ==
  ASSUME ScopeInv, NextOperands
  PROVE  ScopeInv'
<1>1. IInv /\ IInv' /\ Tuples(operands) /\ Matches(uses, operands, Live) /\ Live \in SUBSET Op
  BY ScopeParts, NextOperandsStep, IInvParts DEF Live
<1>2. ASSUME NEW o \in Op, NEW vs \in OperandLists(o), WriteOperands(o, vs),
             created' = created \cup {o}, UNCHANGED <<args, block, dropped, failed>>
      PROVE  ScopeInv'
  <2>1. operands' = [operands EXCEPT ![o] = vs] /\ DOMAIN operands = Op
    BY <1>1, <1>2 DEF WriteOperands, Tuples
  <2>2. \A i \in DOMAIN vs : vs[i] \in Usable /\ Visible(o, vs[i])
    <3>1. PICK n \in 0..MaxOperands[o] : vs \in [1..n -> {v \in Usable : Visible(o, v)}]
      BY DEF OperandLists, SeqOf
    <3> QED  BY <3>1
  <2>3. Live' \subseteq Live \cup {o} /\ Live' \subseteq Op
    BY <1>1, <1>2 DEF Live
  <2>4. \A p \in Live' : \A i \in DOMAIN operands'[p] :
           \/ p \in Live /\ i \in DOMAIN operands[p] /\ operands'[p][i] = operands[p][i]
           \/ operands'[p][i] \in Usable /\ Visible(p, operands'[p][i])
    BY <2>1, <2>2, <2>3
  <2>5. Usable \subseteq Usable'
    BY <1>2, UsableKept
  <2> QED  BY <1>1, <1>2, <2>4, <2>5, OperandsStep
<1>3. ASSUME NEW o \in Op \ dropped, NEW vs \in OperandLists(o), Create(o, vs)
      PROVE  ScopeInv'
  BY <1>2, <1>3 DEF Create, blockVars
<1>4. ASSUME NEW o \in Live, NEW vs \in OperandLists(o), SetOperands(o, vs)
      PROVE  ScopeInv'
  <2>1. created' = created \cup {o} /\ o \in Op
    BY <1>1, <1>4 DEF SetOperands, Live
  <2> QED  BY <1>2, <1>4, <2>1 DEF SetOperands, blockVars
<1>5. ASSUME NEW o \in Live, NEW i \in DOMAIN operands[o], NEW v \in Usable, SetOperand(o, i, v)
      PROVE  ScopeInv'
  <2>1. /\ operands' = [operands EXCEPT ![o] = [operands[o] EXCEPT ![i] = v]]
        /\ DOMAIN operands = Op /\ Visible(o, v)
        /\ UNCHANGED <<args, block, created, dropped, failed>>
    BY <1>1, <1>5 DEF SetOperand, Tuples, blockVars
  <2>2. PICK n \in 0..MaxOperands[o] : operands[o] \in [1..n -> Value]
    BY <1>1 DEF Tuples, SeqOf
  <2>3. Live' = Live /\ Usable \subseteq Usable'
    BY <2>1, UsableKept DEF Live
  <2>4. \A p \in Live' : \A j \in DOMAIN operands'[p] :
           \/ p \in Live /\ j \in DOMAIN operands[p] /\ operands'[p][j] = operands[p][j]
           \/ operands'[p][j] \in Usable /\ Visible(p, operands'[p][j])
    BY <1>1, <2>1, <2>2, <2>3
  <2> QED  BY <1>1, <2>1, <2>3, <2>4, OperandsStep
<1>6. ASSUME NEW v \in Value, NEW w \in Usable, ReplaceBy(v, w)
      PROVE  ScopeInv'
  <2> DEFINE sub == [x \in {v} |-> w]
  <2>1. /\ operands' = OperandsReplaced(uses, sub) /\ \A u \in uses[v] : Visible(u[1], w)
        /\ UNCHANGED <<args, block, created, dropped, failed>>
    BY <1>6 DEF ReplaceBy, Replace, blockVars
  <2>2. DOMAIN sub = {v} /\ sub[v] = w
    OBVIOUS
  <2> HIDE DEF sub
  <2>3. Live' = Live /\ Usable \subseteq Usable'
    BY <2>1, UsableKept DEF Live
  <2>4. ASSUME NEW p \in Live', NEW j \in DOMAIN operands'[p]
        PROVE  \/ p \in Live /\ j \in DOMAIN operands[p] /\ operands'[p][j] = operands[p][j]
               \/ operands'[p][j] \in Usable /\ Visible(p, operands'[p][j])
    <3>1. /\ j \in DOMAIN operands[p]
          /\ \/ operands'[p][j] = operands[p][j]
             \/ /\ operands[p][j] \in DOMAIN sub /\ <<p, j>> \in uses[operands[p][j]]
                /\ operands'[p][j] = sub[operands[p][j]]
      BY <1>1, <2>1, <2>3, OperandAfterReplace
    <3> QED  BY <2>1, <2>2, <2>3, <3>1
  <2> QED  BY <1>1, <2>1, <2>3, <2>4, OperandsStep
<1> QED  BY <1>3, <1>4, <1>5, <1>6 DEF NextOperands

\* insert_arg adds an argument to its block's list, and none leaves any.
LEMMA InsertedListed ==
  ASSUME Positions, NEW b \in Block, NEW a \in Arg, NEW i \in 1..(Len(args[b]) + 1),
         InsertArg(b, a, i)
  PROVE  /\ \A c \in Block : ToSet(args[c]) \subseteq ToSet(args'[c])
         /\ a \in ToSet(args'[b])
<1> DEFINE s == args[b]
           w == InsertAt(args[b], i, a)
<1>1. s \in Seq(Arg) /\ Len(s) \in Nat /\ DOMAIN s = 1..Len(s)
  BY LenProperties DEF Positions
<1>2. /\ DOMAIN w = 1..(Len(s) + 1)
      /\ \A j \in 1..(Len(s) + 1) : w[j] = IF j < i THEN s[j] ELSE IF j = i THEN a ELSE s[j - 1]
  <2>1. i \in 1..(Len(s) + 1) /\ w = InsertAt(s, i, a)
    OBVIOUS
  <2> HIDE DEF s, w
  <2>2. /\ DOMAIN InsertAt(s, i, a) = 1..(Len(s) + 1)
        /\ \A j \in 1..(Len(s) + 1) :
              InsertAt(s, i, a)[j] = IF j < i THEN s[j] ELSE IF j = i THEN a ELSE s[j - 1]
    BY <1>1, <2>1, InsertedArg
  <2> QED  BY <2>1, <2>2
<1>3. args'[b] = w /\ \A c \in Block \ {b} : args'[c] = args[c]
  BY DEF InsertArg, Positions
<1> HIDE DEF w
<1>4. ASSUME NEW j \in DOMAIN s PROVE \E k \in DOMAIN w : w[k] = s[j]
  <2>1. CASE j < i
    BY <1>1, <1>2, <2>1
  <2>2. CASE j >= i
    <3>1. j + 1 \in DOMAIN w /\ w[j + 1] = s[j]
      BY <1>1, <1>2, <2>2
    <3> QED  BY <3>1
  <2> QED  BY <1>1, <2>1, <2>2
<1>5. ToSet(s) \subseteq ToSet(w)
  BY <1>4 DEF ToSet
<1>6. i \in DOMAIN w /\ w[i] = a
  BY <1>1, <1>2
<1>7. a \in ToSet(w)
  BY <1>6 DEF ToSet
<1> HIDE DEF s
<1> QED  BY <1>3, <1>5, <1>7 DEF s

\* erase_arg takes out its argument, when that is in the list, and no other.
LEMMA ErasedListed ==
  ASSUME Positions, NEW b \in Block, NEW a \in Arg, NEW safe \in BOOLEAN,
         EraseArg(b, a, safe), a \in ToSet(args[b]), NEW c \in Block
  PROVE  ToSet(args[c]) \ {a} \subseteq ToSet(args'[c])
<1> DEFINE s == args[b]
           k == index[a]
           w == RemoveAt(s, k)
<1>1. s \in Seq(Arg) /\ Len(s) \in Nat /\ DOMAIN s = 1..Len(s)
  BY LenProperties DEF Positions
<1>2. k \in DOMAIN s /\ s[k] = a
  BY DEF Positions, ArgIndexInv, ToSet
<1>3. args'[b] = w /\ \A d \in Block \ {b} : args'[d] = args[d]
  BY <1>2 DEF EraseArg, WithoutArg, Positions
<1>4. /\ DOMAIN w = 1..(Len(s) - 1)
      /\ \A j \in 1..(Len(s) - 1) : w[j] = IF j < k THEN s[j] ELSE s[j + 1]
  <2> HIDE DEF s, k
  <2> QED  BY <1>1, <1>2, RemovedAt
<1> HIDE DEF w
<1>5. ASSUME NEW j \in DOMAIN s, s[j] # a PROVE s[j] \in ToSet(w)
  <2> HIDE DEF s, k
  <2>1. k \in 1..Len(s) /\ j \in 1..Len(s) /\ j # k
    BY <1>1, <1>2, <1>5
  <2>2. CASE j < k
    <3>1. j \in DOMAIN w /\ w[j] = s[j]
      BY <1>1, <1>4, <2>1, <2>2
    <3> QED  BY <3>1 DEF ToSet
  <2>3. CASE j > k
    <3>1. j - 1 \in DOMAIN w /\ w[j - 1] = s[j]
      BY <1>1, <1>4, <2>1, <2>3
    <3> QED  BY <3>1 DEF ToSet
  <2> QED  BY <2>1, <2>2, <2>3
<1>6. \A y \in ToSet(s) : y # a => y \in ToSet(w)
  BY <1>5 DEF ToSet
<1> QED  BY <1>3, <1>6

LEMMA NextArgsScope ==
  ASSUME ScopeInv, NextArgs
  PROVE  ScopeInv'
<1>1. IInv /\ IInv' /\ AllFine /\ Positions
  BY ScopeParts, NextArgsStep, IInvParts
<1>2. PICK b \in Block, a \in Arg : \E i \in 1..(Len(args[b]) + 1) : InsertArg(b, a, i)
  BY DEF NextArgs
<1>3. PICK i \in 1..(Len(args[b]) + 1) : InsertArg(b, a, i)
  BY <1>2
<1>4. /\ block[a] = NULL /\ block' = [block EXCEPT ![a] = b]
      /\ args' = [args EXCEPT ![b] = InsertAt(args[b], i, a)]
      /\ UNCHANGED <<operands, created, dropped, failed>>
  BY <1>3 DEF InsertArg
<1>5. \A x \in Arg : block[x] # NULL => block'[x] = block[x]
  BY <1>1, <1>4 DEF Positions
<1>6. ListedArgs \subseteq ListedArgs'
  BY <1>1, <1>3, InsertedListed DEF ListedArgs
<1>7. Usable \subseteq Usable' /\ Live' = Live
  BY <1>4, <1>6 DEF Usable, Live
<1>8. AllFine'
  <2>1. \A o \in Live' : \A j \in DOMAIN operands'[o] :
           /\ Fine(o, operands'[o][j])
           /\ operands'[o][j] \in Usable => operands'[o][j] \in Usable' \cup failed'
    BY <1>1, <1>4, <1>7 DEF AllFine
  <2>2. failed \subseteq failed'
    BY <1>4
  <2> QED  BY <1>5, <2>1, <2>2, AllFineNext
<1> QED  BY <1>1, <1>8, ScopeNext

\* What replace_op puts in the place of a result.
LEMMA SubstitutedBy ==
  ASSUME NEW o \in Op, NEW new \in NewResults(o), NEW n \in 0..Len(ResultsOf[o]),
         NEW r \in DOMAIN Substitution(o, new, n)
  PROVE  /\ r \in ToSet(ResultsOf[o]) /\ r \in Result
         /\ \/ Substitution(o, new, n)[r] \in ErasedValue
            \/ \E k \in DOMAIN new : /\ ResultsOf[o][k] = r /\ new[k] # NULL
                                     /\ Substitution(o, new, n)[r] = new[k]
<1> DEFINE R == ResultsOf[o]
           D == {R[k] : k \in 1..n}
<1>1. R \in Seq(Result) /\ Len(R) \in Nat /\ DOMAIN R = 1..Len(R)
  BY Shape, LenProperties
<1>2. \A k \in 1..n : k \in DOMAIN R /\ R[k] \in Result /\ R[k] \in ToSet(R)
  BY <1>1, ElementOfSeq DEF ToSet
<1>3. r \in D /\ DOMAIN new = DOMAIN R
  BY DEF Substitution, NewResults
<1> DEFINE k == CHOOSE j \in 1..n : R[j] = r
<1>4. k \in 1..n /\ R[k] = r
  BY <1>3
<1>5. Substitution(o, new, n)[r] = IF new[k] = NULL THEN Erased(r) ELSE new[k]
  BY <1>3 DEF Substitution
<1> HIDE DEF k
<1>6. r \in Result /\ r \in ToSet(R) /\ k \in DOMAIN new
  BY <1>2, <1>3, <1>4
<1>7. Erased(r) \in ErasedValue
  BY <1>6 DEF ErasedValue
<1> QED  BY <1>4, <1>5, <1>6, <1>7

LEMMA EraseArgScope ==
  ASSUME ScopeInv, IInv', ~Retry, NEW b \in Block, NEW a \in Arg, NEW safe \in BOOLEAN,
         EraseArg(b, a, safe)
  PROVE  ScopeInv'
<1>1. /\ IInv /\ AllFine /\ Positions /\ Tuples(operands) /\ Matches(uses, operands, Live)
      /\ Live \in SUBSET Op
  BY ScopeParts, IInvParts DEF Live
<1>2. /\ a \in ToSet(args[b]) /\ EraseValues(uses, {a}, safe)
      /\ UNCHANGED <<block, created, dropped>>
  BY DEF EraseArg
<1>3. ListedArgs \ {a} \subseteq ListedArgs'
  <2>1. \A c \in Block : ToSet(args[c]) \ {a} \subseteq ToSet(args'[c])
    BY <1>1, <1>2, ErasedListed
  <2> QED  BY <2>1 DEF ListedArgs
<1>4. Live' = Live /\ Usable \ {a} \subseteq Usable'
  BY <1>2, <1>3 DEF Usable, Live
<1>5. failed \subseteq failed'
  BY <1>2, EraseKeepsFailed
<1>6. ASSUME NEW o \in Live', NEW i \in DOMAIN operands'[o], operands'[o][i] \notin ErasedValue
       PROVE  /\ Fine(o, operands'[o][i])
              /\ operands'[o][i] \in Usable => operands'[o][i] \in Usable' \cup failed'
  <2>1. {a} \in SUBSET (Arg \cup Result) /\ o \in Live
    BY <1>4
  <2>2. /\ i \in DOMAIN operands[o] /\ operands'[o][i] = operands[o][i]
        /\ operands[o][i] \in {a} => operands[o][i] \in failed'
    <3> DEFINE V == {a}
    <3>1. V \in SUBSET (Arg \cup Result) /\ EraseValues(uses, V, safe)
      BY <1>2, <2>1
    <3> HIDE DEF V
    <3>2. /\ i \in DOMAIN operands[o] /\ operands'[o][i] = operands[o][i]
          /\ operands[o][i] \in V => operands[o][i] \in failed'
      BY <1>1, <1>6, <2>1, <3>1, OperandAfterErase
    <3> QED  BY <3>2 DEF V
  <2> QED  BY <1>1, <1>4, <2>1, <2>2 DEF AllFine
<1>7. AllFine'
  <2>1. \A x \in Arg : block[x] # NULL => block'[x] = block[x]
    BY <1>2
  <2> QED  BY <1>5, <1>6, <2>1, AllFineNext
<1> QED  BY <1>7, ScopeNext

LEMMA ReplaceOpScope ==
  ASSUME ScopeInv, IInv', Scoped, NEW o \in Live, NEW new \in NewResults(o), NEW safe \in BOOLEAN,
         ReplaceOp(o, new, safe)
  PROVE  ScopeInv'
<1>1. /\ IInv /\ AllFine /\ Positions /\ Tuples(operands) /\ Matches(uses, operands, Live)
      /\ Live \in SUBSET Op /\ o \in Op
  BY ScopeParts, IInvParts DEF Live
<1> DEFINE n == Len(ResultsOf[o])
           sub == Substitution(o, new, n)
           S == Subtree[o]
           V == UNION {ToSet(ResultsOf[p]) : p \in {o} \cap Live}
<1>2. /\ InScope(o, new) /\ operands' = OperandsReplaced(uses, sub)
      /\ dropped' = dropped \cup S /\ UNCHANGED <<args, block, created, failed>>
  BY DEF ReplaceOp, blockVars
<1>3. V = ToSet(ResultsOf[o])
  BY <1>1
<1>4. S \in SUBSET Op /\ Live' = Live \ S /\ \A p \in S \ {o} : BlockSubtree(Holder[p]) \subseteq S
  BY <1>1, <1>2, TreeTypes, Nested DEF Live
<1>5. n \in 0..Len(ResultsOf[o]) /\ DOMAIN sub = ToSet(ResultsOf[o])
  <2>1. ResultsOf[o] \in Seq(Result) /\ n \in Nat /\ DOMAIN ResultsOf[o] = 1..n
    BY <1>1, Shape, LenProperties
  <2>2. DOMAIN sub = {ResultsOf[o][k] : k \in 1..n}
    BY DEF Substitution
  <2> QED  BY <2>1, <2>2 DEF ToSet
<1>6. \A k \in DOMAIN new : new[k] # NULL => new[k] \in Usable /\ new[k] \notin ToSet(ResultsOf[o])
  BY DEF NewResults
<1>7. ASSUME NEW r \in DOMAIN sub
      PROVE  \/ sub[r] \in ErasedValue
             \/ \E k \in DOMAIN new : ResultsOf[o][k] = r /\ new[k] # NULL /\ sub[r] = new[k]
  BY <1>1, <1>5, SubstitutedBy
<1> HIDE DEF n, sub, S, V
<1>8. ASSUME NEW p \in Live', NEW i \in DOMAIN operands'[p], operands'[p][i] \notin ErasedValue
      PROVE  /\ Fine(p, operands'[p][i])
             /\ operands'[p][i] \in Usable => operands'[p][i] \in Usable' \cup failed'
  <2>1. p \in Live /\ p \in Op \ S
    BY <1>1, <1>4
  <2>2. /\ i \in DOMAIN operands[p]
        /\ \/ operands[p][i] \notin DOMAIN sub /\ operands'[p][i] = operands[p][i]
           \/ /\ operands[p][i] \in DOMAIN sub /\ <<p, i>> \in uses[operands[p][i]]
              /\ operands'[p][i] = sub[operands[p][i]]
    <3>1. i \in DOMAIN OperandsReplaced(uses, sub)[p]
      BY <1>2
    <3> QED  BY <1>1, <1>2, <2>1, <3>1, OperandAfterReplace
  <2>3. Fine(p, operands'[p][i]) /\ operands'[p][i] \notin V
    <3>1. CASE operands[p][i] \notin DOMAIN sub /\ operands'[p][i] = operands[p][i]
      BY <1>1, <1>3, <1>5, <2>1, <2>2, <3>1 DEF AllFine
    <3>2. CASE /\ operands[p][i] \in DOMAIN sub /\ <<p, i>> \in uses[operands[p][i]]
               /\ operands'[p][i] = sub[operands[p][i]]
      <4>1. PICK k \in DOMAIN new : /\ ResultsOf[o][k] = operands[p][i] /\ new[k] # NULL
                                    /\ operands'[p][i] = new[k]
        BY <1>7, <1>8, <3>2
      <4>2. Visible(p, new[k])
        <5>1. \A u \in uses[ResultsOf[o][k]] : Visible(u[1], new[k])
          BY <1>2, <4>1 DEF InScope
        <5>2. <<p, i>> \in uses[ResultsOf[o][k]]
          BY <3>2, <4>1
        <5> QED  BY <5>1, <5>2
      <4>3. new[k] \in Usable /\ new[k] \notin V
        BY <1>3, <1>6, <4>1
      <4> QED  BY <1>1, <4>1, <4>2, <4>3, NewFine
    <3> QED  BY <2>2, <3>1, <3>2
  <2>4. operands'[p][i] \in Usable => operands'[p][i] \in Usable'
    <3>1. ASSUME NEW v \in Usable, Fine(p, v), v \notin V PROVE v \in Usable'
      BY <1>2, <1>4, <2>1, <3>1, StillUsable DEF V
    <3> QED  BY <2>3, <3>1
  <2> QED  BY <2>3, <2>4
<1>9. AllFine'
  <2>1. failed \subseteq failed' /\ \A a \in Arg : block[a] # NULL => block'[a] = block[a]
    BY <1>2
  <2> QED  BY <1>8, <2>1, AllFineNext
<1> QED  BY <1>9, ScopeNext

LEMMA ReplaceOpRaisesScope ==
  ASSUME ScopeInv, IInv', NEW o \in Live, NEW new \in NewResults(o), NEW k \in DOMAIN new,
         ReplaceOpRaises(o, new, k)
  PROVE  ScopeInv'
<1>1. /\ IInv /\ Tuples(operands) /\ Matches(uses, operands, Live) /\ Live \in SUBSET Op /\ o \in Op
  BY ScopeParts, IInvParts DEF Live
<1> DEFINE n == k - 1
           sub == Substitution(o, new, n)
<1>2. /\ InScope(o, new) /\ operands' = OperandsReplaced(uses, sub)
      /\ UNCHANGED <<args, block, created, dropped, failed>>
  BY DEF ReplaceOpRaises, Replace, blockVars
<1>3. n \in 0..Len(ResultsOf[o])
  <2>1. DOMAIN new = DOMAIN ResultsOf[o]
    BY DEF NewResults
  <2>2. DOMAIN ResultsOf[o] = 1..Len(ResultsOf[o]) /\ Len(ResultsOf[o]) \in Nat
    BY <1>1, Shape, LenProperties
  <2> QED  BY <2>1, <2>2
<1>4. \A j \in DOMAIN new : new[j] # NULL => new[j] \in Usable
  BY DEF NewResults
<1> HIDE DEF n
<1>5. ASSUME NEW r \in DOMAIN sub
      PROVE  \/ sub[r] \in ErasedValue
             \/ \E j \in DOMAIN new : ResultsOf[o][j] = r /\ new[j] # NULL /\ sub[r] = new[j]
  BY <1>1, <1>3, SubstitutedBy
<1> HIDE DEF sub
<1>6. Live' = Live /\ Usable \subseteq Usable'
  BY <1>2, UsableKept DEF Live
<1>7. ASSUME NEW p \in Live', NEW i \in DOMAIN operands'[p], operands'[p][i] \notin ErasedValue
      PROVE  \/ p \in Live /\ i \in DOMAIN operands[p] /\ operands'[p][i] = operands[p][i]
             \/ operands'[p][i] \in Usable /\ Visible(p, operands'[p][i])
  <2>1. /\ i \in DOMAIN operands[p]
        /\ \/ operands[p][i] \notin DOMAIN sub /\ operands'[p][i] = operands[p][i]
           \/ /\ operands[p][i] \in DOMAIN sub /\ <<p, i>> \in uses[operands[p][i]]
              /\ operands'[p][i] = sub[operands[p][i]]
    <3>1. i \in DOMAIN OperandsReplaced(uses, sub)[p]
      BY <1>2
    <3> QED  BY <1>1, <1>2, <1>6, <3>1, OperandAfterReplace
  <2>2. CASE operands'[p][i] = operands[p][i]
    BY <1>6, <2>1, <2>2
  <2>3. CASE /\ operands[p][i] \in DOMAIN sub /\ <<p, i>> \in uses[operands[p][i]]
             /\ operands'[p][i] = sub[operands[p][i]]
    <3>1. PICK j \in DOMAIN new : /\ ResultsOf[o][j] = operands[p][i] /\ new[j] # NULL
                                  /\ operands'[p][i] = new[j]
      BY <1>5, <1>7, <2>3
    <3>2. \A u \in uses[ResultsOf[o][j]] : Visible(u[1], new[j])
      BY <1>2, <3>1 DEF InScope
    <3>3. <<p, i>> \in uses[ResultsOf[o][j]]
      BY <2>3, <3>1
    <3> QED  BY <1>4, <3>1, <3>2, <3>3
  <2> QED  BY <2>1, <2>2, <2>3
<1> QED  BY <1>2, <1>6, <1>7, OperandsStep

LEMMA NextEraseScope ==
  ASSUME ScopeInv, Scoped, ~Retry, NextErase
  PROVE  ScopeInv'
<1>1. IInv /\ IInv' /\ Live \in SUBSET Op
  BY ScopeParts, NextEraseStep, IInvParts DEF Live
<1>2. ASSUME NEW o \in Live, NEW safe \in BOOLEAN, EraseOp(o, safe)
      PROVE  ScopeInv'
  <2> DEFINE S == Subtree[o]
             V == ToSet(ResultsOf[o])
  <2>1. /\ EraseValues(UsesDropped(uses, S), V, safe) /\ dropped' = dropped \cup S
        /\ UNCHANGED <<args, block, created>>
    BY <1>2 DEF EraseOp, blockVars
  <2>2. o \in Op /\ S \in SUBSET Op /\ V \in SUBSET Result
    BY <1>1, TreeTypes
  <2>3. V = UNION {ToSet(ResultsOf[p]) : p \in {o} \cap Live}
    OBVIOUS
  <2>4. \A p \in S \ {o} : BlockSubtree(Holder[p]) \subseteq S
    BY <2>2, Nested
  <2> HIDE DEF S, V
  <2> QED  BY <1>1, <2>1, <2>2, <2>3, <2>4, EraseTreeScope
<1>3. ASSUME NEW b \in Block, NEW safe \in BOOLEAN, EraseBlock(b, safe)
      PROVE  ScopeInv'
  <2> DEFINE S == BlockSubtree(b)
             V == UNION {ToSet(ResultsOf[p]) : p \in Body(b) \cap Live}
  <2>1. /\ EraseValues(UsesDropped(uses, S), V, safe) /\ dropped' = dropped \cup S
        /\ UNCHANGED <<args, block, created>>
    BY <1>3 DEF EraseBlock, blockVars
  <2>2. S \in SUBSET Op /\ V \in SUBSET Result
    BY <1>1, TreeTypes
  <2>3. V = UNION {ToSet(ResultsOf[p]) : p \in Body(b) \cap Live}
    OBVIOUS
  <2>4. \A p \in S \ Body(b) : BlockSubtree(Holder[p]) \subseteq S
    BY NestedInBlock
  <2> HIDE DEF S, V
  <2> QED  BY <1>1, <2>1, <2>2, <2>3, <2>4, EraseTreeScope
<1>4. ASSUME NEW b \in Block, NEW a \in Arg, NEW safe \in BOOLEAN, EraseArg(b, a, safe)
      PROVE  ScopeInv'
  BY <1>1, <1>4, EraseArgScope
<1>5. ASSUME NEW o \in Live, NEW new \in NewResults(o), NEW safe \in BOOLEAN,
             ReplaceOp(o, new, safe)
      PROVE  ScopeInv'
  BY <1>1, <1>5, ReplaceOpScope
<1>6. ASSUME NEW o \in Live, NEW new \in NewResults(o), NEW k \in DOMAIN new,
             ReplaceOpRaises(o, new, k)
      PROVE  ScopeInv'
  BY <1>1, <1>6, ReplaceOpRaisesScope
<1> QED  BY <1>2, <1>3, <1>4, <1>5, <1>6 DEF NextErase

----------------------------------------------------------------------------
(* The theorems. *)

\* Erasing operations, blocks and arguments, replacing them and the calls among these
\* that raise never leave a live operation with an operand that has gone without a
\* trace: it is an ErasedSSAValue, or the erasure was checked and raised.  For operands
\* that are visible where they are used (Scoped) and callers that do not repeat an
\* erase_arg that raised (Retry): both are needed.
THEOREM NothingDangles ==
  ASSUME Scoped, ~Retry
  PROVE  Spec => []NoDangling
<1>1. Init => ScopeInv
  <2> SUFFICES ASSUME Init PROVE ScopeInv
    OBVIOUS
  <2>1. IInv /\ Live = {}
    BY InitIInv DEF Init, Live
  <2> QED  BY <2>1 DEF ScopeInv, NoDangling, OperandsVisible
<1>2. ScopeInv /\ [Next]_vars => ScopeInv'
  <2> SUFFICES ASSUME ScopeInv, [Next]_vars PROVE ScopeInv'
    OBVIOUS
  <2>1. CASE Next
    BY <2>1, NextOperandsScope, NextEraseScope, NextArgsScope DEF Next
  <2>2. CASE UNCHANGED vars
    <3>1. IInv'
      BY <2>2 DEF vars, ScopeInv, IInv, TypeOK, UseDefInv, Matches, Live, ArgIndexInv, IndexPositive
    <3>2. NoDangling' /\ OperandsVisible'
      BY <2>2 DEF vars, ScopeInv, NoDangling, OperandsVisible, Visible, Live, Usable, ListedArgs
    <3> QED  BY <3>1, <3>2 DEF ScopeInv
  <2> QED  BY <2>1, <2>2
<1>3. ScopeInv => NoDangling
  BY DEF ScopeInv
<1> QED  BY <1>1, <1>2, <1>3, PTL DEF Spec

\* Block.erase_arg takes no argument out of its block's list but the ones it is given,
\* as long as callers do not repeat a call that raised: the index of an argument that
\* has left the list is the position of another one by then.
THEOREM NoOtherArgErased ==
  ASSUME ~Retry
  PROVE  Spec => []OnlyNamedArgsErased
<1>1. Init => OnlyNamedArgsErased
  BY DEF Init, OnlyNamedArgsErased
<1>2. IInv /\ OnlyNamedArgsErased /\ [Next]_vars => OnlyNamedArgsErased'
  <2> SUFFICES ASSUME IInv, OnlyNamedArgsErased, [Next]_vars,
                      NEW x \in Arg \ asked', block'[x] # NULL
               PROVE  x \in ToSet(args'[block'[x]])
    BY DEF OnlyNamedArgsErased
  <2>0. Positions /\ x \in Arg
    BY IInvParts
  <2>1. CASE UNCHANGED <<args, block, asked>>
    BY <2>1 DEF OnlyNamedArgsErased
  <2>2. ASSUME NEW b \in Block, NEW a \in Arg, NEW safe \in BOOLEAN, EraseArg(b, a, safe)
        PROVE  x \in ToSet(args'[block'[x]])
    <3>1. block' = block /\ asked' = asked \cup {a} /\ a \in ToSet(args[b])
      BY <2>2 DEF EraseArg
    <3>2. x # a /\ block[x] \in Block /\ x \in ToSet(args[block[x]])
      BY <2>0, <3>1 DEF OnlyNamedArgsErased, Positions
    <3> QED  BY <2>0, <2>2, <3>1, <3>2, ErasedListed
  <2>3. ASSUME NEW b \in Block, NEW a \in Arg, NEW i \in 1..(Len(args[b]) + 1), InsertArg(b, a, i)
        PROVE  x \in ToSet(args'[block'[x]])
    <3>1. block' = [block EXCEPT ![a] = b] /\ asked' = asked
      BY <2>3 DEF InsertArg
    <3>2. (\A c \in Block : ToSet(args[c]) \subseteq ToSet(args'[c])) /\ a \in ToSet(args'[b])
      BY <2>0, <2>3, InsertedListed
    <3>3. CASE x = a
      BY <2>0, <3>1, <3>2, <3>3 DEF Positions
    <3>4. CASE x # a
      <4>1. block'[x] = block[x] /\ block[x] \in Block
        BY <2>0, <3>1, <3>4 DEF Positions
      <4> QED  BY <2>0, <3>1, <3>2, <4>1 DEF OnlyNamedArgsErased
    <3> QED  BY <3>3, <3>4
  <2> QED  BY <2>1, <2>2, <2>3
           DEF Next, NextOperands, NextErase, NextArgs, Create, SetOperands, SetOperand, ReplaceBy,
               EraseOp, EraseBlock, ReplaceOp, ReplaceOpRaises, blockVars, vars
<1> QED  BY <1>1, <1>2, UsesAndPositions, PTL DEF Spec
=============================================================================
