------------------------ MODULE PatternWalker_proofs ------------------------
(***************************************************************************)
(* Proof that PatternRewriteWalker never goes on at an operation that has  *)
(* left the module, for every module, every option of the walker and every *)
(* pattern that neither takes the matched operation's own block away from  *)
(* the walk nor, once it has erased the matched operation, changes the     *)
(* module other than by replacing what it has just put next to it.  The IR *)
(* is seen through the set O[b] of operations of each block b and the set  *)
(* K[o] of blocks of each operation o.                                     *)
(***************************************************************************)
EXTENDS PatternWalker, ListLemmas

\* The blocks inside operation z, at any depth; the operations in them.
Inside(O, K, z) ==
  {b \in Block : \A S \in SUBSET Block :
     K[z] \subseteq S /\ (\A c \in S : \A p \in O[c] : K[p] \subseteq S) => b \in S}
OpsInside(O, K, z) == UNION {O[b] : b \in Inside(O, K, z)}
Live(O, K) == Inside(O, K, Module)

\* An operation is in one block and a block in one operation; the module and the
\* operations in F are in no block.
Forest(O, K, F) ==
  /\ O \in [Block -> SUBSET Op] /\ K \in [Op -> SUBSET Block] /\ F \subseteq Op
  /\ \A b, c \in Block : \A o \in Op : o \in O[b] /\ o \in O[c] => b = c
  /\ \A o, p \in Op : \A b \in Block : b \in K[o] /\ b \in K[p] => o = p
  /\ Module \notin F
  /\ \A b \in Block : Module \notin O[b] /\ \A n \in F : n \notin O[b]

----------------------------------------------------------------------------
(* The blocks inside an operation. *)

\* They are its own blocks, and the blocks of the operations in them.
LEMMA InsideClosed ==
  ASSUME NEW O, NEW K, NEW F, NEW z \in Op, Forest(O, K, F)
  PROVE  /\ Inside(O, K, z) \subseteq Block
         /\ K[z] \subseteq Inside(O, K, z)
         /\ \A c \in Inside(O, K, z) : \A p \in O[c] : K[p] \subseteq Inside(O, K, z)
<1>1. Inside(O, K, z) \subseteq Block
  BY DEF Inside
<1>2. ASSUME NEW b \in K[z] PROVE b \in Inside(O, K, z)
  BY DEF Inside, Forest
<1>3. ASSUME NEW c \in Inside(O, K, z), NEW p \in O[c], NEW b \in K[p] PROVE b \in Inside(O, K, z)
  <2>1. c \in Block /\ p \in Op /\ b \in Block
    BY <1>1 DEF Forest
  <2>2. SUFFICES ASSUME NEW S \in SUBSET Block, K[z] \subseteq S,
                        \A d \in S : \A q \in O[d] : K[q] \subseteq S
                 PROVE  b \in S
    BY <2>1 DEF Inside
  <2>3. c \in S
    BY <2>2 DEF Inside
  <2> QED  BY <2>2, <2>3
<1> QED  BY <1>1, <1>2, <1>3

\* They are the least such set.
LEMMA InsideLeast ==
  ASSUME NEW O, NEW K, NEW z, NEW S \in SUBSET Block, K[z] \subseteq S,
         \A c \in S : \A p \in O[c] : K[p] \subseteq S
  PROVE  Inside(O, K, z) \subseteq S
BY DEF Inside

\* How a block comes to be inside an operation.
LEMMA InsideUnfold ==
  ASSUME NEW O, NEW K, NEW F, NEW z \in Op, Forest(O, K, F), NEW b \in Inside(O, K, z)
  PROVE  b \in K[z] \/ \E c \in Inside(O, K, z) : \E p \in O[c] : b \in K[p]
<1> DEFINE I == Inside(O, K, z)
           S == K[z] \cup {d \in Block : \E c \in I : \E p \in O[c] : d \in K[p]}
<1>1. I \subseteq Block /\ K[z] \subseteq I /\ \A c \in I : \A p \in O[c] : K[p] \subseteq I
  BY InsideClosed
<1> HIDE DEF I
<1>2. S \subseteq I /\ S \subseteq Block
  BY <1>1
<1>3. ASSUME NEW c \in S, NEW p \in O[c], NEW d \in K[p] PROVE d \in S
  BY <1>1, <1>2
<1>4. I \subseteq S
  <2> HIDE DEF S
  <2>1. K[z] \subseteq S
    BY DEF S
  <2> QED  BY <1>2, <1>3, <2>1, InsideLeast DEF I
<1> QED  BY <1>4 DEF I

\* What is inside an operation inside z is inside z.
LEMMA InsideTrans ==
  ASSUME NEW O, NEW K, NEW F, NEW z \in Op, Forest(O, K, F),
         NEW c \in Inside(O, K, z), NEW p \in O[c]
  PROVE  p \in Op /\ Inside(O, K, p) \subseteq Inside(O, K, z)
<1>1. /\ Inside(O, K, z) \subseteq Block
      /\ \A d \in Inside(O, K, z) : \A q \in O[d] : K[q] \subseteq Inside(O, K, z)
  BY InsideClosed
<1>2. p \in Op
  BY <1>1 DEF Forest
<1>3. K[p] \subseteq Inside(O, K, z)
  BY <1>1
<1> QED  BY <1>1, <1>2, <1>3, InsideLeast

\* An operation that is in no block of the module, and is not the module, has
\* nothing of the module inside.
LEMMA DeadInside ==
  ASSUME NEW O, NEW K, NEW F, Forest(O, K, F), NEW z \in Op, z # Module,
         \A b \in Live(O, K) : z \notin O[b]
  PROVE  Inside(O, K, z) \cap Live(O, K) = {}
<1> DEFINE S == {b \in Live(O, K) : b \notin Inside(O, K, z)}
<1>m. Module \in Op
  BY WalkerInput
<1>1. /\ Live(O, K) \subseteq Block /\ K[Module] \subseteq Live(O, K)
      /\ \A c \in Live(O, K) : \A p \in O[c] : K[p] \subseteq Live(O, K)
  BY <1>m, InsideClosed DEF Live
<1>2. \A b \in Inside(O, K, z) : b \in K[z] \/ \E c \in Inside(O, K, z) : \E p \in O[c] : b \in K[p]
  BY InsideUnfold
<1>3. Inside(O, K, z) \subseteq Block
  BY InsideClosed
<1>4. K[Module] \subseteq S
  <2> SUFFICES ASSUME NEW b \in K[Module], b \in Inside(O, K, z) PROVE FALSE
    BY <1>1
  <2>1. b \in Block
    BY <1>3
  <2>2. b \notin K[z]
    BY <1>m, <2>1 DEF Forest
  <2>3. PICK c \in Inside(O, K, z), p \in Op : p \in O[c] /\ b \in K[p]
    BY <1>2, <2>2, <1>3 DEF Forest
  <2>4. c \in Block /\ p \in Op /\ p # Module
    BY <1>3, <2>3 DEF Forest
  <2> QED  BY <1>m, <2>1, <2>3, <2>4 DEF Forest
<1>5. ASSUME NEW c \in S, NEW q \in O[c], NEW b \in K[q] PROVE b \in S
  <2>1. c \in Block /\ q \in Op /\ b \in Block /\ b \in Live(O, K) /\ q # z
    BY <1>1 DEF Forest
  <2> SUFFICES ASSUME b \in Inside(O, K, z) PROVE FALSE
    BY <2>1
  <2>2. b \notin K[z]
    BY <2>1 DEF Forest
  <2>3. PICK d \in Inside(O, K, z), r \in Op : r \in O[d] /\ b \in K[r]
    BY <1>2, <2>2, <1>3 DEF Forest
  <2>4. d \in Block /\ r \in Op
    BY <1>3 DEF Forest
  <2>5. r = q
    BY <2>1, <2>3, <2>4 DEF Forest
  <2>6. d = c
    BY <2>1, <2>3, <2>4, <2>5 DEF Forest
  <2> QED  BY <2>6
<1>6. Live(O, K) \subseteq S
  <2>1. S \in SUBSET Block
    BY <1>1
  <2> HIDE DEF S
  <2> QED  BY <1>4, <1>5, <2>1, InsideLeast DEF Live
<1> QED  BY <1>6

\* In the module, no operation is inside itself.
LEMMA NotInItself ==
  ASSUME NEW O, NEW K, NEW F, Forest(O, K, F), NEW h \in Live(O, K), NEW z \in O[h]
  PROVE  h \notin Inside(O, K, z)
<1> DEFINE S == {b \in Live(O, K) : \A p \in O[b] : b \notin Inside(O, K, p)}
<1>m. Module \in Op
  BY WalkerInput
<1>1. /\ Live(O, K) \subseteq Block /\ K[Module] \subseteq Live(O, K)
      /\ \A c \in Live(O, K) : \A p \in O[c] : K[p] \subseteq Live(O, K)
  BY <1>m, InsideClosed DEF Live
<1>2. ASSUME NEW p \in Op, NEW b \in Inside(O, K, p)
      PROVE  b \in K[p] \/ \E c \in Inside(O, K, p) : \E q \in O[c] : b \in K[q]
  BY InsideUnfold
<1>3. ASSUME NEW p \in Op PROVE Inside(O, K, p) \subseteq Block
  BY InsideClosed
<1>4. K[Module] \subseteq S
  <2> SUFFICES ASSUME NEW b \in K[Module], NEW p \in O[b], b \in Inside(O, K, p) PROVE FALSE
    BY <1>1
  <2>1. b \in Block /\ p \in Op /\ p # Module
    BY <1>1 DEF Forest
  <2>2. b \notin K[p]
    BY <1>m, <2>1 DEF Forest
  <2>3. PICK c \in Inside(O, K, p), q \in Op : q \in O[c] /\ b \in K[q]
    BY <1>2, <2>1, <2>2, <1>3 DEF Forest
  <2>4. c \in Block /\ q \in Op /\ q # Module
    BY <1>3, <2>1, <2>3 DEF Forest
  <2> QED  BY <1>m, <2>1, <2>3, <2>4 DEF Forest
<1>5. ASSUME NEW c \in S, NEW q \in O[c], NEW b \in K[q] PROVE b \in S
  <2>1. c \in Block /\ q \in Op /\ b \in Block /\ b \in Live(O, K) /\ c \notin Inside(O, K, q)
    BY <1>1 DEF Forest
  <2> SUFFICES ASSUME NEW p \in O[b], b \in Inside(O, K, p) PROVE FALSE
    BY <2>1
  <2>2. p \in Op
    BY <2>1 DEF Forest
  <2>3. b \in Inside(O, K, q)
    BY <2>1, InsideClosed
  <2>4. b \notin K[p]
    <3> SUFFICES ASSUME b \in K[p] PROVE FALSE
      OBVIOUS
    <3>1. p = q
      BY <2>1, <2>2 DEF Forest
    <3>2. b = c
      BY <2>1, <3>1 DEF Forest
    <3> QED  BY <2>1, <2>3, <3>2
  <2>5. PICK d \in Inside(O, K, p), r \in Op : r \in O[d] /\ b \in K[r]
    BY <1>2, <2>2, <2>4, <1>3 DEF Forest
  <2>6. d \in Block /\ r \in Op
    BY <1>3, <2>2 DEF Forest
  <2>7. r = q
    BY <2>1, <2>5, <2>6 DEF Forest
  <2>8. d = c
    BY <2>1, <2>5, <2>6, <2>7 DEF Forest
  <2>9. Inside(O, K, p) \subseteq Inside(O, K, q)
    BY <2>1, <2>3, InsideTrans
  <2> QED  BY <2>1, <2>8, <2>9
<1>6. Live(O, K) \subseteq S
  <2>1. S \in SUBSET Block
    BY <1>1
  <2> HIDE DEF S
  <2> QED  BY <1>4, <1>5, <2>1, InsideLeast DEF Live
<1> QED  BY <1>6

----------------------------------------------------------------------------
(* What an activation relies on. *)

\* An operation in the module.
Placed(O, K, r) == r = Module \/ r \in OpsInside(O, K, Module)

\* Operation z has none of the blocks W and the operations R inside, and is none of
\* them; nor has or is any operation of block b.
Apart(O, K, z, W, R) ==
  W \cap Inside(O, K, z) = {} /\ z \notin R /\ R \cap OpsInside(O, K, z) = {}
Clear(O, K, b, W, R) == \A z \in O[b] : Apart(O, K, z, W, R)

\* What has nothing of W and R inside has no operation inside that has.
LEMMA ApartInside ==
  ASSUME NEW O, NEW K, NEW F, Forest(O, K, F), NEW W, NEW R, NEW z \in Op, Apart(O, K, z, W, R),
         NEW b \in Inside(O, K, z)
  PROVE  Clear(O, K, b, W, R)
<1> SUFFICES ASSUME NEW w \in O[b] PROVE Apart(O, K, w, W, R)
  BY DEF Clear
<1>1. w \in Op /\ Inside(O, K, w) \subseteq Inside(O, K, z)
  BY InsideTrans
<1>2. w \in OpsInside(O, K, z) /\ OpsInside(O, K, w) \subseteq OpsInside(O, K, z)
  BY <1>1 DEF OpsInside
<1> QED  BY <1>1, <1>2 DEF Apart

\* Operations of one block are apart: the blocks of q are not in what p holds.
LEMMA Siblings ==
  ASSUME NEW O, NEW K, NEW F, Forest(O, K, F), NEW h \in Live(O, K), NEW p \in O[h], NEW q \in O[h],
         NEW b \in Inside(O, K, p), NEW w \in O[b]
  PROVE  K[q] \cap Inside(O, K, w) = {} /\ q # w /\ q \notin OpsInside(O, K, w)
<1>m. Module \in Op
  BY WalkerInput
<1>1. h \in Block /\ p \in Op /\ q \in Op
  BY <1>m, InsideClosed DEF Live, Forest
<1>2. h \notin Inside(O, K, p)
  BY NotInItself
<1>3. Inside(O, K, p) \subseteq Block /\ w \in Op /\ Inside(O, K, w) \subseteq Inside(O, K, p)
  BY <1>1, InsideClosed, InsideTrans
<1>4. q # w
  <2>1. b # h /\ b \in Block
    BY <1>2, <1>3
  <2> QED  BY <1>1, <2>1 DEF Forest
<1>5. \A d \in Inside(O, K, w) : q \notin O[d]
  <2> SUFFICES ASSUME NEW d \in Inside(O, K, w), q \in O[d] PROVE FALSE
    OBVIOUS
  <2>1. d \in Block /\ d # h
    BY <1>2, <1>3
  <2> QED  BY <1>1, <2>1 DEF Forest
<1>6. K[q] \cap Inside(O, K, w) = {}
  <2> SUFFICES ASSUME NEW y \in K[q], y \in Inside(O, K, w) PROVE FALSE
    OBVIOUS
  <2>1. y \in Block
    BY <1>3
  <2>2. y \notin K[w]
    BY <1>1, <1>3, <1>4, <2>1 DEF Forest
  <2>3. PICK d \in Inside(O, K, w) : \E r \in O[d] : y \in K[r]
    BY <1>3, <2>2, InsideUnfold
  <2>4. PICK r \in O[d] : y \in K[r]
    BY <2>3
  <2>5. d \in Block /\ r \in Op
    BY <1>3 DEF Forest
  <2>6. r = q
    BY <1>1, <2>1, <2>4, <2>5 DEF Forest
  <2> QED  BY <1>5, <2>6
<1> QED  BY <1>4, <1>5, <1>6 DEF OpsInside

\* The same of the module itself.
LEMMA ModuleApart ==
  ASSUME NEW O, NEW K, NEW F, Forest(O, K, F), NEW b \in Block, NEW w \in O[b]
  PROVE  K[Module] \cap Inside(O, K, w) = {} /\ Module # w /\ Module \notin OpsInside(O, K, w)
<1>m. Module \in Op
  BY WalkerInput
<1>1. w \in Op /\ w # Module
  BY DEF Forest
<1>2. Inside(O, K, w) \subseteq Block
  BY <1>1, InsideClosed
<1>3. \A d \in Inside(O, K, w) : Module \notin O[d]
  BY <1>2 DEF Forest
<1>4. K[Module] \cap Inside(O, K, w) = {}
  <2> SUFFICES ASSUME NEW y \in K[Module], y \in Inside(O, K, w) PROVE FALSE
    OBVIOUS
  <2>1. y \in Block
    BY <1>2
  <2>2. y \notin K[w]
    BY <1>m, <1>1, <2>1 DEF Forest
  <2>3. PICK d \in Inside(O, K, w) : \E r \in O[d] : y \in K[r]
    BY <1>1, <2>2, InsideUnfold
  <2>4. PICK r \in O[d] : y \in K[r]
    BY <2>3
  <2>5. d \in Block /\ r \in Op
    BY <1>2 DEF Forest
  <2>6. r = Module
    BY <1>m, <2>1, <2>4, <2>5 DEF Forest
  <2> QED  BY <1>3, <2>6
<1> QED  BY <1>1, <1>3, <1>4 DEF OpsInside

----------------------------------------------------------------------------
(* What a rewrite may change. *)

\* The blocks inside the operations Z.  An operation of the module that is neither one
\* of them nor inside one is fixed.
Under(O, K, Z) == UNION {Inside(O, K, z) : z \in Z}
Fixed(O, K, Z, p) == Placed(O, K, p) /\ p \notin Z /\ \A b \in Under(O, K, Z) : p \notin O[b]

\* A rewrite of operations Z of block h changes h, what is inside Z and what is not in
\* the module; in h it keeps all but Z, and fixed operations keep their blocks.
Local(O, K, O2, K2, Z, h) ==
  /\ \A b \in Live(O, K) : b \notin Under(O, K, Z) /\ b # h => O2[b] = O[b]
  /\ O[h] \ Z \subseteq O2[h]
  /\ \A p \in Op : Fixed(O, K, Z, p) => K2[p] = K[p]

LEMMA UnderIs ==
  ASSUME NEW O, NEW K, NEW F, Forest(O, K, F), NEW h \in Live(O, K), NEW Z \in SUBSET O[h]
  PROVE  /\ h \in Block /\ Z \subseteq Op /\ Module \notin Z
         /\ Under(O, K, Z) \subseteq Block /\ h \notin Under(O, K, Z)
         /\ \A z \in Z : K[z] \subseteq Under(O, K, Z)
         /\ \A c \in Under(O, K, Z) : \A p \in O[c] : K[p] \subseteq Under(O, K, Z)
<1>1. h \in Block /\ Z \subseteq Op /\ Module \notin Z
  BY DEF Live, Inside, Forest
<1>2. ASSUME NEW z \in Z
      PROVE  /\ Inside(O, K, z) \subseteq Block /\ K[z] \subseteq Inside(O, K, z)
             /\ \A c \in Inside(O, K, z) : \A p \in O[c] : K[p] \subseteq Inside(O, K, z)
             /\ h \notin Inside(O, K, z)
  BY <1>1, InsideClosed, NotInItself
<1> QED  BY <1>1, <1>2 DEF Under

\* A fixed operation stays in its block.
LEMMA FixedStays ==
  ASSUME NEW O, NEW K, NEW O2, NEW K2, NEW F, Forest(O, K, F), NEW h \in Live(O, K), NEW Z \in SUBSET O[h],
         Local(O, K, O2, K2, Z, h), NEW p, Fixed(O, K, Z, p), p # Module
  PROVE  \E c \in Live(O, K) : c \notin Under(O, K, Z) /\ p \in O[c] /\ p \in O2[c]
<1>1. PICK c \in Live(O, K) : p \in O[c]
  BY DEF Fixed, Placed, OpsInside, Live
<1>2. c \notin Under(O, K, Z) /\ p \notin Z
  BY <1>1 DEF Fixed
<1>3. p \in O2[c]
  BY <1>1, <1>2 DEF Local
<1> QED  BY <1>1, <1>2, <1>3

\* What another operation has in the end comes from inside Z, or from outside the
\* module.
LEMMA UnfixedKids ==
  ASSUME NEW O, NEW K, NEW O2, NEW K2, NEW F, NEW F2, Forest(O, K, F), Forest(O2, K2, F2),
         NEW h \in Live(O, K), NEW Z \in SUBSET O[h], Local(O, K, O2, K2, Z, h),
         NEW p \in Op, ~Fixed(O, K, Z, p)
  PROVE  K2[p] \subseteq Under(O, K, Z) \cup (Block \ Live(O, K))
<1> DEFINE U == Under(O, K, Z)
<1>m. Module \in Op
  BY WalkerInput
<1>1. /\ Module \notin Z /\ U \subseteq Block /\ \A z \in Z : K[z] \subseteq U
      /\ \A c \in U : \A q \in O[c] : K[q] \subseteq U
  BY UnderIs
<1> HIDE DEF U
<1> SUFFICES ASSUME NEW y \in K2[p], y \in Live(O, K), y \notin U PROVE FALSE
  BY DEF Forest, U
<1>2. PICK q \in Op : y \in K[q] /\ Placed(O, K, q)
  <2>1. CASE y \in K[Module]
    BY <1>m, <2>1 DEF Placed
  <2>2. CASE y \notin K[Module]
    <3>1. PICK c \in Live(O, K) : \E q \in O[c] : y \in K[q]
      BY <1>m, <2>2, InsideUnfold DEF Live
    <3>2. PICK q \in O[c] : y \in K[q]
      BY <3>1
    <3>3. q \in Op
      BY DEF Live, Inside, Forest
    <3>4. Placed(O, K, q)
      BY DEF Placed, OpsInside, Live
    <3> QED  BY <3>2, <3>3, <3>4
  <2> QED  BY <2>1, <2>2
<1>3. q \notin Z /\ \A b \in U : q \notin O[b]
  BY <1>1, <1>2
<1>4. Fixed(O, K, Z, q)
  BY <1>2, <1>3 DEF Fixed, U
<1>5. y \in K2[q] /\ y \in Block
  BY <1>2, <1>4 DEF Local, Forest
<1>6. p = q
  BY <1>5 DEF Forest
<1> QED  BY <1>4, <1>6

\* So does what an operation has inside in the end, but for what is in J: blocks
\* that hold all that was inside them and, if the operation is fixed, inside it.
LEMMA ChangedInside ==
  ASSUME NEW O, NEW K, NEW O2, NEW K2, NEW F, NEW F2, Forest(O, K, F), Forest(O2, K2, F2),
         NEW h \in Live(O, K), NEW Z \in SUBSET O[h], Local(O, K, O2, K2, Z, h), NEW w \in Op,
         NEW J \in SUBSET Block, \A c \in J : \A p \in O[c] : K[p] \subseteq J,
         Fixed(O, K, Z, w) => K[w] \subseteq J
  PROVE  Inside(O2, K2, w) \subseteq J \cup Under(O, K, Z) \cup (Block \ Live(O, K))
<1> DEFINE U == Under(O, K, Z)
           S == J \cup U \cup (Block \ Live(O, K))
<1>1. U \subseteq Block
  BY UnderIs
<1>2. ASSUME NEW p \in Op, ~Fixed(O, K, Z, p) PROVE K2[p] \subseteq S
  BY <1>2, UnfixedKids
<1>3. ASSUME NEW p \in Op, Fixed(O, K, Z, p) PROVE K2[p] = K[p]
  BY <1>3 DEF Local
<1>4. K2[w] \subseteq S
  BY <1>2, <1>3
<1>5. ASSUME NEW c \in S, NEW p \in O2[c] PROVE K2[p] \subseteq S
  <2>1. c \in Block /\ p \in Op /\ p # Module
    BY <1>1 DEF Forest
  <2>2. CASE ~Fixed(O, K, Z, p)
    BY <1>2, <2>1, <2>2
  <2>3. CASE Fixed(O, K, Z, p)
    <3>1. PICK c0 \in Live(O, K) : c0 \notin U /\ p \in O[c0] /\ p \in O2[c0]
      BY <2>1, <2>3, FixedStays
    <3>2. c0 = c
      BY <2>1, <3>1 DEF Live, Inside, Forest
    <3>3. c \in J
      BY <3>1, <3>2
    <3> QED  BY <1>3, <2>1, <2>3, <3>1, <3>2, <3>3
  <2> QED  BY <2>2, <2>3
<1>6. S \in SUBSET Block
  BY <1>1
<1> HIDE DEF S
<1>7. Inside(O2, K2, w) \subseteq S
  BY <1>4, <1>5, <1>6, InsideLeast
<1> QED  BY <1>7 DEF S

\* What is not inside Z stays in the module.
LEMMA StaysLive ==
  ASSUME NEW O, NEW K, NEW O2, NEW K2, NEW F, NEW F2, Forest(O, K, F), Forest(O2, K2, F2),
         NEW h \in Live(O, K), NEW Z \in SUBSET O[h], Local(O, K, O2, K2, Z, h)
  PROVE  \A b \in Live(O, K) : b \in Under(O, K, Z) \/ b \in Live(O2, K2)
<1> DEFINE U == Under(O, K, Z)
           L == Live(O, K)
           L2 == Live(O2, K2)
           S == {b \in L : b \in U \/ b \in L2}
<1>m. Module \in Op
  BY WalkerInput
<1>1. L \subseteq Block /\ K[Module] \subseteq L /\ \A c \in L : \A p \in O[c] : K[p] \subseteq L
  BY <1>m, InsideClosed DEF Live
<1>2. /\ Module \notin Z /\ U \subseteq Block /\ \A z \in Z : K[z] \subseteq U
      /\ \A c \in U : \A q \in O[c] : K[q] \subseteq U
  BY UnderIs
<1>3. L2 \subseteq Block /\ K2[Module] \subseteq L2 /\ \A c \in L2 : \A p \in O2[c] : K2[p] \subseteq L2
  BY <1>m, InsideClosed DEF Live
<1> HIDE DEF L2
<1>4. K[Module] \subseteq S
  <2>1. Fixed(O, K, Z, Module)
    BY <1>2 DEF Fixed, Placed, Forest
  <2>2. K2[Module] = K[Module]
    BY <1>m, <2>1 DEF Local
  <2> QED  BY <1>1, <1>3, <2>2
<1>5. ASSUME NEW c \in S, NEW p \in O[c] PROVE K[p] \subseteq S
  <2>0. c \in Block /\ c \in L /\ p \in Op /\ p # Module /\ K[p] \subseteq L
    BY <1>1 DEF Forest
  <2>1. CASE c \in U
    BY <1>2, <2>0, <2>1
  <2>2. CASE p \in Z
    BY <1>2, <2>0, <2>2
  <2>3. CASE c \notin U /\ p \notin Z
    <3>1. \A b \in U : p \notin O[b]
      BY <1>2, <2>0, <2>3 DEF Forest
    <3>2. Placed(O, K, p)
      BY <2>0 DEF Placed, OpsInside, Live
    <3>3. Fixed(O, K, Z, p)
      BY <2>3, <3>1, <3>2 DEF Fixed
    <3>4. K2[p] = K[p] /\ p \in O2[c]
      BY <2>0, <2>3, <3>3 DEF Local
    <3> QED  BY <1>3, <2>0, <2>3, <3>4
  <2> QED  BY <2>1, <2>2, <2>3
<1>6. S \in SUBSET Block
  BY <1>1
<1>7. L \subseteq S
  <2> HIDE DEF S
  <2> QED  BY <1>4, <1>5, <1>6, InsideLeast DEF Live
<1> QED  BY <1>7 DEF L2

\* Operation r stays in its block, in the module.
StaysIn(O, K, O2, K2, Z, r) ==
  \E c \in Live(O, K) \cap Live(O2, K2) : c \notin Under(O, K, Z) /\ r \in O[c] /\ r \in O2[c]

\* Blocks W and operations R do.
StayIn(O, K, O2, K2, Z, W, R) ==
  /\ W \cap Under(O, K, Z) = {} /\ W \subseteq Live(O2, K2)
  /\ \A r \in R : Fixed(O, K, Z, r) /\ (r = Module \/ StaysIn(O, K, O2, K2, Z, r))

\* What an activation relies on, apart from Z, is fixed and stays in the module,
LEMMA StaysPlaced ==
  ASSUME NEW O, NEW K, NEW O2, NEW K2, NEW F, NEW F2, Forest(O, K, F), Forest(O2, K2, F2),
         NEW h \in Live(O, K), NEW Z \in SUBSET O[h], Local(O, K, O2, K2, Z, h),
         NEW W, NEW R, W \subseteq Live(O, K), \A r \in R : Placed(O, K, r), \A z \in Z : Apart(O, K, z, W, R)
  PROVE  StayIn(O, K, O2, K2, Z, W, R)
<1>1. \A b \in Live(O, K) : b \in Under(O, K, Z) \/ b \in Live(O2, K2)
  BY StaysLive
<1>2. W \cap Under(O, K, Z) = {}
  BY DEF Apart, Under
<1>3. ASSUME NEW r \in R PROVE Fixed(O, K, Z, r)
  BY DEF Fixed, Apart, Under, OpsInside
<1>4. ASSUME NEW r \in R, r # Module
      PROVE  StaysIn(O, K, O2, K2, Z, r)
  BY <1>1, <1>3, <1>4, FixedStays DEF StaysIn
<1> QED  BY <1>1, <1>2, <1>3, <1>4 DEF StayIn

\* and every operation keeps apart from it that was apart, or is not fixed.
LEMMA StaysApart ==
  ASSUME NEW O, NEW K, NEW O2, NEW K2, NEW F, NEW F2, Forest(O, K, F), Forest(O2, K2, F2),
         NEW h \in Live(O, K), NEW Z \in SUBSET O[h], Local(O, K, O2, K2, Z, h),
         NEW W, NEW R, W \subseteq Live(O, K), \A r \in R : Placed(O, K, r), \A z \in Z : Apart(O, K, z, W, R),
         NEW w \in Op, Apart(O, K, w, W, R) \/ ~Fixed(O, K, Z, w)
  PROVE  Apart(O2, K2, w, W, R)
<1> DEFINE U == Under(O, K, Z)
           L == Live(O, K)
           J == IF Apart(O, K, w, W, R) THEN Inside(O, K, w) ELSE {}
<1>1. /\ J \in SUBSET Block /\ \A c \in J : \A p \in O[c] : K[p] \subseteq J
      /\ Fixed(O, K, Z, w) => K[w] \subseteq J
      /\ W \cap J = {} /\ \A c \in J : \A r \in R : r \notin O[c]
  <2>1. /\ Inside(O, K, w) \subseteq Block /\ K[w] \subseteq Inside(O, K, w)
        /\ \A c \in Inside(O, K, w) : \A p \in O[c] : K[p] \subseteq Inside(O, K, w)
    BY InsideClosed
  <2> QED  BY <2>1 DEF Apart, OpsInside
<1> HIDE DEF J
<1>2. Inside(O2, K2, w) \subseteq J \cup U \cup (Block \ L)
  BY <1>1, ChangedInside
<1>3. /\ W \cap U = {} /\ \A r \in R : Fixed(O, K, Z, r)
      /\ \A r \in R : r = Module \/ \E c \in L : c \notin U /\ r \in O[c] /\ r \in O2[c]
  <2>1. StayIn(O, K, O2, K2, Z, W, R)
    BY StaysPlaced
  <2> QED  BY <2>1 DEF StayIn, StaysIn
<1> HIDE DEF U, L
<1>4. W \cap Inside(O2, K2, w) = {}
  BY <1>1, <1>2, <1>3 DEF L
<1>5. w \notin R
  BY <1>3 DEF Apart
<1>6. ASSUME NEW r \in R, NEW b \in Inside(O2, K2, w), r \in O2[b] PROVE FALSE
  <2>1. b \in Block /\ r \in Op
    BY <1>6 DEF Inside, Forest
  <2>2. r # Module
    BY <1>6, <2>1 DEF Forest
  <2>3. PICK c \in L : c \notin U /\ r \in O[c] /\ r \in O2[c]
    BY <1>3, <2>2
  <2>4. c \in Block
    BY DEF L, Live, Inside
  <2>5. b = c
    BY <1>6, <2>1, <2>3, <2>4 DEF Forest
  <2>6. b \in J
    BY <1>2, <2>3, <2>5
  <2> QED  BY <1>1, <2>3, <2>5, <2>6
<1> QED  BY <1>4, <1>5, <1>6 DEF Apart, OpsInside

\* The same of the operations of a block of the module that is not inside Z.
LEMMA StaysClear ==
  ASSUME NEW O, NEW K, NEW O2, NEW K2, NEW F, NEW F2, Forest(O, K, F), Forest(O2, K2, F2),
         NEW h \in Live(O, K), NEW Z \in SUBSET O[h], Local(O, K, O2, K2, Z, h),
         NEW W, NEW R, W \subseteq Live(O, K), \A r \in R : Placed(O, K, r), \A z \in Z : Apart(O, K, z, W, R),
         NEW b \in Live(O, K), b \notin Under(O, K, Z), Clear(O, K, b, W, R)
  PROVE  Clear(O2, K2, b, W, R)
<1> SUFFICES ASSUME NEW w \in O2[b] PROVE Apart(O2, K2, w, W, R)
  BY DEF Clear
<1>1. b \in Block /\ w \in Op /\ w # Module
  BY DEF Live, Inside, Forest
<1>2. ASSUME Fixed(O, K, Z, w) PROVE Apart(O, K, w, W, R)
  <2>1. PICK c \in Live(O, K) : w \in O[c] /\ w \in O2[c]
    BY <1>1, <1>2, FixedStays
  <2>2. c = b
    BY <1>1, <2>1 DEF Live, Inside, Forest
  <2> QED  BY <2>1, <2>2 DEF Clear
<1> QED  BY <1>1, <1>2, StaysApart

----------------------------------------------------------------------------
(* The activations of _rewrite_op. *)

Frame == [op : Op, ph : {"first", "match", "after"}, work : Seq(Block), it : Op \cup {NULL},
          prev : Op \cup {NULL}, next : Op \cup {NULL}, ret : Op \cup {NULL}]

\* An activation that matches is the innermost one and walks no block; only the
\* outermost one may be for the module.
Frames(st) ==
  /\ st \in Seq(Frame)
  /\ \A k \in DOMAIN st :
       /\ st[k].ph = "match" => k = 1 /\ st[k].work = <<>> /\ st[k].it = NULL
       /\ k # Len(st) => st[k].op # Module

\* What activation f relies on while those above it run: the blocks it has still to
\* walk; the operation it has still to match, or the one it will return.
Work(f) == ToSet(f.work)
KeptOps(f) == {o \in Op : (f.ph = "first" /\ o = f.op) \/ (f.ph = "after" /\ o = f.ret)}
ClearOf(O, K, b, f) == Clear(O, K, b, Work(f), KeptOps(f))

\* What an activation relies on is in the module.
Kept(O, K, st) ==
  \A k \in DOMAIN st :
    /\ Work(st[k]) \subseteq Live(O, K)
    /\ \A r \in KeptOps(st[k]) : Placed(O, K, r) /\ (k # Len(st) => r # Module)

\* What an activation has still to walk is apart from what it relies on itself, and
\* from what the activations below it rely on; so is the block of what it returns.
WorkApart(O, K, st) ==
  \A j, k \in DOMAIN st :
    /\ k <= j => \A b \in Work(st[k]) : ClearOf(O, K, b, st[j])
    /\ k < j => \A r \in KeptOps(st[k]) : \A b \in Block : r \in O[b] => ClearOf(O, K, b, st[j])

\* Block h is in the module, apart from all that is relied on.
Walked(O, K, st, h) == h \in Live(O, K) /\ \A j \in DOMAIN st : ClearOf(O, K, h, st[j])

\* The operation to be visited is in such a block.
VisitIn(O, K, st) ==
  st # <<>> /\ st[1].ph \in {"first", "after"} /\ st[1].it # NULL
    => \E h \in Block : Walked(O, K, st, h) /\ st[1].it \in O[h]

\* What the match has recorded; what iter_affected_ops and _rewrite_op make of it.
Recorded(r) == ToSet(r.before) \cup ToSet(r.after)
AffOf(f, r) == r.before \o (IF r.erased THEN <<>> ELSE <<f.op>>) \o r.after
RetOf(md, f, r) ==
  LET neighbour == IF md.reverse THEN f.prev ELSE f.next
  IN  IF ~(r.done /\ md.recursive) \/ AffOf(f, r) = <<>> THEN neighbour
      ELSE IF md.reverse THEN Last(AffOf(f, r)) ELSE Head(AffOf(f, r))

\* The operations that the match must not lose: what it may return, before it erases
\* the matched operation; then what it will return.
Others(f, r, md) ==
  (IF r.erased THEN {RetOf(md, f, r)} ELSE {f.prev, f.next} \cup Recorded(r)) \ {NULL}

\* An operation that was erased, for good.
Gone(O, F, o) == o # Module /\ o \notin F /\ \A b \in Block : o \notin O[b]

\* They are in the matched operation's block h, and so are the recorded ones that have
\* blocks to walk; the matched one too, until it is erased.
MatchedIn(O, K, F, f, r, md, h) ==
  /\ Others(f, r, md) \subseteq O[h] \ {f.op}
  /\ \A o \in Recorded(r) : o \in O[h] \/ (Gone(O, F, o) /\ K[o] = {})
  /\ IF r.erased THEN Gone(O, F, f.op) ELSE f.op \in O[h]

\* Block h is apart from all that is relied on.  A match on the module itself has
\* nothing to lose.
MatchIn(O, K, F, st, r, md) ==
  st # <<>> /\ st[1].ph = "match"
    => \/ \E h \in Block : Walked(O, K, st, h) /\ MatchedIn(O, K, F, st[1], r, md, h)
       \/ st[1].op = Module /\ Len(st) = 1 /\ Others(st[1], r, md) = {} /\ ~r.erased

\* Activations that rely on less are still right.
LEMMA RelyOnLess ==
  ASSUME NEW O, NEW K, NEW st, NEW st2, NEW d \in Nat, NEW n \in Nat,
         DOMAIN st = 1..(n + d), DOMAIN st2 = 1..n, Len(st) = n + d, Len(st2) = n,
         \A k \in 1..n : /\ Work(st2[k]) \subseteq Work(st[k + d])
                         /\ KeptOps(st2[k]) \subseteq KeptOps(st[k + d])
  PROVE  /\ Kept(O, K, st) => Kept(O, K, st2)
         /\ WorkApart(O, K, st) => WorkApart(O, K, st2)
         /\ \A h \in Block : Walked(O, K, st, h) => Walked(O, K, st2, h)
<1>1. \A k \in 1..n : k + d \in 1..(n + d) /\ (k # n => k + d # n + d)
  OBVIOUS
<1>2. \A k \in 1..n : \A b : ClearOf(O, K, b, st[k + d]) => ClearOf(O, K, b, st2[k])
  BY DEF ClearOf, Clear, Apart
<1>3. Kept(O, K, st) => Kept(O, K, st2)
  <2> SUFFICES ASSUME Kept(O, K, st), NEW k \in 1..n
               PROVE  /\ Work(st2[k]) \subseteq Live(O, K)
                      /\ \A r \in KeptOps(st2[k]) : Placed(O, K, r) /\ (k # n => r # Module)
    BY DEF Kept
  <2>1. /\ Work(st[k + d]) \subseteq Live(O, K)
        /\ \A r \in KeptOps(st[k + d]) : Placed(O, K, r) /\ (k + d # n + d => r # Module)
    BY <1>1 DEF Kept
  <2> QED  BY <1>1, <2>1
<1>4. WorkApart(O, K, st) => WorkApart(O, K, st2)
  <2> SUFFICES ASSUME WorkApart(O, K, st), NEW j \in 1..n, NEW k \in 1..n
               PROVE  /\ k <= j => \A b \in Work(st2[k]) : ClearOf(O, K, b, st2[j])
                      /\ k < j => \A r \in KeptOps(st2[k]) : \A b \in Block :
                                     r \in O[b] => ClearOf(O, K, b, st2[j])
    BY DEF WorkApart
  <2>1. /\ k + d <= j + d => \A b \in Work(st[k + d]) : ClearOf(O, K, b, st[j + d])
        /\ k + d < j + d => \A r \in KeptOps(st[k + d]) : \A b \in Block :
                       r \in O[b] => ClearOf(O, K, b, st[j + d])
    BY <1>1 DEF WorkApart
  <2>2. (k <= j <=> k + d <= j + d) /\ (k < j <=> k + d < j + d)
    OBVIOUS
  <2> QED  BY <1>2, <2>1, <2>2
<1>5. ASSUME NEW h \in Block, Walked(O, K, st, h) PROVE Walked(O, K, st2, h)
  BY <1>1, <1>2, <1>5 DEF Walked
<1> QED  BY <1>3, <1>4, <1>5

\* A new innermost activation that relies on the operations P of one block, and has
\* to walk their blocks.
LEMMA NewTop ==
  ASSUME NEW O, NEW K, NEW F, Forest(O, K, F), NEW h \in Live(O, K), NEW P \in SUBSET O[h],
         NEW st, NEW st2, NEW n \in Nat, DOMAIN st = 1..n, DOMAIN st2 = 1..(n + 1),
         Len(st) = n, Len(st2) = n + 1, \A k \in 1..n : st2[k + 1] = st[k],
         \A y \in Work(st2[1]) : \E p \in P : y \in K[p], KeptOps(st2[1]) \subseteq P,
         \A j \in 1..n : ClearOf(O, K, h, st[j]), Kept(O, K, st), WorkApart(O, K, st)
  PROVE  Kept(O, K, st2) /\ WorkApart(O, K, st2)
<1>m. Module \in Op
  BY WalkerInput
<1>1. /\ h \in Block /\ P \subseteq Op /\ Module \notin P
      /\ \A p \in P : K[p] \subseteq Live(O, K) /\ K[p] \subseteq Inside(O, K, p)
      /\ \A p \in P : Placed(O, K, p)
  <2>1. /\ Live(O, K) \subseteq Block
        /\ \A c \in Live(O, K) : \A p \in O[c] : K[p] \subseteq Live(O, K)
    BY <1>m, InsideClosed DEF Live
  <2>2. h \in Block /\ P \subseteq Op /\ Module \notin P
    BY <2>1 DEF Forest
  <2>3. \A p \in P : K[p] \subseteq Inside(O, K, p)
    BY <2>2, InsideClosed
  <2>4. \A p \in P : Placed(O, K, p)
    BY DEF Placed, OpsInside, Live
  <2> QED  BY <2>1, <2>2, <2>3, <2>4
<1>2. \A k \in 1..(n + 1) : k # 1 => k - 1 \in 1..n /\ st2[k] = st[k - 1] /\ (k # n + 1 => k - 1 # n)
  <2> SUFFICES ASSUME NEW k \in 1..(n + 1), k # 1
               PROVE  k - 1 \in 1..n /\ st2[k] = st[k - 1] /\ (k # n + 1 => k - 1 # n)
    OBVIOUS
  <2>1. k - 1 \in 1..n /\ (k - 1) + 1 = k
    OBVIOUS
  <2> QED  BY <2>1
<1>3. Kept(O, K, st2)
  <2> SUFFICES ASSUME NEW k \in 1..(n + 1)
               PROVE  /\ Work(st2[k]) \subseteq Live(O, K)
                      /\ \A r \in KeptOps(st2[k]) : Placed(O, K, r) /\ (k # n + 1 => r # Module)
    BY DEF Kept
  <2>1. CASE k = 1
    BY <1>1, <2>1
  <2>2. CASE k # 1
    BY <1>2, <2>2 DEF Kept
  <2> QED  BY <2>1, <2>2
<1>4. ASSUME NEW y \in Work(st2[1]) PROVE ClearOf(O, K, y, st2[1])
  <2>1. PICK p \in P : y \in K[p]
    OBVIOUS
  <2>2. y \in Inside(O, K, p)
    BY <1>1, <2>1
  <2> SUFFICES ASSUME NEW w \in O[y] PROVE Apart(O, K, w, Work(st2[1]), KeptOps(st2[1]))
    BY DEF ClearOf, Clear
  <2>3. \A q \in P : K[q] \cap Inside(O, K, w) = {} /\ q # w /\ q \notin OpsInside(O, K, w)
    BY <2>2, Siblings
  <2> QED  BY <2>3 DEF Apart
<1>5. ASSUME NEW y \in Work(st2[1]), NEW j \in 1..n PROVE ClearOf(O, K, y, st[j])
  <2>1. PICK p \in P : y \in K[p]
    OBVIOUS
  <2>2. y \in Inside(O, K, p) /\ p \in Op
    BY <1>1, <2>1
  <2>3. Apart(O, K, p, Work(st[j]), KeptOps(st[j]))
    BY DEF ClearOf, Clear
  <2> QED  BY <2>2, <2>3, ApartInside DEF ClearOf
<1>6. ASSUME NEW r \in KeptOps(st2[1]), NEW b \in Block, r \in O[b], NEW j \in 1..n
      PROVE  ClearOf(O, K, b, st[j])
  <2>1. b = h
    BY <1>1, <1>6 DEF Forest
  <2> QED  BY <2>1
<1>7. WorkApart(O, K, st2)
  <2> SUFFICES ASSUME NEW j \in 1..(n + 1), NEW k \in 1..(n + 1)
               PROVE  /\ k <= j => \A b \in Work(st2[k]) : ClearOf(O, K, b, st2[j])
                      /\ k < j => \A r \in KeptOps(st2[k]) : \A b \in Block :
                                     r \in O[b] => ClearOf(O, K, b, st2[j])
    BY DEF WorkApart
  <2>1. CASE k = 1 /\ j = 1
    BY <1>4, <2>1
  <2>2. CASE k = 1 /\ j # 1
    BY <1>2, <1>5, <1>6, <2>2
  <2>3. CASE k # 1 /\ j = 1
    <3>1. ~(k <= j) /\ ~(k < j)
      BY <2>3
    <3> QED  BY <3>1
  <2>4. CASE k # 1 /\ j # 1
    <3>1. k - 1 \in 1..n /\ j - 1 \in 1..n /\ st2[k] = st[k - 1] /\ st2[j] = st[j - 1]
      BY <1>2, <2>4
    <3>2. (k <= j <=> k - 1 <= j - 1) /\ (k < j <=> k - 1 < j - 1)
      OBVIOUS
    <3>3. /\ k - 1 <= j - 1 => \A b \in Work(st[k - 1]) : ClearOf(O, K, b, st[j - 1])
          /\ k - 1 < j - 1 => \A r \in KeptOps(st[k - 1]) : \A b \in Block :
                                 r \in O[b] => ClearOf(O, K, b, st[j - 1])
      BY <3>1 DEF WorkApart
    <3> QED  BY <3>1, <3>2, <3>3
  <2> QED  BY <2>1, <2>2, <2>3, <2>4
<1> QED  BY <1>3, <1>7

\* The outermost activation, for the module.
LEMMA ModuleTop ==
  ASSUME NEW O, NEW K, NEW F, Forest(O, K, F), NEW st, DOMAIN st = 1..1, Len(st) = 1,
         Work(st[1]) \subseteq K[Module], KeptOps(st[1]) \subseteq {Module}
  PROVE  Kept(O, K, st) /\ WorkApart(O, K, st)
<1>m. Module \in Op
  BY WalkerInput
<1>1. K[Module] \subseteq Live(O, K) /\ Live(O, K) \subseteq Block
  BY <1>m, InsideClosed DEF Live
<1>2. Kept(O, K, st)
  BY <1>1 DEF Kept, Placed
<1>3. ASSUME NEW y \in Work(st[1]) PROVE ClearOf(O, K, y, st[1])
  <2> SUFFICES ASSUME NEW w \in O[y] PROVE Apart(O, K, w, Work(st[1]), KeptOps(st[1]))
    BY DEF ClearOf, Clear
  <2>1. K[Module] \cap Inside(O, K, w) = {} /\ Module # w /\ Module \notin OpsInside(O, K, w)
    BY <1>1, ModuleApart
  <2> QED  BY <2>1 DEF Apart
<1>4. WorkApart(O, K, st)
  BY <1>3 DEF WorkApart
<1> QED  BY <1>2, <1>4

\* A rewrite of operations Z of the matched operation's block leaves what the
\* activations rely on alone.
LEMMA RewriteKeeps ==
  ASSUME NEW O, NEW K, NEW O2, NEW K2, NEW F, NEW F2, Forest(O, K, F), Forest(O2, K2, F2),
         NEW h \in Live(O, K), NEW Z \in SUBSET O[h], Local(O, K, O2, K2, Z, h),
         NEW st, Kept(O, K, st), WorkApart(O, K, st), Walked(O, K, st, h)
  PROVE  Kept(O2, K2, st) /\ WorkApart(O2, K2, st) /\ Walked(O2, K2, st, h)
<1>1. h \in Block /\ h \notin Under(O, K, Z)
  BY UnderIs
<1>2. ASSUME NEW j \in DOMAIN st
      PROVE  /\ Work(st[j]) \subseteq Live(O, K)
             /\ \A r \in KeptOps(st[j]) : Placed(O, K, r)
             /\ \A z \in Z : Apart(O, K, z, Work(st[j]), KeptOps(st[j]))
  BY DEF Kept, Walked, ClearOf, Clear
<1>3. ASSUME NEW j \in DOMAIN st, NEW b \in Live(O, K), b \notin Under(O, K, Z), ClearOf(O, K, b, st[j])
      PROVE  ClearOf(O2, K2, b, st[j])
  <2>1. Clear(O, K, b, Work(st[j]), KeptOps(st[j]))
    BY <1>3 DEF ClearOf
  <2>2. Clear(O2, K2, b, Work(st[j]), KeptOps(st[j]))
    BY <1>2, <1>3, <2>1, StaysClear
  <2> QED  BY <2>2 DEF ClearOf
<1>4. ASSUME NEW j \in DOMAIN st
      PROVE  /\ Work(st[j]) \cap Under(O, K, Z) = {} /\ Work(st[j]) \subseteq Live(O2, K2)
             /\ \A r \in KeptOps(st[j]) :
                  r = Module \/ StaysIn(O, K, O2, K2, Z, r)
  <2>1. StayIn(O, K, O2, K2, Z, Work(st[j]), KeptOps(st[j]))
    BY <1>2, StaysPlaced
  <2> QED  BY <2>1 DEF StayIn
<1>5. Kept(O2, K2, st)
  <2> SUFFICES ASSUME NEW k \in DOMAIN st, NEW r \in KeptOps(st[k])
               PROVE  Placed(O2, K2, r) /\ (k # Len(st) => r # Module)
    BY <1>4 DEF Kept
  <2>1. k # Len(st) => r # Module
    BY DEF Kept
  <2>2. Placed(O2, K2, r)
    BY <1>4 DEF StaysIn, Placed, OpsInside, Live
  <2> QED  BY <2>1, <2>2
<1>6. Walked(O2, K2, st, h)
  <2>1. h \in Live(O2, K2)
    BY <1>1, StaysLive
  <2> QED  BY <1>1, <1>3, <2>1 DEF Walked
<1>7. ASSUME NEW j \in DOMAIN st, NEW k \in DOMAIN st, k <= j, NEW b \in Work(st[k])
      PROVE  ClearOf(O2, K2, b, st[j])
  <2>1. ClearOf(O, K, b, st[j])
    BY <1>7 DEF WorkApart
  <2>2. b \in Live(O, K) /\ b \notin Under(O, K, Z)
    BY <1>2, <1>4
  <2> QED  BY <1>3, <2>1, <2>2
<1>8. ASSUME NEW j \in DOMAIN st, NEW k \in DOMAIN st, k < j, NEW r \in KeptOps(st[k]),
             NEW b \in Block, r \in O2[b]
      PROVE  ClearOf(O2, K2, b, st[j])
  <2>1. r # Module
    BY <1>8 DEF Forest
  <2>2. PICK c \in Live(O, K) : c \notin Under(O, K, Z) /\ r \in O[c] /\ r \in O2[c]
    BY <1>4, <2>1 DEF StaysIn
  <2>3. c = b
    BY <1>8, <2>2 DEF Live, Inside, Forest
  <2>4. ClearOf(O, K, b, st[j])
    BY <1>8, <2>2, <2>3 DEF WorkApart
  <2> QED  BY <1>3, <2>2, <2>3, <2>4
<1>9. WorkApart(O2, K2, st)
  BY <1>7, <1>8 DEF WorkApart
<1> QED  BY <1>5, <1>6, <1>9

----------------------------------------------------------------------------
(* The inductive invariant. *)

\* The operations of each block, the blocks of each operation.
OpSets == [b \in Block |-> ToSet(ops[b])]
Kids == [o \in Op |-> ChildBlocks(o)]

\* The IR is a forest, no list names an operation twice, and the regions of an
\* operation have no block in common.
Tree ==
  /\ ops \in [Block -> Seq(Op)] /\ regions \in [Op -> Seq(Seq(Block))]
  /\ \A b \in Block : IsInjective(ops[b])
  /\ \A o \in Op : \A i, j \in DOMAIN regions[o] :
       i # j => ToSet(regions[o][i]) \cap ToSet(regions[o][j]) = {}
  /\ Forest(OpSets, Kids, fresh)

Rewriters == [before : Seq(Op), after : Seq(Op), erased : BOOLEAN, done : BOOLEAN, calls : Nat]

\* The inductive invariant.
IInv ==
  /\ mode \in Modes /\ rw \in Rewriters /\ (rw.erased => rw.done)
  /\ Tree
  /\ Frames(stack)
  /\ Kept(OpSets, Kids, stack) /\ WorkApart(OpSets, Kids, stack)
  /\ VisitIn(OpSets, Kids, stack)
  /\ MatchIn(OpSets, Kids, fresh, stack, rw, mode)

----------------------------------------------------------------------------
(* The state, seen through the sets. *)

\* NestedBlocks and NestedOps are what is inside an operation.
LEMMA NestedIs ==
  Tree => \A o \in Op : /\ NestedBlocks(o) = Inside(OpSets, Kids, o)
                        /\ NestedOps(o) = OpsInside(OpSets, Kids, o)
<1> SUFFICES ASSUME Tree, NEW o \in Op
             PROVE  /\ NestedBlocks(o) = Inside(OpSets, Kids, o)
                    /\ NestedOps(o) = OpsInside(OpSets, Kids, o)
  OBVIOUS
<1>1. /\ \A b \in Block : OpSets[b] = ToSet(ops[b]) /\ OpSets[b] \subseteq Op
      /\ \A p \in Op : Kids[p] = ChildBlocks(p)
  BY DEF Tree, Forest, OpSets, Kids
<1>2. ASSUME NEW S \in SUBSET Block
      PROVE  (\A c \in S : \A p \in ToSet(ops[c]) : ChildBlocks(p) \subseteq S)
               <=> (\A c \in S : \A p \in OpSets[c] : Kids[p] \subseteq S)
  BY <1>1
<1>3. NestedBlocks(o) = Inside(OpSets, Kids, o)
  BY <1>1, <1>2 DEF NestedBlocks, Inside
<1>4. NestedBlocks(o) \subseteq Block
  BY DEF NestedBlocks
<1>5. NestedOps(o) = OpsInside(OpSets, Kids, o)
  BY <1>1, <1>3, <1>4 DEF NestedOps, OpsInside
<1> QED  BY <1>3, <1>5

\* The place of an operation, and the operations next to it.
LEMMA PlaceIs ==
  ASSUME Tree, NEW b \in Block, NEW o \in OpSets[b]
  PROVE  /\ Attached(o) /\ BlockOf(o) = b
         /\ PosOf(o) \in DOMAIN ops[b] /\ ops[b][PosOf(o)] = o
         /\ {PrevOp(o), NextOp(o)} \ {NULL} \subseteq OpSets[b] \ {o}
         /\ PrevOp(o) \in Op \cup {NULL} /\ NextOp(o) \in Op \cup {NULL}
<1>1. o \in ToSet(ops[b]) /\ o \in Op
  BY DEF OpSets, Tree, Forest
<1>2. \A c \in Block : o \in ToSet(ops[c]) => c = b
  BY <1>1 DEF OpSets, Tree, Forest
<1>3. Attached(o)
  BY <1>1 DEF Attached
<1>4. BlockOf(o) = b
  BY <1>1, <1>2 DEF BlockOf
<1>5. PosOf(o) \in DOMAIN ops[b] /\ ops[b][PosOf(o)] = o
  <2>1. \E i \in DOMAIN ops[b] : ops[b][i] = o
    BY <1>1 DEF ToSet
  <2>2. PosOf(o) = CHOOSE i \in DOMAIN ops[b] : ops[b][i] = o
    BY <1>4 DEF PosOf
  <2> QED  BY <2>1, <2>2
<1>6. /\ ops[b] \in Seq(Op) /\ Len(ops[b]) \in Nat /\ DOMAIN ops[b] = 1..Len(ops[b])
      /\ \A i, j \in DOMAIN ops[b] : ops[b][i] = ops[b][j] => i = j
      /\ \A i \in DOMAIN ops[b] : ops[b][i] \in OpSets[b] /\ ops[b][i] \in Op
  <2>1. ops[b] \in Seq(Op)
    BY DEF Tree
  <2>2. \A i, j \in DOMAIN ops[b] : ops[b][i] = ops[b][j] => i = j
    BY DEF Tree, IsInjective
  <2>3. \A i \in DOMAIN ops[b] : ops[b][i] \in OpSets[b]
    BY DEF OpSets, ToSet
  <2>4. OpSets[b] \subseteq Op
    BY DEF Tree, Forest
  <2> QED  BY <2>1, <2>2, <2>3, <2>4, LenProperties
<1>7. NextOp(o) = NULL \/ (NextOp(o) \in OpSets[b] /\ NextOp(o) # o /\ NextOp(o) \in Op)
  <2>1. CASE PosOf(o) < Len(ops[b])
    <3>1. NextOp(o) = ops[b][PosOf(o) + 1]
      BY <1>3, <1>4, <2>1 DEF NextOp
    <3>2. PosOf(o) + 1 \in DOMAIN ops[b] /\ PosOf(o) + 1 # PosOf(o)
      BY <1>5, <1>6, <2>1
    <3> QED  BY <1>5, <1>6, <3>1, <3>2
  <2>2. CASE ~(PosOf(o) < Len(ops[b]))
    BY <1>4, <2>2 DEF NextOp
  <2> QED  BY <2>1, <2>2
<1>8. PrevOp(o) = NULL \/ (PrevOp(o) \in OpSets[b] /\ PrevOp(o) # o /\ PrevOp(o) \in Op)
  <2>1. CASE PosOf(o) > 1
    <3>1. PrevOp(o) = ops[b][PosOf(o) - 1]
      BY <1>3, <1>4, <2>1 DEF PrevOp
    <3>2. PosOf(o) - 1 \in DOMAIN ops[b] /\ PosOf(o) - 1 # PosOf(o)
      BY <1>5, <1>6, <2>1
    <3> QED  BY <1>5, <1>6, <3>1, <3>2
  <2>2. CASE ~(PosOf(o) > 1)
    BY <1>4, <2>2 DEF PrevOp
  <2> QED  BY <2>1, <2>2
<1> QED  BY <1>3, <1>4, <1>5, <1>7, <1>8

\* The module is in no block.
LEMMA ModuleIs ==
  ASSUME Tree
  PROVE  ~Attached(Module) /\ PrevOp(Module) = NULL /\ NextOp(Module) = NULL
<1>1. ~Attached(Module)
  BY DEF Attached, Tree, Forest, OpSets
<1> QED  BY <1>1 DEF PrevOp, NextOp

\* _rewrite_op_regions walks the blocks of its operation.
LEMMA BlocksOfIs ==
  ASSUME Tree, NEW o \in Op
  PROVE  BlocksOf(o) \in Seq(Block) /\ ToSet(BlocksOf(o)) \subseteq Kids[o]
<1> DEFINE rs == regions[o]
           one(k) == IF mode.reverse THEN Reverse(rs[k]) ELSE rs[k]
           ss == [k \in DOMAIN rs |-> one(k)]
<1>1. rs \in Seq(Seq(Block))
  BY DEF Tree
<1>2. \A k \in DOMAIN rs : rs[k] \in Seq(Block) /\ ToSet(rs[k]) \subseteq Kids[o]
  <2>1. \A k \in DOMAIN rs : rs[k] \in Seq(Block)
    BY <1>1, LenProperties, ElementOfSeq
  <2>2. \A k \in DOMAIN rs : ToSet(rs[k]) \subseteq Kids[o]
    BY DEF Kids, ChildBlocks
  <2> QED  BY <2>1, <2>2
<1>3. ASSUME NEW k \in DOMAIN rs PROVE one(k) \in Seq(Block) /\ ToSet(one(k)) \subseteq Kids[o]
  <2> HIDE DEF rs
  <2>1. Reverse(rs[k]) \in Seq(Block) /\ ToSet(Reverse(rs[k])) = ToSet(rs[k])
    BY <1>2, ReverseList
  <2> QED  BY <1>2, <2>1
<1>4. BlocksOf(o) = FlattenSeq(ss)
  BY DEF BlocksOf
<1> HIDE DEF rs
<1>5. DOMAIN ss = DOMAIN rs /\ ss \in Seq(Seq(Block))
  <2>1. DOMAIN rs = 1..Len(rs) /\ Len(rs) \in Nat
    BY <1>1, LenProperties
  <2>2. \A k \in 1..Len(rs) : one(k) \in Seq(Block)
    BY <1>3, <2>1
  <2> HIDE DEF one
  <2> QED  BY <2>1, <2>2, IsASeq
<1>6. \A k \in DOMAIN ss : ToSet(ss[k]) \subseteq Kids[o]
  <2> HIDE DEF one
  <2> QED  BY <1>3, <1>5
<1> HIDE DEF ss
<1>7. FlattenSeq(ss) \in Seq(Block) /\ \A x \in ToSet(FlattenSeq(ss)) : \E k \in DOMAIN ss : x \in ToSet(ss[k])
  BY <1>5, FlattenList
<1> QED  BY <1>4, <1>6, <1>7

----------------------------------------------------------------------------
(* The steps of the walk. *)

\* A step that leaves the IR alone leaves its sets alone.
LEMMA SameIR ==
  ASSUME Tree, UNCHANGED <<ops, regions, fresh>>
  PROVE  Tree' /\ OpSets' = OpSets /\ Kids' = Kids
<1>1. OpSets' = OpSets
  BY DEF OpSets
<1>2. Kids' = Kids
  BY DEF Kids, ChildBlocks
<1> QED  BY <1>1, <1>2 DEF Tree

LEMMA StackIs ==
  ASSUME NEW st, Frames(st)
  PROVE  /\ Len(st) \in Nat /\ DOMAIN st = 1..Len(st) /\ \A k \in DOMAIN st : st[k] \in Frame
         /\ st # <<>> => 1 \in DOMAIN st
<1>1. st \in Seq(Frame)
  BY DEF Frames
<1>2. Len(st) \in Nat /\ DOMAIN st = 1..Len(st) /\ \A k \in DOMAIN st : st[k] \in Frame
  BY <1>1, LenProperties, ElementOfSeq
<1>3. st # <<>> => Len(st) # 0
  BY <1>1, EmptySeq
<1> QED  BY <1>2, <1>3

\* The innermost activation is replaced.
LEMMA NewFirst ==
  ASSUME NEW st, Frames(st), st # <<>>, NEW f \in Frame
  PROVE  LET st2 == [st EXCEPT ![1] = f]
         IN  /\ st2 \in Seq(Frame) /\ Len(st2) = Len(st) /\ DOMAIN st2 = DOMAIN st
             /\ st2[1] = f /\ \A k \in DOMAIN st : k # 1 => st2[k] = st[k]
<1>1. st \in Seq(Frame) /\ 1 \in DOMAIN st /\ 1 \in 1..Len(st)
  BY StackIs DEF Frames
<1> HIDE DEF Frame
<1> QED  BY <1>1, ExceptSeq

\* EnterBlock takes a block that is still to be walked, and begins at an end of it.
LEMMA StepEnterBlock ==
  ASSUME IInv, EnterBlock
  PROVE  IInv'
<1> DEFINE f == stack[1]
           b == Head(f.work)
           s == ops[b]
           x == IF s = <<>> THEN NULL ELSE IF mode.reverse THEN Last(s) ELSE Head(s)
           g == [f EXCEPT !.work = Tail(@), !.it = x]
<1>1. /\ stack # <<>> /\ f.ph \in {"first", "after"} /\ f.work # <<>>
      /\ stack' = [stack EXCEPT ![1] = g]
  BY DEF EnterBlock, Walking
<1>2. mode' = mode /\ rw' = rw /\ UNCHANGED <<ops, regions, fresh>>
  BY DEF EnterBlock, ir
<1>3. Tree' /\ OpSets' = OpSets /\ Kids' = Kids
  BY <1>2, SameIR DEF IInv
<1>4. Len(stack) \in Nat /\ DOMAIN stack = 1..Len(stack) /\ 1 \in DOMAIN stack /\ f \in Frame
  BY <1>1, StackIs DEF IInv
<1>5. f.work \in Seq(Block) /\ b \in Work(f) /\ Tail(f.work) \in Seq(Block)
      /\ ToSet(Tail(f.work)) \subseteq Work(f) /\ b \in Block
  <2>1. f.work \in Seq(Block)
    BY <1>4 DEF Frame
  <2>2. Len(f.work) \in Nat /\ Len(f.work) # 0 /\ DOMAIN f.work = 1..Len(f.work)
    BY <1>1, <2>1, LenProperties, EmptySeq
  <2>3. b = f.work[1] /\ b \in Block
    BY <1>1, <2>1, <2>2, HeadTailProperties
  <2>4. /\ Tail(f.work) \in Seq(Block) /\ Len(Tail(f.work)) = Len(f.work) - 1
        /\ \A i \in 1..Len(Tail(f.work)) : Tail(f.work)[i] = f.work[i + 1]
    BY <1>1, <2>1, HeadTailProperties
  <2>5. DOMAIN Tail(f.work) = 1..(Len(f.work) - 1)
    BY <2>4, LenProperties
  <2>6. \A i \in 1..(Len(f.work) - 1) : i + 1 \in DOMAIN f.work
    BY <2>2
  <2>7. \A i \in DOMAIN Tail(f.work) : Tail(f.work)[i] \in ToSet(f.work)
    BY <2>4, <2>5, <2>6 DEF ToSet
  <2>8. ToSet(Tail(f.work)) \subseteq ToSet(f.work)
    BY <2>7 DEF ToSet
  <2>9. b \in ToSet(f.work)
    BY <2>2, <2>3 DEF ToSet
  <2> QED  BY <2>1, <2>3, <2>4, <2>8, <2>9 DEF Work
<1>6. x = NULL \/ (x \in OpSets[b] /\ x \in Op)
  <2>1. s \in Seq(Op) /\ OpSets[b] = ToSet(s) /\ OpSets[b] \subseteq Op
    BY <1>5 DEF IInv, Tree, OpSets, Forest
  <2>2. s # <<>> => Head(s) = s[1] /\ 1 \in DOMAIN s /\ Len(s) \in DOMAIN s
    BY <2>1, LenProperties, EmptySeq
  <2>3. s # <<>> => Head(s) \in ToSet(s) /\ Last(s) \in ToSet(s)
    BY <2>2 DEF ToSet, Last
  <2> QED  BY <2>1, <2>3
<1> HIDE DEF x, b, s
<1>7. g \in Frame /\ g.work = Tail(f.work) /\ g.it = x /\ g.ph = f.ph /\ g.op = f.op /\ g.ret = f.ret
  BY <1>4, <1>5, <1>6 DEF Frame
<1> HIDE DEF g
<1>8. /\ stack' \in Seq(Frame) /\ Len(stack') = Len(stack) /\ DOMAIN stack' = DOMAIN stack
      /\ stack'[1] = g /\ \A k \in DOMAIN stack : k # 1 => stack'[k] = stack[k]
  <2>1. Frames(stack)
    BY DEF IInv
  <2> QED  BY <1>1, <1>7, <2>1, NewFirst
<1>9. Frames(stack')
  BY <1>1, <1>7, <1>8 DEF Frames, IInv
<1>10. Work(g) \subseteq Work(f) /\ KeptOps(g) = KeptOps(f)
  BY <1>5, <1>7 DEF Work, KeptOps
<1>11. \A k \in 1..Len(stack) : /\ Work(stack'[k]) \subseteq Work(stack[k + 0])
                                /\ KeptOps(stack'[k]) \subseteq KeptOps(stack[k + 0])
  BY <1>4, <1>8, <1>10
<1>12. /\ Kept(OpSets, Kids, stack) => Kept(OpSets, Kids, stack')
       /\ WorkApart(OpSets, Kids, stack) => WorkApart(OpSets, Kids, stack')
       /\ \A h \in Block : Walked(OpSets, Kids, stack, h) => Walked(OpSets, Kids, stack', h)
  <2>1. 0 \in Nat /\ Len(stack) + 0 = Len(stack)
    BY <1>4
  <2> QED  BY <1>4, <1>8, <1>11, <2>1, RelyOnLess
<1>13. VisitIn(OpSets, Kids, stack')
  <2>1. Walked(OpSets, Kids, stack, b)
    BY <1>4, <1>5 DEF Walked, IInv, Kept, WorkApart
  <2> QED  BY <1>5, <1>6, <1>7, <1>8, <1>12, <2>1 DEF VisitIn
<1>14. MatchIn(OpSets, Kids, fresh, stack', rw', mode)
  BY <1>1, <1>7, <1>8 DEF MatchIn
<1> QED  BY <1>2, <1>3, <1>9, <1>12, <1>13, <1>14 DEF IInv

\* StartMatch reads the neighbours, which are in the block of the matched operation.
LEMMA StepStartMatch ==
  ASSUME IInv, StartMatch
  PROVE  IInv'
<1> DEFINE f == stack[1]
           g == [f EXCEPT !.ph = "match", !.prev = PrevOp(cur), !.next = NextOp(cur)]
<1>1. /\ stack # <<>> /\ f.ph = "first" /\ f.it = NULL /\ f.work = <<>>
      /\ stack' = [stack EXCEPT ![1] = g] /\ rw' = NewRewriter
  BY DEF StartMatch, Walking
<1>2. mode' = mode /\ UNCHANGED <<ops, regions, fresh>>
  BY DEF StartMatch, ir
<1>3. Tree' /\ OpSets' = OpSets /\ Kids' = Kids
  BY <1>2, SameIR DEF IInv
<1>4. Len(stack) \in Nat /\ DOMAIN stack = 1..Len(stack) /\ 1 \in DOMAIN stack /\ f \in Frame /\ f.op \in Op
  BY <1>1, StackIs DEF IInv, Frame
<1>5. cur = f.op
  BY DEF cur
<1>6. cur \in KeptOps(f)
  BY <1>1, <1>4, <1>5 DEF KeptOps
<1>7. Placed(OpSets, Kids, cur) /\ (1 # Len(stack) => cur # Module)
  BY <1>4, <1>6 DEF IInv, Kept
<1>8. \/ cur = Module /\ Len(stack) = 1 /\ PrevOp(cur) = NULL /\ NextOp(cur) = NULL
      \/ \E h \in Live(OpSets, Kids) : cur \in OpSets[h]
  BY <1>7, ModuleIs DEF Placed, OpsInside, Live, IInv
<1>9. ASSUME NEW h \in Live(OpSets, Kids), cur \in OpSets[h]
      PROVE  /\ h \in Block
             /\ {PrevOp(cur), NextOp(cur)} \ {NULL} \subseteq OpSets[h] \ {cur}
             /\ PrevOp(cur) \in Op \cup {NULL} /\ NextOp(cur) \in Op \cup {NULL}
  <2>1. h \in Block
    BY DEF Live, Inside
  <2> QED  BY <1>9, <2>1, PlaceIs DEF IInv
<1>10. PrevOp(cur) \in Op \cup {NULL} /\ NextOp(cur) \in Op \cup {NULL}
  BY <1>8, <1>9
<1>11. g \in Frame /\ g.work = <<>> /\ g.it = NULL /\ g.ph = "match" /\ g.op = cur
       /\ g.prev = PrevOp(cur) /\ g.next = NextOp(cur)
  BY <1>1, <1>4, <1>5, <1>10 DEF Frame
<1> HIDE DEF g
<1>12. /\ stack' \in Seq(Frame) /\ Len(stack') = Len(stack) /\ DOMAIN stack' = DOMAIN stack
       /\ stack'[1] = g /\ \A k \in DOMAIN stack : k # 1 => stack'[k] = stack[k]
  <2>1. Frames(stack)
    BY DEF IInv
  <2> QED  BY <1>1, <1>11, <2>1, NewFirst
<1>13. Frames(stack')
  BY <1>1, <1>5, <1>11, <1>12 DEF Frames, IInv
<1>14. Work(g) = {} /\ KeptOps(g) = {}
  BY <1>11 DEF Work, KeptOps, ToSet
<1>15. \A k \in 1..Len(stack) : /\ Work(stack'[k]) \subseteq Work(stack[k + 0])
                                /\ KeptOps(stack'[k]) \subseteq KeptOps(stack[k + 0])
  BY <1>4, <1>12, <1>14
<1>16. /\ Kept(OpSets, Kids, stack) => Kept(OpSets, Kids, stack')
       /\ WorkApart(OpSets, Kids, stack) => WorkApart(OpSets, Kids, stack')
  <2>1. 0 \in Nat /\ Len(stack) + 0 = Len(stack)
    BY <1>4
  <2> QED  BY <1>4, <1>12, <1>15, <2>1, RelyOnLess
<1>17. rw' \in Rewriters /\ ~rw'.erased /\ ToSet(rw'.before) = {} /\ ToSet(rw'.after) = {}
  BY <1>1 DEF Rewriters, NewRewriter, ToSet
<1>18. ASSUME NEW h \in Live(OpSets, Kids), cur \in OpSets[h] PROVE Walked(OpSets, Kids, stack', h)
  <2>1. ClearOf(OpSets, Kids, h, g)
    BY <1>14 DEF ClearOf, Clear, Apart
  <2>2. ASSUME NEW j \in DOMAIN stack, j # 1 PROVE ClearOf(OpSets, Kids, h, stack[j])
    <3>1. 1 < j /\ h \in Block
      BY <1>4, <1>9, <1>18, <2>2
    <3> QED  BY <1>4, <1>6, <1>18, <3>1 DEF IInv, WorkApart
  <2> QED  BY <1>12, <2>1, <2>2 DEF Walked
<1>19. MatchIn(OpSets, Kids, fresh, stack', rw', mode)
  <2>1. Recorded(rw') = {} /\ Others(g, rw', mode) = {PrevOp(cur), NextOp(cur)} \ {NULL}
    BY <1>11, <1>17 DEF Others, Recorded
  <2>2. CASE cur = Module /\ Len(stack) = 1 /\ PrevOp(cur) = NULL /\ NextOp(cur) = NULL
    BY <1>11, <1>12, <1>17, <2>1, <2>2 DEF MatchIn
  <2>3. CASE \E h \in Live(OpSets, Kids) : cur \in OpSets[h]
    <3>1. PICK h \in Live(OpSets, Kids) : cur \in OpSets[h]
      BY <2>3
    <3>2. MatchedIn(OpSets, Kids, fresh, g, rw', mode, h)
      BY <1>9, <1>11, <1>17, <2>1, <3>1 DEF MatchedIn
    <3> QED  BY <1>9, <1>12, <1>18, <3>1, <3>2 DEF MatchIn
  <2> QED  BY <1>8, <2>2, <2>3
<1>20. VisitIn(OpSets, Kids, stack')
  BY <1>11, <1>12 DEF VisitIn
<1> QED  BY <1>2, <1>3, <1>13, <1>16, <1>17, <1>19, <1>20 DEF IInv

\* A new activation has the blocks of its operation to walk, and its operation to
\* match.
LEMMA ActivationIs ==
  ASSUME Tree, NEW o \in Op
  PROVE  /\ Activation(o) \in Frame /\ Activation(o).ph = "first" /\ Activation(o).op = o
         /\ Activation(o).it = NULL
         /\ Work(Activation(o)) \subseteq Kids[o] /\ KeptOps(Activation(o)) = {o}
<1> DEFINE w == IF mode.first THEN BlocksOf(o) ELSE <<>>
<1>1. w \in Seq(Block) /\ ToSet(w) \subseteq Kids[o]
  <2>1. <<>> \in Seq(Block) /\ ToSet(<<>>) = {}
    BY DEF ToSet
  <2> QED  BY <2>1, BlocksOfIs
<1>2. Activation(o) = [op |-> o, ph |-> "first", work |-> w, it |-> NULL,
                       prev |-> NULL, next |-> NULL, ret |-> NULL]
  BY DEF Activation
<1> HIDE DEF w
<1>3. /\ Activation(o) \in Frame /\ Activation(o).ph = "first" /\ Activation(o).op = o
      /\ Activation(o).it = NULL /\ Activation(o).work = w
  BY <1>1, <1>2 DEF Frame
<1>4. KeptOps(Activation(o)) = {o}
  BY <1>3 DEF KeptOps
<1> QED  BY <1>1, <1>3, <1>4 DEF Work

\* VisitOp starts an activation that relies on the operation visited.
LEMMA StepVisitOp ==
  ASSUME IInv, VisitOp
  PROVE  IInv'
<1> DEFINE n == Len(stack)
           o == stack[1].it
           f == Activation(o)
<1>1. /\ stack # <<>> /\ stack[1].ph \in {"first", "after"} /\ o # NULL
      /\ stack' = <<f>> \o stack
  BY DEF VisitOp, Walking
<1>2. mode' = mode /\ rw' = rw /\ UNCHANGED <<ops, regions, fresh>>
  BY DEF VisitOp, ir
<1>3. Tree' /\ OpSets' = OpSets /\ Kids' = Kids
  BY <1>2, SameIR DEF IInv
<1>4. /\ n \in Nat /\ DOMAIN stack = 1..n /\ 1 \in DOMAIN stack /\ stack \in Seq(Frame)
      /\ \A k \in 1..n : stack[k].ph # "match"
  <2>1. n \in Nat /\ DOMAIN stack = 1..n /\ 1 \in DOMAIN stack /\ stack \in Seq(Frame)
    BY <1>1, StackIs DEF IInv, Frames
  <2>2. \A k \in 1..n : stack[k].ph = "match" => k = 1
    BY <2>1 DEF IInv, Frames
  <2> QED  BY <1>1, <2>1, <2>2
<1>5. PICK h \in Block : Walked(OpSets, Kids, stack, h) /\ o \in OpSets[h]
  BY <1>1 DEF IInv, VisitIn
<1>6. h \in Live(OpSets, Kids) /\ o \in Op /\ o # Module /\ Forest(OpSets, Kids, fresh)
  BY <1>5 DEF Walked, IInv, Tree, Forest
<1>7. /\ f \in Frame /\ f.ph = "first" /\ f.op = o /\ f.it = NULL
      /\ Work(f) \subseteq Kids[o] /\ KeptOps(f) = {o}
  BY <1>6, ActivationIs DEF IInv
<1> HIDE DEF f
<1>8. /\ stack' \in Seq(Frame) /\ DOMAIN stack' = 1..(n + 1) /\ Len(stack') = n + 1
      /\ stack'[1] = f /\ \A k \in 1..n : stack'[k + 1] = stack[k]
  <2>1. <<f>> \in Seq(Frame) /\ Len(<<f>>) = 1 /\ <<f>>[1] = f
    BY <1>7
  <2> DEFINE t == <<f>>
             w == t \o stack
  <2> HIDE DEF t
  <2>2. /\ w \in Seq(Frame) /\ Len(w) = Len(t) + n
        /\ \A i \in 1..(Len(t) + n) : w[i] = IF i <= Len(t) THEN t[i] ELSE stack[i - Len(t)]
    BY <1>4, <2>1, ConcatProperties, Zenon DEF t
  <2>3. w = stack' /\ Len(t) = 1 /\ t[1] = f
    BY <1>1, <2>1 DEF t
  <2> HIDE DEF w, n, o
  <2>4. Len(w) = n + 1 /\ DOMAIN w = 1..(n + 1)
    BY <1>4, <2>2, <2>3, LenProperties
  <2>5. w[1] = f
    BY <1>4, <2>2, <2>3
  <2>6. ASSUME NEW k \in 1..n PROVE w[k + 1] = stack[k]
    <3>1. k + 1 \in 1..(1 + n) /\ ~(k + 1 <= 1) /\ (k + 1) - 1 = k
      BY <1>4
    <3> QED  BY <2>2, <2>3, <3>1
  <2> QED  BY <2>2, <2>3, <2>4, <2>5, <2>6
<1>9. Kept(OpSets, Kids, stack') /\ WorkApart(OpSets, Kids, stack')
  <2>1. {o} \in SUBSET OpSets[h] /\ KeptOps(stack'[1]) \subseteq {o}
        /\ \A y \in Work(stack'[1]) : \E p \in {o} : y \in Kids[p]
    BY <1>5, <1>7, <1>8
  <2>2. \A j \in 1..n : ClearOf(OpSets, Kids, h, stack[j])
    BY <1>4, <1>5 DEF Walked
  <2>3. Kept(OpSets, Kids, stack) /\ WorkApart(OpSets, Kids, stack)
    BY DEF IInv
  <2> HIDE DEF o
  <2> QED  BY <1>4, <1>6, <1>8, <2>1, <2>2, <2>3, NewTop
<1>10. Frames(stack')
  <2> SUFFICES ASSUME NEW k \in 1..(n + 1)
               PROVE  stack'[k].ph # "match" /\ (k # n + 1 => stack'[k].op # Module)
    BY <1>8 DEF Frames
  <2>1. CASE k = 1
    BY <1>6, <1>7, <1>8, <2>1
  <2>2. CASE k # 1
    <3>1. k - 1 \in 1..n /\ (k - 1) + 1 = k
      BY <1>4, <2>2
    <3>2. stack'[k] = stack[k - 1]
      BY <1>8, <3>1
    <3>3. k - 1 # n => stack[k - 1].op # Module
      BY <1>4, <3>1 DEF IInv, Frames
    <3> QED  BY <1>4, <3>1, <3>2, <3>3
  <2> QED  BY <2>1, <2>2
<1>11. VisitIn(OpSets, Kids, stack') /\ MatchIn(OpSets, Kids, fresh, stack', rw', mode)
  BY <1>7, <1>8 DEF VisitIn, MatchIn
<1> QED  BY <1>2, <1>3, <1>9, <1>10, <1>11 DEF IInv

\* The activations below the innermost one.
LEMMA Below ==
  ASSUME NEW O, NEW K, NEW st, Frames(st), st # <<>>, Kept(O, K, st), WorkApart(O, K, st)
  PROVE  /\ Len(st) - 1 \in Nat /\ Len(Tail(st)) = Len(st) - 1 /\ DOMAIN Tail(st) = 1..(Len(st) - 1)
         /\ \A k \in 1..(Len(st) - 1) : Tail(st)[k] = st[k + 1]
         /\ Tail(st) \in Seq(Frame)
         /\ Kept(O, K, Tail(st)) /\ WorkApart(O, K, Tail(st))
<1> DEFINE n == Len(st) - 1
           t == Tail(st)
<1>1. st \in Seq(Frame) /\ n \in Nat /\ DOMAIN st = 1..(n + 1) /\ Len(st) = n + 1
  <2>1. st \in Seq(Frame)
    BY DEF Frames
  <2>2. Len(st) \in Nat /\ Len(st) # 0 /\ DOMAIN st = 1..Len(st)
    BY <2>1, EmptySeq, LenProperties
  <2> QED  BY <2>1, <2>2
<1>2. t \in Seq(Frame) /\ Len(t) = n /\ \A k \in 1..n : t[k] = st[k + 1]
  BY <1>1, HeadTailProperties
<1> HIDE DEF n, t
<1>3. DOMAIN t = 1..n
  BY <1>2, LenProperties
<1>4. Kept(O, K, t) /\ WorkApart(O, K, t)
  BY <1>1, <1>2, <1>3, RelyOnLess
<1> QED  BY <1>1, <1>2, <1>3, <1>4 DEF n, t

\* Return hands the caller an operation of the block that the caller walks.
LEMMA StepReturn ==
  ASSUME IInv, Return
  PROVE  IInv'
<1> DEFINE n == Len(stack) - 1
           t == Tail(stack)
           x == stack[1].ret
           g == [t[1] EXCEPT !.it = x]
<1>1. /\ stack # <<>> /\ stack[1].ph = "after"
      /\ stack' = IF Len(stack) = 1 THEN <<>> ELSE [t EXCEPT ![1] = g]
  BY DEF Return, Walking
<1>2. mode' = mode /\ rw' = rw /\ UNCHANGED <<ops, regions, fresh>>
  BY DEF Return, ir
<1>3. Tree' /\ OpSets' = OpSets /\ Kids' = Kids
  BY <1>2, SameIR DEF IInv
<1>4. /\ n \in Nat /\ Len(t) = n /\ DOMAIN t = 1..n
      /\ \A k \in 1..n : t[k] = stack[k + 1]
      /\ t \in Seq(Frame) /\ Kept(OpSets, Kids, t) /\ WorkApart(OpSets, Kids, t)
  BY <1>1, Below DEF IInv
<1>5. Len(stack) = n + 1 /\ DOMAIN stack = 1..(n + 1) /\ 1 \in DOMAIN stack /\ stack[1] \in Frame
  BY <1>1, StackIs DEF IInv
<1>6. CASE Len(stack) = 1
  <2>1. stack' = <<>>
    BY <1>1, <1>6
  <2>2. Frames(<<>>) /\ Kept(OpSets, Kids, <<>>) /\ WorkApart(OpSets, Kids, <<>>)
    BY DEF Frames, Kept, WorkApart
  <2>3. VisitIn(OpSets, Kids, <<>>) /\ MatchIn(OpSets, Kids, fresh, <<>>, rw', mode)
    BY DEF VisitIn, MatchIn
  <2> QED  BY <1>2, <1>3, <2>1, <2>2, <2>3 DEF IInv
<1>7. CASE Len(stack) # 1
  <2>0. n # 0 /\ 1 \in 1..n
    BY <1>4, <1>5, <1>7
  <2>1. x \in Op \cup {NULL} /\ t[1] \in Frame
    <3>1. x \in Op \cup {NULL}
      BY <1>5 DEF Frame
    <3> HIDE DEF t, n
    <3>2. t[1] \in Frame
      BY <1>4, <2>0, ElementOfSeq
    <3> QED  BY <3>1, <3>2
  <2>2. g \in Frame /\ g.it = x /\ g.work = t[1].work /\ g.ph = t[1].ph /\ g.op = t[1].op /\ g.ret = t[1].ret
    BY <2>1 DEF Frame
  <2>f. \A k \in 1..n : t[k].ph # "match" /\ (k # n => t[k].op # Module)
    <3> SUFFICES ASSUME NEW k \in 1..n PROVE t[k].ph # "match" /\ (k # n => t[k].op # Module)
      OBVIOUS
    <3>0. k + 1 \in 1..(n + 1) /\ k + 1 # 1 /\ (k # n => k + 1 # n + 1)
      <4>1. n \in Nat
        BY <1>4
      <4> HIDE DEF n
      <4> QED  BY <4>1
    <3>1. t[k] = stack[k + 1] /\ k + 1 \in DOMAIN stack /\ k + 1 # 1 /\ (k # n => k + 1 # Len(stack))
      <4> HIDE DEF t, n
      <4> QED  BY <1>4, <1>5, <3>0
    <3> QED  BY <3>1 DEF IInv, Frames
  <2>k. x # NULL => x \in KeptOps(stack[1])
    BY <1>1, <2>1 DEF KeptOps
  <2> HIDE DEF g
  <2>3. /\ stack' \in Seq(Frame) /\ Len(stack') = n /\ DOMAIN stack' = 1..n /\ stack'[1] = g
        /\ \A k \in 1..n : k # 1 => stack'[k] = t[k]
    <3>1. t \in Seq(Frame) /\ 1 \in 1..Len(t)
      BY <1>4, <2>0
    <3>2. stack' = [t EXCEPT ![1] = g]
      BY <1>1, <1>7
    <3> HIDE DEF t, n, Frame
    <3> QED  BY <1>4, <2>2, <3>1, <3>2, ExceptSeq
  <2>4. Frames(stack')
    BY <2>2, <2>3, <2>f DEF Frames
  <2>5. Work(g) = Work(t[1]) /\ KeptOps(g) = KeptOps(t[1])
    BY <2>2 DEF Work, KeptOps
  <2>6. \A k \in 1..n : Work(stack'[k]) = Work(t[k]) /\ KeptOps(stack'[k]) = KeptOps(t[k])
    BY <2>3, <2>5
  <2>7. Kept(OpSets, Kids, stack') /\ WorkApart(OpSets, Kids, stack')
    <3>1. 0 \in Nat /\ n + 0 = n /\ \A k \in 1..n : k + 0 = k
      BY <1>4
    <3> HIDE DEF t, n
    <3> QED  BY <1>4, <2>3, <2>6, <3>1, RelyOnLess
  <2>8. VisitIn(OpSets, Kids, stack')
    <3> SUFFICES ASSUME x # NULL
                 PROVE  \E h \in Block : Walked(OpSets, Kids, stack', h) /\ x \in OpSets[h]
      BY <2>2, <2>3 DEF VisitIn
    <3>1. Placed(OpSets, Kids, x) /\ x # Module
      BY <1>5, <1>7, <2>k DEF IInv, Kept
    <3>2. PICK h \in Live(OpSets, Kids) : x \in OpSets[h]
      BY <3>1 DEF Placed, OpsInside, Live
    <3>3. h \in Block
      BY DEF Live, Inside
    <3>4. ASSUME NEW j \in 1..n PROVE ClearOf(OpSets, Kids, h, stack'[j])
      <4>1. j + 1 \in DOMAIN stack /\ 1 < j + 1 /\ t[j] = stack[j + 1]
        BY <1>4, <1>5
      <4>2. ClearOf(OpSets, Kids, h, stack[j + 1])
        BY <1>5, <2>k, <3>2, <3>3, <4>1 DEF IInv, WorkApart
      <4> QED  BY <2>6, <4>1, <4>2 DEF ClearOf
    <3> QED  BY <2>3, <3>2, <3>3, <3>4 DEF Walked
  <2>9. MatchIn(OpSets, Kids, fresh, stack', rw', mode)
    BY <2>0, <2>2, <2>3, <2>f DEF MatchIn
  <2> QED  BY <1>2, <1>3, <2>4, <2>7, <2>8, <2>9 DEF IInv
<1> QED  BY <1>6, <1>7

\* What iter_affected_ops and _rewrite_op make of a match.
LEMMA RetIs ==
  ASSUME NEW f, NEW r \in Rewriters, NEW md, f.op \in Op
  PROVE  /\ AffOf(f, r) \in Seq(Op)
         /\ ToSet(AffOf(f, r)) = Recorded(r) \cup (IF r.erased THEN {} ELSE {f.op})
         /\ RetOf(md, f, r) \in {f.prev, f.next} \cup ToSet(AffOf(f, r))
<1> DEFINE e == IF r.erased THEN <<>> ELSE <<f.op>>
           u == r.before \o e
           aff == u \o r.after
<1>1. r.before \in Seq(Op) /\ r.after \in Seq(Op)
  BY DEF Rewriters
<1>2. e \in Seq(Op) /\ ToSet(e) = IF r.erased THEN {} ELSE {f.op}
  <2>1. CASE r.erased
    BY <2>1 DEF ToSet
  <2>2. CASE ~r.erased
    <3>1. e = <<f.op>> /\ <<f.op>> \in Seq(Op) /\ DOMAIN <<f.op>> = {1} /\ <<f.op>>[1] = f.op
      BY <2>2
    <3> QED  BY <2>2, <3>1 DEF ToSet
  <2> QED  BY <2>1, <2>2
<1> HIDE DEF e
<1>3. u \in Seq(Op) /\ ToSet(u) = ToSet(r.before) \cup ToSet(e)
  BY <1>1, <1>2, ConcatElements
<1> HIDE DEF u
<1>4. aff \in Seq(Op) /\ ToSet(aff) = ToSet(u) \cup ToSet(r.after)
  BY <1>1, <1>3, ConcatElements
<1>5. aff = AffOf(f, r)
  BY DEF AffOf, u, e
<1> HIDE DEF aff
<1>6. ToSet(aff) = Recorded(r) \cup (IF r.erased THEN {} ELSE {f.op})
  BY <1>2, <1>3, <1>4 DEF Recorded
<1>7. RetOf(md, f, r) \in {f.prev, f.next} \cup ToSet(aff)
  <2>1. aff # <<>> => Head(aff) = aff[1] /\ Last(aff) = aff[Len(aff)] /\ 1 \in DOMAIN aff /\ Len(aff) \in DOMAIN aff
    BY <1>4, LenProperties, EmptySeq DEF Last
  <2>2. aff # <<>> => Head(aff) \in ToSet(aff) /\ Last(aff) \in ToSet(aff)
    BY <2>1 DEF ToSet
  <2> QED  BY <1>5, <2>2 DEF RetOf
<1> QED  BY <1>4, <1>5, <1>6, <1>7

LEMMA ReturnedIs ==
  AffectedOps = AffOf(stack[1], rw) /\ ReturnedOp = RetOf(mode, stack[1], rw)
<1>1. AffectedOps = AffOf(stack[1], rw)
  BY DEF AffectedOps, AffOf, cur
<1> QED  BY <1>1 DEF ReturnedOp, RetOf

\* What _rewrite_op walks after the match and what it returns, when the operations of
\* the match are in P.
LEMMA AfterMatch ==
  ASSUME IInv, stack # <<>>, NEW P \in SUBSET Op,
         \A o \in Recorded(rw) : o \in P \/ Kids[o] = {}, ~rw.erased => cur \in P,
         Others(stack[1], rw, mode) \subseteq P
  PROVE  /\ BlocksAfter \in Seq(Block) /\ \A y \in ToSet(BlocksAfter) : \E p \in P : y \in Kids[p]
         /\ ReturnedOp = NULL \/ ReturnedOp \in P
<1> DEFINE aff == AffectedOps
<1>1. stack[1].op = cur /\ cur \in Op /\ rw \in Rewriters /\ Tree
  BY StackIs DEF IInv, Frame, cur
<1>2. /\ aff \in Seq(Op) /\ ToSet(aff) = Recorded(rw) \cup (IF rw.erased THEN {} ELSE {cur})
      /\ ReturnedOp = RetOf(mode, stack[1], rw)
      /\ ReturnedOp \in {stack[1].prev, stack[1].next} \cup ToSet(aff)
  BY <1>1, RetIs, ReturnedIs
<1> HIDE DEF aff
<1>3. ReturnedOp = NULL \/ ReturnedOp \in P
  <2>1. CASE rw.erased
    BY <1>2, <2>1 DEF Others
  <2>2. CASE ~rw.erased
    <3>1. \A p \in {stack[1].prev, stack[1].next} \cup Recorded(rw) : p = NULL \/ p \in P
      BY <2>2 DEF Others
    <3> QED  BY <1>2, <2>2, <3>1
  <2> QED  BY <2>1, <2>2
<1>4. /\ DOMAIN aff = 1..Len(aff) /\ Len(aff) \in Nat
      /\ \A k \in DOMAIN aff : aff[k] \in Op /\ (aff[k] \in P \/ Kids[aff[k]] = {})
  <2>1. DOMAIN aff = 1..Len(aff) /\ Len(aff) \in Nat /\ \A k \in DOMAIN aff : aff[k] \in Op
    BY <1>2, LenProperties, ElementOfSeq
  <2>2. \A k \in DOMAIN aff : aff[k] \in ToSet(aff)
    BY DEF ToSet
  <2> QED  BY <1>2, <2>1, <2>2
<1>5. ASSUME NEW p \in Op PROVE BlocksOf(p) \in Seq(Block) /\ ToSet(BlocksOf(p)) \subseteq Kids[p]
  BY <1>1, BlocksOfIs
<1> DEFINE bs == [k \in DOMAIN aff |-> BlocksOf(aff[k])]
<1>6. FlattenSeq(bs) \in Seq(Block) /\ \A y \in ToSet(FlattenSeq(bs)) : \E p \in P : y \in Kids[p]
  <2>1. DOMAIN bs = DOMAIN aff /\ \A k \in DOMAIN aff : bs[k] = BlocksOf(aff[k])
    OBVIOUS
  <2>2. bs \in Seq(Seq(Block))
    <3>1. \A k \in 1..Len(aff) : BlocksOf(aff[k]) \in Seq(Block)
      BY <1>4, <1>5
    <3>2. bs = [k \in 1..Len(aff) |-> BlocksOf(aff[k])]
      BY <1>4
    <3>3. [k \in 1..Len(aff) |-> BlocksOf(aff[k])] \in Seq(Seq(Block))
      BY <1>4, <3>1, IsASeq
    <3> QED  BY <3>2, <3>3
  <2> HIDE DEF bs
  <2>3. FlattenSeq(bs) \in Seq(Block)
        /\ \A y \in ToSet(FlattenSeq(bs)) : \E k \in DOMAIN bs : y \in ToSet(bs[k])
    BY <2>2, FlattenList
  <2>4. ASSUME NEW y \in ToSet(FlattenSeq(bs)) PROVE \E p \in P : y \in Kids[p]
    <3>1. PICK k \in DOMAIN bs : y \in ToSet(bs[k])
      BY <2>3
    <3>2. aff[k] \in Op /\ (aff[k] \in P \/ Kids[aff[k]] = {}) /\ y \in ToSet(BlocksOf(aff[k]))
      BY <1>4, <2>1, <3>1
    <3>3. y \in Kids[aff[k]]
      BY <1>5, <3>2
    <3> QED  BY <3>2, <3>3
  <2> QED  BY <2>3, <2>4
<1>7. bs = [k \in DOMAIN AffectedOps |-> BlocksOf(AffectedOps[k])]
  BY DEF aff
<1> HIDE DEF bs
<1>8. ~rw.done => cur \in P
  BY DEF IInv
<1>9. <<>> \in Seq(Block) /\ ToSet(<<>>) = {}
  BY DEF ToSet
<1>10. BlocksAfter = IF mode.first \/ (rw.done /\ mode.recursive) THEN <<>>
                     ELSE IF rw.done THEN FlattenSeq(bs) ELSE BlocksOf(cur)
  BY <1>7, Zenon DEF BlocksAfter
<1>11. BlocksAfter \in Seq(Block) /\ \A y \in ToSet(BlocksAfter) : \E p \in P : y \in Kids[p]
  <2>1. CASE mode.first \/ (rw.done /\ mode.recursive)
    <3>1. BlocksAfter = <<>>
      BY <1>10, <2>1
    <3> QED  BY <1>9, <3>1
  <2>2. CASE ~(mode.first \/ (rw.done /\ mode.recursive)) /\ rw.done
    <3>1. BlocksAfter = FlattenSeq(bs)
      BY <1>10, <2>2
    <3> QED  BY <1>6, <3>1
  <2>3. CASE ~(mode.first \/ (rw.done /\ mode.recursive)) /\ ~rw.done
    <3>1. BlocksAfter = BlocksOf(cur)
      BY <1>10, <2>3
    <3> QED  BY <1>1, <1>5, <1>8, <2>3, <3>1
  <2> QED  BY <2>1, <2>2, <2>3
<1> QED  BY <1>3, <1>11

\* EndMatch picks the blocks to walk and the operation to return.
LEMMA StepEndMatch ==
  ASSUME IInv, EndMatch
  PROVE  IInv'
<1> DEFINE n == Len(stack) - 1
           f == stack[1]
           t == Tail(stack)
           g == [f EXCEPT !.ph = "after", !.work = BlocksAfter, !.ret = ReturnedOp]
<1>1. stack # <<>> /\ f.ph = "match" /\ stack' = [stack EXCEPT ![1] = g]
  BY DEF EndMatch, Matching
<1>2. mode' = mode /\ rw' = rw /\ UNCHANGED <<ops, regions, fresh>>
  BY DEF EndMatch, ir
<1>3. Tree' /\ OpSets' = OpSets /\ Kids' = Kids
  BY <1>2, SameIR DEF IInv
<1>4. /\ n \in Nat /\ Len(t) = n /\ DOMAIN t = 1..n
      /\ \A k \in 1..n : t[k] = stack[k + 1]
      /\ t \in Seq(Frame) /\ Kept(OpSets, Kids, t) /\ WorkApart(OpSets, Kids, t)
  BY <1>1, Below DEF IInv
<1>5. Len(stack) = n + 1 /\ DOMAIN stack = 1..(n + 1) /\ 1 \in DOMAIN stack /\ f \in Frame /\ f.op \in Op
  BY <1>1, StackIs DEF IInv, Frame
<1>6. f.it = NULL /\ cur = f.op
  BY <1>1, <1>5 DEF IInv, Frames, cur
<1>7. ASSUME NEW P \in SUBSET Op,
             BlocksAfter \in Seq(Block), ReturnedOp = NULL \/ ReturnedOp \in P,
             \A y \in ToSet(BlocksAfter) : \E p \in P : y \in Kids[p]
      PROVE  /\ stack' \in Seq(Frame) /\ Len(stack') = n + 1 /\ DOMAIN stack' = 1..(n + 1)
             /\ \A k \in 1..n : stack'[k + 1] = t[k]
             /\ \A y \in Work(stack'[1]) : \E p \in P : y \in Kids[p]
             /\ KeptOps(stack'[1]) \subseteq P
             /\ Frames(stack') /\ VisitIn(OpSets, Kids, stack') /\ MatchIn(OpSets, Kids, fresh, stack', rw', mode)
  <2>1. /\ g \in Frame /\ g.ph = "after" /\ g.work = BlocksAfter /\ g.ret = ReturnedOp
        /\ g.it = NULL /\ g.op = f.op
    BY <1>5, <1>6, <1>7 DEF Frame
  <2>f. \A k \in 1..(n + 1) : /\ stack[k].ph = "match" => k = 1
                              /\ k # n + 1 => stack[k].op # Module
    BY <1>5 DEF IInv, Frames
  <2> HIDE DEF g
  <2>2. /\ stack' \in Seq(Frame) /\ Len(stack') = n + 1 /\ DOMAIN stack' = 1..(n + 1)
        /\ stack'[1] = g /\ \A k \in 1..(n + 1) : k # 1 => stack'[k] = stack[k]
    <3>1. Frames(stack)
      BY DEF IInv
    <3> QED  BY <1>1, <1>5, <2>1, <3>1, NewFirst
  <2>3. ASSUME NEW k \in 1..n PROVE stack'[k + 1] = t[k]
    <3>1. k + 1 \in 1..(n + 1) /\ k + 1 # 1
      BY <1>4
    <3> QED  BY <1>4, <2>2, <3>1
  <2>4. Work(stack'[1]) = ToSet(BlocksAfter) /\ KeptOps(stack'[1]) = {o \in Op : o = ReturnedOp}
    BY <2>1, <2>2 DEF Work, KeptOps
  <2>5. KeptOps(stack'[1]) \subseteq P
    BY <1>7, <2>4, WalkerInput
  <2>6. Frames(stack')
    <3> SUFFICES ASSUME NEW k \in 1..(n + 1)
                 PROVE  stack'[k].ph # "match" /\ (k # n + 1 => stack'[k].op # Module)
      BY <2>2 DEF Frames
    <3>1. CASE k = 1
      BY <2>1, <2>2, <2>f, <3>1
    <3>2. CASE k # 1
      BY <2>2, <2>f, <3>2
    <3> QED  BY <3>1, <3>2
  <2>7. VisitIn(OpSets, Kids, stack') /\ MatchIn(OpSets, Kids, fresh, stack', rw', mode)
    BY <2>1, <2>2 DEF VisitIn, MatchIn
  <2> QED  BY <1>7, <2>2, <2>3, <2>4, <2>5, <2>6, <2>7
<1>8. \/ \E h \in Block : /\ Walked(OpSets, Kids, stack, h)
                          /\ MatchedIn(OpSets, Kids, fresh, f, rw, mode, h)
      \/ f.op = Module /\ Len(stack) = 1 /\ Others(f, rw, mode) = {} /\ ~rw.erased
  BY <1>1 DEF IInv, MatchIn
<1>f. Forest(OpSets, Kids, fresh)
  BY DEF IInv, Tree
<1>9. CASE f.op = Module /\ Len(stack) = 1 /\ Others(f, rw, mode) = {} /\ ~rw.erased
  <2> DEFINE P == {Module}
  <2>1. /\ P \in SUBSET Op /\ Others(f, rw, mode) \subseteq P /\ cur \in P
        /\ \A o \in Recorded(rw) : o \in P \/ Kids[o] = {}
    <3>1. Recorded(rw) \subseteq Op
      BY LenProperties, ElementOfSeq DEF IInv, Rewriters, Recorded, ToSet
    <3>2. Recorded(rw) = {}
      BY <1>9, <3>1, WalkerInput DEF Others
    <3> QED  BY <1>5, <1>6, <1>9, <3>2
  <2>2. /\ BlocksAfter \in Seq(Block) /\ \A y \in ToSet(BlocksAfter) : \E p \in P : y \in Kids[p]
        /\ ReturnedOp = NULL \/ ReturnedOp \in P
    <3> HIDE DEF P
    <3> QED  BY <1>1, <2>1, AfterMatch
  <2>3. /\ stack' \in Seq(Frame) /\ Len(stack') = n + 1 /\ DOMAIN stack' = 1..(n + 1)
        /\ \A y \in Work(stack'[1]) : \E p \in P : y \in Kids[p]
        /\ KeptOps(stack'[1]) \subseteq P
        /\ Frames(stack') /\ VisitIn(OpSets, Kids, stack') /\ MatchIn(OpSets, Kids, fresh, stack', rw', mode)
    <3> HIDE DEF P, g, t, n
    <3> QED  BY <1>7, <2>1, <2>2
  <2>4. n = 0 /\ n + 1 = 1
    BY <1>4, <1>9
  <2>5. Work(stack'[1]) \subseteq Kids[Module] /\ KeptOps(stack'[1]) \subseteq {Module}
    BY <2>3
  <2>6. Kept(OpSets, Kids, stack') /\ WorkApart(OpSets, Kids, stack')
    <3> HIDE DEF n
    <3> QED  BY <1>f, <2>3, <2>4, <2>5, ModuleTop
  <2> QED  BY <1>2, <1>3, <2>3, <2>6 DEF IInv
<1>10. ASSUME NEW h \in Block, Walked(OpSets, Kids, stack, h), MatchedIn(OpSets, Kids, fresh, f, rw, mode, h)
       PROVE  IInv'
  <2> DEFINE P == OpSets[h]
  <2>1. /\ P \in SUBSET Op /\ Others(f, rw, mode) \subseteq P /\ (~rw.erased => cur \in P)
        /\ \A o \in Recorded(rw) : o \in P \/ Kids[o] = {}
    BY <1>6, <1>10, <1>f DEF Forest, MatchedIn
  <2>2. /\ BlocksAfter \in Seq(Block) /\ \A y \in ToSet(BlocksAfter) : \E p \in P : y \in Kids[p]
        /\ ReturnedOp = NULL \/ ReturnedOp \in P
    <3> HIDE DEF P
    <3> QED  BY <1>1, <2>1, AfterMatch
  <2>3. /\ stack' \in Seq(Frame) /\ Len(stack') = n + 1 /\ DOMAIN stack' = 1..(n + 1)
        /\ \A k \in 1..n : stack'[k + 1] = t[k]
        /\ \A y \in Work(stack'[1]) : \E p \in P : y \in Kids[p]
        /\ KeptOps(stack'[1]) \subseteq P
        /\ Frames(stack') /\ VisitIn(OpSets, Kids, stack') /\ MatchIn(OpSets, Kids, fresh, stack', rw', mode)
    <3> HIDE DEF P, g, t, n
    <3> QED  BY <1>7, <2>1, <2>2
  <2>4. \A j \in 1..n : ClearOf(OpSets, Kids, h, t[j])
    <3> SUFFICES ASSUME NEW j \in 1..n PROVE ClearOf(OpSets, Kids, h, t[j])
      OBVIOUS
    <3>1. t[j] = stack[j + 1] /\ j + 1 \in DOMAIN stack
      BY <1>4, <1>5
    <3> QED  BY <1>10, <3>1 DEF Walked
  <2>5. h \in Live(OpSets, Kids) /\ P \in SUBSET OpSets[h]
    BY <1>10 DEF Walked
  <2>6. Kept(OpSets, Kids, stack') /\ WorkApart(OpSets, Kids, stack')
    <3> HIDE DEF P, n, t
    <3> QED  BY <1>4, <1>f, <2>3, <2>4, <2>5, NewTop
  <2> QED  BY <1>2, <1>3, <2>3, <2>6 DEF IInv
<1> QED  BY <1>8, <1>9, <1>10

\* The walk starts at the module, with nothing else to rely on.
LEMMA InitIInv == Init => IInv
<1> SUFFICES ASSUME Init PROVE IInv
  OBVIOUS
<1>m. Module \in Op
  BY WalkerInput
<1>1. Tree
  <2>1. ops \in [Block -> Seq(Op)] /\ regions \in [Op -> Seq(Seq(Block))]
    BY WalkerInput DEF Init
  <2>2. \A b \in Block : IsInjective(ops[b]) /\ Module \notin ToSet(ops[b])
    BY InitTree DEF Init
  <2>3. /\ \A b \in Block : OpSets[b] = ToSet(ops[b]) /\ OpSets[b] \subseteq Op
        /\ OpSets \in [Block -> SUBSET Op]
    <3>1. \A b \in Block : ToSet(ops[b]) \subseteq Op
      BY <2>1, LenProperties, ElementOfSeq DEF ToSet
    <3> QED  BY <3>1 DEF OpSets
  <2>4. Kids \in [Op -> SUBSET Block]
    <3>1. ASSUME NEW o \in Op PROVE ChildBlocks(o) \subseteq Block
      <4>1. \A k \in DOMAIN regions[o] : regions[o][k] \in Seq(Block)
        BY <2>1, LenProperties, ElementOfSeq
      <4>2. \A k \in DOMAIN regions[o] : ToSet(regions[o][k]) \subseteq Block
        BY <4>1, LenProperties, ElementOfSeq DEF ToSet
      <4> QED  BY <4>2 DEF ChildBlocks
    <3> QED  BY <3>1 DEF Kids
  <2>5. \A b, c \in Block : \A o \in Op : o \in OpSets[b] /\ o \in OpSets[c] => b = c
    BY <2>3, InitTree DEF Init
  <2>6. \A o, p \in Op : \A b \in Block : b \in Kids[o] /\ b \in Kids[p] => o = p
    BY InitTree DEF Init, Kids, ChildBlocks
  <2>7. /\ fresh \subseteq Op /\ Module \notin fresh
        /\ \A b \in Block : Module \notin OpSets[b] /\ \A n \in fresh : n \notin OpSets[b]
    BY <2>2, <2>3 DEF Init, Original
  <2>8. Forest(OpSets, Kids, fresh)
    BY <2>3, <2>4, <2>5, <2>6, <2>7 DEF Forest
  <2>9. \A o \in Op : \A i, j \in DOMAIN regions[o] :
          i # j => ToSet(regions[o][i]) \cap ToSet(regions[o][j]) = {}
    BY InitTree DEF Init
  <2> QED  BY <2>1, <2>2, <2>8, <2>9 DEF Tree
<1> DEFINE f == Activation(Module)
<1>2. /\ f \in Frame /\ f.ph = "first" /\ f.it = NULL
      /\ Work(f) \subseteq Kids[Module] /\ KeptOps(f) = {Module}
  BY <1>m, <1>1, ActivationIs
<1>3. stack = <<f>>
  BY DEF Init
<1> HIDE DEF f
<1>4. stack \in Seq(Frame) /\ Len(stack) = 1 /\ DOMAIN stack = 1..1 /\ stack[1] = f
  BY <1>2, <1>3
<1>5. Frames(stack)
  BY <1>2, <1>4 DEF Frames
<1>6. Forest(OpSets, Kids, fresh)
  BY <1>1 DEF Tree
<1>7. Kept(OpSets, Kids, stack) /\ WorkApart(OpSets, Kids, stack)
  BY <1>2, <1>4, <1>6, ModuleTop
<1>8. VisitIn(OpSets, Kids, stack) /\ MatchIn(OpSets, Kids, fresh, stack, rw, mode)
  BY <1>2, <1>4 DEF VisitIn, MatchIn
<1>9. mode \in Modes /\ rw \in Rewriters /\ (rw.erased => rw.done)
  BY DEF Init, Rewriters, NewRewriter
<1> QED  BY <1>1, <1>5, <1>7, <1>8, <1>9 DEF IInv


----------------------------------------------------------------------------
(* The calls a pattern makes. *)

\* The pattern leaves the matched operation's block in its place and, once it has
\* erased the matched operation, the module alone, but for what it has put there.
Mannerly == \A k \in BOOLEAN : "own ops" \notin Liberties[k] /\ "erased" \notin Liberties[k]

\* What becomes of the sets: operations N come into block b;
Inserted(O, O2, b, N) == \A c \in Block : O2[c] = IF c = b THEN O[b] \cup N ELSE O[c]

\* operation o of block c is erased with everything in it, N are put in its place;
Replaced(O, K, O2, c, o, N) ==
  \A b \in Block : O2[b] = IF b = c THEN (O[c] \ {o}) \cup N
                           ELSE IF b \in Inside(O, K, o) THEN {} ELSE O[b]

\* the operations of block b go to block d;
Inlined(O, O2, b, d) ==
  \A c \in Block : O2[c] = IF c = b THEN {} ELSE IF c = d THEN O[d] \cup O[b] ELSE O[c]

\* blocks X of operation p go to operation n.
Moved(K, K2, p, n, X) ==
  \A q \in Op : K2[q] = IF q = p THEN K[p] \ X ELSE IF q = n THEN K[n] \cup X ELSE K[q]

\* Nothing comes back: what is in a block was in one, or new; only new operations
\* get blocks.
Origin(O, K, F, O2, K2, F2) ==
  /\ F2 \subseteq F /\ \A o \in Op : o \notin F => K2[o] \subseteq K[o]
  /\ \A b \in Block : \A o \in O2[b] : o \in F \/ \E c \in Block : o \in O[c]

\* The operation lists once ns are in the place of o, of block c.
ListReplaced(c, o, ns) ==
  /\ ops' = [b \in Block |-> ops'[b]]
  /\ \A b \in Block : b # c => ops'[b] = Without(o)[b]
  /\ \/ ops'[c] = Spliced(Without(o)[c], ns, PosOf(o) - 1)
     \/ (ops'[c] = Without(o)[c] /\ ToSet(ns) = {})

\* New operations ns put in a block: insert_op_before_matched_op and its like.
LEMMA InsertTree ==
  ASSUME Tree, NEW b \in Block, NEW ns \in Seq(fresh), IsInjective(ns), NEW i \in 0..Len(ops[b]),
         ops' = [ops EXCEPT ![b] = Spliced(@, ns, i)], fresh' = fresh \ ToSet(ns), regions' = regions
  PROVE  /\ Tree'
         /\ Inserted(OpSets, OpSets', b, ToSet(ns)) /\ Kids' = Kids /\ ToSet(ns) \subseteq fresh
<1> DEFINE w == Spliced(ops[b], ns, i)
<1>1. /\ ops \in [Block -> Seq(Op)] /\ regions \in [Op -> Seq(Seq(Block))] /\ fresh \subseteq Op
      /\ ops[b] \in Seq(Op) /\ IsInjective(ops[b]) /\ \A c \in Block : IsInjective(ops[c])
      /\ Forest(OpSets, Kids, fresh)
  BY DEF Tree, Forest
<1>2. ToSet(ns) \subseteq fresh /\ ns \in Seq(Op)
  <2>1. \A k \in 1..Len(ns) : ns[k] \in fresh
    BY ElementOfSeq
  <2>2. DOMAIN ns = 1..Len(ns) /\ Len(ns) \in Nat /\ ns \in [1..Len(ns) -> fresh]
    BY LenProperties
  <2>3. ns \in [1..Len(ns) -> Op]
    BY <1>1, <2>2
  <2>4. ns \in Seq(Op)
    BY <2>2, <2>3, SeqDef
  <2> QED  BY <2>1, <2>2, <2>4 DEF ToSet
<1>3. \A c \in Block : OpSets[c] = ToSet(ops[c])
  BY DEF OpSets
<1>4. ToSet(ops[b]) \cap ToSet(ns) = {}
  BY <1>1, <1>2, <1>3 DEF Forest
<1>5. w \in Seq(Op) /\ ToSet(w) = ToSet(ops[b]) \cup ToSet(ns) /\ IsInjective(w)
  BY <1>1, <1>2, <1>4, InsertList DEF Spliced
<1> HIDE DEF w
<1>6. ops' = [ops EXCEPT ![b] = w]
  BY DEF w
<1>7. ops' \in [Block -> Seq(Op)] /\ \A c \in Block : IsInjective(ops'[c])
  BY <1>1, <1>5, <1>6
<1>8. OpSets' = [OpSets EXCEPT ![b] = @ \cup ToSet(ns)]
  BY <1>1, <1>5, <1>6 DEF OpSets
<1>9. Kids' = Kids
  BY DEF Kids, ChildBlocks
<1>10. Forest(OpSets', Kids', fresh')
  BY <1>1, <1>2, <1>8, <1>9 DEF Forest
<1>11. Inserted(OpSets, OpSets', b, ToSet(ns))
  BY <1>1, <1>8 DEF Inserted, Forest
<1> QED  BY <1>1, <1>2, <1>7, <1>9, <1>10, <1>11 DEF Tree

\* The operation lists once o, of block c, is erased with everything in it.
LEMMA WithoutIs ==
  ASSUME Tree, NEW c \in Block, NEW o \in OpSets[c]
  PROVE  /\ Without(o) \in [Block -> Seq(Op)] /\ o \in Op
         /\ \A b \in Block : /\ IsInjective(Without(o)[b])
                             /\ ToSet(Without(o)[b]) = IF b = c THEN OpSets[c] \ {o}
                                                       ELSE IF b \in Inside(OpSets, Kids, o) THEN {}
                                                       ELSE OpSets[b]
         /\ PosOf(o) - 1 \in 0..Len(Without(o)[c])
<1>1. Forest(OpSets, Kids, fresh) /\ o \in Op
  BY DEF Tree, Forest
<1>3. NestedBlocks(o) = Inside(OpSets, Kids, o)
  BY <1>1, NestedIs
<1>4. BlockOf(o) = c /\ PosOf(o) \in DOMAIN ops[c] /\ ops[c][PosOf(o)] = o
  BY PlaceIs
<1>5. \A b \in Block : Without(o)[b] = IF b = c THEN RemoveAt(ops[c], PosOf(o))
                                       ELSE IF b \in Inside(OpSets, Kids, o) THEN <<>> ELSE ops[b]
  BY <1>3, <1>4 DEF Without
<1>6. \A b \in Block : ops[b] \in Seq(Op) /\ IsInjective(ops[b]) /\ OpSets[b] = ToSet(ops[b])
  BY DEF Tree, OpSets
<1> DEFINE w == RemoveAt(ops[c], PosOf(o))
<1>7. /\ w \in Seq(Op) /\ IsInjective(w) /\ ToSet(w) = OpSets[c] \ {o}
      /\ DOMAIN w = 1..(Len(ops[c]) - 1)
  <2>1. ops[c] \in Seq(Op) /\ IsInjective(ops[c]) /\ OpSets[c] = ToSet(ops[c])
    BY <1>6
  <2>2. w \in Seq(Op) /\ DOMAIN w = 1..(Len(ops[c]) - 1)
    BY <1>4, <2>1, RemovedAt
  <2>3. IsInjective(w) /\ ToSet(w) = ToSet(ops[c]) \ {ops[c][PosOf(o)]}
    BY <1>4, <2>1, RemoveList
  <2> QED  BY <1>4, <2>1, <2>2, <2>3
<1> HIDE DEF w
<1>8. <<>> \in Seq(Op) /\ IsInjective(<<>>) /\ ToSet(<<>>) = {}
  BY DEF IsInjective, ToSet
<1>10. ASSUME NEW b \in Block
       PROVE  /\ Without(o)[b] \in Seq(Op) /\ IsInjective(Without(o)[b])
              /\ ToSet(Without(o)[b]) = IF b = c THEN OpSets[c] \ {o}
                                        ELSE IF b \in Inside(OpSets, Kids, o) THEN {} ELSE OpSets[b]
  <2>1. CASE b # c /\ b \in Inside(OpSets, Kids, o)
    <3>1. Without(o)[b] = <<>>
      BY <1>5, <2>1
    <3> QED  BY <1>8, <2>1, <3>1
  <2>2. CASE b = c
    <3>1. Without(o)[b] = w
      BY <1>5, <2>2 DEF w
    <3> QED  BY <1>7, <2>2, <3>1
  <2>3. CASE b # c /\ b \notin Inside(OpSets, Kids, o)
    <3>1. Without(o)[b] = ops[b]
      BY <1>5, <2>3
    <3> QED  BY <1>6, <2>3, <3>1
  <2> QED  BY <2>1, <2>2, <2>3
<1>11. Without(o) \in [Block -> Seq(Op)]
  <2>1. Without(o) = [b \in Block |-> Without(o)[b]]
    BY DEF Without
  <2> QED  BY <1>10, <2>1
<1>12. PosOf(o) - 1 \in 0..Len(Without(o)[c])
  <2>1. Without(o)[c] = w
    BY <1>5 DEF w
  <2>2. Len(ops[c]) \in Nat /\ PosOf(o) \in 1..Len(ops[c])
    BY <1>4, <1>6, LenProperties
  <2>3. Len(w) \in Nat /\ DOMAIN w = 1..Len(w)
    BY <1>7, LenProperties
  <2>4. Len(w) = Len(ops[c]) - 1
    <3>1. Len(ops[c]) - 1 \in Nat /\ 1..Len(w) = 1..(Len(ops[c]) - 1)
      BY <1>7, <2>2, <2>3
    <3> QED  BY <2>3, <3>1
  <2> QED  BY <2>1, <2>2, <2>4
<1> QED  BY <1>1, <1>10, <1>11, <1>12

\* o erased, new operations ns in its place: erase_op and replace_op.
LEMMA ReplaceTree ==
  ASSUME Tree, NEW c \in Block, NEW o \in OpSets[c], NEW ns \in Seq(fresh), IsInjective(ns),
         ListReplaced(c, o, ns), fresh' = fresh \ ToSet(ns), regions' = regions
  PROVE  /\ Tree' /\ Kids' = Kids /\ ToSet(ns) \subseteq fresh
         /\ Replaced(OpSets, Kids, OpSets', c, o, ToSet(ns))
<1> DEFINE s == Without(o)
           w == Spliced(s[c], ns, PosOf(o) - 1)
           I == Inside(OpSets, Kids, o)
<1>1. /\ regions \in [Op -> Seq(Seq(Block))] /\ fresh \subseteq Op /\ Forest(OpSets, Kids, fresh)
  BY DEF Tree, Forest
<1>2. ToSet(ns) \subseteq fresh /\ ns \in Seq(Op)
  <2>1. \A k \in 1..Len(ns) : ns[k] \in fresh
    BY ElementOfSeq
  <2>2. DOMAIN ns = 1..Len(ns) /\ Len(ns) \in Nat /\ ns \in [1..Len(ns) -> fresh]
    BY LenProperties
  <2>3. ns \in [1..Len(ns) -> Op]
    BY <1>1, <2>2
  <2>4. ns \in Seq(Op)
    BY <2>2, <2>3, SeqDef
  <2> QED  BY <2>1, <2>2, <2>4 DEF ToSet
<1>3. /\ s \in [Block -> Seq(Op)] /\ o \in Op
      /\ \A b \in Block : IsInjective(s[b]) /\ ToSet(s[b]) = IF b = c THEN OpSets[c] \ {o}
                                                             ELSE IF b \in I THEN {} ELSE OpSets[b]
      /\ PosOf(o) - 1 \in 0..Len(s[c])
  BY WithoutIs
<1>x. /\ ops' = [b \in Block |-> ops'[b]] /\ \A b \in Block : b # c => ops'[b] = s[b]
      /\ ops'[c] = w \/ (ops'[c] = s[c] /\ ToSet(ns) = {})
  BY DEF ListReplaced
<1> HIDE DEF s, I
<1>4. ToSet(s[c]) \cap ToSet(ns) = {}
  BY <1>1, <1>2, <1>3 DEF Forest
<1>5. w \in Seq(Op) /\ ToSet(w) = ToSet(s[c]) \cup ToSet(ns) /\ IsInjective(w)
  <2>1. s[c] \in Seq(Op) /\ IsInjective(s[c])
    BY <1>3
  <2> QED  BY <1>2, <1>3, <1>4, <2>1, InsertList DEF Spliced
<1> HIDE DEF w
<1>6. ops'[c] \in Seq(Op) /\ ToSet(ops'[c]) = ToSet(s[c]) \cup ToSet(ns) /\ IsInjective(ops'[c])
  BY <1>3, <1>5, <1>x
<1>7. /\ ops' \in [Block -> Seq(Op)]
      /\ \A b \in Block : IsInjective(ops'[b])
      /\ \A b \in Block : ToSet(ops'[b]) = IF b = c THEN ToSet(s[c]) \cup ToSet(ns) ELSE ToSet(s[b])
  BY <1>3, <1>6, <1>x
<1>9. \A b \in Block : OpSets'[b] = IF b = c THEN (OpSets[c] \ {o}) \cup ToSet(ns)
                                    ELSE IF b \in I THEN {} ELSE OpSets[b]
  <2>1. \A b \in Block : OpSets'[b] = ToSet(ops'[b])
    BY DEF OpSets
  <2> QED  BY <1>3, <1>7, <2>1
<1>10. Kids' = Kids
  BY DEF Kids, ChildBlocks
<1>11. OpSets' = [b \in Block |-> OpSets'[b]]
  BY DEF OpSets
<1>12. Forest(OpSets', Kids', fresh')
  <2>1. ASSUME NEW b \in Block PROVE OpSets'[b] \subseteq OpSets[b] \/ (b = c /\ OpSets'[b] \subseteq OpSets[b] \cup ToSet(ns))
    BY <1>9
  <2>2. OpSets' \in [Block -> SUBSET Op]
    BY <1>1, <1>2, <1>11, <2>1 DEF Forest
  <2>3. \A b, d \in Block : \A p \in Op : p \in OpSets'[b] /\ p \in OpSets'[d] => b = d
    BY <1>1, <1>2, <2>1 DEF Forest
  <2>4. \A b \in Block : Module \notin OpSets'[b] /\ \A n \in fresh' : n \notin OpSets'[b]
    BY <1>1, <1>2, <2>1 DEF Forest
  <2> QED  BY <1>1, <1>10, <2>2, <2>3, <2>4 DEF Forest
<1> QED  BY <1>1, <1>2, <1>7, <1>9, <1>10, <1>12 DEF Tree, I, Replaced

\* The operations of block b go to block d: inline_block_before and its like.
LEMMA InlineTree ==
  ASSUME Tree, NEW b \in Block, NEW d \in Block, b # d, NEW i \in 0..Len(ops[d]),
         ops' = [ops EXCEPT ![b] = <<>>, ![d] = Spliced(@, ops[b], i)], UNCHANGED <<regions, fresh>>
  PROVE  /\ Tree' /\ Kids' = Kids
         /\ Inlined(OpSets, OpSets', b, d)
<1> DEFINE w == Spliced(ops[d], ops[b], i)
<1>1. /\ ops \in [Block -> Seq(Op)] /\ regions \in [Op -> Seq(Seq(Block))]
      /\ \A c \in Block : ops[c] \in Seq(Op) /\ IsInjective(ops[c]) /\ OpSets[c] = ToSet(ops[c])
      /\ Forest(OpSets, Kids, fresh)
  BY DEF Tree, OpSets
<1>2. ToSet(ops[d]) \cap ToSet(ops[b]) = {}
  BY <1>1 DEF Forest
<1>3. w \in Seq(Op) /\ ToSet(w) = ToSet(ops[d]) \cup ToSet(ops[b]) /\ IsInjective(w)
  <2>1. ops[d] \in Seq(Op) /\ ops[b] \in Seq(Op) /\ IsInjective(ops[d]) /\ IsInjective(ops[b])
    BY <1>1
  <2> QED  BY <1>2, <2>1, InsertList DEF Spliced
<1> HIDE DEF w
<1>4. <<>> \in Seq(Op) /\ IsInjective(<<>>) /\ ToSet(<<>>) = {}
  BY DEF IsInjective, ToSet
<1>5. \A c \in Block : ops'[c] = IF c = b THEN <<>> ELSE IF c = d THEN w ELSE ops[c]
  BY <1>1 DEF w
<1>6. ops' = [c \in Block |-> ops'[c]]
  <2>1. ops' = [ops EXCEPT ![b] = <<>>, ![d] = w]
    BY <1>1 DEF w
  <2> QED  BY <1>1, <2>1
<1>7. ASSUME NEW c \in Block
      PROVE  /\ ops'[c] \in Seq(Op) /\ IsInjective(ops'[c])
             /\ ToSet(ops'[c]) = IF c = b THEN {} ELSE IF c = d THEN OpSets[d] \cup OpSets[b] ELSE OpSets[c]
  <2>1. CASE c = b
    BY <1>4, <1>5, <2>1
  <2>2. CASE c = d
    BY <1>1, <1>3, <1>5, <2>2
  <2>3. CASE c # b /\ c # d
    BY <1>1, <1>5, <2>3
  <2> QED  BY <2>1, <2>2, <2>3
<1>8. ops' \in [Block -> Seq(Op)] /\ \A c \in Block : IsInjective(ops'[c])
  BY <1>6, <1>7
<1>9. \A c \in Block : OpSets'[c] = IF c = b THEN {}
                                    ELSE IF c = d THEN OpSets[d] \cup OpSets[b] ELSE OpSets[c]
  BY <1>7 DEF OpSets
<1>10. Kids' = Kids
  BY DEF Kids, ChildBlocks
<1>11. OpSets' = [c \in Block |-> OpSets'[c]]
  BY DEF OpSets
<1>12. Forest(OpSets', Kids', fresh')
  <2>1. OpSets' \in [Block -> SUBSET Op]
    BY <1>1, <1>9, <1>11 DEF Forest
  <2>2. \A c, e \in Block : \A p \in Op : p \in OpSets'[c] /\ p \in OpSets'[e] => c = e
    BY <1>1, <1>9 DEF Forest
  <2>3. \A c \in Block : Module \notin OpSets'[c] /\ \A n \in fresh' : n \notin OpSets'[c]
    BY <1>1, <1>9 DEF Forest
  <2> QED  BY <1>1, <1>10, <2>1, <2>2, <2>3 DEF Forest
<1> QED  BY <1>1, <1>8, <1>9, <1>10, <1>12 DEF Tree, Inlined

\* Region k of p goes to a new operation n: move_region_contents_to_new_regions.
LEMMA MoveTree ==
  ASSUME Tree, NEW p \in Op, NEW n \in fresh, n # p, NEW k \in DOMAIN regions[p],
         regions' = [regions EXCEPT ![n] = Append(@, regions[p][k]), ![p][k] = <<>>],
         UNCHANGED <<ops, fresh>>
  PROVE  Tree' /\ OpSets' = OpSets /\ Moved(Kids, Kids', p, n, ToSet(regions[p][k]))
<1> DEFINE s == regions[p]
           t == regions[n]
           x == regions[p][k]
           s2 == [s EXCEPT ![k] = <<>>]
           t2 == Append(t, x)
<1>1. /\ regions \in [Op -> Seq(Seq(Block))] /\ n \in Op /\ fresh \subseteq Op
      /\ s \in Seq(Seq(Block)) /\ t \in Seq(Seq(Block)) /\ Forest(OpSets, Kids, fresh)
  BY DEF Tree, Forest
<1>2. /\ Len(s) \in Nat /\ DOMAIN s = 1..Len(s) /\ x \in Seq(Block)
      /\ Len(t) \in Nat /\ DOMAIN t = 1..Len(t)
  BY <1>1, LenProperties, ElementOfSeq
<1>3. /\ s2 \in Seq(Seq(Block)) /\ DOMAIN s2 = DOMAIN s
      /\ \A i \in DOMAIN s : s2[i] = IF i = k THEN <<>> ELSE s[i]
  <2>1. <<>> \in Seq(Block) /\ k \in 1..Len(s)
    BY <1>2
  <2> HIDE DEF s
  <2>2. /\ s2 \in Seq(Seq(Block)) /\ DOMAIN s2 = DOMAIN s /\ s2[k] = <<>>
        /\ \A i \in 1..Len(s) : i # k => s2[i] = s[i]
    BY <1>1, <1>2, <2>1, ExceptSeq
  <2> QED  BY <1>2, <2>2
<1>4. /\ t2 \in Seq(Seq(Block)) /\ DOMAIN t2 = 1..(Len(t) + 1)
      /\ \A i \in 1..Len(t) : t2[i] = t[i]
      /\ t2[Len(t) + 1] = x
  <2> HIDE DEF t, x
  <2>1. /\ t2 \in Seq(Seq(Block)) /\ Len(t2) = Len(t) + 1
        /\ \A i \in 1..Len(t) : t2[i] = t[i]
        /\ t2[Len(t) + 1] = x
    BY <1>1, <1>2, AppendProperties
  <2> QED  BY <1>2, <2>1, LenProperties
<1>x. regions' = [regions EXCEPT ![n] = t2, ![p] = s2]
  BY <1>1
<1> HIDE DEF s2, t2
<1>5. /\ regions' \in [Op -> Seq(Seq(Block))]
      /\ regions'[p] = s2 /\ regions'[n] = t2 /\ \A o \in Op : o # p /\ o # n => regions'[o] = regions[o]
  BY <1>1, <1>3, <1>4, <1>x
<1>6. \A o \in Op : \A y : /\ y \in Kids[o] <=> \E i \in DOMAIN regions[o] : y \in ToSet(regions[o][i])
                           /\ y \in Kids'[o] <=> \E i \in DOMAIN regions'[o] : y \in ToSet(regions'[o][i])
  BY DEF Kids, ChildBlocks
<1>7. ToSet(<<>>) = {}
  BY DEF ToSet
<1>8. \A i, j \in DOMAIN s : i # j => ToSet(s[i]) \cap ToSet(s[j]) = {}
  BY DEF Tree
<1>9. \A i \in DOMAIN t : ToSet(x) \cap ToSet(t[i]) = {}
  <2> SUFFICES ASSUME NEW i \in DOMAIN t, NEW y \in ToSet(x), y \in ToSet(t[i]) PROVE FALSE
    OBVIOUS
  <2>1. y \in Kids[p] /\ y \in Kids[n]
    BY <1>1, <1>6
  <2> QED  BY <1>1, <2>1 DEF Forest
<1>10. Kids'[p] = Kids[p] \ ToSet(x)
  <2>1. \A y : y \in Kids'[p] <=> \E i \in DOMAIN s : y \in ToSet(s2[i])
    BY <1>3, <1>5, <1>6
  <2>2. \A i \in DOMAIN s : ToSet(s2[i]) = IF i = k THEN {} ELSE ToSet(s[i])
    BY <1>3, <1>7
  <2>3. \A y : y \in Kids[p] <=> \E i \in DOMAIN s : y \in ToSet(s[i])
    BY <1>6
  <2>4. \A i \in DOMAIN s : i # k => ToSet(s[i]) \cap ToSet(x) = {}
    BY <1>8
  <2>5. x = s[k]
    OBVIOUS
  <2> HIDE DEF s, x
  <2>6. \A y : y \in Kids'[p] <=> y \in Kids[p] /\ y \notin ToSet(x)
    BY <2>1, <2>2, <2>3, <2>4, <2>5
  <2> QED  BY <2>6
<1>11. Kids'[n] = Kids[n] \cup ToSet(x)
  <2> DEFINE m == Len(t) + 1
             D == 1..m
             E == 1..Len(t)
  <2>1. \A y : y \in Kids'[n] <=> \E i \in D : y \in ToSet(t2[i])
    BY <1>1, <1>4, <1>5, <1>6
  <2>2. \A y : y \in Kids[n] <=> \E i \in E : y \in ToSet(t[i])
    BY <1>1, <1>2, <1>6
  <2>3. m \in D /\ \A i : i \in D <=> i \in E \/ i = m
    BY <1>2
  <2>4. t2[m] = x /\ \A i \in E : t2[i] = t[i]
    BY <1>4
  <2> HIDE DEF m, D, E, t, x
  <2>5. \A y : y \in Kids'[n] <=> y \in Kids[n] \/ y \in ToSet(x)
    BY <2>1, <2>2, <2>3, <2>4
  <2> QED  BY <2>5
<1>12. ASSUME NEW o \in Op, o # p, o # n PROVE Kids'[o] = Kids[o]
  <2>1. regions'[o] = regions[o]
    BY <1>5, <1>12
  <2>2. \A y : y \in Kids'[o] <=> y \in Kids[o]
    BY <1>6, <2>1
  <2> QED  BY <2>2
<1> HIDE DEF s, t, x
<1>13. Moved(Kids, Kids', p, n, ToSet(x))
  BY <1>10, <1>11, <1>12 DEF Moved
<1>14. OpSets' = OpSets
  BY DEF OpSets
<1>15. Forest(OpSets', Kids', fresh')
  <2>1. Kids' = [o \in Op |-> Kids'[o]]
    BY DEF Kids
  <2>2. ToSet(x) \subseteq Kids[p]
    BY <1>6 DEF x
  <2>3. \A o \in Op : Kids'[o] \subseteq Block
    BY <1>1, <1>10, <1>11, <1>12, <2>2 DEF Forest
  <2>4. Kids' \in [Op -> SUBSET Block]
    BY <2>1, <2>3
  <2>5. \A o, q \in Op : \A b \in Block : b \in Kids'[o] /\ b \in Kids'[q] => o = q
    BY <1>1, <1>10, <1>11, <1>12, <2>2 DEF Forest
  <2> QED  BY <1>1, <1>14, <2>4, <2>5 DEF Forest
<1>16. ASSUME NEW o \in Op, NEW i \in DOMAIN regions'[o], NEW j \in DOMAIN regions'[o], i # j
       PROVE  ToSet(regions'[o][i]) \cap ToSet(regions'[o][j]) = {}
  <2>1. CASE o = p
    <3>1. i \in DOMAIN s /\ j \in DOMAIN s /\ regions'[o] = s2
      BY <1>3, <1>5, <2>1
    <3>2. ToSet(s2[i]) \subseteq ToSet(s[i]) /\ ToSet(s2[j]) \subseteq ToSet(s[j])
      BY <1>3, <1>7, <3>1
    <3> QED  BY <1>8, <1>16, <3>1, <3>2
  <2>2. CASE o = n
    <3>1. \A a, b \in DOMAIN t : a # b => ToSet(t[a]) \cap ToSet(t[b]) = {}
      BY <1>1 DEF Tree, t
    <3>2. i \in 1..(Len(t) + 1) /\ j \in 1..(Len(t) + 1) /\ regions'[o] = t2
      BY <1>1, <1>4, <1>5, <2>2
    <3>3. (i \in 1..Len(t) \/ i = Len(t) + 1) /\ (j \in 1..Len(t) \/ j = Len(t) + 1)
      BY <1>2, <3>2
    <3>4. CASE i \in 1..Len(t) /\ j \in 1..Len(t)
      BY <1>2, <1>4, <1>16, <3>1, <3>2, <3>4
    <3>5. CASE i \in 1..Len(t) /\ j = Len(t) + 1
      BY <1>2, <1>4, <1>9, <3>2, <3>5
    <3>6. CASE i = Len(t) + 1 /\ j \in 1..Len(t)
      BY <1>2, <1>4, <1>9, <3>2, <3>6
    <3> QED  BY <1>16, <3>3, <3>4, <3>5, <3>6
  <2>3. CASE o # p /\ o # n
    BY <1>5, <1>16, <2>3 DEF Tree
  <2> QED  BY <2>1, <2>2, <2>3
<1>17. /\ ops' \in [Block -> Seq(Op)] /\ \A b \in Block : IsInjective(ops'[b])
  BY DEF Tree
<1>18. Tree'
  BY <1>5, <1>15, <1>16, <1>17 DEF Tree
<1> QED  BY <1>13, <1>14, <1>18 DEF x

\* Each of these calls is local to operations Z of block h, when it is made in h,
\* inside Z or outside the module.
LEMMA InsertLocal ==
  ASSUME NEW O, NEW K, NEW F, Forest(O, K, F), NEW h \in Live(O, K), NEW Z \in SUBSET O[h],
         NEW b \in Block, b = h \/ b \in Under(O, K, Z) \/ b \notin Live(O, K),
         NEW N \in SUBSET F, NEW O2, Inserted(O, O2, b, N), NEW F2 \in SUBSET F
  PROVE  /\ Local(O, K, O2, K, Z, h) /\ Origin(O, K, F, O2, K, F2)
         /\ O[h] \subseteq O2[h] /\ (b = h => N \subseteq O2[h])
<1>1. h \in Block /\ Live(O, K) \subseteq Block
  BY DEF Live, Inside
<1>2. \A c \in Block : O2[c] = IF c = b THEN O[b] \cup N ELSE O[c]
  BY DEF Inserted
<1>3. Local(O, K, O2, K, Z, h)
  BY <1>1, <1>2 DEF Local
<1>4. Origin(O, K, F, O2, K, F2)
  BY <1>2 DEF Origin
<1> QED  BY <1>1, <1>2, <1>3, <1>4

\* Replacing an operation of h.
LEMMA EraseLocal ==
  ASSUME NEW O, NEW K, NEW F, Forest(O, K, F), NEW h \in Live(O, K), NEW o \in O[h],
         NEW N \in SUBSET F, NEW O2, Replaced(O, K, O2, h, o, N), NEW F2 \in SUBSET F
  PROVE  /\ Local(O, K, O2, K, {o}, h) /\ N \subseteq O2[h] /\ Gone(O2, F2, o)
         /\ Origin(O, K, F, O2, K, F2)
<1>1. h \in Block /\ Live(O, K) \subseteq Block /\ o \in Op /\ o # Module /\ o \notin F
  BY DEF Live, Inside, Forest
<1>2. \A b \in Block : O2[b] = IF b = h THEN (O[h] \ {o}) \cup N
                               ELSE IF b \in Inside(O, K, o) THEN {} ELSE O[b]
  BY DEF Replaced
<1>3. Origin(O, K, F, O2, K, F2)
  BY <1>2 DEF Origin
<1>4. Gone(O2, F2, o)
  <2>1. \A b \in Block : b # h => o \notin O[b]
    BY <1>1 DEF Forest
  <2> QED  BY <1>1, <1>2, <2>1 DEF Gone
<1>5. Under(O, K, {o}) = Inside(O, K, o)
  BY DEF Under
<1>6. Local(O, K, O2, K, {o}, h)
  BY <1>1, <1>2, <1>5 DEF Local
<1> QED  BY <1>1, <1>2, <1>3, <1>4, <1>6

\* Replacing an operation that is not fixed.
LEMMA LooseLocal ==
  ASSUME NEW O, NEW K, NEW F, Forest(O, K, F), NEW h \in Live(O, K), NEW Z \in SUBSET O[h],
         NEW c \in Block, NEW o \in O[c], o \notin Z, ~Fixed(O, K, Z, o),
         NEW N \in SUBSET F, NEW O2, Replaced(O, K, O2, c, o, N), NEW F2 \in SUBSET F
  PROVE  Local(O, K, O2, K, Z, h) /\ Origin(O, K, F, O2, K, F2) /\ O[h] \subseteq O2[h]
<1>1. h \in Block /\ Live(O, K) \subseteq Block /\ o \in Op /\ o # Module
  BY DEF Live, Inside, Forest
<1>2. Under(O, K, Z) \subseteq Block /\ h \notin Under(O, K, Z)
  BY UnderIs
<1>3. \A b \in Block : O2[b] = IF b = c THEN (O[c] \ {o}) \cup N
                               ELSE IF b \in Inside(O, K, o) THEN {} ELSE O[b]
  BY DEF Replaced
<1>4. Origin(O, K, F, O2, K, F2)
  BY <1>3 DEF Origin
<1>5. c \in Under(O, K, Z) \/ c \notin Live(O, K)
  <2> SUFFICES ASSUME c \in Live(O, K) PROVE c \in Under(O, K, Z)
    OBVIOUS
  <2>1. Placed(O, K, o)
    BY DEF Placed, OpsInside, Live
  <2>2. PICK b \in Under(O, K, Z) : o \in O[b]
    BY <2>1 DEF Fixed
  <2>3. b = c
    BY <1>1, <1>2, <2>2 DEF Forest
  <2> QED  BY <2>3
<1>6. \A b \in Inside(O, K, o) : b \in Under(O, K, Z) \/ b \notin Live(O, K)
  <2>1. CASE c \in Under(O, K, Z)
    <3>1. PICK z \in Z : c \in Inside(O, K, z)
      BY <2>1 DEF Under
    <3>2. z \in Op
      BY UnderIs
    <3>3. Inside(O, K, o) \subseteq Inside(O, K, z)
      BY <3>1, <3>2, InsideTrans
    <3> QED  BY <3>3 DEF Under
  <2>2. CASE c \notin Live(O, K)
    <3>1. \A b \in Live(O, K) : o \notin O[b]
      BY <1>1, <2>2 DEF Forest
    <3>2. Inside(O, K, o) \cap Live(O, K) = {}
      BY <1>1, <3>1, DeadInside
    <3> QED  BY <3>2
  <2> QED  BY <1>5, <2>1, <2>2
<1>7. c # h /\ h \notin Inside(O, K, o) /\ O2[h] = O[h]
  BY <1>1, <1>2, <1>3, <1>5, <1>6
<1>8. Local(O, K, O2, K, Z, h)
  BY <1>1, <1>3, <1>5, <1>6, <1>7 DEF Local
<1> QED  BY <1>4, <1>7, <1>8

\* Inlining a block that is inside Z or outside the module.
LEMMA InlineLocal ==
  ASSUME NEW O, NEW K, NEW F, Forest(O, K, F), NEW h \in Live(O, K), NEW Z \in SUBSET O[h],
         NEW b \in Block, b \in Under(O, K, Z) \/ b \notin Live(O, K),
         NEW d \in Block, d = h \/ d \in Under(O, K, Z) \/ d \notin Live(O, K),
         b # d, NEW O2, Inlined(O, O2, b, d)
  PROVE  /\ Local(O, K, O2, K, Z, h) /\ Origin(O, K, F, O2, K, F)
         /\ O[h] \subseteq O2[h] /\ (d = h => O[b] \subseteq O2[h]) /\ O[h] \cap O[b] = {}
<1>1. h \in Block /\ Live(O, K) \subseteq Block
  BY DEF Live, Inside
<1>2. h \notin Under(O, K, Z)
  BY UnderIs
<1>3. \A c \in Block : O2[c] = IF c = b THEN {} ELSE IF c = d THEN O[d] \cup O[b] ELSE O[c]
  BY DEF Inlined
<1>4. b # h
  BY <1>2
<1>5. O[h] \cap O[b] = {}
  BY <1>1, <1>4 DEF Forest
<1>6. Local(O, K, O2, K, Z, h)
  BY <1>1, <1>3, <1>4 DEF Local
<1>7. Origin(O, K, F, O2, K, F)
  BY <1>3 DEF Origin
<1> QED  BY <1>1, <1>3, <1>4, <1>5, <1>6, <1>7

\* Moving blocks of an operation that is not fixed to a new one.
LEMMA MoveLocal ==
  ASSUME NEW O, NEW K, NEW F, Forest(O, K, F), NEW h \in Live(O, K), NEW Z \in SUBSET O[h],
         NEW p \in Op, ~Fixed(O, K, Z, p), NEW n \in F, n # p, NEW X, NEW K2, Moved(K, K2, p, n, X)
  PROVE  Local(O, K, O, K2, Z, h) /\ Origin(O, K, F, O, K2, F)
<1>1. ~Fixed(O, K, Z, n)
  <2>1. n # Module /\ \A b \in Block : n \notin O[b]
    BY DEF Forest
  <2>2. ~Placed(O, K, n)
    BY <2>1 DEF Placed, OpsInside, Inside
  <2> QED  BY <2>2 DEF Fixed
<1>2. Local(O, K, O, K2, Z, h)
  BY <1>1 DEF Local, Moved
<1>3. Origin(O, K, F, O, K2, F)
  BY DEF Origin, Moved
<1> QED  BY <1>2, <1>3

\* What is gone stays away.
LEMMA GoneStays ==
  ASSUME NEW O, NEW K, NEW F, NEW O2, NEW K2, NEW F2, Origin(O, K, F, O2, K2, F2), NEW o \in Op, Gone(O, F, o)
  PROVE  Gone(O2, F2, o) /\ (K[o] = {} => K2[o] = {})
BY DEF Origin, Gone

\* A match under way: in a block of the module, or on the module.
LEMMA MatchUnderWay ==
  ASSUME IInv, Matching
  PROVE  /\ stack # <<>> /\ stack[1].ph = "match" /\ 1 \in DOMAIN stack /\ cur = stack[1].op /\ cur \in Op
         /\ Forest(OpSets, Kids, fresh) /\ Recorded(rw) \subseteq Op /\ rw \in Rewriters
         /\ \/ cur # Module /\ \E h \in Block : /\ Walked(OpSets, Kids, stack, h)
                                                /\ MatchedIn(OpSets, Kids, fresh, stack[1], rw, mode, h)
            \/ cur = Module /\ Len(stack) = 1 /\ Others(stack[1], rw, mode) = {} /\ ~rw.erased
<1>1. /\ stack # <<>> /\ stack[1].ph = "match" /\ 1 \in DOMAIN stack /\ cur = stack[1].op /\ cur \in Op
      /\ Forest(OpSets, Kids, fresh) /\ rw \in Rewriters
  BY StackIs DEF IInv, Matching, cur, Frame, Tree
<1>2. Recorded(rw) \subseteq Op
  BY <1>1, LenProperties, ElementOfSeq DEF Rewriters, Recorded, ToSet
<1>3. \/ \E h \in Block : /\ Walked(OpSets, Kids, stack, h)
                          /\ MatchedIn(OpSets, Kids, fresh, stack[1], rw, mode, h)
      \/ cur = Module /\ Len(stack) = 1 /\ Others(stack[1], rw, mode) = {} /\ ~rw.erased
  BY <1>1 DEF IInv, MatchIn
<1>4. ASSUME NEW h \in Block, MatchedIn(OpSets, Kids, fresh, stack[1], rw, mode, h) PROVE cur # Module
  BY <1>1, <1>4 DEF MatchedIn, Gone, Forest
<1> QED  BY <1>1, <1>2, <1>3, <1>4

\* Calls of the *_matched_op kind, and those that tell the walker nothing.
LEMMA ActIs ==
  ASSUME IInv, NEW r \in Rewriters, Act(r)
  PROVE  /\ Matching /\ UNCHANGED walk
         /\ rw' \in Rewriters /\ rw'.done
         /\ rw'.before = r.before /\ rw'.after = r.after /\ rw'.erased = r.erased
<1>1. Matching /\ UNCHANGED walk /\ rw' = [r EXCEPT !.done = TRUE, !.calls = @ + 1]
  BY DEF Act
<1>2. r.calls + 1 \in Nat
  BY DEF Rewriters
<1>3. \A k \in Nat : [r EXCEPT !.done = TRUE, !.calls = k] \in Rewriters
  BY DEF Rewriters
<1>4. rw' = [r EXCEPT !.done = TRUE, !.calls = r.calls + 1]
  BY <1>1
<1>5. rw' \in Rewriters
  BY <1>2, <1>3, <1>4
<1>6. rw'.done /\ rw'.before = r.before /\ rw'.after = r.after /\ rw'.erased = r.erased
  BY <1>4 DEF Rewriters
<1> QED  BY <1>1, <1>5, <1>6

\* A local rewrite that keeps what the match must not lose keeps the invariant.
LEMMA RewriteHere ==
  ASSUME IInv, Matching, UNCHANGED walk, Tree', rw' \in Rewriters, rw'.done,
         NEW h \in Block, Walked(OpSets, Kids, stack, h), NEW Z \in SUBSET OpSets[h],
         Local(OpSets, Kids, OpSets', Kids', Z, h),
         MatchedIn(OpSets', Kids', fresh', stack[1], rw', mode, h)
  PROVE  IInv'
<1>1. stack' = stack /\ mode' = mode
  BY DEF walk
<1>2. /\ stack # <<>> /\ stack[1].ph = "match"
      /\ Forest(OpSets, Kids, fresh) /\ Forest(OpSets', Kids', fresh') /\ h \in Live(OpSets, Kids)
  BY MatchUnderWay DEF Tree, Walked
<1>3. /\ Kept(OpSets', Kids', stack) /\ WorkApart(OpSets', Kids', stack)
      /\ Walked(OpSets', Kids', stack, h)
  <2>1. Kept(OpSets, Kids, stack) /\ WorkApart(OpSets, Kids, stack)
    BY DEF IInv
  <2> QED  BY <1>2, <2>1, RewriteKeeps
<1>4. MatchIn(OpSets', Kids', fresh', stack', rw', mode')
  BY <1>1, <1>2, <1>3 DEF MatchIn
<1>5. VisitIn(OpSets', Kids', stack')
  BY <1>1, <1>2 DEF VisitIn
<1> QED  BY <1>1, <1>3, <1>4, <1>5 DEF IInv

\* The *_matched_op calls, which come before the matched operation is erased.
LEMMA RewriteMatched ==
  ASSUME IInv, Matching, ~rw.erased, UNCHANGED walk, Tree', rw' \in Rewriters, rw'.done,
         NEW h \in Block, Walked(OpSets, Kids, stack, h),
         MatchedIn(OpSets, Kids, fresh, stack[1], rw, mode, h),
         Local(OpSets, Kids, OpSets', Kids', {cur}, h),
         Recorded(rw') \subseteq Recorded(rw) \cup (OpSets'[h] \ {cur}),
         IF rw'.erased THEN Gone(OpSets', fresh', cur) ELSE cur \in OpSets'[h]
  PROVE  IInv'
<1> DEFINE f == stack[1]
           X == ({f.prev, f.next} \cup Recorded(rw')) \ {NULL}
<1>1. cur = f.op /\ cur \in Op
  BY MatchUnderWay
<1>2. cur \in OpSets[h] /\ ({f.prev, f.next} \cup Recorded(rw)) \ {NULL} \subseteq OpSets[h] \ {cur}
  BY <1>1 DEF MatchedIn, Others
<1>3. OpSets[h] \ {cur} \subseteq OpSets'[h]
  BY DEF Local
<1>4. X \subseteq OpSets'[h] \ {cur}
  BY <1>2, <1>3
<1>5. Others(f, rw', mode) \subseteq X
  <2>1. RetOf(mode, f, rw') \in {f.prev, f.next} \cup ToSet(AffOf(f, rw'))
        /\ ToSet(AffOf(f, rw')) = Recorded(rw') \cup (IF rw'.erased THEN {} ELSE {f.op})
    BY <1>1, RetIs
  <2> QED  BY <2>1 DEF Others
<1>6. \A o \in Recorded(rw') : o \in OpSets'[h]
  <2>1. Recorded(rw') \subseteq Op
    BY LenProperties, ElementOfSeq DEF Rewriters, Recorded, ToSet
  <2> QED  BY <1>4, <2>1, WalkerInput
<1>7. MatchedIn(OpSets', Kids', fresh', f, rw', mode, h)
  BY <1>1, <1>4, <1>5, <1>6 DEF MatchedIn
<1>8. {cur} \in SUBSET OpSets[h]
  BY <1>2
<1> QED  BY <1>7, <1>8, RewriteHere

\* The others change the block of the match only where nothing is lost.
Untold == rw' \in Rewriters /\ rw'.done /\ rw'.before = rw.before /\ rw'.after = rw.after /\ rw'.erased = rw.erased

LEMMA RewriteElsewhere ==
  ASSUME IInv, Matching, UNCHANGED walk, Tree', Untold,
         NEW h \in Block, Walked(OpSets, Kids, stack, h),
         MatchedIn(OpSets, Kids, fresh, stack[1], rw, mode, h),
         NEW Z \in SUBSET OpSets[h], Z \cap Others(stack[1], rw, mode) = {},
         Local(OpSets, Kids, OpSets', Kids', Z, h), Origin(OpSets, Kids, fresh, OpSets', Kids', fresh'),
         rw.erased => \A z \in Z : Gone(OpSets', fresh', z) /\ Kids[z] = {},
         ~rw.erased => Z = {cur} /\ cur \in OpSets'[h]
  PROVE  IInv'
<1> DEFINE f == stack[1]
<1>1. cur = f.op /\ cur \in Op /\ Recorded(rw) \subseteq Op /\ Forest(OpSets, Kids, fresh) /\ (rw.erased => rw.done)
  BY MatchUnderWay DEF IInv
<1>2. Recorded(rw') = Recorded(rw) /\ Others(f, rw', mode) = Others(f, rw, mode)
  <2>1. Recorded(rw') = Recorded(rw) /\ AffOf(f, rw') = AffOf(f, rw)
    BY DEF Recorded, AffOf, Untold
  <2>2. rw.erased => RetOf(mode, f, rw') = RetOf(mode, f, rw)
    BY <1>1, <2>1 DEF RetOf, Untold
  <2> QED  BY <2>1, <2>2 DEF Others, Untold
<1>3. OpSets[h] \ Z \subseteq OpSets'[h]
  BY DEF Local
<1>4. Others(f, rw', mode) \subseteq OpSets'[h] \ {cur}
  BY <1>1, <1>2, <1>3 DEF MatchedIn
<1>5. ASSUME NEW o \in Recorded(rw) PROVE o \in OpSets'[h] \/ (Gone(OpSets', fresh', o) /\ Kids'[o] = {})
  <2>1. o \in OpSets[h] \/ (Gone(OpSets, fresh, o) /\ Kids[o] = {})
    BY DEF MatchedIn
  <2>2. CASE o \in OpSets[h] /\ o \notin Z
    BY <1>3, <2>2
  <2>3. CASE o \in Z
    <3>1. rw.erased
      <4> SUFFICES ASSUME ~rw.erased PROVE FALSE
        OBVIOUS
      <4>1. o \in Others(f, rw, mode)
        BY <1>1, WalkerInput DEF Others
      <4> QED  BY <2>3, <4>1
    <3>2. o \notin fresh
      BY <2>3 DEF Forest, Tree, IInv
    <3> QED  BY <1>1, <2>3, <3>1, <3>2 DEF Origin
  <2>4. CASE Gone(OpSets, fresh, o) /\ Kids[o] = {}
    BY <1>1, <2>4, GoneStays
  <2> QED  BY <2>1, <2>2, <2>3, <2>4
<1>6. IF rw'.erased THEN Gone(OpSets', fresh', cur) ELSE cur \in OpSets'[h]
  BY <1>1, GoneStays DEF MatchedIn, Untold
<1>7. MatchedIn(OpSets', Kids', fresh', f, rw', mode, h)
  BY <1>1, <1>2, <1>4, <1>5, <1>6 DEF MatchedIn
<1> QED  BY <1>7, RewriteHere DEF Untold

\* A rewrite inside the module when the module itself is matched.
LEMMA RewriteModule ==
  ASSUME IInv, Matching, UNCHANGED walk, Tree', Untold, cur = Module
  PROVE  IInv'
<1>1. stack' = stack /\ mode' = mode
  BY DEF walk
<1>2. /\ stack # <<>> /\ stack[1].ph = "match" /\ 1 \in DOMAIN stack /\ cur = stack[1].op
      /\ Len(stack) = 1 /\ Others(stack[1], rw, mode) = {} /\ ~rw.erased
      /\ Forest(OpSets', Kids', fresh')
  BY MatchUnderWay DEF Tree
<1>3. DOMAIN stack = 1..1 /\ stack[1].work = <<>>
  BY <1>2, StackIs DEF IInv, Frames
<1>4. Work(stack[1]) = {} /\ KeptOps(stack[1]) = {}
  BY <1>2, <1>3 DEF Work, KeptOps, ToSet
<1>5. Kept(OpSets', Kids', stack) /\ WorkApart(OpSets', Kids', stack)
  BY <1>2, <1>3, <1>4, ModuleTop
<1>6. Others(stack[1], rw', mode) = {}
  BY <1>2 DEF Others, Recorded, Untold
<1>7. MatchIn(OpSets', Kids', fresh', stack', rw', mode') /\ VisitIn(OpSets', Kids', stack')
  BY <1>1, <1>2, <1>6 DEF MatchIn, VisitIn, Untold
<1> QED  BY <1>1, <1>5, <1>7 DEF IInv, Untold

\* Lists of new operations.
LEMMA NewOpsAre ==
  /\ \A ns \in NewOps : ns \in Seq(fresh)
  /\ \A n \in fresh : <<n>> \in Seq(fresh) /\ IsInjective(<<n>>) /\ ToSet(<<n>>) = {n}
  /\ <<>> \in Seq(fresh) /\ IsInjective(<<>>) /\ ToSet(<<>>) = {}
<1>1. \A ns \in NewOps : ns \in Seq(fresh)
  <2> SUFFICES ASSUME NEW ns \in NewOps PROVE ns \in Seq(fresh)
    OBVIOUS
  <2>1. CASE ns \in {<<n>> : n \in fresh}
    <3>1. PICK n \in fresh : ns = <<n>>
      BY <2>1, Zenon
    <3> QED  BY <3>1
  <2>2. CASE ns \in fresh \X fresh
    <3>1. PICK n \in fresh, p \in fresh : ns = <<n, p>>
      BY <2>2
    <3> QED  BY <3>1
  <2>3. ns \in {<<n>> : n \in fresh} \/ ns \in fresh \X fresh
    BY Zenon DEF NewOps
  <2> QED  BY <2>1, <2>2, <2>3
<1>2. ASSUME NEW n \in fresh PROVE <<n>> \in Seq(fresh) /\ IsInjective(<<n>>) /\ ToSet(<<n>>) = {n}
  <2>1. <<n>> \in Seq(fresh) /\ DOMAIN <<n>> = {1} /\ <<n>>[1] = n
    OBVIOUS
  <2> QED  BY <2>1 DEF IsInjective, ToSet
<1>3. <<>> \in Seq(fresh) /\ IsInjective(<<>>) /\ ToSet(<<>>) = {}
  BY DEF IsInjective, ToSet
<1> QED  BY <1>1, <1>2, <1>3

\* What the rewriter records.
LEMMA RecordedIs ==
  ASSUME IInv, NEW ns \in Seq(Op)
  PROVE  /\ [rw EXCEPT !.before = @ \o ns] \in Rewriters
         /\ [rw EXCEPT !.before = @ \o ns, !.erased = TRUE] \in Rewriters
         /\ [rw EXCEPT !.after = @ \o ns] \in Rewriters
         /\ [rw EXCEPT !.erased = TRUE] \in Rewriters
         /\ ToSet(rw.before \o ns) = ToSet(rw.before) \cup ToSet(ns)
         /\ ToSet(rw.after \o ns) = ToSet(rw.after) \cup ToSet(ns)
<1>1. rw \in Rewriters /\ rw.before \in Seq(Op) /\ rw.after \in Seq(Op)
  BY DEF IInv, Rewriters
<1>2. /\ rw.before \o ns \in Seq(Op) /\ ToSet(rw.before \o ns) = ToSet(rw.before) \cup ToSet(ns)
      /\ rw.after \o ns \in Seq(Op) /\ ToSet(rw.after \o ns) = ToSet(rw.after) \cup ToSet(ns)
  BY <1>1, ConcatElements
<1>3. /\ \A u \in Seq(Op) : [rw EXCEPT !.before = u] \in Rewriters
      /\ \A u \in Seq(Op) : [rw EXCEPT !.before = u, !.erased = TRUE] \in Rewriters
      /\ \A u \in Seq(Op) : [rw EXCEPT !.after = u] \in Rewriters
      /\ [rw EXCEPT !.erased = TRUE] \in Rewriters
  BY <1>1 DEF Rewriters
<1> QED  BY <1>2, <1>3

\* Lists of new operations are lists of operations.
LEMMA NewOpsSeq ==
  ASSUME Tree, NEW ns \in Seq(fresh)
  PROVE  ns \in Seq(Op)
<1>1. fresh \subseteq Op
  BY DEF Tree, Forest
<1>2. Len(ns) \in Nat /\ ns \in [1..Len(ns) -> fresh]
  BY LenProperties
<1>3. ns \in [1..Len(ns) -> Op]
  BY <1>1, <1>2
<1> QED  BY <1>2, <1>3, SeqDef

----------------------------------------------------------------------------
(* Where a pattern makes its calls. *)

\* The operations of the match's block that a call may take apart: the matched one,
\* until it is erased.
Matched == IF rw.erased THEN {} ELSE {cur}

\* Block b is out of what the walk relies on: inside them, or outside the module.
Loose(b) == b \in Block /\ (b \in Under(OpSets, Kids, Matched) \/ b \notin Live(OpSets, Kids))

\* After the erasure, an operation the match has put into its block h, has no
\* regions and will not be returned.
Spare(h, o) ==
  /\ rw.erased /\ o \in Recorded(rw) /\ o \in OpSets[h] /\ o # RetOf(mode, stack[1], rw)
  /\ regions[o] = <<>>

LEMMA SiteIs ==
  ASSUME IInv, Mannerly, Matching, NEW h \in Block, Walked(OpSets, Kids, stack, h),
         MatchedIn(OpSets, Kids, fresh, stack[1], rw, mode, h)
  PROVE  /\ Matched \subseteq OpSets[h] /\ Matched \cap Others(stack[1], rw, mode) = {}
         /\ \A b \in Targets : b = h \/ Loose(b)
         /\ \A b \in Sources : Loose(b)
         /\ \A o \in Subjects : o \in Op /\ (~Fixed(OpSets, Kids, Matched, o) \/ Spare(h, o))
<1> DEFINE L == Live(OpSets, Kids)
<1>m. Module \in Op /\ Tree /\ mode.recursive \in BOOLEAN /\ rw \in Rewriters
  BY WalkerInput DEF IInv
<1>1. ~May("own ops") /\ ~May("erased")
  BY <1>m DEF Mannerly, May
<1>2. /\ cur = stack[1].op /\ cur \in Op /\ cur # Module /\ Forest(OpSets, Kids, fresh)
      /\ h \in L /\ \A b \in Block : OpSets[b] = ToSet(ops[b])
  BY MatchUnderWay DEF Walked, OpSets, MatchedIn, Gone, Forest
<1>3. Matched \subseteq OpSets[h] /\ Matched \cap Others(stack[1], rw, mode) = {}
  BY <1>2 DEF Matched, MatchedIn
<1>4. NestedBlocks(Module) = L /\ NestedOps(Module) = OpsInside(OpSets, Kids, Module) /\ L \subseteq Block
  BY <1>m, NestedIs DEF Live, Inside
<1>5. \A o \in Op : Placed(OpSets, Kids, o) <=> InModule(o)
  BY <1>4 DEF Placed, InModule
<1>6. CASE ~rw.erased
  <2>1. Matched = {cur} /\ cur \in OpSets[h]
    BY <1>2, <1>6 DEF Matched, MatchedIn
  <2>2. OwnBlock = {h}
    BY <1>2, <2>1 DEF OwnBlock, Forest
  <2>3. /\ NestedBlocks(cur) = Under(OpSets, Kids, Matched)
        /\ NestedOps(cur) = OpsInside(OpSets, Kids, cur)
    BY <1>m, <1>2, <2>1, NestedIs DEF Under
  <2>4. Module \in Toplevel
    <3>1. cur \in NestedOps(Module)
      BY <1>2, <1>4, <2>1 DEF OpsInside, Live
    <3> QED  BY <1>m, <3>1, ModuleIs DEF Toplevel
  <2>5. L \subseteq Within(Toplevel)
    BY <1>4, <2>4 DEF Within
  <2>6. ASSUME NEW b \in CanModifyBlock PROVE b = h \/ Loose(b)
    <3>1. b \in Block
      BY <1>2, <2>2 DEF CanModifyBlock, NestedBlocks
    <3> QED  BY <2>2, <2>3, <2>5, <3>1 DEF CanModifyBlock, Loose
  <2>7. \A b \in Targets : b = h \/ Loose(b)
    BY <2>6 DEF Targets
  <2>8. h \notin Sources
    BY <1>1, <2>2 DEF Sources, LeftBlocks
  <2>9. \A b \in Sources : Loose(b)
    BY <2>6, <2>8 DEF Sources
  <2>10. ASSUME NEW o \in Subjects PROVE o \in Op /\ ~Fixed(OpSets, Kids, Matched, o)
    <3>1. o = cur \/ o \in NestedOps(cur) \/ (o \in Op /\ ~InModule(o))
      BY <2>4 DEF Subjects, CanModifyOp, InModule
    <3>2. CASE o = cur
      BY <1>2, <2>1, <3>2 DEF Fixed
    <3>3. CASE o \in NestedOps(cur)
      <4>1. PICK b \in Inside(OpSets, Kids, cur) : o \in OpSets[b]
        BY <2>3, <3>3 DEF OpsInside
      <4>2. b \in Under(OpSets, Kids, Matched) /\ b \in Block
        BY <2>1 DEF Under, Inside
      <4> QED  BY <1>2, <4>1, <4>2 DEF Fixed, Forest
    <3>4. CASE o \in Op /\ ~InModule(o)
      BY <1>5, <3>4 DEF Fixed
    <3> QED  BY <3>1, <3>2, <3>3, <3>4
  <2> QED  BY <1>3, <2>7, <2>9, <2>10
<1>7. CASE rw.erased
  <2>1. LeftModule /\ L \subseteq LeftBlocks("own ops") /\ L \subseteq LeftBlocks("own block")
    BY <1>1, <1>4, <1>7 DEF LeftModule, LeftBlocks
  <2>2. CanModifyBlock \subseteq Block
    BY DEF CanModifyBlock, OwnBlock, NestedBlocks
  <2>3. \A b \in Targets : Loose(b)
    BY <2>1, <2>2 DEF Targets, Loose
  <2>4. \A b \in Sources : Loose(b)
    BY <2>1, <2>2 DEF Sources, Loose
  <2>5. NestedOps(cur) \subseteq Op
    BY <1>m, <1>2, NestedIs DEF OpsInside, Inside, Forest
  <2>6. ToSet(AffectedOps) = Recorded(rw) /\ ReturnedOp = RetOf(mode, stack[1], rw)
    BY <1>m, <1>2, <1>7, RetIs, ReturnedIs
  <2>7. ASSUME NEW o \in Subjects PROVE o \in Op /\ (~Fixed(OpSets, Kids, Matched, o) \/ Spare(h, o))
    <3>1. o \in Op /\ o \notin LeftOps
      BY <1>2, <2>5 DEF Subjects, CanModifyOp
    <3>2. CASE ~InModule(o)
      BY <1>5, <3>1, <3>2 DEF Fixed
    <3>3. CASE InModule(o)
      <4>1. o \in Recorded(rw) /\ o # RetOf(mode, stack[1], rw) /\ regions[o] = <<>>
        BY <2>1, <2>6, <3>1, <3>3 DEF LeftOps
      <4>2. ~Gone(OpSets, fresh, o)
        BY <1>4, <3>3 DEF InModule, Gone, OpsInside, Inside
      <4>3. o \in OpSets[h]
        BY <4>1, <4>2 DEF MatchedIn
      <4> QED  BY <1>7, <3>1, <4>1, <4>3 DEF Spare
    <3> QED  BY <3>2, <3>3
  <2> QED  BY <1>3, <2>3, <2>4, <2>7
<1> QED  BY <1>6, <1>7

\* The *_matched_op calls find the matched operation in its block.
LEMMA StillThere ==
  ASSUME IInv, Matching, Attached(cur)
  PROVE  /\ Tree /\ cur \in Op /\ cur # Module /\ ~rw.erased
         /\ \E h \in Block : /\ Walked(OpSets, Kids, stack, h) /\ h \in Live(OpSets, Kids)
                             /\ MatchedIn(OpSets, Kids, fresh, stack[1], rw, mode, h)
                             /\ {cur} \in SUBSET OpSets[h] /\ BlockOf(cur) = h /\ PosOf(cur) \in DOMAIN ops[h]
<1>1. Tree /\ cur # Module
  BY ModuleIs DEF IInv
<1>2. cur = stack[1].op /\ cur \in Op
  BY MatchUnderWay
<1>3. PICK h \in Block : Walked(OpSets, Kids, stack, h) /\ MatchedIn(OpSets, Kids, fresh, stack[1], rw, mode, h)
  BY <1>1, MatchUnderWay
<1>4. ~Gone(OpSets, fresh, cur)
  BY DEF Attached, Gone, OpSets
<1>5. ~rw.erased /\ cur \in OpSets[h]
  BY <1>2, <1>3, <1>4 DEF MatchedIn
<1>6. h \in Live(OpSets, Kids) /\ BlockOf(cur) = h /\ PosOf(cur) \in DOMAIN ops[h]
  BY <1>1, <1>3, <1>5, PlaceIs DEF Walked
<1> QED  BY <1>1, <1>2, <1>3, <1>5, <1>6

----------------------------------------------------------------------------
(* The calls, one by one. *)

\* A call that records ns next to the matched operation.
LEMMA StepInsertMatched ==
  ASSUME IInv, NEW ns \in NewOps, InsertBeforeMatched(ns) \/ InsertAfterMatched(ns)
  PROVE  IInv'
<1>1. ns \in Seq(fresh) /\ ns \in Seq(Op)
  BY NewOpsAre, NewOpsSeq DEF IInv
<1>2. /\ Matching /\ UNCHANGED walk /\ rw' \in Rewriters /\ rw'.done /\ rw'.erased = rw.erased
      /\ Recorded(rw') = Recorded(rw) \cup ToSet(ns)
  <2>1. CASE InsertBeforeMatched(ns)
    <3> DEFINE r == [rw EXCEPT !.before = @ \o ns]
    <3>1. r \in Rewriters /\ Act(r) /\ ToSet(rw.before \o ns) = ToSet(rw.before) \cup ToSet(ns)
      BY <1>1, <2>1, RecordedIs DEF InsertBeforeMatched
    <3>2. r.before = rw.before \o ns /\ r.after = rw.after /\ r.erased = rw.erased
      BY DEF IInv, Rewriters
    <3> HIDE DEF r
    <3> QED  BY <3>1, <3>2, ActIs DEF Recorded
  <2>2. CASE InsertAfterMatched(ns)
    <3> DEFINE r == [rw EXCEPT !.after = @ \o ns]
    <3>1. r \in Rewriters /\ Act(r) /\ ToSet(rw.after \o ns) = ToSet(rw.after) \cup ToSet(ns)
      BY <1>1, <2>2, RecordedIs DEF InsertAfterMatched
    <3>2. r.before = rw.before /\ r.after = rw.after \o ns /\ r.erased = rw.erased
      BY DEF IInv, Rewriters
    <3> HIDE DEF r
    <3> QED  BY <3>1, <3>2, ActIs DEF Recorded
  <2> QED  BY <2>1, <2>2
<1>3. /\ Attached(cur) /\ IsInjective(ns) /\ cur \notin ToSet(ns)
      /\ fresh' = fresh \ ToSet(ns) /\ regions' = regions
  BY DEF InsertBeforeMatched, InsertAfterMatched, CanAttach
<1>4. Tree /\ ~rw.erased /\ Forest(OpSets, Kids, fresh)
  BY <1>2, <1>3, StillThere DEF Tree
<1>5. PICK h \in Block : /\ Walked(OpSets, Kids, stack, h) /\ h \in Live(OpSets, Kids)
                         /\ MatchedIn(OpSets, Kids, fresh, stack[1], rw, mode, h)
                         /\ {cur} \in SUBSET OpSets[h] /\ BlockOf(cur) = h /\ PosOf(cur) \in DOMAIN ops[h]
  BY <1>2, <1>3, StillThere
<1>6. PICK i \in 0..Len(ops[h]) : ops' = [ops EXCEPT ![h] = Spliced(@, ns, i)]
  <2>1. Len(ops[h]) \in Nat /\ PosOf(cur) \in 1..Len(ops[h])
    BY <1>4, <1>5, LenProperties DEF Tree
  <2>2. PosOf(cur) \in 0..Len(ops[h]) /\ PosOf(cur) - 1 \in 0..Len(ops[h])
    BY <2>1
  <2>3. \/ ops' = [ops EXCEPT ![h] = Spliced(@, ns, PosOf(cur) - 1)]
        \/ ops' = [ops EXCEPT ![h] = Spliced(@, ns, PosOf(cur))]
    BY <1>5, Zenon DEF InsertBeforeMatched, InsertAfterMatched
  <2> QED  BY <2>2, <2>3
<1>7. /\ Tree' /\ Inserted(OpSets, OpSets', h, ToSet(ns)) /\ Kids' = Kids
      /\ ToSet(ns) \in SUBSET fresh /\ fresh' \in SUBSET fresh
  BY <1>1, <1>3, <1>4, <1>6, InsertTree
<1>8. /\ Local(OpSets, Kids, OpSets', Kids', {cur}, h)
      /\ cur \in OpSets'[h] /\ ToSet(ns) \subseteq OpSets'[h]
  <2>1. /\ Local(OpSets, Kids, OpSets', Kids, {cur}, h)
        /\ OpSets[h] \subseteq OpSets'[h] /\ ToSet(ns) \subseteq OpSets'[h]
    BY <1>4, <1>5, <1>7, InsertLocal
  <2> QED  BY <1>5, <1>7, <2>1
<1>9. /\ Recorded(rw') \subseteq Recorded(rw) \cup (OpSets'[h] \ {cur})
      /\ IF rw'.erased THEN Gone(OpSets', fresh', cur) ELSE cur \in OpSets'[h]
  BY <1>2, <1>3, <1>4, <1>8
<1> QED  BY <1>2, <1>4, <1>5, <1>7, <1>8, <1>9, RewriteMatched

\* An erase or a replacement of the matched operation.
LEMMA EraseHere ==
  ASSUME IInv, NEW ns \in Seq(fresh), IsInjective(ns), cur \notin ToSet(ns),
         Attached(cur), Matching, UNCHANGED walk, rw' \in Rewriters, rw'.done, rw'.erased,
         Recorded(rw') = Recorded(rw) \cup ToSet(ns),
         \/ ops' = [Without(cur) EXCEPT ![BlockOf(cur)] = Spliced(@, ns, PosOf(cur) - 1)]
         \/ (ops' = Without(cur) /\ ToSet(ns) = {}),
         fresh' = fresh \ ToSet(ns), regions' = regions
  PROVE  IInv'
<1>1. Tree /\ ~rw.erased /\ Forest(OpSets, Kids, fresh)
  BY StillThere DEF Tree
<1>2. PICK h \in Block : /\ Walked(OpSets, Kids, stack, h) /\ h \in Live(OpSets, Kids)
                         /\ MatchedIn(OpSets, Kids, fresh, stack[1], rw, mode, h)
                         /\ {cur} \in SUBSET OpSets[h] /\ BlockOf(cur) = h
  BY StillThere
<1>3. cur \in OpSets[h]
  BY <1>2
<1>4. Without(cur) \in [Block -> Seq(Op)]
  BY <1>1, <1>3, WithoutIs
<1>5. ListReplaced(h, cur, ns)
  <2>1. CASE ops' = [Without(cur) EXCEPT ![BlockOf(cur)] = Spliced(@, ns, PosOf(cur) - 1)]
    BY <1>2, <1>4, <2>1 DEF ListReplaced
  <2>2. CASE ops' = Without(cur) /\ ToSet(ns) = {}
    BY <1>4, <2>2 DEF ListReplaced
  <2> QED  BY <2>1, <2>2
<1>6. /\ Tree' /\ Kids' = Kids /\ ToSet(ns) \in SUBSET fresh /\ fresh' \in SUBSET fresh
      /\ Replaced(OpSets, Kids, OpSets', h, cur, ToSet(ns))
  BY <1>1, <1>3, <1>5, ReplaceTree
<1>7. /\ Local(OpSets, Kids, OpSets', Kids', {cur}, h) /\ ToSet(ns) \subseteq OpSets'[h]
      /\ Gone(OpSets', fresh', cur)
  <2>1. /\ Local(OpSets, Kids, OpSets', Kids, {cur}, h) /\ ToSet(ns) \subseteq OpSets'[h]
        /\ Gone(OpSets', fresh', cur)
    <3>1. h \in Live(OpSets, Kids) /\ Forest(OpSets, Kids, fresh)
      BY <1>1, <1>2
    <3>2. /\ ToSet(ns) \in SUBSET fresh /\ fresh' \in SUBSET fresh
          /\ Replaced(OpSets, Kids, OpSets', h, cur, ToSet(ns))
      BY <1>6
    <3> QED  BY <1>3, <3>1, <3>2, EraseLocal, Zenon
  <2> QED  BY <1>6, <2>1
<1>8. /\ Recorded(rw') \subseteq Recorded(rw) \cup (OpSets'[h] \ {cur})
      /\ IF rw'.erased THEN Gone(OpSets', fresh', cur) ELSE cur \in OpSets'[h]
  BY <1>7
<1> QED  BY <1>1, <1>2, <1>6, <1>7, <1>8, RewriteMatched

LEMMA StepEraseMatched ==
  ASSUME IInv, EraseMatched
  PROVE  IInv'
<1> DEFINE r == [rw EXCEPT !.erased = TRUE]
<1>1. r \in Rewriters /\ Act(r) /\ r.before = rw.before /\ r.after = rw.after /\ r.erased
  BY DEF EraseMatched, IInv, Rewriters
<1> HIDE DEF r
<1> DEFINE ns == <<>>
<1>2. ns \in Seq(fresh) /\ IsInjective(ns) /\ ToSet(ns) = {}
  BY NewOpsAre
<1>3. /\ Matching /\ UNCHANGED walk /\ rw' \in Rewriters /\ rw'.done /\ rw'.erased
      /\ Recorded(rw') = Recorded(rw) \cup ToSet(ns)
  BY <1>1, <1>2, ActIs DEF Recorded
<1>4. Attached(cur) /\ ops' = Without(cur) /\ fresh' = fresh \ ToSet(ns) /\ regions' = regions
  BY <1>2 DEF EraseMatched
<1>5. cur \notin ToSet(ns)
  BY <1>2
<1> HIDE DEF ns
<1> QED  BY <1>2, <1>3, <1>4, <1>5, EraseHere

LEMMA StepReplaceMatched ==
  ASSUME IInv, NEW ns \in NewOps, ReplaceMatched(ns)
  PROVE  IInv'
<1> DEFINE r == [rw EXCEPT !.before = @ \o ns, !.erased = TRUE]
<1>1. ns \in Seq(fresh) /\ ns \in Seq(Op)
  BY NewOpsAre, NewOpsSeq DEF IInv
<1>2. r \in Rewriters /\ Act(r) /\ ToSet(rw.before \o ns) = ToSet(rw.before) \cup ToSet(ns)
  BY <1>1, RecordedIs DEF ReplaceMatched
<1>3. r.before = rw.before \o ns /\ r.after = rw.after /\ r.erased
  BY DEF IInv, Rewriters
<1> HIDE DEF r
<1>4. /\ Matching /\ UNCHANGED walk /\ rw' \in Rewriters /\ rw'.done /\ rw'.erased
      /\ Recorded(rw') = Recorded(rw) \cup ToSet(ns)
  BY <1>2, <1>3, ActIs DEF Recorded
<1>5. /\ Attached(cur) /\ IsInjective(ns) /\ cur \notin ToSet(ns)
      /\ ops' = [Without(cur) EXCEPT ![BlockOf(cur)] = Spliced(@, ns, PosOf(cur) - 1)]
      /\ fresh' = fresh \ ToSet(ns) /\ regions' = regions
  BY DEF ReplaceMatched, CanAttach
<1> QED  BY <1>1, <1>4, <1>5, EraseHere

\* Operations of a loose block b go next to the matched operation.
LEMMA StepInlineMatched ==
  ASSUME IInv, Mannerly, NEW b \in Sources, InlineBeforeMatched(b) \/ InlineAfterMatched(b)
  PROVE  IInv'
<1> DEFINE ns == ops[b]
<1>m. Matching /\ Attached(cur)
  BY DEF InlineBeforeMatched, InlineAfterMatched, Act
<1>t. Tree /\ ~rw.erased /\ Forest(OpSets, Kids, fresh)
  BY <1>m, StillThere DEF Tree
<1>4. PICK h \in Block : /\ Walked(OpSets, Kids, stack, h) /\ h \in Live(OpSets, Kids)
                         /\ MatchedIn(OpSets, Kids, fresh, stack[1], rw, mode, h)
                         /\ {cur} \in SUBSET OpSets[h] /\ BlockOf(cur) = h /\ PosOf(cur) \in DOMAIN ops[h]
  BY <1>m, StillThere
<1>5. b \in Block /\ (b \in Under(OpSets, Kids, {cur}) \/ b \notin Live(OpSets, Kids))
  <2>1. Loose(b)
    BY <1>m, <1>4, SiteIs
  <2>2. Matched = {cur}
    BY <1>t DEF Matched
  <2> QED  BY <2>1, <2>2 DEF Loose
<1>1. ns \in Seq(Op) /\ OpSets[b] = ToSet(ns)
  BY <1>5 DEF IInv, Tree, OpSets
<1>2. /\ UNCHANGED walk /\ rw' \in Rewriters /\ rw'.done /\ rw'.erased = rw.erased
      /\ Recorded(rw') = Recorded(rw) \cup ToSet(ns)
  <2>1. CASE InlineBeforeMatched(b)
    <3> DEFINE r == [rw EXCEPT !.before = @ \o ns]
    <3>1. r \in Rewriters /\ Act(r) /\ ToSet(rw.before \o ns) = ToSet(rw.before) \cup ToSet(ns)
      BY <1>1, <2>1, RecordedIs DEF InlineBeforeMatched
    <3>2. r.before = rw.before \o ns /\ r.after = rw.after /\ r.erased = rw.erased
      BY DEF IInv, Rewriters
    <3> HIDE DEF r
    <3> QED  BY <3>1, <3>2, ActIs DEF Recorded
  <2>2. CASE InlineAfterMatched(b)
    <3> DEFINE r == [rw EXCEPT !.after = @ \o ns]
    <3>1. r \in Rewriters /\ Act(r) /\ ToSet(rw.after \o ns) = ToSet(rw.after) \cup ToSet(ns)
      BY <1>1, <2>2, RecordedIs DEF InlineAfterMatched
    <3>2. r.before = rw.before /\ r.after = rw.after \o ns /\ r.erased = rw.erased
      BY DEF IInv, Rewriters
    <3> HIDE DEF r
    <3> QED  BY <3>1, <3>2, ActIs DEF Recorded
  <2> QED  BY <2>1, <2>2
<1>6. PICK i \in 0..Len(ops[h]) : Inline(b, h, i, TRUE)
  <2>1. Len(ops[h]) \in Nat /\ PosOf(cur) \in 1..Len(ops[h])
    BY <1>t, <1>4, LenProperties DEF Tree
  <2>2. PosOf(cur) \in 0..Len(ops[h]) /\ PosOf(cur) - 1 \in 0..Len(ops[h])
    BY <2>1
  <2>3. Inline(b, h, PosOf(cur) - 1, TRUE) \/ Inline(b, h, PosOf(cur), TRUE)
    BY <1>4, Zenon DEF InlineBeforeMatched, InlineAfterMatched
  <2> QED  BY <2>2, <2>3
<1>7. /\ b # h /\ UNCHANGED <<regions, fresh>>
      /\ ops' = [ops EXCEPT ![b] = <<>>, ![h] = Spliced(@, ops[b], i)]
  BY <1>6 DEF Inline
<1>8. Tree' /\ Kids' = Kids /\ Inlined(OpSets, OpSets', b, h)
  BY <1>t, <1>5, <1>7, InlineTree
<1>9. /\ Local(OpSets, Kids, OpSets', Kids', {cur}, h) /\ cur \in OpSets'[h]
      /\ OpSets[b] \subseteq OpSets'[h] /\ cur \notin OpSets[b]
  <2>1. /\ Local(OpSets, Kids, OpSets', Kids, {cur}, h) /\ OpSets[h] \subseteq OpSets'[h]
        /\ OpSets[b] \subseteq OpSets'[h] /\ OpSets[h] \cap OpSets[b] = {}
    BY <1>t, <1>4, <1>5, <1>7, <1>8, InlineLocal
  <2> QED  BY <1>4, <1>8, <2>1
<1>10. /\ Recorded(rw') \subseteq Recorded(rw) \cup (OpSets'[h] \ {cur})
       /\ IF rw'.erased THEN Gone(OpSets', fresh', cur) ELSE cur \in OpSets'[h]
  BY <1>1, <1>2, <1>t, <1>9
<1> QED  BY <1>m, <1>t, <1>2, <1>4, <1>8, <1>9, <1>10, RewriteMatched

\* The other calls, which record nothing.
LEMMA UntoldIs ==
  ASSUME IInv, Act(rw)
  PROVE  Matching /\ UNCHANGED walk /\ Untold
<1>1. rw \in Rewriters
  BY DEF IInv
<1> QED  BY <1>1, ActIs DEF Untold

\* One that is local to the matched operation or, once that is erased, outside the
\* module.
LEMMA RewriteLoose ==
  ASSUME IInv, Mannerly, Matching, UNCHANGED walk, Tree', Untold,
         NEW h \in Block, Walked(OpSets, Kids, stack, h),
         MatchedIn(OpSets, Kids, fresh, stack[1], rw, mode, h),
         Local(OpSets, Kids, OpSets', Kids', Matched, h), OpSets[h] \subseteq OpSets'[h],
         Origin(OpSets, Kids, fresh, OpSets', Kids', fresh')
  PROVE  IInv'
<1>1. Matched \in SUBSET OpSets[h] /\ Matched \cap Others(stack[1], rw, mode) = {}
  BY SiteIs
<1>2. /\ rw.erased => Matched = {}
      /\ ~rw.erased => Matched = {cur} /\ cur \in OpSets'[h]
  BY <1>1 DEF Matched
<1>3. rw.erased => \A z \in Matched : Gone(OpSets', fresh', z) /\ Kids[z] = {}
  BY <1>2
<1> QED  BY <1>1, <1>2, <1>3, RewriteElsewhere

LEMMA StepInsertInBlock ==
  ASSUME IInv, Mannerly, NEW n \in fresh, NEW b \in Targets, NEW i \in 0..Len(ops[b]),
         InsertInBlock(n, b, i)
  PROVE  IInv'
<1> DEFINE ns == <<n>>
<1>1. ns \in Seq(fresh) /\ IsInjective(ns) /\ ToSet(ns) = {n}
  BY NewOpsAre
<1>2. Matching /\ UNCHANGED walk /\ Untold
  BY UntoldIs DEF InsertInBlock
<1>3. ops' = [ops EXCEPT ![b] = Spliced(@, ns, i)] /\ fresh' = fresh \ {n} /\ regions' = regions
  BY DEF InsertInBlock
<1>4. Tree /\ Forest(OpSets, Kids, fresh) /\ b \in Block
  BY DEF IInv, Tree, Targets, CanModifyBlock, OwnBlock, NestedBlocks
<1> HIDE DEF ns
<1>5. /\ Tree' /\ Inserted(OpSets, OpSets', b, {n}) /\ Kids' = Kids
      /\ {n} \in SUBSET fresh /\ fresh' \in SUBSET fresh
  BY <1>1, <1>3, <1>4, InsertTree
<1>6. CASE cur = Module
  BY <1>2, <1>5, <1>6, RewriteModule
<1>7. CASE cur # Module
  <2>1. PICK h \in Block : Walked(OpSets, Kids, stack, h) /\ MatchedIn(OpSets, Kids, fresh, stack[1], rw, mode, h)
    BY <1>2, <1>7, MatchUnderWay
  <2>2. /\ h \in Live(OpSets, Kids) /\ Matched \in SUBSET OpSets[h]
        /\ b = h \/ b \in Under(OpSets, Kids, Matched) \/ b \notin Live(OpSets, Kids)
    BY <1>2, <2>1, SiteIs DEF Loose, Walked
  <2>3. /\ Local(OpSets, Kids, OpSets', Kids, Matched, h) /\ OpSets[h] \subseteq OpSets'[h]
        /\ Origin(OpSets, Kids, fresh, OpSets', Kids, fresh')
    BY <1>4, <1>5, <2>2, InsertLocal
  <2> QED  BY <1>2, <1>5, <2>1, <2>3, RewriteLoose
<1> QED  BY <1>6, <1>7

LEMMA StepReplaceNested ==
  ASSUME IInv, Mannerly, NEW o \in Subjects, NEW ns \in Seq(fresh), IsInjective(ns), ReplaceNested(o, ns)
  PROVE  IInv'
<1>1. Matching /\ UNCHANGED walk /\ Untold
  BY UntoldIs DEF ReplaceNested
<1>2. /\ Attached(o) /\ o # cur
      /\ ops' = [Without(o) EXCEPT ![BlockOf(o)] = Spliced(@, ns, PosOf(o) - 1)]
      /\ fresh' = fresh \ ToSet(ns) /\ regions' = regions
  BY DEF ReplaceNested
<1>3. Tree /\ Forest(OpSets, Kids, fresh)
  BY DEF IInv, Tree
<1>4. PICK c \in Block : o \in OpSets[c]
  BY <1>2 DEF Attached, OpSets
<1>5. BlockOf(o) = c
  BY <1>3, <1>4, PlaceIs
<1>6. ListReplaced(c, o, ns)
  <2>1. Without(o) \in [Block -> Seq(Op)]
    BY <1>3, <1>4, WithoutIs
  <2> QED  BY <1>2, <1>5, <2>1 DEF ListReplaced
<1>7. /\ Tree' /\ Kids' = Kids /\ ToSet(ns) \in SUBSET fresh /\ fresh' \in SUBSET fresh
      /\ Replaced(OpSets, Kids, OpSets', c, o, ToSet(ns))
  BY <1>2, <1>3, <1>4, <1>6, ReplaceTree
<1>8. CASE cur = Module
  BY <1>1, <1>7, <1>8, RewriteModule
<1>9. CASE cur # Module
  <2>1. PICK h \in Block : Walked(OpSets, Kids, stack, h) /\ MatchedIn(OpSets, Kids, fresh, stack[1], rw, mode, h)
    BY <1>1, <1>9, MatchUnderWay
  <2>2. /\ h \in Live(OpSets, Kids) /\ Matched \in SUBSET OpSets[h] /\ o \notin Matched
        /\ ~Fixed(OpSets, Kids, Matched, o) \/ Spare(h, o)
    BY <1>1, <1>2, <2>1, SiteIs DEF Walked, Matched
  <2>3. CASE ~Fixed(OpSets, Kids, Matched, o)
    <3>1. /\ Local(OpSets, Kids, OpSets', Kids, Matched, h) /\ OpSets[h] \subseteq OpSets'[h]
          /\ Origin(OpSets, Kids, fresh, OpSets', Kids, fresh')
      <4>1. h \in Live(OpSets, Kids) /\ Matched \in SUBSET OpSets[h] /\ o \notin Matched
        BY <2>2
      <4>2. /\ ToSet(ns) \in SUBSET fresh /\ fresh' \in SUBSET fresh
            /\ Replaced(OpSets, Kids, OpSets', c, o, ToSet(ns))
        BY <1>7
      <4> QED  BY <1>3, <1>4, <2>3, <4>1, <4>2, LooseLocal, Zenon
    <3> QED  BY <1>1, <1>7, <2>1, <2>2, <3>1, RewriteLoose
  <2>4. CASE Spare(h, o)
    <3>1. c = h /\ rw.erased /\ o \in Op /\ Kids[o] = {}
      <4>1. c = h /\ o \in Op
        BY <1>3, <1>4, <2>4 DEF Spare, Forest
      <4>2. DOMAIN regions[o] = {}
        BY <2>4 DEF Spare
      <4>3. ChildBlocks(o) = {}
        BY <4>2 DEF ChildBlocks
      <4> QED  BY <2>4, <4>1, <4>3 DEF Spare, Kids
    <3>2. {o} \in SUBSET OpSets[h] /\ {o} \cap Others(stack[1], rw, mode) = {}
      BY <2>4, <3>1 DEF Spare, Others
    <3>3. /\ Local(OpSets, Kids, OpSets', Kids, {o}, h) /\ Gone(OpSets', fresh', o)
          /\ Origin(OpSets, Kids, fresh, OpSets', Kids, fresh')
      <4>1. /\ o \in OpSets[h] /\ ToSet(ns) \in SUBSET fresh /\ fresh' \in SUBSET fresh
            /\ Replaced(OpSets, Kids, OpSets', h, o, ToSet(ns))
        BY <1>4, <1>7, <3>1
      <4> QED  BY <1>3, <2>2, <4>1, EraseLocal, Zenon
    <3>4. rw.erased => \A z \in {o} : Gone(OpSets', fresh', z) /\ Kids[z] = {}
      BY <3>1, <3>3
    <3> DEFINE Z == {o}
    <3>5. /\ Z \in SUBSET OpSets[h] /\ Z \cap Others(stack[1], rw, mode) = {}
          /\ Local(OpSets, Kids, OpSets', Kids', Z, h)
          /\ Origin(OpSets, Kids, fresh, OpSets', Kids', fresh')
          /\ rw.erased => \A z \in Z : Gone(OpSets', fresh', z) /\ Kids[z] = {}
      BY <1>7, <3>2, <3>3, <3>4
    <3> HIDE DEF Z
    <3> QED  BY <1>1, <1>7, <2>1, <3>1, <3>5, RewriteElsewhere
  <2> QED  BY <2>2, <2>3, <2>4
<1> QED  BY <1>8, <1>9

LEMMA StepInlineNested ==
  ASSUME IInv, Mannerly, NEW b \in Sources, NEW d \in Targets, NEW i \in 0..Len(ops[d]),
         InlineNested(b, d, i)
  PROVE  IInv'
<1>1. Matching /\ UNCHANGED walk /\ Untold
  BY UntoldIs DEF InlineNested
<1>2. /\ b # d /\ UNCHANGED <<regions, fresh>>
      /\ ops' = [ops EXCEPT ![b] = <<>>, ![d] = Spliced(@, ops[b], i)]
  BY DEF InlineNested, Inline
<1>3. Tree /\ Forest(OpSets, Kids, fresh) /\ b \in Block /\ d \in Block
  BY DEF IInv, Tree, Targets, Sources, CanModifyBlock, OwnBlock, NestedBlocks
<1>4. Tree' /\ Kids' = Kids /\ fresh' = fresh /\ Inlined(OpSets, OpSets', b, d)
  BY <1>2, <1>3, InlineTree
<1>5. CASE cur = Module
  BY <1>1, <1>4, <1>5, RewriteModule
<1>6. CASE cur # Module
  <2>1. PICK h \in Block : Walked(OpSets, Kids, stack, h) /\ MatchedIn(OpSets, Kids, fresh, stack[1], rw, mode, h)
    BY <1>1, <1>6, MatchUnderWay
  <2>2. /\ h \in Live(OpSets, Kids) /\ Matched \in SUBSET OpSets[h]
        /\ d = h \/ d \in Under(OpSets, Kids, Matched) \/ d \notin Live(OpSets, Kids)
        /\ b \in Under(OpSets, Kids, Matched) \/ b \notin Live(OpSets, Kids)
    BY <1>1, <2>1, SiteIs DEF Loose, Walked
  <2>3. /\ Local(OpSets, Kids, OpSets', Kids, Matched, h) /\ OpSets[h] \subseteq OpSets'[h]
        /\ Origin(OpSets, Kids, fresh, OpSets', Kids, fresh)
    BY <1>2, <1>3, <1>4, <2>2, InlineLocal
  <2> QED  BY <1>1, <1>4, <2>1, <2>3, RewriteLoose
<1> QED  BY <1>5, <1>6

LEMMA StepMoveRegion ==
  ASSUME IInv, Mannerly, NEW p \in Subjects, NEW n \in fresh, NEW k \in DOMAIN regions[p], MoveRegion(n, p, k)
  PROVE  IInv'
<1>1. Matching /\ UNCHANGED walk /\ Untold
  BY UntoldIs DEF MoveRegion
<1>2. /\ n # p /\ UNCHANGED <<ops, fresh>>
      /\ regions' = [regions EXCEPT ![n] = Append(@, regions[p][k]), ![p][k] = <<>>]
  BY DEF MoveRegion
<1>3. Tree /\ Forest(OpSets, Kids, fresh)
  BY DEF IInv, Tree
<1>p. p \in Op
  <2>1. cur \in Op /\ NestedOps(cur) \subseteq Op
    BY <1>1, <1>3, MatchUnderWay, NestedIs DEF OpsInside, Inside, Forest
  <2> QED  BY <2>1 DEF Subjects, CanModifyOp
<1> DEFINE X == ToSet(regions[p][k])
<1>4. Tree' /\ OpSets' = OpSets /\ fresh' = fresh /\ Moved(Kids, Kids', p, n, X)
  BY <1>2, <1>3, <1>p, MoveTree
<1> HIDE DEF X
<1>5. CASE cur = Module
  BY <1>1, <1>4, <1>5, RewriteModule
<1>6. CASE cur # Module
  <2>1. PICK h \in Block : Walked(OpSets, Kids, stack, h) /\ MatchedIn(OpSets, Kids, fresh, stack[1], rw, mode, h)
    BY <1>1, <1>6, MatchUnderWay
  <2>2. /\ h \in Live(OpSets, Kids) /\ Matched \in SUBSET OpSets[h]
        /\ ~Fixed(OpSets, Kids, Matched, p)
    BY <1>1, <2>1, SiteIs DEF Spare, Walked
  <2>3. Local(OpSets, Kids, OpSets, Kids', Matched, h) /\ Origin(OpSets, Kids, fresh, OpSets, Kids', fresh)
    BY <1>2, <1>3, <1>4, <1>p, <2>2, MoveLocal
  <2> QED  BY <1>1, <1>4, <2>1, <2>3, RewriteLoose
<1> QED  BY <1>5, <1>6

\* A call that leaves the IR's shape alone.
LEMMA StepTouch ==
  ASSUME IInv, Touch
  PROVE  IInv'
<1>1. Matching /\ UNCHANGED walk /\ Untold /\ ~rw.done
  BY UntoldIs DEF Touch
<1>2. Tree' /\ OpSets' = OpSets /\ Kids' = Kids /\ fresh' = fresh
  BY SameIR DEF IInv, Touch, ir
<1>3. stack' = stack /\ mode' = mode /\ ~rw.erased
  BY <1>1 DEF walk, IInv
<1>4. Recorded(rw') = Recorded(rw) /\ rw'.erased = rw.erased
  BY <1>1 DEF Recorded, Untold
<1>5. Others(stack[1], rw', mode) = Others(stack[1], rw, mode)
  BY <1>3, <1>4 DEF Others
<1>6. MatchIn(OpSets, Kids, fresh, stack, rw', mode)
  BY <1>4, <1>5 DEF IInv, MatchIn, MatchedIn
<1> QED  BY <1>1, <1>2, <1>3, <1>6 DEF IInv, Untold

\* Every call keeps the invariant.
LEMMA StepRewrite ==
  ASSUME IInv, Mannerly, Rewrite
  PROVE  IInv'
<1>1. CASE \E ns \in NewOps : InsertBeforeMatched(ns) \/ InsertAfterMatched(ns)
  BY <1>1, StepInsertMatched
<1>2. CASE \E ns \in NewOps : ReplaceMatched(ns)
  BY <1>2, StepReplaceMatched
<1>3. CASE EraseMatched
  BY <1>3, StepEraseMatched
<1>4. CASE \E b \in Targets, n \in fresh : \E i \in 0..Len(ops[b]) : InsertInBlock(n, b, i)
  BY <1>4, StepInsertInBlock
<1>5. CASE \E o \in Subjects : ReplaceNested(o, <<>>) \/ \E n \in fresh : ReplaceNested(o, <<n>>)
  <2>1. PICK o \in Subjects : ReplaceNested(o, <<>>) \/ \E n \in fresh : ReplaceNested(o, <<n>>)
    BY <1>5
  <2>2. PICK ns \in Seq(fresh) : IsInjective(ns) /\ ReplaceNested(o, ns)
    <3>1. CASE ReplaceNested(o, <<>>)
      BY <3>1, NewOpsAre
    <3>2. CASE \E n \in fresh : ReplaceNested(o, <<n>>)
      BY <3>2, NewOpsAre
    <3> QED  BY <2>1, <3>1, <3>2
  <2> QED  BY <2>2, StepReplaceNested
<1>6. CASE \E b \in Sources : InlineBeforeMatched(b) \/ InlineAfterMatched(b)
  BY <1>6, StepInlineMatched
<1>7. CASE \E b \in Sources, d \in Targets : \E i \in 0..Len(ops[d]) : InlineNested(b, d, i)
  BY <1>7, StepInlineNested
<1>8. CASE \E p \in Subjects : \E n \in fresh, k \in DOMAIN regions[p] : MoveRegion(n, p, k)
  BY <1>8, StepMoveRegion
<1>9. CASE Touch
  BY <1>9, StepTouch
<1> QED  BY <1>1, <1>2, <1>3, <1>4, <1>5, <1>6, <1>7, <1>8, <1>9 DEF Rewrite

\* Every step keeps the invariant.
LEMMA StepIInv ==
  ASSUME IInv, Mannerly, [Next]_vars
  PROVE  IInv'
<1>1. CASE UNCHANGED vars
  <2>1. mode' = mode /\ rw' = rw /\ stack' = stack /\ UNCHANGED <<ops, regions, fresh>>
    BY <1>1 DEF vars
  <2>2. Tree' /\ OpSets' = OpSets /\ Kids' = Kids
    BY <2>1, SameIR DEF IInv
  <2> QED  BY <2>1, <2>2 DEF IInv
<1>2. CASE Finished
  BY <1>1, <1>2 DEF Finished
<1> QED  BY <1>1, <1>2, StepEnterBlock, StepVisitOp, StepStartMatch, StepRewrite, StepEndMatch, StepReturn
         DEF Next

\* Inductive invariant of _rewrite_op: what its activations have still to walk, to
\* match or to return is in the module, and apart from all that the calls made in the
\* match under way can change.  The pattern makes any calls _can_modify_op and
\* _can_modify_block let pass, but for the two that Mannerly excludes, which break it:
\* inlining the matched operation's own block elsewhere and, once the matched
\* operation is erased, changing the module where the walk may go on.
THEOREM WalkInvariant ==
  ASSUME Mannerly
  PROVE  Spec => []IInv
<1>1. IInv /\ [Next]_vars => IInv'
  BY StepIInv
<1> QED  BY <1>1, InitIInv, PTL DEF Spec

\* PatternRewriteWalker never goes on at an operation that has left the module: the
\* neighbour that _rewrite_op read before the match, or the operation it takes from
\* iter_affected_ops, is still there when the walk goes on with it.
THEOREM NeverStale ==
  ASSUME Mannerly
  PROVE  Spec => []NoStale
<1>1. IInv => NoStale
  <2> SUFFICES ASSUME IInv, Walking, stack[1].it # NULL PROVE InModule(stack[1].it)
    BY DEF NoStale
  <2>1. PICK h \in Block : Walked(OpSets, Kids, stack, h) /\ stack[1].it \in OpSets[h]
    BY DEF IInv, VisitIn, Walking
  <2>2. stack[1].it \in OpsInside(OpSets, Kids, Module)
    BY <2>1 DEF Walked, Live, OpsInside
  <2>3. NestedOps(Module) = OpsInside(OpSets, Kids, Module)
    BY NestedIs, WalkerInput DEF IInv
  <2> QED  BY <2>2, <2>3 DEF InModule
<1> QED  BY <1>1, WalkInvariant, PTL

=============================================================================
