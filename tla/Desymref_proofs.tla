---------------------------- MODULE Desymref_proofs ----------------------------
(***************************************************************************)
(* Proofs about the desymrefier, for any number of symbols and operations  *)
(* and for nested regions that may use the symbols of the body: operands   *)
(* stay defined above their uses, the pass does not raise, and it leaves   *)
(* at most one read and one write of a symbol per block.  The input does   *)
(* not read a declared symbol above all of its writes: the code says that  *)
(* "the write dominates all the uses" and gives a value written below the  *)
(* read otherwise.                                                         *)
(***************************************************************************)
EXTENDS Desymref, FiniteSetTheorems, TLAPS

\* The inputs that the theorems are about.
NoReadFirst == "read first" \notin Liberties

----------------------------------------------------------------------------
(* How a change of the program shows in Of and in the operands. *)

\* Operations with a number are operations of the block.
LEMMA OfFacts ==
  ASSUME NEW b, NEW k, NEW s, NEW i
  PROVE  i \in Of(b, k, s) <=> \E o \in ops[b] : o.k = k /\ o.sym = s /\ o.id = i
BY DEF Of

\* Erasing removes the operations of blk with these numbers.
LEMMA ErasedFacts ==
  ASSUME TypeOK, NEW ids, ops' = Erased(ids)
  PROVE  /\ ops' \in [Blocks -> SUBSET Operation]
         /\ \A b \in Blocks : \A o : o \in ops'[b] <=> o \in ops[b] /\ (b = blk => o.id \notin ids)
         /\ \A b \in Blocks : \A k, s : Of(b, k, s)' = IF b = blk THEN Of(b, k, s) \ ids ELSE Of(b, k, s)
<1>1. ops \in [Blocks -> SUBSET Operation] /\ blk \in Blocks
  BY DEF TypeOK
<1>2. ops' \in [Blocks -> SUBSET Operation]
  BY <1>1 DEF Erased
<1>3. \A b \in Blocks : \A o : o \in ops'[b] <=> o \in ops[b] /\ (b = blk => o.id \notin ids)
  BY <1>1 DEF Erased
<1>4. \A b \in Blocks : \A k, s : Of(b, k, s)' = IF b = blk THEN Of(b, k, s) \ ids ELSE Of(b, k, s)
  BY <1>3 DEF Of
<1> QED  BY <1>2, <1>3, <1>4

\* Renaming an operand changes only the operand.
LEMMA RenamedFacts ==
  ASSUME NEW o \in Operation, NEW r, NEW v \in Int
  PROVE  LET q == Renamed(o, r, v)
         IN  /\ q \in Operation /\ q.id = o.id /\ q.k = o.k /\ q.sym = o.sym
             /\ q.val = IF o.val = r THEN v ELSE o.val
BY DEF Renamed, Operation

\* Replacing read r removes it and renames it in all operands.
LEMMA ReplacedFacts ==
  ASSUME TypeOK, NEW r, NEW v \in Int, ops' = ReplacedRead(r, v)
  PROVE  /\ ops' \in [Blocks -> SUBSET Operation]
         /\ \A b \in Blocks : \A q : q \in ops'[b] <=> \E o \in ops[b] : o.id # r /\ q = Renamed(o, r, v)
         /\ \A b \in Blocks : \A k, s : Of(b, k, s)' = Of(b, k, s) \ {r}
<1>1. ops \in [Blocks -> SUBSET Operation] /\ \A b \in Blocks : \A o \in ops[b] : o \in Operation
  BY DEF TypeOK
<1>2. \A b \in Blocks : \A q : q \in ops'[b] <=> \E o \in ops[b] : o.id # r /\ q = Renamed(o, r, v)
  BY DEF ReplacedRead
<1>3. ops' \in [Blocks -> SUBSET Operation]
  <2>1. \A b \in Blocks : ops'[b] \subseteq Operation
    BY <1>1, <1>2, RenamedFacts
  <2>2. ops' = [b \in Blocks |-> ops'[b]]
    BY DEF ReplacedRead
  <2> QED  BY <2>1, <2>2
<1>4. ASSUME NEW b \in Blocks, NEW k, NEW s PROVE Of(b, k, s)' = Of(b, k, s) \ {r}
  <2>1. ASSUME NEW i \in Of(b, k, s)' PROVE i \in Of(b, k, s) \ {r}
    <3>1. PICK q \in ops'[b] : q.k = k /\ q.sym = s /\ q.id = i
      BY <2>1 DEF Of
    <3>2. PICK o \in ops[b] : o.id # r /\ q = Renamed(o, r, v)
      BY <1>2, <3>1
    <3>3. o.k = k /\ o.sym = s /\ o.id = i /\ i # r
      BY <1>1, <3>1, <3>2, RenamedFacts
    <3> QED  BY <3>3 DEF Of
  <2>2. ASSUME NEW i \in Of(b, k, s), i # r PROVE i \in Of(b, k, s)'
    <3>1. PICK o \in ops[b] : o.k = k /\ o.sym = s /\ o.id = i
      BY <2>2 DEF Of
    <3>2. Renamed(o, r, v) \in ops'[b]
      BY <1>2, <2>2, <3>1
    <3>3. Renamed(o, r, v).k = k /\ Renamed(o, r, v).sym = s /\ Renamed(o, r, v).id = i
      BY <1>1, <3>1, RenamedFacts
    <3> HIDE DEF Renamed
    <3> QED  BY <3>2, <3>3 DEF Of
  <2> QED  BY <2>1, <2>2
<1> QED  BY <1>2, <1>3, <1>4

\* The reads that operands may name.
LEMMA VisibleFacts ==
  ASSUME NEW b \in Blocks
  PROVE  /\ \A i : i \in Visible("body") <=> \E o \in ops["body"] : o.k = "fetch" /\ o.id = i
         /\ \A i : i \in Visible("inner") <=> \E c \in Blocks : \E o \in ops[c] : o.k = "fetch" /\ o.id = i
BY DEF Visible, ReadsOf, All, Blocks

----------------------------------------------------------------------------
(* What a change keeps. *)

\* Erasing keeps operands defined when no read that goes is an operand.
LEMMA EraseKeeps ==
  ASSUME TypeOK, Numbered, Dominated, NEW ids, ops' = Erased(ids), UNCHANGED size,
         \A r \in ids : r \in ReadsOf(ops[blk]) => \A u \in All : u.val # r
  PROVE  Numbered' /\ Dominated'
<1>1. /\ ops' \in [Blocks -> SUBSET Operation]
      /\ \A b \in Blocks : \A o : o \in ops'[b] <=> o \in ops[b] /\ (b = blk => o.id \notin ids)
  BY ErasedFacts
<1>2. Numbered'
  BY <1>1 DEF Numbered
<1>3. ASSUME NEW b \in Blocks, NEW o \in ops'[b], o.val > 0 PROVE o.val \in Visible(b)'
  <2>1. o \in ops[b] /\ o.val \in Visible(b) /\ o \in All
    BY <1>1, <1>3 DEF Dominated, All, Blocks
  <2>2. \A c \in Blocks : \A p \in ops[c] : p.k = "fetch" /\ p.id = o.val => p \in ops'[c]
    BY <1>1, <2>1 DEF ReadsOf
  <2> QED  BY <2>1, <2>2 DEF Visible, ReadsOf, All, Blocks
<1>4. Dominated'
  BY <1>1, <1>3 DEF Dominated
<1> QED  BY <1>2, <1>4

\* Replacing a read keeps operands defined when the value is defined above it.
LEMMA ReplaceKeeps ==
  ASSUME TypeOK, Numbered, Dominated, NEW r, NEW v \in Int, ops' = ReplacedRead(r, v), UNCHANGED size,
         NEW e \in ops[blk], e.k = "fetch", e.id = r,
         v < 0 => -v <= r, v > 0 => v < r /\ v \in Visible(blk)
  PROVE  Numbered' /\ Dominated'
<1>1. /\ ops' \in [Blocks -> SUBSET Operation] /\ blk \in Blocks /\ size \in Nat
      /\ \A b \in Blocks : \A q : q \in ops'[b] <=> \E o \in ops[b] : o.id # r /\ q = Renamed(o, r, v)
      /\ \A b \in Blocks : \A o \in ops[b] : o \in Operation
  BY ReplacedFacts DEF TypeOK
<1>2. \A b \in Blocks : \A o \in ops[b] :
         LET q == Renamed(o, r, v)
         IN  /\ q \in Operation /\ q.id = o.id /\ q.k = o.k /\ q.sym = o.sym
             /\ q.val = IF o.val = r THEN v ELSE o.val
  BY <1>1, RenamedFacts
<1>3. Numbered'
  <2>1. \A b \in Blocks : \A q \in ops'[b] :
           /\ q.id \in 1..size
           /\ q.k \in {"declare", "fetch", "update"} => q.sym \in Sym
           /\ q.k = "declare" => q.val = 0
    BY <1>1, <1>2 DEF Numbered
  <2>2. ASSUME NEW b \in Blocks, NEW c \in Blocks, NEW p \in ops'[b], NEW q \in ops'[c], p.id = q.id
        PROVE  b = c /\ p = q
    <3>1. PICK o1 \in ops[b] : o1.id # r /\ p = Renamed(o1, r, v)
      BY <1>1
    <3>2. PICK o2 \in ops[c] : o2.id # r /\ q = Renamed(o2, r, v)
      BY <1>1
    <3>3. o1.id = o2.id
      BY <1>2, <2>2, <3>1, <3>2
    <3> QED  BY <3>1, <3>2, <3>3 DEF Numbered
  <2> QED  BY <2>1, <2>2 DEF Numbered
<1>4. ASSUME NEW b \in Blocks, NEW i, i \in Visible(b), i # r PROVE i \in Visible(b)'
  <2>1. \A c \in Blocks : \A o \in ops[c] : o.k = "fetch" /\ o.id = i =>
           \E q \in ops'[c] : q.k = "fetch" /\ q.id = i
    BY <1>1, <1>2, <1>4
  <2> QED  BY <1>4, <2>1 DEF Visible, ReadsOf, All, Blocks
<1>5. \A b \in Blocks : r \in Visible(b) => b = blk \/ b = "inner"
  BY <1>1 DEF Visible, ReadsOf, Blocks, Numbered
<1>6. \A i : i \in Visible(blk) => i \in Visible("inner")
  BY <1>1 DEF Visible, ReadsOf, All, Blocks
<1>7. ASSUME NEW b \in Blocks, NEW q \in ops'[b]
      PROVE  /\ q.val < 0 => -q.val <= q.id
             /\ q.val > 0 => q.val < q.id /\ q.val \in Visible(b)'
  <2>1. PICK o \in ops[b] : o.id # r /\ q = Renamed(o, r, v)
    BY <1>1
  <2>2. /\ q.id = o.id /\ q.val = (IF o.val = r THEN v ELSE o.val)
        /\ o.id \in Nat /\ o.val \in Int /\ r \in Nat /\ r > 0
    BY <1>1, <1>2, <2>1 DEF Operation, Numbered
  <2>3. CASE o.val = r
    <3>1. r < o.id /\ r \in Visible(b)
      BY <2>2, <2>3 DEF Dominated
    <3>2. v > 0 => v \in Visible(b)'
      <4>1. v > 0 => v \in Visible(b) /\ v # r
        BY <1>5, <1>6, <2>2, <3>1
      <4> QED  BY <1>4, <4>1
    <3> QED  BY <2>2, <2>3, <3>1, <3>2
  <2>4. CASE o.val # r
    BY <1>4, <2>2, <2>4 DEF Dominated
  <2> QED  BY <2>3, <2>4
<1> QED  BY <1>3, <1>7 DEF Dominated

\* What is achieved stays when operations only go.
LEMMA AchievedShrinks ==
  ASSUME Achieved, UNCHANGED <<phase, blk, prepared>>, blk \in Blocks,
         \A b \in Blocks : \A k, s : Of(b, k, s)' \subseteq Of(b, k, s)
  PROVE  Achieved'
<1>1. \A b \in Blocks : \A s : OnceIn(b, s) => OnceIn(b, s)'
  BY DEF OnceIn, Several
<1>2. \A b \in Blocks : NoneDeclared(b) => NoneDeclared(b)'
  BY DEF NoneDeclared
<1> QED  BY <1>1, <1>2 DEF Achieved, Blocks

\* Outside its while loop the worklist is empty.
LEMMA NoWork ==
  ASSUME WorkThere, phase # "uses", work' = work
  PROVE  work = {} /\ WorkThere'
BY DEF WorkThere

\* The worklist is right as long as its symbols keep their operations, and the
\* loop has another symbol.
LEMMA WorkKept ==
  ASSUME WorkThere, UNCHANGED <<phase, blk>>, work' \subseteq work,
         \A s \in work' : /\ Of(blk, "fetch", s) \subseteq Of(blk, "fetch", s)'
                          /\ Of(blk, "update", s) \subseteq Of(blk, "update", s)',
         loop'.how # "idle" => loop'.sym \notin work'
  PROVE  WorkThere'
<1> QED  BY DEF WorkThere

----------------------------------------------------------------------------
(* The input. *)

\* One operation more, as Build adds it, keeps the invariant.
LEMMA AddKeeps ==
  ASSUME IInv, phase = "build", NEW b \in Blocks, NEW o \in Operation, Add(b, o),
         o.id = size + 1, o.k \in {"declare", "fetch", "update"} => o.sym \in Sym,
         o.val < 0 => -o.val <= o.id, o.val > 0 => o.val \in Visible(b), o.k = "declare" => o.val = 0,
         o.k = "declare" => o.sym \notin Symbols(ops[b]),
         o.k = "fetch" => Of(b, "declare", o.sym) = {} \/ Of(b, "update", o.sym) # {},
         b = "inner" => InRegion
  PROVE  IInv'
<1> USE DEF IInv
<1>1. /\ size \in Nat /\ ops \in [Blocks -> SUBSET Operation] /\ blk \in Blocks
      /\ size' = size + 1 /\ ops' = [ops EXCEPT ![b] = @ \cup {o}]
      /\ UNCHANGED <<phase, blk, defs, work, loop, prepared, declared, meaning>>
  BY DEF TypeOK, Add
<1>2. /\ ops' \in [Blocks -> SUBSET Operation]
      /\ \A c \in Blocks : \A p : p \in ops'[c] <=> p \in ops[c] \/ (c = b /\ p = o)
  BY <1>1
<1>3. TypeOK'
  BY <1>1, <1>2 DEF TypeOK
<1>4. \A c \in Blocks : \A p \in ops[c] : p.id \in 1..size /\ p.id < o.id /\ p.id \in Nat
  BY <1>1 DEF Numbered
<1>5. Numbered'
  BY <1>1, <1>2, <1>4 DEF Numbered
<1>6. \A c \in Blocks : Visible(c) \subseteq Visible(c)'
  BY <1>2 DEF Visible, ReadsOf, All, Blocks
<1>7. o.val > 0 => o.val < o.id
  BY <1>4 DEF Visible, ReadsOf, All, Blocks
<1>8. Dominated'
  BY <1>2, <1>6, <1>7 DEF Dominated
<1>9. \A c \in Blocks : \A k, s : Of(c, k, s)' = IF c = b /\ o.k = k /\ o.sym = s
                                                   THEN Of(c, k, s) \cup {o.id} ELSE Of(c, k, s)
  BY <1>2 DEF Of
<1>10. WrittenAbove'
  <2> SUFFICES ASSUME NEW c \in Blocks, NEW s \in Sym, Of(c, "declare", s)' # {}, NEW r \in Of(c, "fetch", s)'
      PROVE  \E w \in Of(c, "update", s)' : w < r
    BY DEF WrittenAbove
  <2>1. CASE c # b \/ o.sym # s
    BY <1>9, <2>1 DEF WrittenAbove
  <2>2. CASE c = b /\ o.sym = s /\ o.k = "declare"
    <3>1. Of(b, "fetch", s) = {}
      BY <2>2 DEF Of, Symbols
    <3> QED  BY <1>9, <2>2, <3>1
  <2>3. CASE c = b /\ o.sym = s /\ o.k = "fetch"
    <3>1. Of(b, "declare", s) # {} /\ Of(b, "update", s) # {}
      BY <1>9, <2>3
    <3>2. CASE r \in Of(b, "fetch", s)
      BY <1>9, <2>3, <3>1, <3>2 DEF WrittenAbove
    <3>3. CASE r = o.id
      <4>1. PICK w \in Of(b, "update", s) : TRUE
        BY <3>1
      <4>2. w < o.id
        BY <1>4 DEF Of
      <4> QED  BY <1>9, <2>3, <3>3, <4>1, <4>2
    <3> QED  BY <1>9, <2>3, <3>2, <3>3
  <2>4. CASE c = b /\ o.sym = s /\ o.k \notin {"declare", "fetch"}
    <3>1. \E w \in Of(c, "update", s) : w < r
      BY <1>9, <2>4 DEF WrittenAbove
    <3> QED  BY <1>9, <3>1
  <2> QED  BY <2>1, <2>2, <2>3, <2>4
<1>11. RegionThere'
  BY <1>1, <1>2 DEF RegionThere, All, Blocks, InRegion
<1>12. DefsThere' /\ Achieved'
  BY <1>1 DEF DefsThere, Achieved
<1>13. LoopInv'
  BY <1>1 DEF LoopInv, LoopLists, LoopOnly, LoopFirst, LoopNearest
<1>14. WorkThere'
  BY <1>1, NoWork
<1> QED  BY <1>3, <1>5, <1>8, <1>10, <1>11, <1>12, <1>13, <1>14

\* Build keeps the invariant.
LEMMA BuildStep ==
  ASSUME IInv, NoReadFirst, Build
  PROVE  IInv'
<1> DEFINE n == size + 1
<1>1. PICK b \in Blocks :
        /\ b = "inner" => InRegion
        /\ \/ \E s \in Sym :
                /\ MayName(b, s)
                /\ \/ MayDeclare(b, s) /\ Add(b, Declare(n, s))
                   \/ MayRead(b, s) /\ Add(b, Fetch(n, s))
                   \/ \E v \in Visible(b) \cup {-n} : Add(b, Update(n, s, v))
           \/ \E v \in Visible(b) : Add(b, Use(n, v))
           \/ /\ b = "body" /\ \A o \in All : o.k # "region"
              /\ Add(b, RegionOp(n))
  BY DEF Build
<1>2. phase = "build" /\ n \in Nat /\ n > 0
  BY DEF Build, IInv, TypeOK
<1>3. \A v \in Visible(b) : v \in Nat /\ v > 0
  BY DEF IInv, Numbered, Visible, ReadsOf, All, Blocks
<1> HIDE DEF n
<1>4. ASSUME NEW s \in Sym, MayDeclare(b, s), Add(b, Declare(n, s)) PROVE IInv'
  <2> DEFINE o == Declare(n, s)
  <2>1. o \in Operation /\ o.id = n /\ o.k = "declare" /\ o.sym = s /\ o.val = 0
    BY <1>2 DEF Declare, Operation
  <2> HIDE DEF o
  <2> QED  BY <1>1, <1>2, <1>4, <2>1, AddKeeps DEF n, o, MayDeclare
<1>5. ASSUME NEW s \in Sym, MayRead(b, s), Add(b, Fetch(n, s)) PROVE IInv'
  <2> DEFINE o == Fetch(n, s)
  <2>1. o \in Operation /\ o.id = n /\ o.k = "fetch" /\ o.sym = s /\ o.val = 0
    BY <1>2 DEF Fetch, Operation
  <2> HIDE DEF o
  <2>2. Of(b, "declare", s) = {} \/ Of(b, "update", s) # {}
    BY <1>5 DEF MayRead, NoReadFirst
  <2> QED  BY <1>1, <1>2, <1>5, <2>1, <2>2, AddKeeps DEF n, o
<1>6. ASSUME NEW s \in Sym, NEW v \in Visible(b) \cup {-n}, Add(b, Update(n, s, v)) PROVE IInv'
  <2> DEFINE o == Update(n, s, v)
  <2>1. o \in Operation /\ o.id = n /\ o.k = "update" /\ o.sym = s /\ o.val = v
    BY <1>2, <1>3 DEF Update, Operation
  <2>2. (v < 0 => -v <= n) /\ (v > 0 => v \in Visible(b))
    BY <1>2, <1>3
  <2> HIDE DEF o
  <2> QED  BY <1>1, <1>2, <1>6, <2>1, <2>2, AddKeeps DEF n, o
<1>7. ASSUME NEW v \in Visible(b), Add(b, Use(n, v)) PROVE IInv'
  <2> DEFINE o == Use(n, v)
  <2>1. o \in Operation /\ o.id = n /\ o.k = "use" /\ o.val = v
    BY <1>2, <1>3 DEF Use, Operation
  <2> HIDE DEF o
  <2> QED  BY <1>1, <1>2, <1>3, <1>7, <2>1, AddKeeps DEF n, o
<1>8. ASSUME Add(b, RegionOp(n)) PROVE IInv'
  <2> DEFINE o == RegionOp(n)
  <2>1. o \in Operation /\ o.id = n /\ o.k = "region" /\ o.val = 0
    BY <1>2 DEF RegionOp, Operation
  <2> HIDE DEF o
  <2> QED  BY <1>1, <1>2, <1>8, <2>1, AddKeeps DEF n, o
<1> QED  BY <1>1, <1>4, <1>5, <1>6, <1>7, <1>8

\* The pass begins.
LEMMA PrepareStep ==
  ASSUME IInv, Prepare
  PROVE  IInv'
<1> USE DEF IInv
<1>1. /\ phase = "build" /\ phase' = "definitions" /\ UNCHANGED <<size, ops, defs, work, loop, prepared>>
      /\ blk' = (IF \E o \in All : o.k = "region" THEN "inner" ELSE "body")
      /\ declared' = {o.sym : o \in {p \in All : p.k = "declare"}}
  BY DEF Prepare
<1>2. TypeOK'
  <2>1. declared' \subseteq Sym
    BY <1>1 DEF Numbered, All, Blocks
  <2> QED  BY <1>1, <2>1 DEF TypeOK, Blocks
<1>3. Numbered' /\ Dominated' /\ WrittenAbove' /\ RegionThere'
  <2>1. \A b \in Blocks : Visible(b)' = Visible(b) /\ \A k, s : Of(b, k, s)' = Of(b, k, s)
    BY <1>1 DEF Visible, ReadsOf, All, Of
  <2>2. Numbered' /\ Dominated'
    BY <1>1, <2>1 DEF Numbered, Dominated
  <2>3. WrittenAbove' /\ RegionThere'
    BY <1>1, <2>1 DEF WrittenAbove, RegionThere
  <2> QED  BY <2>2, <2>3
<1>4. DefsThere' /\ defs = {} /\ prepared = {}
  BY <1>1 DEF DefsThere, Achieved
<1>5. blk' = "body" => ops["inner"] = {}
  BY <1>1 DEF RegionThere, All
<1>6. Achieved'
  <2>1. blk' = "body" => \A k, s : Of("inner", k, s)' = {}
    BY <1>1, <1>5 DEF Of
  <2> QED  BY <1>1, <1>4, <2>1 DEF Achieved, NoneDeclared, OnceIn, Several
<1>7. LoopInv'
  BY <1>1 DEF LoopInv, LoopLists, LoopOnly, LoopFirst, LoopNearest
<1>8. WorkThere'
  BY <1>1, NoWork
<1> QED  BY <1>2, <1>3, <1>4, <1>6, <1>7, <1>8

----------------------------------------------------------------------------
(* The pass. *)

\* A number belongs to one operation, of one kind and one symbol.
LEMMA Distinct ==
  ASSUME Numbered, NEW b \in Blocks, NEW c \in Blocks, NEW k, NEW l, NEW s, NEW t, NEW i,
         i \in Of(b, k, s), i \in Of(c, l, t)
  PROVE  b = c /\ k = l /\ s = t /\ i \in 1..size
<1>1. PICK o \in ops[b] : o.k = k /\ o.sym = s /\ o.id = i
  BY DEF Of
<1>2. PICK p \in ops[c] : p.k = l /\ p.sym = t /\ p.id = i
  BY DEF Of
<1> QED  BY <1>1, <1>2 DEF Numbered

\* The list of the writes of a symbol.
LEMMA ListingFacts ==
  ASSUME TypeOK, Numbered, NEW b \in Blocks, NEW k, NEW s, NEW ws \in Listings(Of(b, k, s))
  PROVE  /\ ws \in Seq(Nat) /\ Len(ws) \in Nat /\ ToSet(ws) = Of(b, k, s)
         /\ \A i, j \in 1..Len(ws) : i < j => ws[i] < ws[j]
<1> DEFINE S == Of(b, k, s)
<1>1. S \subseteq 1..size /\ size \in Nat
  BY DEF Of, Numbered, TypeOK
<1>2. IsFiniteSet(S)
  <2>1. 1 \in Int /\ size \in Int
    BY <1>1
  <2>2. IsFiniteSet(1..size)
    BY <2>1, FS_Interval
  <2> QED  BY <1>1, <2>2, FS_Subset
<1>3. Cardinality(S) \in Nat
  BY <1>2, FS_CardinalityType
<1>4. /\ ws \in [1..Cardinality(S) -> S] /\ ToSet(ws) = S
      /\ \A i, j \in 1..Cardinality(S) : i < j => ws[i] < ws[j]
  BY DEF Listings
<1> HIDE DEF S
<1>5. ws \in Seq(Nat) /\ Len(ws) = Cardinality(S)
  <2>0. S \subseteq Nat
    BY <1>1
  <2>1. ws \in [1..Cardinality(S) -> Nat]
    BY <1>4, <2>0
  <2> QED  BY <1>3, <2>1
<1> QED  BY <1>3, <1>4, <1>5 DEF S

\* Steps that only move the loops on.
LEMMA ProgramKept ==
  ASSUME IInv, UNCHANGED <<size, ops>>
  PROVE  /\ Numbered' /\ Dominated' /\ WrittenAbove'
         /\ \A b \in Blocks : \A k, s : Of(b, k, s)' = Of(b, k, s)
<1>1. \A b \in Blocks : Visible(b)' = Visible(b) /\ \A k, s : Of(b, k, s)' = Of(b, k, s)
  BY DEF Visible, ReadsOf, All, Of
<1>2. Numbered' /\ Dominated'
  BY <1>1 DEF IInv, Numbered, Dominated
<1>3. WrittenAbove'
  BY <1>1 DEF IInv, WrittenAbove
<1> QED  BY <1>1, <1>2, <1>3

\* A turn of the binary search keeps its bounds.
LEMMA SearchStep ==
  ASSUME IInv, Search
  PROVE  IInv'
<1> USE DEF IInv
<1>1. PICK r \in loop.reads : Current(r) /\ loop' = Narrowed(r)
  BY DEF Search
<1>2. /\ loop.how = "nearest" /\ loop.low < loop.high
      /\ UNCHANGED <<size, ops, phase, blk, defs, work, prepared, declared, meaning>>
  BY DEF Search
<1> DEFINE mid == (loop.high - loop.low + 1) \div 2 + loop.low
<1>3. /\ loop \in [how : {"idle", "only", "nearest", "first"}, sym : Sym \cup {Undef},
                   reads : SUBSET Nat, anchor : Nat, writes : Seq(Nat), low : Nat, high : Nat]
      /\ blk \in Blocks
  BY DEF TypeOK
<1>4. mid \in Nat /\ loop.low < mid /\ mid <= loop.high /\ mid - 1 \in Nat
  BY <1>2, <1>3
<1>5. loop' = IF loop.writes[mid] < r THEN [loop EXCEPT !.low = mid] ELSE [loop EXCEPT !.high = mid - 1]
  BY <1>1 DEF Narrowed
<1> HIDE DEF mid
<1>6. /\ loop'.how = "nearest" /\ loop'.sym = loop.sym /\ loop'.reads = loop.reads
      /\ loop'.writes = loop.writes /\ loop'.low \in Nat /\ loop'.high \in Nat
      /\ loop' \in [how : {"idle", "only", "nearest", "first"}, sym : Sym \cup {Undef},
                   reads : SUBSET Nat, anchor : Nat, writes : Seq(Nat), low : Nat, high : Nat]
      /\ \/ loop.writes[mid] < r /\ loop'.low = mid /\ loop'.high = loop.high
         \/ ~(loop.writes[mid] < r) /\ loop'.low = loop.low /\ loop'.high = mid - 1
  BY <1>2, <1>3, <1>4, <1>5
<1>7. TypeOK'
  BY <1>2, <1>6 DEF TypeOK
<1>8. /\ Numbered' /\ Dominated' /\ WrittenAbove'
      /\ \A b \in Blocks : \A k, s : Of(b, k, s)' = Of(b, k, s)
  BY <1>2, ProgramKept
<1>9. RegionThere' /\ DefsThere'
  BY <1>2 DEF RegionThere, DefsThere, All
<1>10. Achieved'
  BY <1>2, <1>3, <1>8, AchievedShrinks
<1>11. LoopLists' /\ LoopOnly' /\ LoopFirst'
  BY <1>2, <1>3, <1>6, <1>8 DEF LoopInv, LoopLists, LoopOnly, LoopFirst
<1>12. LoopNearest'
  <2>1. /\ loop.high <= Len(loop.writes) /\ Len(loop.writes) \in Nat
        /\ loop.low > 0 => loop.writes[loop.low] < r
        /\ loop.high < Len(loop.writes) => r <= loop.writes[loop.high + 1]
    BY <1>1, <1>2, <1>3 DEF LoopInv, LoopNearest
  <2>2. \A x \in loop.reads : Current(x)' => x = r
    BY <1>1, <1>3, <1>6 DEF Current
  <2>3. loop.writes[mid] \in Nat /\ r \in Nat
    BY <1>3, <1>4, <2>1
  <2>4. loop'.low <= loop'.high /\ loop'.high <= Len(loop.writes)
    BY <1>3, <1>4, <1>6, <2>1
  <2>5. loop'.low > 0 => loop.writes[loop'.low] < r
    BY <1>6, <2>1
  <2>6. loop'.high < Len(loop.writes) => r <= loop.writes[loop'.high + 1]
    BY <1>4, <1>6, <2>1, <2>3
  <2> QED  BY <1>6, <2>2, <2>4, <2>5, <2>6 DEF LoopNearest
<1>13. WorkThere'
  <2>1. loop.sym \notin work
    BY <1>2 DEF WorkThere
  <2> QED  BY <1>2, <1>3, <1>6, <1>8, <2>1, WorkKept
<1> QED  BY <1>6, <1>7, <1>8, <1>9, <1>10, <1>11, <1>12, <1>13 DEF LoopInv

\* The record of a for loop over reads.
LoopRecord == [how : {"idle", "only", "nearest", "first"}, sym : Sym \cup {Undef},
               reads : SUBSET Nat, anchor : Nat, writes : Seq(Nat), low : Nat, high : Nat]

\* The operand of a write of the block is defined above the write.
LEMMA OperandFacts ==
  ASSUME IInv, NEW s, NEW i, i \in Of(blk, "update", s)
  PROVE  LET v == OperandOf(i)
         IN  /\ v \in Int /\ i \in Nat
             /\ v < 0 => -v <= i
             /\ v > 0 => v < i /\ v \in Visible(blk)
<1> USE DEF IInv
<1>1. blk \in Blocks /\ \A o \in ops[blk] : o \in Operation
  BY DEF TypeOK
<1>2. \E o \in ops[blk] : o.id = i
  BY DEF Of
<1> DEFINE o == CHOOSE p \in ops[blk] : p.id = i
<1>3. o \in ops[blk] /\ o.id = i
  BY <1>2
<1>4. OperandOf(i) = o.val
  BY DEF OperandOf
<1> HIDE DEF o
<1> QED  BY <1>1, <1>3, <1>4 DEF Dominated, Operation

\* The value that a read gets is defined above the read: the first read, the
\* operand of the nearest write, or that of the only write, which is above all
\* reads.
LEMMA NewValueAbove ==
  ASSUME IInv, NEW r \in loop.reads, Current(r),
         loop.how = "nearest" => loop.low >= loop.high /\ loop.low > 0
  PROVE  /\ NewValue \in Int /\ r \in Nat /\ NewValue # r
         /\ NewValue < 0 => -NewValue <= r
         /\ NewValue > 0 => NewValue < r /\ NewValue \in Visible(blk)
<1> USE DEF IInv
<1>1. loop \in LoopRecord /\ blk \in Blocks
  BY DEF TypeOK, LoopRecord
<1>2. loop.how # "idle" /\ r \in Of(blk, "fetch", loop.sym) /\ loop.sym \in Sym
      /\ ToSet(loop.writes) = Of(blk, "update", loop.sym)
  BY DEF LoopInv, LoopLists
<1>3. r \in Nat /\ r > 0
  BY <1>2 DEF Of, Numbered, TypeOK
<1>4. ASSUME NEW w \in Of(blk, "update", loop.sym), w < r, NewValue = OperandOf(w)
      PROVE  /\ NewValue \in Int /\ NewValue # r
             /\ NewValue < 0 => -NewValue <= r
             /\ NewValue > 0 => NewValue < r /\ NewValue \in Visible(blk)
  <2> DEFINE v == OperandOf(w)
  <2>1. v \in Int /\ w \in Nat /\ (v < 0 => -v <= w) /\ (v > 0 => v < w /\ v \in Visible(blk))
    BY OperandFacts
  <2> HIDE DEF v
  <2> QED  BY <1>3, <1>4, <2>1 DEF v
<1>5. CASE loop.how = "first"
  <2>1. NewValue = loop.anchor
    BY <1>5 DEF NewValue
  <2>2. loop.anchor \in Of(blk, "fetch", loop.sym) /\ loop.anchor < r
    BY <1>5 DEF LoopInv, LoopFirst
  <2>3. loop.anchor \in Nat /\ loop.anchor \in Visible(blk)
    BY <1>1, <2>2 DEF Of, Visible, ReadsOf, All, Blocks, LoopRecord
  <2> QED  BY <1>3, <2>1, <2>2, <2>3
<1>6. CASE loop.how = "only"
  <2>1. NewValue = OperandOf(loop.writes[1])
    BY <1>6 DEF NewValue
  <2>2. Len(loop.writes) = 1 /\ Of(blk, "declare", loop.sym) # {}
    BY <1>6 DEF LoopInv, LoopOnly
  <2>3. PICK w \in Of(blk, "update", loop.sym) : w < r
    BY <1>1, <1>2, <2>2 DEF WrittenAbove
  <2>4. DOMAIN loop.writes = {1}
    BY <1>1, <2>2 DEF LoopRecord
  <2>5. w = loop.writes[1]
    BY <1>2, <2>4 DEF ToSet
  <2> QED  BY <1>3, <1>4, <2>1, <2>3, <2>5
<1>7. CASE loop.how = "nearest"
  <2>1. NewValue = OperandOf(loop.writes[loop.low])
    BY <1>7 DEF NewValue
  <2>2. loop.low \in DOMAIN loop.writes /\ loop.writes[loop.low] < r
    BY <1>1, <1>7 DEF LoopInv, LoopNearest, LoopRecord
  <2>3. loop.writes[loop.low] \in Of(blk, "update", loop.sym)
    BY <1>2, <2>2 DEF ToSet
  <2> QED  BY <1>3, <1>4, <2>1, <2>2, <2>3
<1> QED  BY <1>1, <1>2, <1>3, <1>5, <1>6, <1>7 DEF LoopRecord

\* Replacing a read, or passing over it, keeps the invariant.
LEMMA ReplaceNextStep ==
  ASSUME IInv, ReplaceNext
  PROVE  IInv'
<1> USE DEF IInv
<1>1. loop \in LoopRecord /\ blk \in Blocks
  BY DEF TypeOK, LoopRecord
<1>2. PICK r \in loop.reads :
        /\ Current(r)
        /\ \/ /\ loop.how = "nearest" /\ loop.low = 0
              /\ UNCHANGED <<ops, phase>>
           \/ /\ loop.how = "nearest" => loop.low > 0
              /\ IF NewValue = r THEN phase' = "raised" /\ UNCHANGED ops
                 ELSE ops' = ReplacedRead(r, NewValue) /\ UNCHANGED phase
        /\ loop' = [loop EXCEPT !.reads = @ \ {r}, !.low = 0, !.high = Len(loop.writes)]
  BY DEF ReplaceNext
<1>3. UNCHANGED <<size, blk, defs, work, prepared, declared, meaning>>
  BY DEF ReplaceNext
<1>4. /\ loop' \in LoopRecord /\ loop'.how = loop.how /\ loop'.sym = loop.sym
      /\ loop'.reads = loop.reads \ {r} /\ loop'.anchor = loop.anchor
      /\ loop'.writes = loop.writes /\ loop'.low = 0 /\ loop'.high = Len(loop.writes)
  <2>1. Len(loop.writes) \in Nat /\ loop.reads \ {r} \in SUBSET Nat
    BY <1>1 DEF LoopRecord
  <2>2. loop' = [loop EXCEPT !.reads = loop.reads \ {r}, !.low = 0, !.high = Len(loop.writes)]
    BY <1>2
  <2> QED  BY <1>1, <2>1, <2>2 DEF LoopRecord
<1>5. /\ loop.how # "idle" /\ phase \in {"definitions", "uses"} /\ loop.sym \in Sym
      /\ r \in Of(blk, "fetch", loop.sym) /\ loop.reads \subseteq Of(blk, "fetch", loop.sym)
      /\ ToSet(loop.writes) = Of(blk, "update", loop.sym)
      /\ \A i, j \in 1..Len(loop.writes) : i < j => loop.writes[i] < loop.writes[j]
  BY <1>2 DEF LoopInv, LoopLists
<1>6. /\ ops' \in [Blocks -> SUBSET Operation] /\ phase' = phase /\ Numbered' /\ Dominated'
      /\ \/ /\ loop.how = "nearest"
            /\ \A b \in Blocks : \A k, s : Of(b, k, s)' = Of(b, k, s)
            /\ ops' = ops
         \/ /\ \A b \in Blocks : \A k, s : Of(b, k, s)' = Of(b, k, s) \ {r}
            /\ \A o \in ops[blk] : o.id # r /\ o.val = 0 => o \in ops'[blk]
  <2>1. CASE loop.how = "nearest" /\ loop.low = 0 /\ UNCHANGED <<ops, phase>>
    BY <1>3, <2>1, ProgramKept DEF TypeOK
  <2>2. CASE /\ loop.how = "nearest" => loop.low > 0
             /\ IF NewValue = r THEN phase' = "raised" /\ UNCHANGED ops
                ELSE ops' = ReplacedRead(r, NewValue) /\ UNCHANGED phase
    <3> DEFINE v == NewValue
    <3>1. loop.how = "nearest" => loop.low >= loop.high
      BY DEF ReplaceNext
    <3>2. /\ v \in Int /\ r \in Nat /\ v # r
          /\ v < 0 => -v <= r
          /\ v > 0 => v < r /\ v \in Visible(blk)
      BY <1>2, <2>2, <3>1, NewValueAbove
    <3>3. ops' = ReplacedRead(r, v) /\ phase' = phase
      BY <2>2, <3>2
    <3> HIDE DEF v
    <3>4. PICK e \in ops[blk] : e.k = "fetch" /\ e.id = r
      BY <1>5 DEF Of
    <3>5. Numbered' /\ Dominated'
      BY <1>3, <3>2, <3>3, <3>4, ReplaceKeeps
    <3>6. /\ ops' \in [Blocks -> SUBSET Operation]
          /\ \A b \in Blocks : \A q : q \in ops'[b] <=> \E o \in ops[b] : o.id # r /\ q = Renamed(o, r, v)
          /\ \A b \in Blocks : \A k, s : Of(b, k, s)' = Of(b, k, s) \ {r}
      BY <3>2, <3>3, ReplacedFacts
    <3>7. r # 0
      BY <3>4, <1>1 DEF Numbered
    <3>8. \A o \in ops[blk] : o.id # r /\ o.val = 0 => o \in ops'[blk]
      BY <1>1, <3>6, <3>7 DEF Renamed
    <3> QED  BY <3>3, <3>5, <3>6, <3>8
  <2> QED  BY <1>2, <2>1, <2>2
<1>7. TypeOK'
  BY <1>3, <1>4, <1>6 DEF TypeOK, LoopRecord
<1>8. \A b \in Blocks : \A k, s : k # "fetch" => r \notin Of(b, k, s)
  BY <1>1, <1>5, Distinct
<1>9. \A b \in Blocks : \A k, s : /\ Of(b, k, s)' \subseteq Of(b, k, s)
                                  /\ k # "fetch" => Of(b, k, s)' = Of(b, k, s)
                                  /\ Of(b, k, s) \ {r} \subseteq Of(b, k, s)'
  BY <1>6, <1>8
<1>10. WrittenAbove'
  BY <1>9 DEF WrittenAbove
<1>11. RegionThere' /\ Achieved'
  BY <1>1, <1>3, <1>5, <1>6, <1>9, AchievedShrinks DEF RegionThere
<1>12. DefsThere'
  <2>1. \A d \in defs : d \in ops[blk] /\ d.k = "declare" /\ d.val = 0
    BY <1>1 DEF DefsThere, Numbered
  <2>2. \A d \in defs : d.id # r
    BY <1>8, <1>1, <2>1 DEF Of
  <2>3. \A d \in defs : d \in ops'[blk]
    BY <1>6, <2>1, <2>2
  <2> QED  BY <1>3, <1>6, <2>1, <2>3 DEF DefsThere
<1>13. LoopLists'
  <2>1. loop'.reads \subseteq Of(blk, "fetch", loop.sym)'
    BY <1>1, <1>3, <1>4, <1>5, <1>9
  <2> QED  BY <1>1, <1>3, <1>4, <1>5, <1>6, <1>9, <2>1 DEF LoopLists
<1>14. LoopOnly'
  <2> SUFFICES ASSUME loop.how = "only" PROVE LoopOnly'
    BY <1>4 DEF LoopOnly
  <2>1. Of(blk, "fetch", loop.sym)' = Of(blk, "fetch", loop.sym) \ {r}
    BY <1>1, <1>3, <1>4, <1>6
  <2> QED  BY <1>1, <1>3, <1>4, <1>6, <1>9, <2>1 DEF LoopInv, LoopOnly
<1>15. LoopFirst'
  <2> SUFFICES ASSUME loop.how = "first" PROVE LoopFirst'
    BY <1>4 DEF LoopFirst
  <2>1. Of(blk, "fetch", loop.sym)' = Of(blk, "fetch", loop.sym) \ {r}
    BY <1>1, <1>3, <1>4, <1>6
  <2>2. loop.anchor \in Of(blk, "fetch", loop.sym) /\ loop.anchor # r
    BY <1>1, <1>2 DEF LoopInv, LoopFirst, LoopRecord
  <2> QED  BY <1>1, <1>3, <1>4, <1>6, <2>1, <2>2 DEF LoopInv, LoopFirst
<1>16. LoopNearest'
  BY <1>1, <1>4 DEF LoopNearest, LoopRecord
<1>17. WorkThere'
  <2>1. loop.sym \notin work
    BY <1>5 DEF WorkThere
  <2>2. \A s \in work : r \notin Of(blk, "fetch", s)
    BY <1>1, <1>5, <2>1, Distinct
  <2>3. \A s \in work : /\ Of(blk, "fetch", s) \subseteq Of(blk, "fetch", s)'
                        /\ Of(blk, "update", s) \subseteq Of(blk, "update", s)'
    BY <1>1, <1>3, <1>9, <2>2
  <2> QED  BY <1>3, <1>4, <1>6, <2>1, <2>3, WorkKept
<1> QED  BY <1>4, <1>5, <1>6, <1>7, <1>10, <1>11, <1>12, <1>13, <1>14, <1>15, <1>16, <1>17 DEF LoopInv

\* Erasing the writes of a symbol without reads, and one of its declarations,
\* keeps the program right.
LEMMA EraseSymbol ==
  ASSUME IInv, UNCHANGED <<size, blk>>, NEW s \in Sym, Of(blk, "fetch", s) = {},
         NEW d, d \in Of(blk, "declare", s),
         ops' = Erased(Of(blk, "update", s) \cup {d})
  PROVE  /\ Numbered' /\ Dominated' /\ WrittenAbove' /\ ops' \in [Blocks -> SUBSET Operation]
         /\ \A b \in Blocks : \A k, t : Of(b, k, t)' \subseteq Of(b, k, t)
         /\ \A o \in ops[blk] : o.k = "declare" /\ o.id # d => o \in ops'[blk]
<1> USE DEF IInv
<1> DEFINE ids == Of(blk, "update", s) \cup {d}
<1>1. /\ ops' \in [Blocks -> SUBSET Operation] /\ blk \in Blocks
      /\ \A b \in Blocks : \A o : o \in ops'[b] <=> o \in ops[b] /\ (b = blk => o.id \notin ids)
      /\ \A b \in Blocks : \A k, t : Of(b, k, t)' = IF b = blk THEN Of(b, k, t) \ ids ELSE Of(b, k, t)
  <2>1. TypeOK /\ ops' = Erased(ids)
    OBVIOUS
  <2>2. blk \in Blocks
    BY DEF TypeOK
  <2> HIDE DEF ids
  <2> QED  BY <2>1, <2>2, ErasedFacts
<1>2. \A k, t, i : i \in ids /\ i \in Of(blk, k, t) => t = s /\ k \in {"update", "declare"} /\ (k = "declare" => i = d)
  <2> SUFFICES ASSUME NEW k, NEW t, NEW i \in ids, i \in Of(blk, k, t)
      PROVE  t = s /\ k \in {"update", "declare"} /\ (k = "declare" => i = d)
    OBVIOUS
  <2>1. CASE i \in Of(blk, "update", s)
    <3>1. k = "update" /\ t = s
      BY <1>1, <2>1, Distinct
    <3> QED  BY <3>1
  <2>2. CASE i = d
    <3>1. k = "declare" /\ t = s
      BY <1>1, <2>2, Distinct
    <3> QED  BY <2>2, <3>1
  <2> QED  BY <2>1, <2>2
<1>3. Numbered' /\ Dominated'
  <2>1. \A r \in ids : r \notin ReadsOf(ops[blk])
    <3> SUFFICES ASSUME NEW r \in ids, NEW o \in ops[blk], o.k = "fetch", o.id = r PROVE FALSE
      BY DEF ReadsOf
    <3>1. r \in Of(blk, "fetch", o.sym)
      BY DEF Of
    <3> QED  BY <1>2, <3>1
  <2> HIDE DEF ids
  <2> QED  BY <2>1, EraseKeeps DEF ids
<1> HIDE DEF ids
<1>4. WrittenAbove'
  <2> SUFFICES ASSUME NEW b \in Blocks, NEW t \in Sym, Of(b, "declare", t)' # {}, NEW r \in Of(b, "fetch", t)'
      PROVE  \E w \in Of(b, "update", t)' : w < r
    BY DEF WrittenAbove
  <2>1. PICK w \in Of(b, "update", t) : w < r
    BY <1>1 DEF WrittenAbove
  <2>2. b # blk \/ t # s
    BY <1>1
  <2>3. w \in Of(b, "update", t)'
    BY <1>1, <1>2, <2>2
  <2> QED  BY <2>1, <2>3
<1>5. \A o \in ops[blk] : o.k = "declare" /\ o.id # d => o \in ops'[blk]
  <2>1. \A o \in ops[blk] : o.id \in Of(blk, o.k, o.sym)
    BY DEF Of
  <2> QED  BY <1>1, <1>2, <2>1
<1>6. \A b \in Blocks : \A k, t : Of(b, k, t)' \subseteq Of(b, k, t)
  BY <1>1
<1> QED  BY <1>1, <1>3, <1>4, <1>5, <1>6

\* An idle loop asks for nothing.
LEMMA IdleLoop ==
  ASSUME loop' = Idle \/ (loop' = loop /\ loop.how = "idle"), IInv
  PROVE  LoopInv' /\ loop' \in LoopRecord
<1>1. Idle \in LoopRecord /\ Idle.how = "idle" /\ Idle.reads = {}
  BY DEF Idle, LoopRecord
<1>2. loop'.how = "idle" /\ loop'.reads = {} /\ loop' \in LoopRecord
  BY <1>1 DEF IInv, TypeOK, LoopRecord, LoopInv
<1> QED  BY <1>2 DEF LoopInv, LoopLists, LoopOnly, LoopFirst, LoopNearest

\* The end of a loop keeps the invariant, and prepares its symbol.
LEMMA EndLoopStep ==
  ASSUME IInv, EndLoop
  PROVE  IInv'
<1> USE DEF IInv
<1>1. /\ loop.how # "idle" /\ loop.reads = {} /\ loop' = Idle
      /\ ops' = CASE loop.how = "only" -> Erased(ToSet(loop.writes) \cup {loop.anchor})
                  [] loop.how = "first" -> Erased(Superseded(loop.writes))
                  [] OTHER -> ops
      /\ prepared' = IF loop.how = "first" THEN prepared \cup {loop.sym} ELSE prepared
      /\ UNCHANGED <<size, phase, blk, defs, work, declared, meaning>>
  BY DEF EndLoop
<1>2. /\ loop \in LoopRecord /\ blk \in Blocks /\ phase \in {"definitions", "uses"} /\ loop.sym \in Sym
      /\ ToSet(loop.writes) = Of(blk, "update", loop.sym)
  BY <1>1 DEF TypeOK, LoopRecord, LoopInv, LoopLists
<1>3. LoopInv' /\ loop' \in LoopRecord /\ RegionThere'
  BY <1>1, <1>2, IdleLoop DEF RegionThere
<1>4. CASE loop.how = "only"
  <2>1. /\ Of(blk, "fetch", loop.sym) = {} /\ loop.anchor \in Of(blk, "declare", loop.sym)
        /\ \A d \in defs : d.id # loop.anchor
    BY <1>1, <1>4 DEF LoopInv, LoopOnly
  <2>2. ops' = Erased(Of(blk, "update", loop.sym) \cup {loop.anchor}) /\ prepared' = prepared
    BY <1>1, <1>2, <1>4
  <2>3. /\ Numbered' /\ Dominated' /\ WrittenAbove' /\ ops' \in [Blocks -> SUBSET Operation]
        /\ \A b \in Blocks : \A k, t : Of(b, k, t)' \subseteq Of(b, k, t)
        /\ \A o \in ops[blk] : o.k = "declare" /\ o.id # loop.anchor => o \in ops'[blk]
    BY <1>1, <1>2, <2>1, <2>2, EraseSymbol
  <2>4. TypeOK' /\ Achieved' /\ DefsThere' /\ WorkThere'
    <3>1. TypeOK'
      BY <1>1, <1>3, <2>2, <2>3 DEF TypeOK, LoopRecord
    <3>2. Achieved'
      BY <1>1, <1>2, <2>2, <2>3, AchievedShrinks
    <3>3. DefsThere'
      BY <1>1, <2>1, <2>3 DEF DefsThere
    <3>4. WorkThere'
      BY <1>1, <1>4, NoWork DEF LoopInv, LoopOnly
    <3> QED  BY <3>1, <3>2, <3>3, <3>4
  <2> QED  BY <1>3, <2>3, <2>4
<1>5. CASE loop.how = "first"
  <2> DEFINE ids == Superseded(loop.writes)
             n == Len(loop.writes)
  <2>1. /\ phase = "uses" /\ NoneDeclared(blk) /\ defs = {} /\ ops' = Erased(ids)
        /\ Of(blk, "fetch", loop.sym) \subseteq {loop.anchor} /\ prepared' = prepared \cup {loop.sym}
    BY <1>1, <1>5 DEF LoopInv, LoopFirst, Achieved, DefsThere
  <2>2. loop.writes \in Seq(Nat) /\ n \in Nat /\ DOMAIN loop.writes = 1..n
    BY <1>2 DEF LoopRecord
  <2>3. ids \subseteq Of(blk, "update", loop.sym)
    BY <1>2, <2>2 DEF Superseded, ToSet
  <2>4. Of(blk, "update", loop.sym) \ ids \subseteq {loop.writes[n]}
    <3>1. ASSUME NEW i \in 1..n, loop.writes[i] \notin ids PROVE loop.writes[i] = loop.writes[n]
      <4>1. i \notin 1..(n - 1)
        BY <2>2, <3>1 DEF Superseded
      <4> QED  BY <2>2, <4>1
    <3> HIDE DEF ids
    <3> QED  BY <1>2, <2>2, <3>1 DEF ToSet
  <2> HIDE DEF ids, n
  <2>5. /\ ops' \in [Blocks -> SUBSET Operation]
        /\ \A b \in Blocks : \A k, t : Of(b, k, t)' = IF b = blk THEN Of(b, k, t) \ ids ELSE Of(b, k, t)
    BY <2>1, ErasedFacts
  <2>6. Numbered' /\ Dominated'
    <3>1. \A r \in ids : r \notin ReadsOf(ops[blk])
      <4> SUFFICES ASSUME NEW r \in ids, NEW o \in ops[blk], o.k = "fetch", o.id = r PROVE FALSE
        BY DEF ReadsOf
      <4>1. r \in Of(blk, "fetch", o.sym) /\ r \in Of(blk, "update", loop.sym)
        BY <2>3 DEF Of
      <4> QED  BY <1>2, <4>1, Distinct
    <3> QED  BY <1>1, <2>1, <3>1, EraseKeeps
  <2>7. WrittenAbove'
    BY <2>1, <2>5 DEF WrittenAbove, NoneDeclared
  <2>8. TypeOK' /\ DefsThere'
    BY <1>1, <1>2, <1>3, <2>1, <2>5 DEF TypeOK, LoopRecord, DefsThere
  <2>9. Achieved'
    <3>1. \A s : s = loop.sym => OnceIn(blk, s)'
      BY <1>1, <1>2, <2>1, <2>4, <2>5 DEF OnceIn, Several
    <3>2. \A b \in Blocks : \A s : OnceIn(b, s) => OnceIn(b, s)'
      BY <2>5 DEF OnceIn, Several
    <3>3. \A b \in Blocks : NoneDeclared(b) => NoneDeclared(b)'
      BY <2>5 DEF NoneDeclared
    <3>4. \A s \in prepared' : OnceIn(blk, s)'
      BY <1>1, <1>2, <2>1, <3>1, <3>2 DEF Achieved
    <3> QED  BY <1>1, <1>2, <2>1, <3>2, <3>3, <3>4 DEF Achieved, Blocks
  <2>10. WorkThere'
    <3>1. loop.sym \notin work /\ loop'.how = "idle"
      BY <1>1 DEF WorkThere, Idle
    <3>2. \A k, s : s \in work => Of(blk, k, s) \cap ids = {}
      BY <1>2, <2>3, <3>1, Distinct
    <3>3. \A s \in work : \A k : Of(blk, k, s) \subseteq Of(blk, k, s)'
      BY <1>1, <1>2, <2>5, <3>2
    <3> QED  BY <1>1, <3>1, <3>3, WorkKept
  <2> QED  BY <1>3, <2>6, <2>7, <2>8, <2>9, <2>10
<1>6. CASE loop.how = "nearest"
  <2>1. ops' = ops /\ prepared' = prepared
    BY <1>1, <1>6
  <2>2. /\ Numbered' /\ Dominated' /\ WrittenAbove'
        /\ \A b \in Blocks : \A k, s : Of(b, k, s)' = Of(b, k, s)
    BY <1>1, <2>1, ProgramKept
  <2>3. TypeOK' /\ DefsThere'
    BY <1>1, <1>3, <2>1 DEF TypeOK, LoopRecord, DefsThere
  <2>4. Achieved'
    BY <1>1, <1>2, <2>1, <2>2, AchievedShrinks
  <2>5. WorkThere'
    <3>1. loop'.how = "idle"
      BY <1>1 DEF Idle
    <3> QED  BY <1>1, <1>2, <2>2, <3>1, WorkKept
  <2> QED  BY <1>3, <2>2, <2>3, <2>4, <2>5
<1> QED  BY <1>1, <1>2, <1>4, <1>5, <1>6 DEF LoopRecord

\* The while loop of prune_definitions keeps the invariant: it ends when no
\* declaration is left.
LEMMA FindDefinitionsStep ==
  ASSUME IInv, FindDefinitions
  PROVE  IInv'
<1> USE DEF IInv
<1>1. /\ phase = "definitions" /\ loop.how = "idle" /\ defs' = {o \in ops[blk] : o.k = "declare"}
      /\ phase' = (IF defs' = {} THEN "uses" ELSE phase)
      /\ UNCHANGED <<size, ops, blk, work, loop, prepared, declared, meaning>>
  BY DEF FindDefinitions
<1>2. LoopInv' /\ loop' \in LoopRecord /\ RegionThere' /\ blk \in Blocks
  BY <1>1, IdleLoop DEF RegionThere, TypeOK
<1>3. /\ Numbered' /\ Dominated' /\ WrittenAbove'
      /\ \A b \in Blocks : \A k, s : Of(b, k, s)' = Of(b, k, s)
  BY <1>1, ProgramKept
<1>4. TypeOK' /\ DefsThere'
  BY <1>1 DEF TypeOK, DefsThere
<1>5. Achieved'
  <2>1. \A b \in Blocks : \A s : OnceIn(b, s) => OnceIn(b, s)'
    BY <1>3 DEF OnceIn
  <2>2. \A b \in Blocks : NoneDeclared(b) => NoneDeclared(b)'
    BY <1>3 DEF NoneDeclared
  <2>3. defs' = {} => NoneDeclared(blk)
    BY <1>1 DEF NoneDeclared, Of
  <2> QED  BY <1>1, <1>2, <2>1, <2>2, <2>3 DEF Achieved, Blocks
<1>6. WorkThere'
  BY <1>1, NoWork
<1> QED  BY <1>2, <1>3, <1>4, <1>5, <1>6

\* A loop that begins with all of its reads to come, over the writes ws.
LEMMA BeginLoop ==
  ASSUME IInv, phase \in {"definitions", "uses"}, UNCHANGED <<size, ops, phase, blk, prepared>>,
         NEW how \in {"only", "nearest", "first"}, NEW s \in Sym, NEW rs, rs \subseteq Of(blk, "fetch", s),
         NEW anchor \in Nat, NEW ws \in Listings(Of(blk, "update", s)),
         loop' = Loop(how, s, rs, anchor, ws)
  PROVE  /\ loop' \in LoopRecord /\ LoopLists' /\ LoopNearest' /\ loop'.how = how /\ loop'.sym = s
         /\ loop'.reads = rs /\ loop'.anchor = anchor /\ loop'.writes = ws
         /\ Numbered' /\ Dominated' /\ WrittenAbove' /\ RegionThere' /\ Achieved'
         /\ \A b \in Blocks : \A k, t : Of(b, k, t)' = Of(b, k, t)
<1> USE DEF IInv
<1>1. /\ Numbered' /\ Dominated' /\ WrittenAbove' /\ blk \in Blocks
      /\ \A b \in Blocks : \A k, t : Of(b, k, t)' = Of(b, k, t)
  BY ProgramKept DEF TypeOK
<1>2. /\ ws \in Seq(Nat) /\ Len(ws) \in Nat /\ ToSet(ws) = Of(blk, "update", s)
      /\ \A i, j \in 1..Len(ws) : i < j => ws[i] < ws[j]
  BY <1>1, ListingFacts
<1>3. rs \subseteq Nat
  BY <1>1 DEF Of, Numbered
<1>4. /\ loop' \in LoopRecord /\ loop'.how = how /\ loop'.sym = s
      /\ loop'.reads = rs /\ loop'.anchor = anchor /\ loop'.writes = ws
      /\ loop'.low = 0 /\ loop'.high = Len(ws)
  BY <1>2, <1>3 DEF Loop, LoopRecord
<1>5. RegionThere' /\ Achieved'
  BY <1>1, AchievedShrinks DEF RegionThere
<1>6. LoopLists'
  BY <1>1, <1>2, <1>4 DEF LoopLists
<1>7. LoopNearest'
  BY <1>2, <1>4 DEF LoopNearest
<1> QED  BY <1>1, <1>4, <1>5, <1>6, <1>7

\* A declaration of the for loop keeps the invariant.
LEMMA PruneDefinitionStep ==
  ASSUME IInv, PruneDefinition
  PROVE  IInv'
<1> USE DEF IInv
<1>1. PICK d \in defs :
        /\ defs' = defs \ {d}
        /\ LET reads == Of(blk, "fetch", d.sym)
               writes == Of(blk, "update", d.sym)
           IN  IF reads = {} THEN ops' = Erased(writes \cup {d.id}) /\ UNCHANGED loop
               ELSE /\ \E ws \in Listings(writes) :
                         loop' = Loop(IF Len(ws) = 1 THEN "only" ELSE "nearest", d.sym, reads, d.id, ws)
                    /\ UNCHANGED ops
  BY DEF PruneDefinition
<1>2. /\ phase = "definitions" /\ loop.how = "idle"
      /\ UNCHANGED <<size, phase, blk, work, prepared, declared, meaning>>
  BY DEF PruneDefinition
<1>3. /\ blk \in Blocks /\ d \in ops[blk] /\ d.k = "declare" /\ d.sym \in Sym /\ d.id \in Nat
      /\ d.id \in Of(blk, "declare", d.sym)
      /\ \A e \in defs' : e \in ops[blk] /\ e.k = "declare" /\ e.id # d.id
  BY <1>1 DEF DefsThere, TypeOK, Numbered, Of
<1>4. WorkThere'
  BY <1>2, NoWork
<1>5. CASE Of(blk, "fetch", d.sym) = {}
  <2>1. ops' = Erased(Of(blk, "update", d.sym) \cup {d.id}) /\ loop' = loop
    BY <1>1, <1>5
  <2>2. /\ Numbered' /\ Dominated' /\ WrittenAbove' /\ ops' \in [Blocks -> SUBSET Operation]
        /\ \A b \in Blocks : \A k, t : Of(b, k, t)' \subseteq Of(b, k, t)
        /\ \A o \in ops[blk] : o.k = "declare" /\ o.id # d.id => o \in ops'[blk]
    BY <1>2, <1>3, <1>5, <2>1, EraseSymbol
  <2>3. LoopInv' /\ loop' \in LoopRecord /\ RegionThere'
    BY <1>2, <2>1, IdleLoop DEF RegionThere
  <2>4. TypeOK' /\ DefsThere'
    BY <1>1, <1>2, <1>3, <2>2, <2>3 DEF TypeOK, LoopRecord, DefsThere
  <2>5. Achieved'
    BY <1>2, <1>3, <2>2, AchievedShrinks
  <2> QED  BY <1>4, <2>2, <2>3, <2>4, <2>5
<1>6. CASE Of(blk, "fetch", d.sym) # {}
  <2> DEFINE reads == Of(blk, "fetch", d.sym)
  <2>1. ops' = ops
    BY <1>1, <1>6
  <2>2. PICK ws \in Listings(Of(blk, "update", d.sym)) :
          loop' = Loop(IF Len(ws) = 1 THEN "only" ELSE "nearest", d.sym, reads, d.id, ws)
    BY <1>1, <1>6
  <2> DEFINE how == IF Len(ws) = 1 THEN "only" ELSE "nearest"
  <2>3. how \in {"only", "nearest"} /\ (how = "only" => Len(ws) = 1)
    OBVIOUS
  <2>4. loop' = Loop(how, d.sym, reads, d.id, ws)
    BY <2>2
  <2> HIDE DEF how
  <2>5. /\ loop' \in LoopRecord /\ LoopLists' /\ LoopNearest' /\ loop'.how = how /\ loop'.sym = d.sym
        /\ loop'.reads = reads /\ loop'.anchor = d.id /\ loop'.writes = ws
        /\ Numbered' /\ Dominated' /\ WrittenAbove' /\ RegionThere' /\ Achieved'
        /\ \A b \in Blocks : \A k, t : Of(b, k, t)' = Of(b, k, t)
    BY <1>2, <1>3, <2>1, <2>3, <2>4, BeginLoop
  <2>6. LoopOnly'
    BY <1>2, <1>3, <2>3, <2>5 DEF LoopOnly
  <2>7. LoopFirst' /\ loop'.how # "idle"
    BY <2>3, <2>5 DEF LoopFirst
  <2>8. TypeOK' /\ DefsThere'
    BY <1>1, <1>2, <1>3, <2>1, <2>5 DEF TypeOK, LoopRecord, DefsThere
  <2> QED  BY <1>4, <2>5, <2>6, <2>7, <2>8 DEF LoopInv
<1> QED  BY <1>5, <1>6

\* The while loop of prune_uses_without_definitions keeps the invariant: it ends
\* when all symbols of the block are prepared.
LEMMA FindSymbolsStep ==
  ASSUME IInv, FindSymbols
  PROVE  IInv'
<1> USE DEF IInv
<1>1. /\ phase = "uses" /\ loop.how = "idle" /\ ops' = Erased(Unused)
      /\ work' = Symbols(ops'[blk]) \ prepared /\ phase' = (IF work' = {} THEN "check" ELSE phase)
      /\ UNCHANGED <<size, blk, defs, loop, prepared, declared, meaning>>
  BY DEF FindSymbols
<1>2. /\ ops' \in [Blocks -> SUBSET Operation] /\ blk \in Blocks
      /\ \A b \in Blocks : \A k, s : Of(b, k, s)' = IF b = blk THEN Of(b, k, s) \ Unused ELSE Of(b, k, s)
  BY <1>1, ErasedFacts DEF TypeOK
<1>3. LoopInv' /\ loop' \in LoopRecord /\ RegionThere'
  BY <1>1, IdleLoop DEF RegionThere
<1>4. Numbered' /\ Dominated'
  BY <1>1, EraseKeeps DEF Unused
<1>5. NoneDeclared(blk) /\ defs = {}
  BY <1>1 DEF Achieved, DefsThere
<1>6. WrittenAbove'
  BY <1>2, <1>5 DEF WrittenAbove, NoneDeclared
<1>7. Symbols(ops'[blk]) \subseteq Sym
  BY <1>1, <1>2, <1>4 DEF Symbols, Numbered
<1>8. TypeOK' /\ DefsThere'
  BY <1>1, <1>2, <1>3, <1>5, <1>7 DEF TypeOK, LoopRecord, DefsThere
<1>9. Achieved'
  <2>1. \A b \in Blocks : \A s : OnceIn(b, s) => OnceIn(b, s)'
    BY <1>2 DEF OnceIn, Several
  <2>2. \A b \in Blocks : NoneDeclared(b) => NoneDeclared(b)'
    BY <1>2 DEF NoneDeclared
  <2>3. ASSUME work' = {}, NEW s \in Sym PROVE OnceIn(blk, s)'
    <3>1. CASE s \in prepared
      BY <1>1, <1>2, <2>1, <3>1 DEF Achieved
    <3>2. CASE s \notin prepared
      <4>1. s \notin Symbols(ops'[blk])
        BY <1>1, <2>3, <3>2
      <4>2. \A k \in {"fetch", "update"} : Of(blk, k, s)' = {}
        BY <1>1, <4>1 DEF Symbols, Of
      <4> QED  BY <4>2 DEF OnceIn, Several
    <3> QED  BY <3>1, <3>2
  <2>4. \A s \in prepared : OnceIn(blk, s)'
    BY <1>1, <1>2, <2>1 DEF Achieved
  <2> QED  BY <1>1, <1>2, <1>5, <2>1, <2>2, <2>3, <2>4 DEF Achieved, Blocks
<1>10. WorkThere'
  <2> SUFFICES ASSUME NEW s \in work'
      PROVE  phase' = "uses" /\ Of(blk, "fetch", s)' \cup Of(blk, "update", s)' # {}
    BY <1>1 DEF WorkThere
  <2>1. PICK o \in ops'[blk] : o.k \in {"declare", "fetch", "update"} /\ o.sym = s
    BY <1>1 DEF Symbols
  <2>2. o.id \in Of(blk, o.k, s)' /\ s \in Sym
    BY <1>1, <1>7, <2>1 DEF Of
  <2>3. Of(blk, "declare", s)' = {}
    BY <1>1, <1>2, <1>5, <2>2 DEF NoneDeclared
  <2> QED  BY <1>1, <2>1, <2>2, <2>3
<1> QED  BY <1>3, <1>4, <1>6, <1>8, <1>9, <1>10

\* A symbol of the worklist keeps the invariant.
LEMMA PruneUseStep ==
  ASSUME IInv, PruneUse
  PROVE  IInv'
<1> USE DEF IInv
<1>1. PICK s \in work :
        /\ phase' = IF Of(blk, "fetch", s) \cup Of(blk, "update", s) = {} THEN "raised" ELSE phase
        /\ \E ws \in Listings(Of(blk, "update", s)) :
             IF Ready(s)
             THEN \E first \in (IF Of(blk, "fetch", s) = {} THEN {0} ELSE Of(blk, "fetch", s)) :
                     /\ \A r \in Of(blk, "fetch", s) : first <= r
                     /\ loop' = Loop("first", s, LaterReads(Of(blk, "fetch", s)), first, ws)
             ELSE loop' = Loop("nearest", s, Of(blk, "fetch", s), 0, ws)
        /\ work' = work \ {s}
  BY DEF PruneUse
<1>2. /\ phase = "uses" /\ loop.how = "idle"
      /\ UNCHANGED <<size, ops, phase, blk, defs, prepared, declared, meaning>>
  BY <1>1 DEF PruneUse, WorkThere
<1> DEFINE reads == Of(blk, "fetch", s)
<1>3. s \in Sym /\ blk \in Blocks /\ reads \subseteq Nat /\ work' \subseteq Sym
  BY <1>1 DEF TypeOK, Of, Numbered
<1>4. PICK ws \in Listings(Of(blk, "update", s)) :
        \/ \E first \in (IF reads = {} THEN {0} ELSE reads) :
              /\ \A r \in reads : first <= r
              /\ loop' = Loop("first", s, LaterReads(reads), first, ws)
        \/ loop' = Loop("nearest", s, reads, 0, ws)
  BY <1>1
<1>5. DefsThere'
  BY <1>2 DEF DefsThere
<1>6. ASSUME loop'.sym = s, \A b \in Blocks : \A k, t : Of(b, k, t)' = Of(b, k, t) PROVE WorkThere'
  BY <1>1, <1>2, <1>3, <1>6, WorkKept
<1> HIDE DEF reads
<1>7. ASSUME NEW first \in (IF reads = {} THEN {0} ELSE reads), \A r \in reads : first <= r,
             loop' = Loop("first", s, LaterReads(reads), first, ws)
      PROVE  IInv'
  <2> DEFINE later == LaterReads(reads)
  <2>1. /\ later \subseteq reads /\ first \in Nat /\ reads \subseteq later \cup {first}
        /\ \A r \in later : first < r
        /\ later # {} => first \in reads
    BY <1>3, <1>7 DEF LaterReads
  <2> HIDE DEF later
  <2>2. later \subseteq Of(blk, "fetch", s) /\ loop' = Loop("first", s, later, first, ws)
    BY <1>7, <2>1 DEF reads, later
  <2>3. /\ loop' \in LoopRecord /\ LoopLists' /\ LoopNearest' /\ loop'.how = "first" /\ loop'.sym = s
        /\ loop'.reads = later /\ loop'.anchor = first /\ loop'.writes = ws
        /\ Numbered' /\ Dominated' /\ WrittenAbove' /\ RegionThere' /\ Achieved'
        /\ \A b \in Blocks : \A k, t : Of(b, k, t)' = Of(b, k, t)
    BY <1>2, <1>3, <2>1, <2>2, BeginLoop
  <2>4. Of(blk, "fetch", loop.sym)' = reads
    BY <1>2, <1>3, <2>3 DEF reads
  <2>5. LoopFirst'
    BY <1>2, <2>1, <2>3, <2>4 DEF LoopFirst
  <2>6. LoopOnly' /\ loop'.how # "idle"
    BY <2>3 DEF LoopOnly
  <2>7. TypeOK'
    BY <1>2, <1>3, <2>3 DEF TypeOK, LoopRecord
  <2>8. WorkThere'
    BY <1>6, <2>3
  <2> QED  BY <1>5, <2>3, <2>5, <2>6, <2>7, <2>8 DEF LoopInv
<1>8. ASSUME loop' = Loop("nearest", s, reads, 0, ws) PROVE IInv'
  <2>1. reads \subseteq Of(blk, "fetch", s)
    BY DEF reads
  <2>2. /\ loop' \in LoopRecord /\ LoopLists' /\ LoopNearest' /\ loop'.how = "nearest" /\ loop'.sym = s
        /\ loop'.reads = reads /\ loop'.anchor = 0 /\ loop'.writes = ws
        /\ Numbered' /\ Dominated' /\ WrittenAbove' /\ RegionThere' /\ Achieved'
        /\ \A b \in Blocks : \A k, t : Of(b, k, t)' = Of(b, k, t)
    BY <1>2, <1>3, <1>8, <2>1, BeginLoop
  <2>3. LoopOnly' /\ LoopFirst' /\ loop'.how # "idle"
    BY <2>2 DEF LoopOnly, LoopFirst
  <2>4. TypeOK'
    BY <1>2, <1>3, <2>2 DEF TypeOK, LoopRecord
  <2>5. WorkThere'
    BY <1>6, <2>2
  <2> QED  BY <1>5, <2>2, <2>3, <2>4, <2>5 DEF LoopInv
<1> QED  BY <1>4, <1>7, <1>8

\* The check of prepare_block passes.
LEMMA CheckStep ==
  ASSUME IInv, Check
  PROVE  IInv'
<1> USE DEF IInv
<1>1. /\ phase = "check" /\ UNCHANGED <<size, ops, defs, work, loop, declared, meaning>>
      /\ IF \E s \in Sym : Several(Of(blk, "fetch", s)) \/ Several(Of(blk, "update", s))
         THEN phase' = "raised" /\ UNCHANGED <<blk, prepared>>
         ELSE /\ phase' = IF blk = "inner" THEN "definitions" ELSE "done"
              /\ blk' = "body"
              /\ prepared' = {}
  BY DEF Check
<1>2. blk \in Blocks /\ defs = {} /\ NoneDeclared(blk) /\ \A s \in Sym : OnceIn(blk, s)
  BY <1>1 DEF TypeOK, DefsThere, Achieved
<1>3. phase' = (IF blk = "inner" THEN "definitions" ELSE "done") /\ blk' = "body" /\ prepared' = {}
  BY <1>1, <1>2 DEF OnceIn
<1>4. loop.how = "idle"
  BY <1>1 DEF LoopInv, LoopLists
<1>5. LoopInv' /\ RegionThere'
  BY <1>1, <1>3, <1>4, IdleLoop DEF RegionThere
<1>6. /\ Numbered' /\ Dominated' /\ WrittenAbove'
      /\ \A b \in Blocks : \A k, s : Of(b, k, s)' = Of(b, k, s)
  BY <1>1, ProgramKept
<1>7. TypeOK' /\ DefsThere'
  BY <1>1, <1>2, <1>3 DEF TypeOK, DefsThere, Blocks
<1>8. Achieved'
  <2>1. \A b \in Blocks : \A s : OnceIn(b, s) => OnceIn(b, s)'
    BY <1>6 DEF OnceIn
  <2>2. \A b \in Blocks : NoneDeclared(b) => NoneDeclared(b)'
    BY <1>6 DEF NoneDeclared
  <2>3. NoneDeclared("inner") /\ \A s \in Sym : OnceIn("inner", s)
    BY <1>1, <1>2 DEF Achieved, Blocks
  <2> QED  BY <1>1, <1>2, <1>3, <2>1, <2>2, <2>3 DEF Achieved, Blocks
<1>9. WorkThere'
  BY <1>1, NoWork
<1> QED  BY <1>5, <1>6, <1>7, <1>8, <1>9

----------------------------------------------------------------------------
(* The theorems. *)

LEMMA InitIInv == Init => IInv
<1> SUFFICES ASSUME Init PROVE IInv
  OBVIOUS
<1> USE DEF Init
<1>1. Idle \in LoopRecord /\ Idle.how = "idle" /\ Idle.reads = {}
  BY DEF Idle, LoopRecord
<1>2. TypeOK
  BY <1>1 DEF TypeOK, Blocks, LoopRecord
<1>3. Numbered /\ Dominated
  BY DEF Numbered, Dominated
<1>4. WrittenAbove /\ RegionThere /\ DefsThere /\ Achieved
  BY DEF WrittenAbove, RegionThere, DefsThere, Achieved, Of, Blocks
<1>5. WorkThere
  BY <1>1 DEF WorkThere
<1>6. LoopInv
  BY <1>1 DEF LoopInv, LoopLists, LoopOnly, LoopFirst, LoopNearest
<1> QED  BY <1>2, <1>3, <1>4, <1>6, <1>5 DEF IInv

\* Every step keeps the invariant.
LEMMA NextIInv == NoReadFirst /\ IInv /\ [Next]_vars => IInv'
<1> SUFFICES ASSUME NoReadFirst, IInv, [Next]_vars PROVE IInv'
  OBVIOUS
<1>1. CASE Build
  BY <1>1, BuildStep
<1>2. CASE Prepare
  BY <1>2, PrepareStep
<1>3. CASE Pass
  BY <1>3, SearchStep, ReplaceNextStep, EndLoopStep, FindDefinitionsStep, PruneDefinitionStep,
     FindSymbolsStep, PruneUseStep, CheckStep DEF Pass
<1>4. CASE UNCHANGED vars
  <2>1. UNCHANGED <<size, ops, phase, blk, defs, work, loop, prepared, declared>>
    BY <1>4 DEF vars
  <2>2. /\ Numbered' /\ Dominated' /\ WrittenAbove' /\ blk \in Blocks
        /\ \A b \in Blocks : \A k, s : Of(b, k, s)' = Of(b, k, s)
    BY <2>1, ProgramKept DEF IInv, TypeOK
  <2>3. TypeOK' /\ DefsThere' /\ RegionThere'
    BY <2>1 DEF IInv, TypeOK, DefsThere, RegionThere, All
  <2>4. Achieved'
    BY <2>1, <2>2, AchievedShrinks DEF IInv
  <2>5. LoopLists' /\ LoopOnly' /\ LoopFirst'
    BY <2>1, <2>2 DEF IInv, LoopInv, LoopLists, LoopOnly, LoopFirst
  <2>6. LoopNearest' /\ (loop'.how = "idle" => loop'.reads = {})
    BY <2>1 DEF IInv, LoopInv, LoopNearest, Current
  <2>7. WorkThere'
    BY <2>1, <2>2 DEF IInv, WorkThere
  <2> QED  BY <2>2, <2>3, <2>4, <2>5, <2>6, <2>7 DEF IInv, LoopInv
<1> QED  BY <1>1, <1>2, <1>3, <1>4 DEF Next, Stopped

\* Every reachable state satisfies the inductive invariant, when the input reads
\* no declared symbol above all of its writes.
THEOREM PassInvariant == NoReadFirst /\ Spec => []IInv
<1>1. NoReadFirst /\ Init => NoReadFirst /\ IInv
  BY InitIInv
<1>2. NoReadFirst /\ IInv /\ [Next]_vars => (NoReadFirst /\ IInv)'
  BY NextIInv DEF NoReadFirst
<1> QED  BY <1>1, <1>2, PTL DEF Spec

\* After every replacement and erasure of the pass, each operand is defined above
\* its use, in a block that encloses it.
THEOREM OperandsDominated == NoReadFirst /\ Spec => []Dominated
<1>1. IInv => Dominated
  BY DEF IInv
<1> QED  BY <1>1, PassInvariant, PTL

\* prepare_block never raises, and the pass leaves no declaration and at most one
\* read and one write of a symbol per block.
THEOREM ReadyForPromotion == NoReadFirst /\ Spec => []AtMostOnce
<1>1. IInv => AtMostOnce
  BY DEF IInv, TypeOK, Achieved, AtMostOnce, NoneDeclared, OnceIn, Blocks
<1> QED  BY <1>1, PassInvariant, PTL

\* lower_positional_bound finds the nearest write above the read, in lists of any
\* length.
THEOREM SearchFindsNearest == NoReadFirst /\ Spec => []NearestFound
<1>1. IInv => NearestFound
  <2> SUFFICES ASSUME IInv, loop.how = "nearest", loop.low >= loop.high, NEW r \in loop.reads, Current(r),
                      NEW w \in Of(blk, "update", loop.sym)
      PROVE  w < r <=> loop.low > 0 /\ w <= loop.writes[loop.low]
    BY DEF NearestFound
  <2> DEFINE ws == loop.writes
  <2>1. loop \in LoopRecord /\ blk \in Blocks
    BY DEF IInv, TypeOK, LoopRecord
  <2>2. /\ ws \in Seq(Nat) /\ Len(ws) \in Nat /\ DOMAIN ws = 1..Len(ws) /\ r \in Nat
        /\ loop.low \in Nat /\ loop.high \in Nat
    BY <2>1 DEF LoopRecord
  <2>3. /\ loop.low = loop.high /\ loop.high <= Len(ws)
        /\ loop.low > 0 => ws[loop.low] < r
        /\ loop.high < Len(ws) => r <= ws[loop.high + 1]
    BY <2>2 DEF IInv, LoopInv, LoopNearest
  <2>4. ToSet(ws) = Of(blk, "update", loop.sym) /\ \A i, j \in 1..Len(ws) : i < j => ws[i] < ws[j]
    BY DEF IInv, LoopInv, LoopLists
  <2> HIDE DEF ws
  <2>5. PICK j \in 1..Len(ws) : w = ws[j]
    BY <2>2, <2>4 DEF ToSet
  <2>6. \A i \in 1..Len(ws) : ws[i] \in Nat
    BY <2>2
  <2>7. CASE j <= loop.low
    <3>1. loop.low > 0 /\ loop.low \in 1..Len(ws) /\ (j = loop.low \/ ws[j] < ws[loop.low])
      BY <2>2, <2>3, <2>4, <2>5, <2>7
    <3> QED  BY <2>2, <2>3, <2>5, <2>6, <3>1 DEF ws
  <2>8. CASE j > loop.low
    <3>1. /\ loop.high + 1 \in 1..Len(ws) /\ (j = loop.high + 1 \/ ws[loop.high + 1] < ws[j])
          /\ loop.high < Len(ws) /\ (loop.low > 0 => loop.low \in 1..Len(ws))
      BY <2>2, <2>3, <2>4, <2>5, <2>8
    <3>2. r <= ws[j] /\ ~(w < r)
      BY <2>2, <2>3, <2>5, <2>6, <3>1
    <3>3. loop.low > 0 => ws[loop.low] < w
      BY <2>2, <2>3, <2>5, <2>6, <3>1, <3>2
    <3>4. loop.low > 0 => ~(w <= ws[loop.low])
      BY <2>2, <2>5, <2>6, <3>1, <3>3
    <3> QED  BY <3>2, <3>4 DEF ws
  <2> QED  BY <2>2, <2>7, <2>8
<1> QED  BY <1>1, PassInvariant, PTL
=============================================================================
