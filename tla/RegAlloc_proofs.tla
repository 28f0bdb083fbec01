--------------------------- MODULE RegAlloc_proofs ---------------------------
(***************************************************************************)
(* Proof that the register allocator never hands out a register that a     *)
(* value still holds, for any function in SSA form without loop-carried    *)
(* variables, any nesting of loops, any number of registers and any limit. *)
(***************************************************************************)
EXTENDS RegAlloc, ListLemmas, FiniteSetTheorems

----------------------------------------------------------------------------
(* Registers. *)

\* Registers of different kinds differ, made-up ones differ from those of the machine
\* and from each other, and none of them is NULL.
LEMMA KnownFacts ==
  ASSUME NEW n \in Nat, NEW k \in Kind
  PROVE  /\ Known(k, n) \subseteq Known(k, n + 1)
         /\ Spill(k, n) \in Known(k, n + 1) /\ Spill(k, n) \notin Known(k, n)
         /\ NULL \notin Known(k, n)
         /\ \A l \in Kind : l # k => Known(k, n) \cap Known(l, n) = {}
<1>1. ToSet(Regs[k]) \cap (Kind \X Nat) = {} /\ NULL \notin ToSet(Regs[k]) /\ NULL \notin Kind \X Nat
  BY AllocatorInput
<1>2. \A i \in 0..(n - 1) : i \in Nat /\ i < n /\ i \in 0..n
  OBVIOUS
<1>3. \A l \in Kind, i \in Nat : <<l, i>> \in Kind \X Nat
  OBVIOUS
<1>4. Known(k, n) \subseteq Known(k, n + 1)
  BY <1>2 DEF Known
<1>5. Spill(k, n) \in Known(k, n + 1)
  BY DEF Known, Spill
<1>6. Spill(k, n) \notin Known(k, n)
  BY <1>1, <1>2, <1>3 DEF Known, Spill
<1>7. NULL \notin Known(k, n)
  BY <1>1, <1>2, <1>3 DEF Known, Spill
<1>8. ASSUME NEW l \in Kind, l # k PROVE Known(k, n) \cap Known(l, n) = {}
  <2>1. ToSet(Regs[k]) \cap ToSet(Regs[l]) = {}
    BY <1>8, AllocatorInput DEF Kind
  <2>2. ToSet(Regs[l]) \cap (Kind \X Nat) = {}
    BY AllocatorInput
  <2> QED  BY <1>1, <1>2, <1>3, <1>8, <2>1, <2>2 DEF Known, Spill
<1> QED  BY <1>4, <1>5, <1>6, <1>7, <1>8

\* A list whose elements are in U is a list over U.
LEMMA ListOver ==
  ASSUME NEW T, NEW U, NEW s \in Seq(T), ToSet(s) \subseteq U
  PROVE  s \in Seq(U)
<1>1. DOMAIN s = 1..Len(s) /\ Len(s) \in Nat
  BY LenProperties
<1>2. \A i \in 1..Len(s) : s[i] \in U
  BY <1>1 DEF ToSet
<1> QED  BY <1>1, <1>2, IsASeq

\* pop takes the last element.
LEMMA PopList ==
  ASSUME NEW T, NEW s \in Seq(T), s # <<>>, IsInjective(s)
  PROVE  /\ Last(s) \in T /\ Last(s) \in ToSet(s)
         /\ Front(s) \in Seq(T) /\ IsInjective(Front(s))
         /\ ToSet(Front(s)) = ToSet(s) \ {Last(s)}
<1> DEFINE n == Len(s)
           f == Front(s)
<1>1. n \in Nat /\ n > 0 /\ DOMAIN s = 1..n /\ \A i \in 1..n : s[i] \in T
  BY LenProperties, EmptySeq
<1>2. /\ f \in Seq(T) /\ DOMAIN f = 1..(n - 1)
      /\ \A i \in 1..(n - 1) : f[i] = s[i]
  BY <1>1 DEF Front
<1>3. Last(s) = s[n] /\ s[n] \in T /\ s[n] \in ToSet(s)
  BY <1>1 DEF Last, ToSet
<1>4. \A i, j \in 1..n : s[i] = s[j] => i = j
  BY <1>1 DEF IsInjective
<1>5. IsInjective(f)
  BY <1>1, <1>2, <1>4 DEF IsInjective
<1>6. ToSet(f) = ToSet(s) \ {s[n]}
  BY <1>1, <1>2, <1>4 DEF ToSet
<1> QED  BY <1>2, <1>3, <1>5, <1>6

\* limit_registers keeps the last registers.
LEMMA LimitedList ==
  ASSUME NEW T, NEW s \in Seq(T), IsInjective(s), NEW n \in Nat \cup {NULL}
  PROVE  Limited(s, n) \in Seq(T) /\ IsInjective(Limited(s, n))
<1>1. Len(s) \in Nat /\ DOMAIN s = 1..Len(s) /\ \A i \in 1..Len(s) : s[i] \in T
  BY LenProperties
<1>2. CASE n = NULL \/ n > Len(s)
  BY <1>2 DEF Limited
<1>3. CASE ~(n = NULL \/ n > Len(s))
  <2> DEFINE m == Len(s)
             w == SubSeq(s, m - n + 1, m)
  <2>1. n \in Nat /\ n <= m
    BY <1>1, <1>3
  <2>2. /\ w \in Seq(T) /\ DOMAIN w = 1..n
        /\ \A i \in 1..n : w[i] = s[m - n + i]
    BY <1>1, <2>1
  <2>3. IsInjective(w)
    BY <1>1, <2>1, <2>2 DEF IsInjective
  <2> QED  BY <1>3, <2>2, <2>3 DEF Limited
<1> QED  BY <1>2, <1>3

----------------------------------------------------------------------------
(* allocate and _free. *)

\* The queue's variables as a record.
IsState(s) == s = [type |-> s.type, avail |-> s.avail, idx |-> s.idx, freed |-> s.freed]

\* A value that has no register gets the last one of the queue.
LEMMA AllocatePops ==
  ASSUME NEW s, IsState(s), QueueInv(s), HeldInv(s), NEW v \in Value,
         s.type[v] = NULL, s.avail[KindOf[v]] # <<>>
  PROVE  LET t == Allocate(s, v)
         IN  IsState(t) /\ QueueInv(t) /\ HeldInv(t) /\ t.freed = s.freed /\ t.type[v] # NULL
<1> DEFINE k == KindOf[v]
           r == Last(s.avail[k])
           t == Allocate(s, v)
<1>1. k \in Kind /\ s.idx \in Nat /\ DOMAIN s.avail = Kind /\ DOMAIN s.type = Value
  BY AllocatorInput DEF QueueInv, HeldInv
<1>2. /\ s.avail[k] \in Seq(Known(k, s.idx)) /\ IsInjective(s.avail[k])
      /\ ToSet(s.avail[k]) \cap reserved = {}
  BY <1>1 DEF QueueInv
<1>3. /\ t = [type |-> [s.type EXCEPT ![v] = r], avail |-> [s.avail EXCEPT ![k] = Front(s.avail[k])],
              idx |-> s.idx, freed |-> s.freed]
  BY DEF Allocate, IsState
<1>4. /\ t.idx = s.idx /\ t.freed = s.freed
      /\ t.type = [s.type EXCEPT ![v] = r] /\ t.avail = [s.avail EXCEPT ![k] = Front(s.avail[k])]
      /\ IsState(t)
  BY <1>3 DEF IsState
<1>5. /\ r \in Known(k, s.idx) /\ r \in ToSet(s.avail[k]) /\ r \notin reserved
      /\ Front(s.avail[k]) \in Seq(Known(k, s.idx)) /\ IsInjective(Front(s.avail[k]))
      /\ ToSet(Front(s.avail[k])) = ToSet(s.avail[k]) \ {r}
  BY <1>2, PopList
<1>6. r # NULL
  BY <1>1, <1>5, KnownFacts
<1> HIDE DEF t, r, k
<1>7. QueueInv(t)
  BY <1>1, <1>2, <1>4, <1>5 DEF QueueInv
<1>8. /\ t.type[v] = r /\ DOMAIN t.type = Value
      /\ \A w \in Value : w # v => t.type[w] = s.type[w]
      /\ t.avail[k] = Front(s.avail[k]) /\ \A l \in Kind : l # k => t.avail[l] = s.avail[l]
  BY <1>1, <1>4
<1>9. HeldIn(t) = HeldIn(s) \cup ({v} \ s.freed)
  BY <1>4, <1>5, <1>6, <1>8 DEF HeldIn
<1>10. \A w \in HeldIn(s) : w \in Value /\ w # v /\ s.type[w] # r
  <2>1. SUFFICES ASSUME NEW w \in HeldIn(s) PROVE w \in Value /\ w # v /\ s.type[w] # r
    OBVIOUS
  <2>2. w \in Value /\ s.type[w] # NULL /\ s.type[w] \notin ToSet(s.avail[KindOf[w]])
        /\ s.type[w] \in Known(KindOf[w], s.idx) /\ KindOf[w] \in Kind
    BY AllocatorInput DEF HeldIn, HeldInv
  <2>3. w # v
    BY <2>2
  <2>4. CASE KindOf[w] = k
    BY <1>5, <2>2, <2>3, <2>4
  <2>5. CASE KindOf[w] # k
    <3>1. Known(k, s.idx) \cap Known(KindOf[w], s.idx) = {}
      BY <1>1, <2>2, <2>5, KnownFacts
    <3> QED  BY <1>5, <2>2, <2>3, <3>1
  <2> QED  BY <2>4, <2>5
<1>11. \A w \in Value : t.type[w] \in Known(KindOf[w], t.idx) \cup {NULL}
  BY <1>4, <1>5, <1>8 DEF HeldInv, k
<1>12. \A w, x \in HeldIn(t) : t.type[w] = t.type[x] => w = x
  BY <1>8, <1>9, <1>10 DEF HeldInv
<1>13. \A w \in HeldIn(t) : t.type[w] \notin ToSet(t.avail[KindOf[w]])
  <2>1. SUFFICES ASSUME NEW w \in HeldIn(t) PROVE t.type[w] \notin ToSet(t.avail[KindOf[w]])
    OBVIOUS
  <2>2. CASE w = v
    BY <1>5, <1>8, <2>2 DEF k
  <2>3. CASE w # v
    <3>1. w \in HeldIn(s) /\ w \in Value /\ KindOf[w] \in Kind
          /\ s.type[w] \notin ToSet(s.avail[KindOf[w]])
      BY <1>9, <1>10, <2>3, AllocatorInput DEF HeldInv
    <3> QED  BY <1>5, <1>8, <2>3, <3>1
  <2> QED  BY <2>2, <2>3
<1>14. HeldInv(t)
  BY <1>4, <1>8, <1>11, <1>12, <1>13 DEF HeldInv
<1> QED  BY <1>4, <1>6, <1>7, <1>8, <1>14 DEF t

\* With no register left, one is made up that no value and no list has.
LEMMA AllocateMakesUp ==
  ASSUME NEW s, IsState(s), QueueInv(s), HeldInv(s), NEW v \in Value,
         s.type[v] = NULL, s.avail[KindOf[v]] = <<>>
  PROVE  LET t == Allocate(s, v)
         IN  IsState(t) /\ QueueInv(t) /\ HeldInv(t) /\ t.freed = s.freed /\ t.type[v] # NULL
<1> DEFINE k == KindOf[v]
           n == s.idx
           r == Spill(k, n)
           t == Allocate(s, v)
<1>1. k \in Kind /\ n \in Nat /\ DOMAIN s.type = Value
  BY AllocatorInput DEF QueueInv, HeldInv
<1>2. t = [type |-> [s.type EXCEPT ![v] = r], avail |-> s.avail, idx |-> n + 1, freed |-> s.freed]
  BY DEF Allocate, IsState
<1>3. /\ t.idx = n + 1 /\ t.freed = s.freed /\ t.avail = s.avail
      /\ t.type = [s.type EXCEPT ![v] = r] /\ IsState(t)
  BY <1>2 DEF IsState
<1>4. /\ r \in Known(k, n + 1) /\ r \notin Known(k, n) /\ r # NULL
      /\ \A l \in Kind : Known(l, n) \subseteq Known(l, n + 1)
  BY <1>1, KnownFacts
<1>5. \A l \in Kind : r \notin Known(l, n)
  <2>1. SUFFICES ASSUME NEW l \in Kind, l # k PROVE r \notin Known(l, n)
    BY <1>4
  <2>2. Known(k, n + 1) \cap Known(l, n + 1) = {}
    BY <1>1, <2>1, KnownFacts
  <2> QED  BY <1>4, <2>2
<1> HIDE DEF t, r, k, n
<1>6. QueueInv(t)
  <2>1. ASSUME NEW l \in Kind
        PROVE  /\ t.avail[l] \in Seq(Known(l, n + 1)) /\ IsInjective(t.avail[l])
               /\ ToSet(t.avail[l]) \cap reserved = {}
    <3>1. /\ s.avail[l] \in Seq(Known(l, n)) /\ IsInjective(s.avail[l])
          /\ ToSet(s.avail[l]) \cap reserved = {}
      BY DEF QueueInv, n
    <3>2. ToSet(s.avail[l]) \subseteq Known(l, n + 1)
      BY <1>4, <3>1 DEF ToSet
    <3> QED  BY <1>3, <3>1, <3>2, ListOver
  <2>2. n + 1 \in Nat
    BY <1>1
  <2>3. DOMAIN t.avail = Kind
    BY <1>3 DEF QueueInv
  <2> QED  BY <1>3, <2>1, <2>2, <2>3 DEF QueueInv
<1>7. /\ t.type[v] = r /\ DOMAIN t.type = Value
      /\ \A w \in Value : w # v => t.type[w] = s.type[w]
  BY <1>1, <1>3
<1>8. HeldIn(t) \subseteq HeldIn(s) \cup {v}
  BY <1>3, <1>7 DEF HeldIn
<1>9. \A w \in HeldIn(s) : w \in Value /\ w # v /\ s.type[w] # r /\ KindOf[w] \in Kind
  <2>1. SUFFICES ASSUME NEW w \in HeldIn(s)
                 PROVE  w \in Value /\ w # v /\ s.type[w] # r /\ KindOf[w] \in Kind
    OBVIOUS
  <2>2. w \in Value /\ s.type[w] # NULL /\ KindOf[w] \in Kind
    BY AllocatorInput DEF HeldIn
  <2>3. s.type[w] \in Known(KindOf[w], n)
    BY <2>2 DEF HeldInv, n
  <2> QED  BY <1>5, <2>2, <2>3
<1>10. \A w \in Value : t.type[w] \in Known(KindOf[w], t.idx) \cup {NULL}
  <2>1. SUFFICES ASSUME NEW w \in Value, w # v PROVE t.type[w] \in Known(KindOf[w], n + 1) \cup {NULL}
    BY <1>3, <1>4, <1>7 DEF k
  <2>2. s.type[w] \in Known(KindOf[w], n) \cup {NULL} /\ KindOf[w] \in Kind
    BY AllocatorInput DEF HeldInv, n
  <2> QED  BY <1>4, <1>7, <2>1, <2>2
<1>11. \A w, x \in HeldIn(t) : t.type[w] = t.type[x] => w = x
  BY <1>7, <1>8, <1>9 DEF HeldInv
<1>12. \A w \in HeldIn(t) : t.type[w] \notin ToSet(t.avail[KindOf[w]])
  <2>1. SUFFICES ASSUME NEW w \in HeldIn(t) PROVE t.type[w] \notin ToSet(t.avail[KindOf[w]])
    OBVIOUS
  <2>2. CASE w = v
    <3>1. ToSet(s.avail[k]) = {}
      BY DEF ToSet, k
    <3> QED  BY <1>3, <2>2, <3>1 DEF k
  <2>3. CASE w # v
    BY <1>3, <1>7, <1>8, <1>9, <2>3 DEF HeldInv
  <2> QED  BY <2>2, <2>3
<1>13. HeldInv(t)
  <2>1. t.freed \subseteq Value
    BY <1>3 DEF HeldInv
  <2> QED  BY <1>7, <1>10, <1>11, <1>12, <2>1 DEF HeldInv
<1> QED  BY <1>3, <1>4, <1>6, <1>7, <1>13 DEF t

\* allocate leaves no register with two holders.
LEMMA AllocateKeeps ==
  ASSUME NEW s, IsState(s), QueueInv(s), HeldInv(s), NEW v \in Value
  PROVE  LET t == Allocate(s, v)
         IN  IsState(t) /\ QueueInv(t) /\ HeldInv(t) /\ t.freed = s.freed /\ t.type[v] # NULL
<1>1. CASE s.type[v] # NULL
  BY <1>1 DEF Allocate
<1>2. CASE s.type[v] = NULL /\ s.avail[KindOf[v]] # <<>>
  BY <1>2, AllocatePops
<1>3. CASE s.type[v] = NULL /\ s.avail[KindOf[v]] = <<>>
  BY <1>3, AllocateMakesUp
<1> QED  BY <1>1, <1>2, <1>3

\* _free gives back the register of a value that has not done so yet.
LEMMA FreeKeeps ==
  ASSUME NEW s, IsState(s), QueueInv(s), HeldInv(s), NEW v \in Value, v \notin s.freed
  PROVE  LET t == Free(s, v)
         IN  IsState(t) /\ QueueInv(t) /\ HeldInv(t) /\ t.freed \subseteq s.freed \cup {v}
<1> DEFINE k == KindOf[v]
           r == s.type[v]
           t == Free(s, v)
<1>1. CASE r = NULL \/ r \in reserved
  BY <1>1 DEF Free
<1>2. CASE r # NULL /\ r \notin reserved
  <2>1. v \in HeldIn(s) /\ k \in Kind /\ r \in Known(k, s.idx) /\ r \notin ToSet(s.avail[k])
    BY <1>2, AllocatorInput DEF HeldIn, HeldInv
  <2>2. /\ s.avail[k] \in Seq(Known(k, s.idx)) /\ IsInjective(s.avail[k])
        /\ ToSet(s.avail[k]) \cap reserved = {} /\ DOMAIN s.avail = Kind /\ DOMAIN s.type = Value
    BY <2>1 DEF QueueInv, HeldInv
  <2>3. t = [type |-> s.type, avail |-> [s.avail EXCEPT ![k] = Append(s.avail[k], r)],
             idx |-> s.idx, freed |-> s.freed \cup {v}]
    BY <1>2 DEF Free, IsState
  <2>4. /\ t.type = s.type /\ t.idx = s.idx /\ t.freed = s.freed \cup {v} /\ IsState(t)
        /\ t.avail = [s.avail EXCEPT ![k] = Append(s.avail[k], r)]
    BY <2>3 DEF IsState
  <2>5. /\ Append(s.avail[k], r) \in Seq(Known(k, s.idx)) /\ IsInjective(Append(s.avail[k], r))
        /\ ToSet(Append(s.avail[k], r)) = ToSet(s.avail[k]) \cup {r}
    BY <2>1, <2>2, AppendList
  <2> HIDE DEF t, r, k
  <2>6. QueueInv(t)
    <3>1. ASSUME NEW l \in Kind
          PROVE  /\ t.avail[l] \in Seq(Known(l, t.idx)) /\ IsInjective(t.avail[l])
                 /\ ToSet(t.avail[l]) \cap reserved = {}
      <4>1. CASE l = k
        <5>1. t.avail[l] = Append(s.avail[k], r)
          BY <2>1, <2>2, <2>4, <4>1
        <5>2. ToSet(Append(s.avail[k], r)) \cap reserved = {}
          BY <1>2, <2>2, <2>5 DEF r
        <5> QED  BY <2>4, <2>5, <4>1, <5>1, <5>2
      <4>2. CASE l # k
        BY <2>2, <2>4, <4>2 DEF QueueInv
      <4> QED  BY <4>1, <4>2
    <3>2. t.idx \in Nat /\ DOMAIN t.avail = Kind
      BY <2>2, <2>4 DEF QueueInv
    <3> QED  BY <3>1, <3>2 DEF QueueInv
  <2>7. HeldIn(t) = HeldIn(s) \ {v}
    BY <2>4 DEF HeldIn
  <2>8. /\ t.avail[k] = Append(s.avail[k], r)
        /\ \A l \in Kind : l # k => t.avail[l] = s.avail[l]
    BY <2>1, <2>2, <2>4
  <2>9. \A w \in HeldIn(t) : t.type[w] \notin ToSet(t.avail[KindOf[w]])
    <3>1. SUFFICES ASSUME NEW w \in HeldIn(s), w # v PROVE s.type[w] \notin ToSet(t.avail[KindOf[w]])
      BY <2>4, <2>7
    <3>2. w \in Value /\ KindOf[w] \in Kind
      BY AllocatorInput DEF HeldIn
    <3>3. s.type[w] # r /\ s.type[w] \notin ToSet(s.avail[KindOf[w]])
      BY <2>1, <3>1 DEF HeldInv, r
    <3> QED  BY <2>5, <2>8, <3>2, <3>3
  <2>10. HeldInv(t)
    BY <2>4, <2>7, <2>9 DEF HeldInv
  <2> QED  BY <2>4, <2>6, <2>10 DEF t
<1> QED  BY <1>1, <1>2

----------------------------------------------------------------------------
(* Operations and what is inside them. *)

\* What a block of a function consists of.
LEMMA BlockFacts ==
  ASSUME NEW p \in Programs, NEW b \in Block
  PROVE  /\ p.block[b].args \in Seq(Value)
         /\ OpsOf(p, b) \in Seq(OpSet(p, b))
         /\ \A m \in DOMAIN OpsOf(p, b) :
              /\ IsOp(OpsOf(p, b)[m]) /\ IsInjective(OpsOf(p, b)[m].res)
              /\ \A n \in DOMAIN OpsOf(p, b) :
                   n # m => Results(p, OpsOf(p, b)[m]) \cap Results(p, OpsOf(p, b)[n]) = {}
BY AllocatorInput DEF IsFunction

\* What is known of every operation.
LEMMA OpFacts ==
  ASSUME NEW p \in Programs, NEW b \in Block, NEW o \in OpSet(p, b)
  PROVE  /\ IsOp(o) /\ IsInjective(o.res)
         /\ o.kind = "for" => o.body \in Block /\ p.block[o.body].args # <<>>
<1>1. PICK m \in DOMAIN OpsOf(p, b) : o = OpsOf(p, b)[m]
  BY DEF OpSet, ToSet
<1> QED  BY <1>1, AllocatorInput DEF IsFunction, IsOp

\* A block is inside itself, and so is what is inside the bodies of its operations.
LEMMA InsideClosed ==
  ASSUME NEW p, NEW b \in Block
  PROVE  /\ b \in Inside(p, b) /\ Inside(p, b) \subseteq Block
         /\ \A q \in OpSet(p, b) : q.body \in Block => Inside(p, q.body) \subseteq Inside(p, b)
<1> DEFINE Closed(S) == \A d \in S : \A o \in OpSet(p, d) : o.body # NULL => o.body \in S
<1>1. \A c, d : c \in Inside(p, d) <=> c \in Block /\ \A S \in SUBSET Block : d \in S /\ Closed(S) => c \in S
  BY DEF Inside
<1>2. b \in Inside(p, b) /\ Inside(p, b) \subseteq Block
  BY <1>1
<1>3. ASSUME NEW q \in OpSet(p, b), q.body \in Block, NEW c \in Inside(p, q.body),
             NEW S \in SUBSET Block, b \in S, Closed(S)
      PROVE  c \in S
  <2>1. q.body # NULL
    BY <1>3, AllocatorInput
  <2>2. q.body \in S
    BY <1>3, <2>1
  <2> HIDE DEF Closed
  <2> QED  BY <1>1, <1>3, <2>2
<1> HIDE DEF Closed
<1>4. \A q \in OpSet(p, b) : q.body \in Block => Inside(p, q.body) \subseteq Inside(p, b)
  BY <1>1, <1>3
<1> QED  BY <1>2, <1>4

\* What an operation of a block defines is defined in the block.
LEMMA ResultsInBlock ==
  ASSUME NEW p \in Programs, NEW b \in Block, NEW o \in OpSet(p, b)
  PROVE  Results(p, o) \subseteq ResultsIn(p, b)
<1>1. o \in OpsIn(p, b)
  BY InsideClosed DEF OpsIn
<1>2. ToSet(o.res) \subseteq ResultsIn(p, b)
  BY <1>1 DEF ResultsIn
<1>3. ASSUME o.body # NULL PROVE ResultsIn(p, o.body) \subseteq ResultsIn(p, b)
  <2>1. o.body \in Block
    BY <1>3, OpFacts DEF IsOp
  <2>2. Inside(p, o.body) \subseteq Inside(p, b)
    BY <2>1, InsideClosed
  <2>3. OpsIn(p, o.body) \subseteq OpsIn(p, b)
    BY <2>2 DEF OpsIn
  <2> QED  BY <2>3 DEF ResultsIn
<1> QED  BY <1>2, <1>3 DEF Results

\* Live-ins are values.
LEMMA LiveInsAreValues ==
  ASSUME NEW p \in Programs, NEW b \in Block
  PROVE  LiveIns(p, b) \subseteq Value /\ SetToSeqs(LiveIns(p, b)) \subseteq Seq(Value)
<1>1. LiveIns(p, b) \subseteq Value
  <2>1. SUFFICES ASSUME NEW c \in Inside(p, b), NEW o \in OpSet(p, c) PROVE ToSet(o.opnds) \subseteq Value
    BY DEF LiveIns, OpsIn
  <2>2. c \in Block
    BY InsideClosed
  <2>3. o.opnds \in Seq(Value)
    BY <2>2, OpFacts DEF IsOp
  <2> QED  BY <2>3 DEF ToSet
<1>2. IsFiniteSet(LiveIns(p, b))
  BY <1>1, AllocatorInput, FS_Subset
<1>3. Cardinality(LiveIns(p, b)) \in Nat
  BY <1>2, FS_CardinalityType
<1> DEFINE n == Cardinality(LiveIns(p, b))
<1>4. ASSUME NEW f \in SetToSeqs(LiveIns(p, b)) PROVE f \in Seq(Value)
  <2>1. f \in [1..n -> LiveIns(p, b)]
    BY DEF SetToSeqs
  <2> HIDE DEF n
  <2>2. f \in [1..n -> Value]
    BY <1>1, <2>1
  <2>3. n \in Nat
    BY <1>3 DEF n
  <2> QED  BY <2>2, <2>3
<1> QED  BY <1>1, <1>4

----------------------------------------------------------------------------
(* The steps of the allocator. *)

LEMMA StateFacts ==
  /\ IsState(State)
  /\ State.type = type /\ State.avail = avail /\ State.idx = idx /\ State.freed = freed
BY DEF IsState, State

LEMMA InitInv == Init => AllocInv
<1> SUFFICES ASSUME Init PROVE AllocInv
  OBVIOUS
<1>1. prog \in Programs /\ phase = "start" /\ type = prog.type /\ freed = {} /\ calls = <<>>
      /\ idx = 0 /\ reserved = {} /\ avail = [k \in Kind |-> Limited(Regs[k], limit)] /\ limit \in Limits
  BY DEF Init
<1>2. ASSUME NEW k \in Kind
      PROVE  avail[k] \in Seq(Known(k, 0)) /\ IsInjective(avail[k])
  <2>1. Regs[k] \in Seq(UNION {ToSet(Regs[l]) : l \in Kind}) /\ IsInjective(Regs[k])
    BY AllocatorInput
  <2>2. ToSet(Regs[k]) \subseteq Known(k, 0)
    BY DEF Known
  <2>3. Regs[k] \in Seq(Known(k, 0))
    BY <2>1, <2>2, ListOver
  <2>4. limit \in Nat \cup {NULL}
    BY <1>1, AllocatorInput
  <2>5. avail[k] = Limited(Regs[k], limit)
    BY <1>1
  <2> QED  BY <2>1, <2>3, <2>4, <2>5, LimitedList
<1>3. QueueInv(State)
  BY <1>1, <1>2, StateFacts DEF QueueInv
<1> QED  BY <1>1, <1>3 DEF AllocInv

\* A preallocated register leaves the queue.
LEMMA ReserveStep == AllocInv /\ Reserve => AllocInv'
<1> SUFFICES ASSUME AllocInv, Reserve PROVE AllocInv'
  OBVIOUS
<1>1. PICK r : /\ reserved' = reserved \cup {r}
               /\ avail' = [k \in Kind |->
                     IF r \in ToSet(avail[k])
                     THEN RemoveAt(avail[k], CHOOSE i \in DOMAIN avail[k] : avail[k][i] = r)
                     ELSE avail[k]]
  BY DEF Reserve
<1>2. /\ phase = "start" /\ phase' = phase /\ prog' = prog /\ type' = type /\ freed' = freed
      /\ calls' = calls /\ idx' = idx
  BY DEF Reserve
<1>3. QueueInv(State) /\ prog \in Programs /\ type = prog.type /\ freed = {} /\ calls = <<>>
  BY <1>2 DEF AllocInv
<1>4. ASSUME NEW k \in Kind
      PROVE  /\ avail'[k] \in Seq(Known(k, idx)) /\ IsInjective(avail'[k])
             /\ ToSet(avail'[k]) \cap reserved' = {}
  <2>1. /\ avail[k] \in Seq(Known(k, idx)) /\ IsInjective(avail[k])
        /\ ToSet(avail[k]) \cap reserved = {}
    BY <1>3, StateFacts DEF QueueInv
  <2>2. CASE r \in ToSet(avail[k])
    <3> DEFINE i == CHOOSE i \in DOMAIN avail[k] : avail[k][i] = r
    <3>1. i \in DOMAIN avail[k] /\ avail[k][i] = r
      BY <2>2 DEF ToSet
    <3>2. avail'[k] = RemoveAt(avail[k], i)
      BY <1>1, <2>2
    <3> HIDE DEF i
    <3>3. /\ RemoveAt(avail[k], i) \in Seq(Known(k, idx)) /\ IsInjective(RemoveAt(avail[k], i))
          /\ ToSet(RemoveAt(avail[k], i)) = ToSet(avail[k]) \ {r}
      BY <2>1, <3>1, RemoveList
    <3> QED  BY <1>1, <2>1, <3>2, <3>3
  <2>3. CASE r \notin ToSet(avail[k])
    BY <1>1, <2>1, <2>3
  <2> QED  BY <2>2, <2>3
<1>5. idx \in Nat /\ DOMAIN avail' = Kind
  BY <1>1, <1>3, StateFacts DEF QueueInv
<1>6. QueueInv(State)'
  BY <1>2, <1>4, <1>5 DEF QueueInv, State
<1> QED  BY <1>2, <1>3, <1>6 DEF AllocInv

\* The operations of a block, backwards, are all different and define different values.
LEMMA ReversedOps ==
  ASSUME NEW p \in Programs, NEW b \in Block
  PROVE  LET t == Reverse(OpsOf(p, b))
         IN  /\ t \in Seq(OpSet(p, b)) /\ DOMAIN t = 1..Len(OpsOf(p, b))
             /\ \A i, j \in DOMAIN t : i # j => Results(p, t[i]) \cap Results(p, t[j]) = {}
<1> DEFINE s == OpsOf(p, b)
           n == Len(s)
           t == Reverse(s)
<1>1. s \in Seq(OpSet(p, b)) /\ n \in Nat /\ DOMAIN s = 1..n
  BY BlockFacts, LenProperties
<1>2. DOMAIN t = 1..n /\ \A i \in 1..n : t[i] = s[n - i + 1] /\ n - i + 1 \in 1..n
  BY <1>1 DEF Reverse
<1>3. \A i \in 1..n : t[i] \in OpSet(p, b)
  BY <1>1, <1>2 DEF OpSet, ToSet
<1>4. t \in Seq(OpSet(p, b))
  BY <1>1, <1>2, <1>3, IsASeq DEF Reverse
<1>5. ASSUME NEW i \in 1..n, NEW j \in 1..n, i # j
      PROVE  Results(p, t[i]) \cap Results(p, t[j]) = {}
  <2>1. n - i + 1 # n - j + 1
    BY <1>1, <1>5
  <2> QED  BY <1>1, <1>2, <2>1, BlockFacts
<1> QED  BY <1>2, <1>4, <1>5

\* When the operations are taken up, every value that has a register has a reserved one.
LEMMA StartStep ==
  ASSUME AllocInv, Start, PreallocatedFound(prog)
  PROVE  AllocInv'
<1>1. /\ phase = "start" /\ phase' = "allocate" /\ prog' = prog /\ type' = type /\ freed' = freed
      /\ calls' = calls /\ idx' = idx /\ avail' = avail /\ reserved' = reserved
      /\ todo' = Reverse(OpsOf(prog, Entry)) /\ GatherAllocated \subseteq reserved
  BY DEF Start, queue
<1>2. QueueInv(State) /\ prog \in Programs /\ type = prog.type /\ freed = {} /\ calls = <<>>
  BY <1>1 DEF AllocInv
<1>3. QueueInv(State)'
  BY <1>1, <1>2 DEF QueueInv, State
<1>4. \A v \in Value : type[v] # NULL => type[v] \in reserved /\ type[v] \in ToSet(Regs[KindOf[v]])
  <2>1. SUFFICES ASSUME NEW v \in Value, type[v] # NULL
                 PROVE  type[v] \in reserved /\ type[v] \in ToSet(Regs[KindOf[v]])
    OBVIOUS
  <2>2. v \in Gathered(prog) /\ type[v] \in ToSet(Regs[KindOf[v]]) /\ KindOf[v] \in Kind
    BY <1>2, <2>1, AllocatorInput DEF PreallocatedFound
  <2>3. type[v] \in GatherAllocated
    BY <2>2 DEF GatherAllocated
  <2> QED  BY <1>1, <2>2, <2>3
<1>5. HeldInv(State)'
  <2>1. DOMAIN type = Value
    BY <1>2, AllocatorInput DEF IsFunction
  <2>2. HeldIn(State)' = {}
    BY <1>1, <1>4 DEF HeldIn, State
  <2>3. \A v \in Value : type[v] \in Known(KindOf[v], idx) \cup {NULL}
    BY <1>4 DEF Known
  <2> QED  BY <1>1, <1>2, <2>1, <2>2, <2>3 DEF HeldInv, State
<1>6. TodoInv'
  <2>1. Entry \in Block
    BY AllocatorInput
  <2>2. todo' \in Seq(OpSet(prog, Entry))
    BY <1>1, <1>2, <2>1, ReversedOps
  <2>3. todo' \in Seq(UNION {OpSet(prog, b) : b \in Block})
    <3>1. ToSet(todo') \subseteq UNION {OpSet(prog, b) : b \in Block}
      BY <2>1, <2>2 DEF ToSet
    <3> QED  BY <2>2, <3>1, ListOver
  <2>4. \A i, j \in DOMAIN todo' : i # j => Results(prog, todo'[i]) \cap Results(prog, todo'[j]) = {}
    BY <1>1, <1>2, <2>1, ReversedOps
  <2> QED  BY <1>1, <1>2, <2>3, <2>4 DEF TodoInv
<1>7. CallsInv'
  <2>1. calls' = <<>>
    BY <1>1, <1>2
  <2> QED  BY <2>1 DEF CallsInv
<1> QED  BY <1>1, <1>2, <1>3, <1>5, <1>6, <1>7 DEF AllocInv

\* Calls of allocate and _free.
PlainCalls == {AllocateCall(v) : v \in Value} \cup {ResultCall(v) : v \in Value}

LEMMA CallFacts ==
  ASSUME NEW v
  PROVE  /\ AllocateCall(v).do = "allocate" /\ AllocateCall(v).v = v
         /\ ResultCall(v).do = "allocate, free" /\ ResultCall(v).v = v
         /\ v \in Value => AllocateCall(v) \in PlainCalls /\ ResultCall(v) \in PlainCalls
BY DEF AllocateCall, ResultCall, PlainCalls

LEMMA AllocateAllFacts ==
  ASSUME NEW vs \in Seq(Value)
  PROVE  /\ AllocateAll(vs) \in Seq(PlainCalls) /\ Len(AllocateAll(vs)) = Len(vs)
         /\ \A i \in 1..Len(vs) : AllocateAll(vs)[i].do = "allocate"
<1>1. DOMAIN vs = 1..Len(vs) /\ Len(vs) \in Nat /\ \A i \in 1..Len(vs) : vs[i] \in Value
  BY LenProperties
<1>2. AllocateAll(vs) = [i \in 1..Len(vs) |-> AllocateCall(vs[i])]
  BY <1>1 DEF AllocateAll
<1>3. \A i \in 1..Len(vs) : AllocateCall(vs[i]) \in PlainCalls /\ AllocateCall(vs[i]).do = "allocate"
  BY <1>1, CallFacts
<1>4. AllocateAll(vs) \in Seq(PlainCalls)
  BY <1>1, <1>2, <1>3, IsASeq
<1>5. Len(AllocateAll(vs)) = Len(vs)
  BY <1>1, <1>2, <1>4, LenProperties
<1> QED  BY <1>2, <1>3, <1>4, <1>5

\* process_riscv_op frees each result once.
LEMMA RiscvCalls ==
  ASSUME NEW o, IsOp(o), IsInjective(o.res)
  PROVE  LET c == ProcessRiscvOp(o)
         IN  /\ c \in Seq(PlainCalls)
             /\ \A i \in DOMAIN c : c[i].do = "allocate, free" =>
                  /\ c[i].v \in ToSet(o.res)
                  /\ \A j \in DOMAIN c : c[j] = c[i] => j = i
<1> DEFINE n == Len(o.res)
           m == Len(o.opnds)
           u == [i \in DOMAIN o.res |-> ResultCall(o.res[i])]
           w == AllocateAll(o.opnds)
           c == u \o w
<1>1. /\ n \in Nat /\ DOMAIN o.res = 1..n /\ \A i \in 1..n : o.res[i] \in Value
      /\ o.opnds \in Seq(Value) /\ m \in Nat
  BY LenProperties DEF IsOp
<1>2. w \in Seq(PlainCalls) /\ Len(w) = m /\ \A i \in 1..m : w[i].do = "allocate"
  BY <1>1, AllocateAllFacts
<1>3. \A i \in 1..n : u[i] = ResultCall(o.res[i]) /\ u[i] \in PlainCalls /\ u[i].v = o.res[i]
                      /\ o.res[i] \in ToSet(o.res)
  BY <1>1, CallFacts DEF ToSet
<1>4. DOMAIN u = 1..n /\ u \in [1..n -> PlainCalls]
  BY <1>1, <1>3
<1>5. u \in Seq(PlainCalls) /\ Len(u) = n
  <2> HIDE DEF u, n
  <2>1. u \in Seq(PlainCalls)
    BY <1>1, <1>4
  <2> QED  BY <1>1, <1>4, <2>1, LenProperties
<1>6. \A i, j \in 1..n : o.res[i] = o.res[j] => i = j
  BY <1>1 DEF IsInjective
<1> HIDE DEF u, w, n, m
<1>7. /\ c \in Seq(PlainCalls) /\ DOMAIN c = 1..(n + m)
      /\ \A i \in 1..(n + m) : c[i] = IF i <= n THEN u[i] ELSE w[i - n]
  <2>1. /\ c \in Seq(PlainCalls) /\ Len(c) = n + m
        /\ \A i \in 1..(n + m) : c[i] = IF i <= n THEN u[i] ELSE w[i - n]
    BY <1>2, <1>5, ConcatProperties
  <2> QED  BY <2>1, LenProperties
<1> HIDE DEF c
<1>8. \A i \in 1..(n + m) : i > n => c[i].do = "allocate"
  <2>1. SUFFICES ASSUME NEW i \in 1..(n + m), i > n PROVE c[i].do = "allocate"
    OBVIOUS
  <2>2. i - n \in 1..m /\ c[i] = w[i - n]
    BY <1>1, <1>7, <2>1
  <2> QED  BY <1>2, <2>2
<1>9. ASSUME NEW i \in 1..(n + m), c[i].do = "allocate, free"
      PROVE  /\ c[i].v \in ToSet(o.res)
             /\ \A j \in 1..(n + m) : c[j] = c[i] => j = i
  <2>1. i \in 1..n
    <3>1. ~(i > n)
      BY <1>8, <1>9
    <3> QED  BY <1>1, <3>1
  <2>2. c[i] = u[i]
    BY <1>1, <1>7, <2>1
  <2>3. ASSUME NEW j \in 1..(n + m), c[j] = c[i] PROVE j = i
    <3>1. j \in 1..n
      <4>1. ~(j > n)
        BY <1>8, <1>9, <2>3
      <4> QED  BY <1>1, <4>1
    <3>2. c[j] = u[j]
      BY <1>1, <1>7, <3>1
    <3> QED  BY <1>3, <1>6, <2>1, <2>2, <2>3, <3>1, <3>2
  <2> QED  BY <1>3, <2>1, <2>2, <2>3
<1>10. c = ProcessRiscvOp(o)
  BY DEF ProcessRiscvOp, c, u, w
<1> QED  BY <1>7, <1>9, <1>10

\* allocate_for_loop frees nothing itself.
LEMMA LoopCalls ==
  ASSUME NEW o, IsOp(o), o.res = <<>>, NEW ls \in Seq(Value), prog.block[o.body].args \in Seq(Value),
         prog.block[o.body].args # <<>>
  PROVE  LET c == EnterLoop(o, ls)
         IN  /\ c \in Seq(PlainCalls)
             /\ \A i \in DOMAIN c : c[i].do = "allocate"
<1> DEFINE a == prog.block[o.body].args[1]
           x == <<a>> \o o.opnds
           u == AllocateAll(ls)
           e == [i \in DOMAIN o.res |-> ShareCall(o, i)]
           w == AllocateAll(x)
<1>1. a \in Value /\ o.opnds \in Seq(Value)
  BY EmptySeq, LenProperties DEF IsOp
<1>2. x \in Seq(Value)
  BY <1>1
<1>3. e = <<>>
  BY EmptySeq
<1> HIDE DEF x, e
<1>4. u \in Seq(PlainCalls) /\ \A i \in 1..Len(u) : u[i].do = "allocate"
  BY AllocateAllFacts
<1>5. w \in Seq(PlainCalls) /\ \A i \in 1..Len(w) : w[i].do = "allocate"
  BY <1>2, AllocateAllFacts
<1> HIDE DEF u, w
<1>6. u \o e = u
  BY <1>3, <1>4, ConcatEmptySeq
<1>7. EnterLoop(o, ls) = u \o w
  <2>1. EnterLoop(o, ls) = u \o e \o w
    BY DEF EnterLoop, u, e, w, x
  <2> QED  BY <1>6, <2>1
<1>8. u \o w \in Seq(PlainCalls)
  BY <1>4, <1>5
<1>9. \A i \in DOMAIN (u \o w) : (u \o w)[i].do = "allocate"
  <2>1. Len(u) \in Nat /\ Len(w) \in Nat
    BY <1>4, <1>5, LenProperties
  <2>2. DOMAIN (u \o w) = 1..(Len(u) + Len(w))
    BY <1>4, <1>5, <1>8, ConcatProperties, LenProperties
  <2>3. SUFFICES ASSUME NEW i \in 1..(Len(u) + Len(w)) PROVE (u \o w)[i].do = "allocate"
    BY <2>2
  <2>4. (u \o w)[i] = IF i <= Len(u) THEN u[i] ELSE w[i - Len(u)]
    BY <1>4, <1>5, ConcatProperties
  <2>5. CASE i <= Len(u)
    BY <1>4, <2>1, <2>4, <2>5
  <2>6. CASE i > Len(u)
    <3>1. i - Len(u) \in 1..Len(w)
      BY <2>1, <2>6
    <3> QED  BY <1>5, <2>1, <2>4, <2>6, <3>1
  <2> QED  BY <2>1, <2>5, <2>6
<1> QED  BY <1>7, <1>8, <1>9

\* The next operation leaves the list of those still to be processed.
LEMMA NextOp ==
  ASSUME AllocInv, phase = "allocate", todo # <<>>
  PROVE  /\ \E b \in Block : Head(todo) \in OpSet(prog, b)
         /\ Tail(todo) \in Seq(UNION {OpSet(prog, b) : b \in Block})
         /\ Results(prog, Head(todo)) \cap freed = {}
         /\ \A i \in DOMAIN Tail(todo) :
              /\ i + 1 \in DOMAIN todo /\ Tail(todo)[i] = todo[i + 1]
              /\ Results(prog, Tail(todo)[i]) \cap freed = {}
              /\ Results(prog, Tail(todo)[i]) \cap Results(prog, Head(todo)) = {}
         /\ \A i, j \in DOMAIN Tail(todo) :
              i # j => Results(prog, Tail(todo)[i]) \cap Results(prog, Tail(todo)[j]) = {}
<1> DEFINE T == UNION {OpSet(prog, b) : b \in Block}
           n == Len(todo)
<1>1. TodoInv
  BY DEF AllocInv
<1>2. todo \in Seq(T)
  BY <1>1 DEF TodoInv
<1> HIDE DEF T
<1>3. n \in Nat /\ n > 0 /\ DOMAIN todo = 1..n
  BY <1>2, LenProperties, EmptySeq
<1>4. /\ Head(todo) = todo[1] /\ todo[1] \in T /\ Tail(todo) \in Seq(T)
      /\ DOMAIN Tail(todo) = 1..(n - 1) /\ \A i \in 1..(n - 1) : Tail(todo)[i] = todo[i + 1]
  BY <1>2, <1>3
<1>5. \E b \in Block : Head(todo) \in OpSet(prog, b)
  BY <1>4 DEF T
<1>6. \A i \in 1..(n - 1) : i + 1 \in DOMAIN todo /\ i + 1 # 1
  BY <1>3
<1>7. 1 \in DOMAIN todo
  BY <1>3
<1>8. \A i \in DOMAIN todo : Results(prog, todo[i]) \cap freed = {}
  BY <1>1 DEF TodoInv
<1>9. \A i, j \in DOMAIN todo : i # j => Results(prog, todo[i]) \cap Results(prog, todo[j]) = {}
  BY <1>1 DEF TodoInv
<1>10. ASSUME NEW i \in 1..(n - 1)
       PROVE  /\ i + 1 \in DOMAIN todo /\ Tail(todo)[i] = todo[i + 1]
              /\ Results(prog, Tail(todo)[i]) \cap freed = {}
              /\ Results(prog, Tail(todo)[i]) \cap Results(prog, Head(todo)) = {}
  BY <1>4, <1>6, <1>7, <1>8, <1>9
<1>11. ASSUME NEW i \in 1..(n - 1), NEW j \in 1..(n - 1), i # j
       PROVE  Results(prog, Tail(todo)[i]) \cap Results(prog, Tail(todo)[j]) = {}
  <2>1. i + 1 # j + 1
    BY <1>3, <1>11
  <2> QED  BY <1>4, <1>6, <1>9, <2>1
<1> QED  BY <1>4, <1>5, <1>7, <1>8, <1>10, <1>11 DEF T

\* The register file of the allocator is not touched while an operation is taken up.
LEMMA ProcessFrame ==
  ASSUME AllocInv, Process
  PROVE  /\ phase = "allocate" /\ phase' = phase /\ prog' = prog /\ reserved' = reserved
         /\ todo # <<>> /\ calls = <<>> /\ freed' = freed
         /\ prog \in Programs /\ QueueInv(State)' /\ HeldInv(State)' /\ TodoInv /\ CallsInv
<1>1. /\ phase = "allocate" /\ phase' = phase /\ prog' = prog /\ reserved' = reserved
      /\ todo # <<>> /\ calls = <<>> /\ State' = State /\ freed' = freed
  BY DEF Process, queue, State
<1>2. prog \in Programs /\ QueueInv(State) /\ HeldInv(State) /\ TodoInv /\ CallsInv
  BY <1>1 DEF AllocInv
<1>3. QueueInv(State)'
  BY <1>1, <1>2 DEF QueueInv
<1>4. HeldInv(State)'
  BY <1>1, <1>2 DEF HeldInv, HeldIn
<1> QED  BY <1>1, <1>2, <1>3, <1>4

LEMMA ProcessRiscv ==
  ASSUME AllocInv, Process, Head(todo).kind = "riscv",
         calls' = ProcessRiscvOp(Head(todo)), todo' = Tail(todo)
  PROVE  AllocInv'
<1> DEFINE o == Head(todo)
<1>1. /\ phase = "allocate" /\ phase' = phase /\ prog' = prog
      /\ todo # <<>> /\ calls = <<>> /\ freed' = freed
      /\ prog \in Programs /\ QueueInv(State)' /\ HeldInv(State)'
  BY ProcessFrame
<1>2. PICK b \in Block : o \in OpSet(prog, b)
  BY <1>1, NextOp
<1>3. IsOp(o) /\ IsInjective(o.res)
  BY <1>1, <1>2, OpFacts
<1>4. TodoInv'
  BY <1>1, NextOp DEF TodoInv
<1>5. ToSet(o.res) \subseteq Results(prog, o)
  BY DEF Results
<1>6. CallsInv'
  <2>1. /\ calls' \in Seq(PlainCalls)
        /\ \A i \in DOMAIN calls' : calls'[i].do = "allocate, free" =>
             /\ calls'[i].v \in ToSet(o.res)
             /\ \A j \in DOMAIN calls' : calls'[j] = calls'[i] => j = i
    BY <1>3, RiscvCalls
  <2>2. Results(prog, o) \cap freed = {}
        /\ \A j \in DOMAIN todo' : Results(prog, todo'[j]) \cap Results(prog, o) = {}
    BY <1>1, NextOp
  <2> QED  BY <1>1, <1>5, <2>1, <2>2 DEF CallsInv, PlainCalls
<1> QED  BY <1>1, <1>4, <1>6 DEF AllocInv

LEMMA ProcessYield ==
  ASSUME AllocInv, Process, calls' = calls, todo' = Tail(todo)
  PROVE  AllocInv'
<1>1. /\ phase = "allocate" /\ phase' = phase /\ prog' = prog
      /\ todo # <<>> /\ calls = <<>> /\ freed' = freed
      /\ prog \in Programs /\ QueueInv(State)' /\ HeldInv(State)'
  BY ProcessFrame
<1>2. TodoInv'
  BY <1>1, NextOp DEF TodoInv
<1>3. CallsInv'
  <2>1. calls' = <<>>
    BY <1>1
  <2> QED  BY <2>1 DEF CallsInv
<1> QED  BY <1>1, <1>2, <1>3 DEF AllocInv

\* Putting the operations of a loop's body in its place keeps results apart.
LEMMA LoopTodo ==
  ASSUME NEW p \in Programs, NEW T, NEW r \in Seq(T), NEW t \in Seq(T), NEW R, NEW F,
         \A i \in DOMAIN r : Results(p, r[i]) \subseteq R,
         \A i, j \in DOMAIN r : i # j => Results(p, r[i]) \cap Results(p, r[j]) = {},
         R \cap F = {},
         \A i \in DOMAIN t : Results(p, t[i]) \cap F = {} /\ Results(p, t[i]) \cap R = {},
         \A i, j \in DOMAIN t : i # j => Results(p, t[i]) \cap Results(p, t[j]) = {}
  PROVE  LET w == r \o t
         IN  /\ w \in Seq(T)
             /\ \A i \in DOMAIN w : Results(p, w[i]) \cap F = {}
             /\ \A i, j \in DOMAIN w : i # j => Results(p, w[i]) \cap Results(p, w[j]) = {}
<1> DEFINE n == Len(r)
           m == Len(t)
           w == r \o t
<1>1. n \in Nat /\ m \in Nat /\ DOMAIN r = 1..n /\ DOMAIN t = 1..m
  BY LenProperties
<1>2. /\ w \in Seq(T) /\ Len(w) = n + m
      /\ \A i \in 1..(n + m) : w[i] = IF i <= n THEN r[i] ELSE t[i - n]
  BY ConcatProperties
<1>3. DOMAIN w = 1..(n + m)
  BY <1>2, LenProperties
<1> HIDE DEF w, n, m
<1>4. ASSUME NEW i \in 1..(n + m)
      PROVE  \/ i \in DOMAIN r /\ w[i] = r[i]
             \/ i - n \in DOMAIN t /\ w[i] = t[i - n] /\ i > n
  <2>1. CASE i <= n
    BY <1>1, <1>2, <2>1
  <2>2. CASE i > n
    <3>1. i - n \in 1..m
      BY <1>1, <2>2
    <3>2. w[i] = t[i - n]
      BY <1>1, <1>2, <2>2
    <3> QED  BY <1>1, <2>2, <3>1, <3>2
  <2> QED  BY <1>1, <2>1, <2>2
<1>5. ASSUME NEW i \in 1..(n + m) PROVE Results(p, w[i]) \cap F = {}
  BY <1>4
<1>6. ASSUME NEW i \in 1..(n + m), NEW j \in 1..(n + m), i # j
      PROVE  Results(p, w[i]) \cap Results(p, w[j]) = {}
  <2>1. CASE i \in DOMAIN r /\ w[i] = r[i] /\ j \in DOMAIN r /\ w[j] = r[j]
    BY <1>6, <2>1
  <2>2. CASE i \in DOMAIN r /\ w[i] = r[i] /\ j - n \in DOMAIN t /\ w[j] = t[j - n]
    BY <2>2
  <2>3. CASE i - n \in DOMAIN t /\ w[i] = t[i - n] /\ j \in DOMAIN r /\ w[j] = r[j]
    BY <2>3
  <2>4. CASE i - n \in DOMAIN t /\ w[i] = t[i - n] /\ j - n \in DOMAIN t /\ w[j] = t[j - n]
    <3>1. i - n # j - n
      BY <1>1, <1>6
    <3> QED  BY <2>4, <3>1
  <2> QED  BY <1>4, <2>1, <2>2, <2>3, <2>4
<1> QED  BY <1>2, <1>3, <1>5, <1>6 DEF w

LEMMA ProcessLoop ==
  ASSUME AllocInv, Process, CarriesNothing(prog), Head(todo).kind = "for",
         NEW ls \in SetToSeqs(LiveIns(prog, Head(todo).body)),
         calls' = EnterLoop(Head(todo), ls),
         todo' = Reverse(OpsOf(prog, Head(todo).body)) \o Tail(todo)
  PROVE  AllocInv'
<1> DEFINE o == Head(todo)
           b == o.body
           r == Reverse(OpsOf(prog, b))
           T == UNION {OpSet(prog, c) : c \in Block}
<1>1. /\ phase = "allocate" /\ phase' = phase /\ prog' = prog
      /\ todo # <<>> /\ calls = <<>> /\ freed' = freed
      /\ prog \in Programs /\ QueueInv(State)' /\ HeldInv(State)'
  BY ProcessFrame
<1>2. PICK c \in Block : o \in OpSet(prog, c)
  BY <1>1, NextOp
<1>3. /\ IsOp(o) /\ b \in Block /\ b # NULL /\ o.res = <<>>
      /\ prog.block[b].args # <<>> /\ prog.block[b].args \in Seq(Value)
  <2>1. IsOp(o) /\ b \in Block /\ prog.block[b].args # <<>>
    BY <1>1, <1>2, OpFacts
  <2>2. prog.block[b].args \in Seq(Value)
    BY <1>1, <2>1, BlockFacts
  <2>3. o.res = <<>>
    BY <1>2 DEF CarriesNothing
  <2> QED  BY <2>1, <2>2, <2>3, AllocatorInput
<1>4. /\ r \in Seq(OpSet(prog, b)) /\ r \in Seq(T)
      /\ \A i, j \in DOMAIN r : i # j => Results(prog, r[i]) \cap Results(prog, r[j]) = {}
  <2>1. /\ r \in Seq(OpSet(prog, b))
        /\ \A i, j \in DOMAIN r : i # j => Results(prog, r[i]) \cap Results(prog, r[j]) = {}
    BY <1>1, <1>3, ReversedOps
  <2>2. ToSet(r) \subseteq T
    BY <1>3, <2>1 DEF ToSet
  <2> QED  BY <2>1, <2>2, ListOver
<1>5. \A i \in DOMAIN r : Results(prog, r[i]) \subseteq Results(prog, o)
  <2>1. SUFFICES ASSUME NEW i \in DOMAIN r PROVE Results(prog, r[i]) \subseteq Results(prog, o)
    OBVIOUS
  <2> HIDE DEF r
  <2>2. r[i] \in OpSet(prog, b)
    BY <1>4
  <2>3. Results(prog, r[i]) \subseteq ResultsIn(prog, b)
    BY <1>1, <1>3, <2>2, ResultsInBlock
  <2> QED  BY <1>3, <2>3 DEF Results
<1>6. /\ Tail(todo) \in Seq(T) /\ Results(prog, o) \cap freed = {}
      /\ \A i \in DOMAIN Tail(todo) : /\ Results(prog, Tail(todo)[i]) \cap freed = {}
                                       /\ Results(prog, Tail(todo)[i]) \cap Results(prog, o) = {}
      /\ \A i, j \in DOMAIN Tail(todo) :
           i # j => Results(prog, Tail(todo)[i]) \cap Results(prog, Tail(todo)[j]) = {}
  BY <1>1, NextOp
<1>7. TodoInv'
  <2> DEFINE t == Tail(todo)
             R == Results(prog, o)
  <2>1. todo' = r \o t
    OBVIOUS
  <2>3. /\ r \in Seq(T) /\ t \in Seq(T) /\ R \cap freed = {}
        /\ \A i \in DOMAIN r : Results(prog, r[i]) \subseteq R
        /\ \A i, j \in DOMAIN r : i # j => Results(prog, r[i]) \cap Results(prog, r[j]) = {}
        /\ \A i \in DOMAIN t : Results(prog, t[i]) \cap freed = {} /\ Results(prog, t[i]) \cap R = {}
        /\ \A i, j \in DOMAIN t : i # j => Results(prog, t[i]) \cap Results(prog, t[j]) = {}
    BY <1>4, <1>5, <1>6
  <2> HIDE DEF r, T, o, b, t, R
  <2>2. /\ todo' \in Seq(T)
        /\ \A i \in DOMAIN todo' : Results(prog, todo'[i]) \cap freed = {}
        /\ \A i, j \in DOMAIN todo' : i # j => Results(prog, todo'[i]) \cap Results(prog, todo'[j]) = {}
    <3>1. prog \in Programs
      BY <1>1
    <3> DEFINE w == r \o t
    <3>2. /\ w \in Seq(T)
          /\ \A i \in DOMAIN w : Results(prog, w[i]) \cap freed = {}
          /\ \A i, j \in DOMAIN w : i # j => Results(prog, w[i]) \cap Results(prog, w[j]) = {}
      BY ONLY <2>3, <3>1, LoopTodo
    <3> QED  BY ONLY <2>1, <3>2
  <2> QED  BY <1>1, <2>2 DEF TodoInv, T
<1>8. CallsInv'
  <2>1. ls \in Seq(Value)
    BY <1>1, <1>3, LiveInsAreValues
  <2>2. calls' \in Seq(PlainCalls) /\ \A i \in DOMAIN calls' : calls'[i].do = "allocate"
    BY <1>3, <2>1, LoopCalls
  <2> QED  BY <2>2 DEF CallsInv, PlainCalls
<1> QED  BY <1>1, <1>7, <1>8 DEF AllocInv

\* process_operation keeps what is left to do in order.
LEMMA ProcessStep ==
  ASSUME AllocInv, Process, CarriesNothing(prog)
  PROVE  AllocInv'
<1> DEFINE o == Head(todo)
<1>1. \/ /\ o.kind = "riscv"
         /\ calls' = ProcessRiscvOp(o)
         /\ todo' = Tail(todo)
      \/ /\ o.kind = "for"
         /\ \E ls \in SetToSeqs(LiveIns(prog, o.body)) : calls' = EnterLoop(o, ls)
         /\ todo' = Reverse(OpsOf(prog, o.body)) \o Tail(todo)
      \/ /\ o.kind = "yield"
         /\ todo' = Tail(todo)
         /\ UNCHANGED calls
  BY DEF Process
<1>2. CASE o.kind = "riscv" /\ calls' = ProcessRiscvOp(o) /\ todo' = Tail(todo)
  BY <1>2, ProcessRiscv
<1>3. CASE /\ o.kind = "for"
           /\ \E ls \in SetToSeqs(LiveIns(prog, o.body)) : calls' = EnterLoop(o, ls)
           /\ todo' = Reverse(OpsOf(prog, o.body)) \o Tail(todo)
  <2>1. PICK ls \in SetToSeqs(LiveIns(prog, o.body)) : calls' = EnterLoop(o, ls)
    BY <1>3
  <2> QED  BY <1>3, <2>1, ProcessLoop
<1>4. CASE o.kind = "yield" /\ todo' = Tail(todo) /\ UNCHANGED calls
  BY <1>4, ProcessYield
<1> QED  BY <1>1, <1>2, <1>3, <1>4

\* One call of allocate, or of allocate and _free on a result.
LEMMA MakeCallStep ==
  ASSUME AllocInv, MakeCall
  PROVE  AllocInv'
<1> DEFINE c == Head(calls)
           t == Made(State, c)
           n == Len(calls)
<1>1. /\ phase = "allocate" /\ phase' = phase /\ prog' = prog /\ reserved' = reserved
      /\ calls # <<>> /\ calls' = Tail(calls) /\ todo' = todo
      /\ type' = t.type /\ avail' = t.avail /\ idx' = t.idx /\ freed' = t.freed
  BY DEF MakeCall, Become
<1>2. prog \in Programs /\ QueueInv(State) /\ HeldInv(State) /\ TodoInv /\ CallsInv
  BY <1>1 DEF AllocInv
<1>3. calls \in Seq(PlainCalls)
  BY <1>2 DEF CallsInv, PlainCalls
<1>4. /\ n \in Nat /\ n > 0 /\ DOMAIN calls = 1..n /\ c = calls[1] /\ c \in PlainCalls
      /\ Tail(calls) \in Seq(PlainCalls) /\ DOMAIN Tail(calls) = 1..(n - 1)
      /\ \A i \in 1..(n - 1) : Tail(calls)[i] = calls[i + 1] /\ i + 1 \in DOMAIN calls /\ i + 1 # 1
  <2>1. n \in Nat /\ n > 0 /\ DOMAIN calls = 1..n
    BY <1>1, <1>3, LenProperties, EmptySeq
  <2> QED  BY <1>3, <2>1
<1>5. PICK v \in Value : c = AllocateCall(v) \/ c = ResultCall(v)
  BY <1>4 DEF PlainCalls
<1>13. 1 \in DOMAIN calls /\ calls[1] = c
  BY <1>4
<1> HIDE DEF c, n
<1>6. /\ IsState(t) /\ QueueInv(t) /\ HeldInv(t)
      /\ t.freed = freed \/ (c = ResultCall(v) /\ t.freed \subseteq freed \cup {v})
  <2>1. LET u == Allocate(State, v)
        IN  IsState(u) /\ QueueInv(u) /\ HeldInv(u) /\ u.freed = freed
    BY <1>2, StateFacts, AllocateKeeps
  <2>2. CASE c = AllocateCall(v)
    <3>1. t = Allocate(State, v)
      BY <2>2, CallFacts DEF Made
    <3> QED  BY <2>1, <3>1
  <2>3. CASE c = ResultCall(v)
    <3>1. t = Free(Allocate(State, v), v)
      BY <2>3, CallFacts DEF Made
    <3>2. 1 \in DOMAIN calls /\ calls[1].do = "allocate, free" /\ calls[1].v = v
      BY <1>13, <2>3, CallFacts
    <3>3. v \notin freed
      BY <1>2, <3>2 DEF CallsInv
    <3> QED  BY <2>1, <2>3, <3>1, <3>3, FreeKeeps
  <2> QED  BY <1>5, <2>2, <2>3
<1>7. State' = t
  BY <1>1, <1>6 DEF State, IsState
<1> HIDE DEF t
<1>8. QueueInv(State)'
  BY <1>1, <1>6, <1>7 DEF QueueInv
<1>9. HeldInv(State)'
  BY <1>1, <1>6, <1>7 DEF HeldInv, HeldIn
<1>10. \A i \in DOMAIN todo : c = ResultCall(v) => v \notin Results(prog, todo[i])
  <2>1. ASSUME c = ResultCall(v) PROVE \A i \in DOMAIN todo : v \notin Results(prog, todo[i])
    <3>1. 1 \in DOMAIN calls /\ calls[1].do = "allocate, free" /\ calls[1].v = v
      BY <1>13, <2>1, CallFacts
    <3> QED  BY <1>2, <3>1 DEF CallsInv
  <2> QED  BY <2>1
<1>11. TodoInv'
  BY <1>1, <1>2, <1>6, <1>10 DEF TodoInv
<1>12. CallsInv'
  <2>1. ASSUME NEW i \in 1..(n - 1), Tail(calls)[i].do = "allocate, free"
        PROVE  /\ Tail(calls)[i].v \notin freed'
               /\ \A j \in DOMAIN todo : Tail(calls)[i].v \notin Results(prog, todo[j])
               /\ \A j \in 1..(n - 1) : Tail(calls)[j] = Tail(calls)[i] => j = i
    <3>1. /\ i + 1 \in DOMAIN calls /\ Tail(calls)[i] = calls[i + 1] /\ calls[i + 1] \in PlainCalls
          /\ i + 1 # 1 /\ 1 \in DOMAIN calls
      BY <1>3, <1>4
    <3>2. /\ calls[i + 1].v \notin freed
          /\ \A j \in DOMAIN todo : calls[i + 1].v \notin Results(prog, todo[j])
          /\ \A j \in DOMAIN calls : calls[j] = calls[i + 1] => j = i + 1
      BY <1>2, <2>1, <3>1 DEF CallsInv
    <3>3. calls[i + 1] = ResultCall(calls[i + 1].v)
      <4>1. PICK w \in Value : calls[i + 1] = AllocateCall(w) \/ calls[i + 1] = ResultCall(w)
        BY <3>1 DEF PlainCalls
      <4>2. calls[i + 1] = ResultCall(w)
        BY <2>1, <3>1, <4>1, CallFacts
      <4> QED  BY <4>2, CallFacts
    <3>4. c = ResultCall(v) => calls[i + 1].v # v
      BY <1>4, <3>1, <3>2, <3>3
    <3>5. calls[i + 1].v \notin freed'
      BY <1>1, <1>6, <3>2, <3>4
    <3>6. ASSUME NEW j \in 1..(n - 1), Tail(calls)[j] = Tail(calls)[i] PROVE j = i
      <4>1. j + 1 \in DOMAIN calls /\ calls[j + 1] = calls[i + 1]
        BY <1>4, <3>1, <3>6
      <4>2. j + 1 = i + 1
        BY <3>2, <4>1
      <4> QED  BY <1>4, <4>2
    <3> QED  BY <3>1, <3>2, <3>5, <3>6
  <2> QED  BY <1>1, <1>4, <2>1 DEF CallsInv, PlainCalls
<1> QED  BY <1>1, <1>2, <1>8, <1>9, <1>11, <1>12 DEF AllocInv

----------------------------------------------------------------------------
\* The function that runs does not concern the allocator any more.
LEMMA RunStep ==
  ASSUME AllocInv, Call \/ RunOp \/ RunFor \/ RunYield
  PROVE  AllocInv'
<1>1. phase' = "run" /\ prog' = prog
  BY DEF Call, RunOp, RunFor, RunYield, Running
<1> QED  BY <1>1 DEF AllocInv

LEMMA InvDisjoint == AllocInv => RegsDisjoint
<1> SUFFICES ASSUME AllocInv, phase = "allocate" PROVE RegsDisjoint
  BY DEF RegsDisjoint
<1>1. QueueInv(State) /\ HeldInv(State) /\ Pending = HeldIn(State)
  BY DEF AllocInv, Pending
<1>2. \A v, w \in Pending : type[v] = type[w] => v = w
  BY <1>1, StateFacts DEF HeldInv
<1>3. \A k \in Kind : IsInjective(avail[k]) /\ ToSet(avail[k]) \cap reserved = {}
                      /\ ToSet(avail[k]) \subseteq Known(k, idx)
  <2>1. \A k \in Kind : /\ avail[k] \in Seq(Known(k, idx)) /\ IsInjective(avail[k])
                        /\ ToSet(avail[k]) \cap reserved = {}
    BY <1>1, StateFacts DEF QueueInv
  <2>2. \A k \in Kind : ToSet(avail[k]) \subseteq Known(k, idx)
    BY <2>1 DEF ToSet
  <2> QED  BY <2>1, <2>2
<1>4. ASSUME NEW v \in Pending, NEW k \in Kind PROVE type[v] \notin ToSet(avail[k])
  <2>1. /\ v \in Value /\ type[v] # NULL /\ type[v] \in Known(KindOf[v], idx)
        /\ type[v] \notin ToSet(avail[KindOf[v]]) /\ KindOf[v] \in Kind /\ idx \in Nat
    BY <1>1, StateFacts, AllocatorInput DEF HeldInv, HeldIn, QueueInv
  <2>2. CASE k # KindOf[v]
    <3>1. Known(KindOf[v], idx) \cap Known(k, idx) = {}
      BY <2>1, <2>2, KnownFacts
    <3> QED  BY <1>3, <2>1, <3>1
  <2> QED  BY <2>1, <2>2
<1> QED  BY <1>2, <1>3, <1>4 DEF RegsDisjoint

\* allocate never hands out a register that another value still holds, and _free never
\* puts one in the queue that is held, reserved or there already: after every call,
\* for nested loops and with too few registers too.  For functions whose preallocated
\* registers gather_allocated finds and whose loops carry no variables.
THEOREM RegistersDisjoint ==
  ASSUME \A p \in Programs : PreallocatedFound(p) /\ CarriesNothing(p)
  PROVE  Spec => []RegsDisjoint
<1>1. AllocInv /\ [Next]_vars => AllocInv'
  <2> SUFFICES ASSUME AllocInv, [Next]_vars PROVE AllocInv'
    OBVIOUS
  <2>1. PreallocatedFound(prog) /\ CarriesNothing(prog)
    BY DEF AllocInv
  <2>2. CASE Reserve
    BY <2>2, ReserveStep
  <2>3. CASE Start
    BY <2>1, <2>3, StartStep
  <2>4. CASE Process
    BY <2>1, <2>4, ProcessStep
  <2>5. CASE MakeCall
    BY <2>5, MakeCallStep
  <2>6. CASE Call \/ RunOp \/ RunFor \/ RunYield
    BY <2>6, RunStep
  <2>7. CASE UNCHANGED vars
    <3>1. /\ prog' = prog /\ phase' = phase /\ type' = type /\ freed' = freed /\ calls' = calls
          /\ todo' = todo /\ reserved' = reserved /\ State' = State
      BY <2>7 DEF vars, State
    <3>2. QueueInv(State) => QueueInv(State)'
      BY <3>1 DEF QueueInv
    <3>3. HeldInv(State) => HeldInv(State)'
      BY <3>1 DEF HeldInv, HeldIn
    <3>4. TodoInv => TodoInv'
      BY <3>1 DEF TodoInv
    <3>5. CallsInv => CallsInv'
      BY <3>1 DEF CallsInv
    <3> QED  BY <3>1, <3>2, <3>3, <3>4, <3>5 DEF AllocInv
  <2> QED  BY <2>2, <2>3, <2>4, <2>5, <2>6, <2>7 DEF Next
<1> QED  BY <1>1, InitInv, InvDisjoint, PTL DEF Spec

=============================================================================
