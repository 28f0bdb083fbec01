----------------------------- MODULE ListLemmas -----------------------------
(***************************************************************************)
(* The Python list operations that xDSL's regions and operations use on    *)
(* their children (append, del, slicing in): which elements the new list   *)
(* has, and that it has none twice if the old one has not.                 *)
(***************************************************************************)
EXTENDS Integers, Sequences, Functions, SequencesExt, SequenceTheorems, WellFoundedInduction, TLAPS

\* Append, as in add_block and add_region.
LEMMA AppendList ==
  ASSUME NEW T, NEW s \in Seq(T), NEW e \in T
  PROVE  /\ Append(s, e) \in Seq(T)
         /\ ToSet(Append(s, e)) = ToSet(s) \cup {e}
         /\ IsInjective(s) /\ e \notin ToSet(s) => IsInjective(Append(s, e))
<1>1. Append(s, e) \in Seq(T) /\ Len(Append(s, e)) = Len(s) + 1
      /\ \A i \in 1..Len(s) : Append(s, e)[i] = s[i]
      /\ Append(s, e)[Len(s) + 1] = e
  OBVIOUS
<1>2. DOMAIN s = 1..Len(s) /\ DOMAIN Append(s, e) = 1..(Len(s) + 1) /\ Len(s) \in Nat
  BY <1>1, LenProperties
<1>3. ToSet(Append(s, e)) = ToSet(s) \cup {e}
  BY <1>1, <1>2 DEF ToSet
<1>4. IsInjective(s) /\ e \notin ToSet(s) => IsInjective(Append(s, e))
  BY <1>1, <1>2 DEF ToSet, IsInjective
<1> QED  BY <1>1, <1>3, <1>4

\* What a list with one element left out holds.
LEMMA CutElement ==
  ASSUME NEW n \in Nat, NEW i \in 1..n, NEW s, NEW w,
         DOMAIN s = 1..n, DOMAIN w = 1..(n - 1), IsInjective(s),
         \A j \in 1..(n - 1) : w[j] = IF j <= i - 1 THEN s[j] ELSE s[j + 1]
  PROVE  ToSet(w) = ToSet(s) \ {s[i]} /\ IsInjective(w)
<1>1. \A a, c \in 1..n : s[a] = s[c] => a = c
  BY DEF IsInjective
<1>2. IsInjective(w)
  BY <1>1 DEF IsInjective
<1>3. ASSUME NEW j \in 1..(n - 1) PROVE w[j] \in ToSet(s) \ {s[i]}
  <2>1. CASE j <= i - 1
    BY <1>1, <2>1 DEF ToSet
  <2>2. CASE ~(j <= i - 1)
    BY <1>1, <2>2 DEF ToSet
  <2> QED  BY <2>1, <2>2
<1>4. ASSUME NEW k \in 1..n, k # i PROVE s[k] \in ToSet(w)
  <2>1. CASE k < i
    BY <1>4, <2>1 DEF ToSet
  <2>2. CASE k > i
    <3>1. k - 1 \in 1..(n - 1) /\ w[k - 1] = s[k]
      BY <1>4, <2>2
    <3> QED  BY <3>1 DEF ToSet
  <2> QED  BY <1>4, <2>1, <2>2
<1>5. ToSet(w) \subseteq ToSet(s) \ {s[i]}
  BY <1>3 DEF ToSet
<1>6. ToSet(s) \ {s[i]} \subseteq ToSet(w)
  BY <1>4 DEF ToSet
<1> QED  BY <1>2, <1>5, <1>6

\* Slicing one element out: the elements after it move down by one.
LEMMA RemovedAt ==
  ASSUME NEW T, NEW s \in Seq(T), NEW i \in DOMAIN s
  PROVE  /\ RemoveAt(s, i) \in Seq(T)
         /\ DOMAIN RemoveAt(s, i) = 1..(Len(s) - 1)
         /\ \A j \in 1..(Len(s) - 1) : RemoveAt(s, i)[j] = IF j < i THEN s[j] ELSE s[j + 1]
<1> DEFINE n == Len(s)
           u == SubSeq(s, 1, i - 1)
           v == SubSeq(s, i + 1, n)
           w == u \o v
<1>1. n \in Nat /\ DOMAIN s = 1..n /\ i \in 1..n /\ \A j \in 1..n : s[j] \in T
  BY LenProperties, ElementOfSeq
<1>2. u \in Seq(T) /\ Len(u) = i - 1 /\ \A j \in 1..(i - 1) : u[j] = s[j]
  BY <1>1, SubSeqProperties
<1>3. v \in Seq(T) /\ Len(v) = n - i /\ \A j \in 1..(n - i) : v[j] = s[i + j]
  BY <1>1, SubSeqProperties
<1> HIDE DEF u, v
<1>4. /\ w \in Seq(T) /\ Len(w) = Len(u) + Len(v)
      /\ \A j \in 1..(Len(u) + Len(v)) : w[j] = IF j <= Len(u) THEN u[j] ELSE v[j - Len(u)]
  BY <1>2, <1>3, ConcatProperties, Zenon
<1>5. w = RemoveAt(s, i)
  BY DEF RemoveAt, u, v
<1> HIDE DEF n, w
<1>6. DOMAIN w = 1..(n - 1)
  <2>1. Len(u) + Len(v) = n - 1
    BY <1>1, <1>2, <1>3
  <2> QED  BY <2>1, <1>4, LenProperties
<1>7. \A j \in 1..(n - 1) : w[j] = IF j < i THEN s[j] ELSE s[j + 1]
  <2> SUFFICES ASSUME NEW j \in 1..(n - 1)
      PROVE  w[j] = IF j < i THEN s[j] ELSE s[j + 1]
    OBVIOUS
  <2>1. w[j] = IF j < i THEN u[j] ELSE v[j - (i - 1)]
    BY <1>1, <1>2, <1>3, <1>4
  <2>2. CASE j < i
    BY <1>1, <1>2, <2>1, <2>2
  <2>3. CASE ~(j < i)
    <3>1. j - (i - 1) \in 1..(n - i) /\ i + (j - (i - 1)) = j + 1
      BY <1>1, <2>3
    <3> QED  BY <1>3, <2>1, <2>3, <3>1
  <2> QED  BY <2>2, <2>3
<1> QED  BY <1>4, <1>5, <1>6, <1>7 DEF n

\* RemoveAt, as in detach_block, erase_block and detach_region.
LEMMA RemoveList ==
  ASSUME NEW T, NEW s \in Seq(T), NEW i \in DOMAIN s
  PROVE  /\ RemoveAt(s, i) \in Seq(T)
         /\ IsInjective(s) => /\ ToSet(RemoveAt(s, i)) = ToSet(s) \ {s[i]}
                              /\ IsInjective(RemoveAt(s, i))
<1> DEFINE n == Len(s)
           w == RemoveAt(s, i)
<1>1. n \in Nat /\ DOMAIN s = 1..n /\ i \in 1..n
  BY LenProperties
<1>2. w \in Seq(T) /\ DOMAIN w = 1..(n - 1)
      /\ \A j \in 1..(n - 1) : w[j] = IF j < i THEN s[j] ELSE s[j + 1]
  BY RemovedAt
<1> HIDE DEF n, w
<1>3. \A j \in 1..(n - 1) : w[j] = IF j <= i - 1 THEN s[j] ELSE s[j + 1]
  BY <1>1, <1>2
<1>4. IsInjective(s) => ToSet(w) = ToSet(s) \ {s[i]} /\ IsInjective(w)
  BY <1>1, <1>2, <1>3, CutElement
<1> QED  BY <1>2, <1>4 DEF w

\* w is s with t slid in at position i.
Slid(w, s, t, i, n, m) ==
  /\ n \in Nat /\ m \in Nat /\ i \in 0..n
  /\ DOMAIN s = 1..n /\ DOMAIN t = 1..m /\ DOMAIN w = 1..(n + m)
  /\ \A j \in 1..(n + m) : w[j] = IF j <= i THEN s[j]
                                  ELSE IF j <= i + m THEN t[j - i] ELSE s[j - m]

\* What such a list holds.
LEMMA SlideIn ==
  ASSUME NEW n, NEW m, NEW i, NEW s, NEW t, NEW w, Slid(w, s, t, i, n, m)
  PROVE  /\ ToSet(w) = ToSet(s) \cup ToSet(t)
         /\ IsInjective(s) /\ IsInjective(t) /\ ToSet(s) \cap ToSet(t) = {} => IsInjective(w)
<1> USE DEF Slid
<1>1. ASSUME NEW k \in 1..n PROVE s[k] \in ToSet(w)
  <2>1. CASE k <= i
    BY <2>1 DEF ToSet
  <2>2. CASE k > i
    <3>1. k + m \in 1..(n + m) /\ ~(k + m <= i) /\ ~(k + m <= i + m) /\ (k + m) - m = k
      BY <2>2
    <3>2. w[k + m] = s[k]
      BY <3>1
    <3> QED  BY <3>1, <3>2 DEF ToSet
  <2> QED  BY <2>1, <2>2
<1>2. ASSUME NEW k \in 1..m PROVE t[k] \in ToSet(w)
  <2>1. k + i \in 1..(n + m) /\ w[k + i] = t[k]
    OBVIOUS
  <2> QED  BY <2>1 DEF ToSet
<1>3. ASSUME NEW j \in 1..(n + m) PROVE w[j] \in ToSet(s) \cup ToSet(t)
  <2>1. CASE j <= i
    BY <2>1 DEF ToSet
  <2>2. CASE i < j /\ j <= i + m
    <3>1. j - i \in 1..m /\ w[j] = t[j - i]
      BY <2>2
    <3> QED  BY <3>1 DEF ToSet
  <2>3. CASE i + m < j
    <3>1. j - m \in 1..n /\ w[j] = s[j - m]
      BY <2>3
    <3> QED  BY <3>1 DEF ToSet
  <2> QED  BY <2>1, <2>2, <2>3
<1>4. ToSet(w) = ToSet(s) \cup ToSet(t)
  BY <1>1, <1>2, <1>3 DEF ToSet
<1>5. ASSUME IsInjective(s), IsInjective(t), ToSet(s) \cap ToSet(t) = {}
      PROVE  IsInjective(w)
  <2>1. \A j \in 1..n, k \in 1..m : s[j] # t[k]
    BY <1>5 DEF ToSet
  <2>2. (\A j, k \in 1..n : s[j] = s[k] => j = k) /\ (\A j, k \in 1..m : t[j] = t[k] => j = k)
    BY <1>5 DEF IsInjective
  <2>3. SUFFICES ASSUME NEW j \in 1..(n + m), NEW k \in 1..(n + m), w[j] = w[k]
        PROVE  j = k
    BY DEF IsInjective
  <2>4. CASE j <= i
    BY <2>1, <2>2, <2>3, <2>4
  <2>5. CASE i < j /\ j <= i + m
    BY <2>1, <2>2, <2>3, <2>5
  <2>6. CASE i + m < j
    BY <2>1, <2>2, <2>3, <2>6
  <2> QED  BY <2>4, <2>5, <2>6
<1> QED  BY <1>4, <1>5

\* The elements of three lists put together.
LEMMA ConcatThree ==
  ASSUME NEW T, NEW u \in Seq(T), NEW t \in Seq(T), NEW v \in Seq(T)
  PROVE  /\ (u \o t) \o v \in Seq(T)
         /\ Len((u \o t) \o v) = Len(u) + Len(t) + Len(v)
         /\ \A j \in 1..(Len(u) + Len(t) + Len(v)) :
               ((u \o t) \o v)[j] = IF j <= Len(u) THEN u[j]
                                    ELSE IF j <= Len(u) + Len(t) THEN t[j - Len(u)]
                                    ELSE v[j - (Len(u) + Len(t))]
<1> DEFINE x == u \o t
           w == x \o v
<1>1. /\ x \in Seq(T) /\ Len(x) = Len(u) + Len(t)
      /\ \A j \in 1..(Len(u) + Len(t)) : x[j] = IF j <= Len(u) THEN u[j] ELSE t[j - Len(u)]
  BY ConcatProperties, Zenon
<1>x. x \in Seq(T)
  BY <1>1
<1> HIDE DEF x
<1>2. /\ w \in Seq(T) /\ Len(w) = Len(x) + Len(v)
      /\ \A j \in 1..(Len(x) + Len(v)) : w[j] = IF j <= Len(x) THEN x[j] ELSE v[j - Len(x)]
  BY <1>x, ConcatProperties, Zenon
<1> HIDE DEF w
<1>3. Len(u) \in Nat /\ Len(t) \in Nat /\ Len(v) \in Nat
  BY LenProperties
<1>4. ASSUME NEW j \in 1..(Len(u) + Len(t) + Len(v))
      PROVE  w[j] = IF j <= Len(u) THEN u[j]
                    ELSE IF j <= Len(u) + Len(t) THEN t[j - Len(u)]
                    ELSE v[j - (Len(u) + Len(t))]
  BY <1>1, <1>2, <1>3
<1>5. w \in Seq(T) /\ Len(w) = Len(u) + Len(t) + Len(v)
  BY <1>1, <1>2
<1> QED  BY <1>4, <1>5, Zenon DEF w, x

\* Slicing a list t in at position i, element by element.
LEMMA SlicedIn ==
  ASSUME NEW T, NEW s \in Seq(T), NEW t \in Seq(T), NEW i \in 0..Len(s)
  PROVE  LET w == SubSeq(s, 1, i) \o t \o SubSeq(s, i + 1, Len(s))
         IN  /\ w \in Seq(T)
             /\ DOMAIN w = 1..(Len(s) + Len(t))
             /\ \A j \in 1..(Len(s) + Len(t)) :
                   w[j] = IF j <= i THEN s[j] ELSE IF j <= i + Len(t) THEN t[j - i] ELSE s[j - Len(t)]
<1> DEFINE n == Len(s)
           m == Len(t)
           u == SubSeq(s, 1, i)
           v == SubSeq(s, i + 1, n)
           w == (u \o t) \o v
<1>1. n \in Nat /\ DOMAIN s = 1..n /\ i \in 0..n /\ m \in Nat /\ DOMAIN t = 1..m
  BY LenProperties
<1>2. \A j \in 1..n : s[j] \in T
  BY ElementOfSeq
<1>3. u \in Seq(T) /\ Len(u) = i /\ \A j \in 1..i : u[j] = s[j]
  BY <1>1, <1>2, SubSeqProperties
<1>4. v \in Seq(T) /\ Len(v) = n - i /\ \A j \in 1..(n - i) : v[j] = s[i + j]
  <2>1. i + 1 \in Int /\ n \in Int /\ \A j \in (i + 1)..n : s[j] \in T
    BY <1>1, <1>2
  <2> HIDE DEF n
  <2>2. v \in Seq(T) /\ Len(v) = (IF i + 1 <= n THEN n - (i + 1) + 1 ELSE 0)
        /\ \A j \in 1..(n - (i + 1) + 1) : v[j] = s[(i + 1) + j - 1]
    BY <2>1, SubSeqProperties
  <2>3. n - (i + 1) + 1 = n - i /\ (~(i + 1 <= n) => n - i = 0)
    BY <1>1
  <2>4. \A j \in 1..(n - i) : (i + 1) + j - 1 = i + j
    BY <1>1
  <2> HIDE DEF n, v
  <2> QED  BY <2>2, <2>3, <2>4
<1>x. u \in Seq(T) /\ v \in Seq(T)
  BY <1>3, <1>4
<1> HIDE DEF u, v
<1>5. /\ w \in Seq(T) /\ Len(w) = Len(u) + Len(t) + Len(v)
      /\ \A j \in 1..(Len(u) + Len(t) + Len(v)) :
            w[j] = IF j <= Len(u) THEN u[j]
                   ELSE IF j <= Len(u) + Len(t) THEN t[j - Len(u)]
                   ELSE v[j - (Len(u) + Len(t))]
  BY <1>x, ConcatThree
<1> HIDE DEF w, m, n
<1>6. Len(u) + Len(t) = i + m /\ Len(u) + Len(t) + Len(v) = n + m
  BY <1>1, <1>3, <1>4 DEF m
<1>7. DOMAIN w = 1..(n + m)
  BY <1>5, <1>6, LenProperties
<1>8. ASSUME NEW j \in 1..(n + m)
      PROVE  w[j] = IF j <= i THEN s[j] ELSE IF j <= i + m THEN t[j - i] ELSE s[j - m]
  <2>1. w[j] = IF j <= i THEN u[j] ELSE IF j <= i + m THEN t[j - i] ELSE v[j - (i + m)]
    BY <1>3, <1>5, <1>6
  <2>2. CASE j <= i
    BY <1>1, <1>3, <2>1, <2>2
  <2>3. CASE i < j /\ j <= i + m
    BY <1>1, <2>1, <2>3
  <2>4. CASE i + m < j
    <3>1. j - (i + m) \in 1..(n - i) /\ i + (j - (i + m)) = j - m
      BY <1>1, <2>4
    <3> QED  BY <1>1, <1>4, <2>1, <2>4, <3>1
  <2> QED  BY <1>1, <2>2, <2>3, <2>4
<1> QED  BY <1>5, <1>7, <1>8 DEF w, u, v, n, m

\* list.insert of one element at position i.
LEMMA InsertedAt ==
  ASSUME NEW T, NEW s \in Seq(T), NEW e \in T, NEW i \in 1..(Len(s) + 1)
  PROVE  /\ InsertAt(s, i, e) \in Seq(T)
         /\ DOMAIN InsertAt(s, i, e) = 1..(Len(s) + 1)
         /\ \A j \in 1..(Len(s) + 1) :
               InsertAt(s, i, e)[j] = IF j < i THEN s[j] ELSE IF j = i THEN e ELSE s[j - 1]
<1> DEFINE k == i - 1
           t == <<e>>
           n == Len(s)
           w == SubSeq(s, 1, k) \o t \o SubSeq(s, k + 1, Len(s))
<1>1. n \in Nat /\ k \in 0..n /\ k + 1 = i /\ i \in Int
  BY LenProperties
<1>2. t \in Seq(T) /\ Len(t) = 1 /\ t[1] = e
  OBVIOUS
<1>3. InsertAt(s, i, e) = w
  BY <1>1 DEF InsertAt
<1>4. /\ w \in Seq(T)
      /\ DOMAIN w = 1..(Len(s) + Len(t))
      /\ \A j \in 1..(Len(s) + Len(t)) :
            w[j] = IF j <= k THEN s[j] ELSE IF j <= k + Len(t) THEN t[j - k] ELSE s[j - Len(t)]
  <2> HIDE DEF k, t
  <2> QED  BY <1>1, <1>2, SlicedIn DEF n
<1> HIDE DEF w, t, k, n
<1>5. /\ DOMAIN w = 1..(n + 1)
      /\ \A j \in 1..(n + 1) : w[j] = IF j <= k THEN s[j] ELSE IF j <= k + 1 THEN t[j - k] ELSE s[j - 1]
  BY <1>2, <1>4 DEF n
<1>6. ASSUME NEW j \in 1..(n + 1)
      PROVE  w[j] = IF j < i THEN s[j] ELSE IF j = i THEN e ELSE s[j - 1]
  <2>1. CASE j < i
    BY <1>1, <1>5, <2>1
  <2>2. CASE j = i
    <3>1. j - k = 1 /\ ~(j <= k) /\ j <= k + 1
      BY <1>1, <2>2
    <3> QED  BY <1>2, <1>5, <2>2, <3>1
  <2>3. CASE j > i
    <3>1. ~(j <= k) /\ ~(j <= k + 1) /\ ~(j < i) /\ j # i
      BY <1>1, <2>3
    <3> QED  BY <1>5, <3>1
  <2> QED  BY <1>1, <2>1, <2>2, <2>3
<1> QED  BY <1>3, <1>4, <1>5, <1>6 DEF n

\* Slicing a list in, as in insert_block.
LEMMA InsertList ==
  ASSUME NEW T, NEW s \in Seq(T), NEW t \in Seq(T), NEW i \in 0..Len(s)
  PROVE  LET w == SubSeq(s, 1, i) \o t \o SubSeq(s, i + 1, Len(s))
         IN  /\ w \in Seq(T)
             /\ ToSet(w) = ToSet(s) \cup ToSet(t)
             /\ IsInjective(s) /\ IsInjective(t) /\ ToSet(s) \cap ToSet(t) = {}
                  => IsInjective(w)
<1> DEFINE n == Len(s)
           m == Len(t)
           w == SubSeq(s, 1, i) \o t \o SubSeq(s, i + 1, Len(s))
<1>1. n \in Nat /\ DOMAIN s = 1..n /\ i \in 0..n /\ m \in Nat /\ DOMAIN t = 1..m
  BY LenProperties
<1>2. /\ w \in Seq(T) /\ DOMAIN w = 1..(n + m)
      /\ \A j \in 1..(n + m) : w[j] = IF j <= i THEN s[j] ELSE IF j <= i + m THEN t[j - i] ELSE s[j - m]
  BY SlicedIn
<1> HIDE DEF w, m, n
<1>3. Slid(w, s, t, i, n, m)
  BY <1>1, <1>2 DEF Slid
<1>4. /\ ToSet(w) = ToSet(s) \cup ToSet(t)
      /\ IsInjective(s) /\ IsInjective(t) /\ ToSet(s) \cap ToSet(t) = {} => IsInjective(w)
  BY <1>3, SlideIn, Zenon
<1> QED  BY <1>2, <1>4, Zenon DEF w
----------------------------------------------------------------------------
(* Recursive functions on lists. *)

\* Every set of natural numbers that is not empty has a least element: what the
\* proofs about recursive functions use for induction.
LEMMA LeastNat ==
  ASSUME NEW T, T \subseteq Nat, T # {}
  PROVE  \E x \in T : \A y \in T : x <= y
<1>1. PICK x \in T : \A y \in T : <<y, x>> \notin OpToRel(<, Nat)
  BY WFMin, NatLessThanWellFounded, Zenon
<1>2. ASSUME NEW y \in T PROVE x <= y
  <2>1. ~(y < x)
    BY <1>1 DEF OpToRel
  <2> QED  BY <2>1
<1> QED  BY <1>2

\* Two lists, one after the other.
LEMMA ConcatElements ==
  ASSUME NEW T, NEW s \in Seq(T), NEW t \in Seq(T)
  PROVE  s \o t \in Seq(T) /\ ToSet(s \o t) = ToSet(s) \cup ToSet(t)
<1> DEFINE w == s \o t
           n == Len(s)
           m == Len(t)
<1>a. /\ w \in Seq(T) /\ Len(w) = n + m
      /\ \A i \in 1..(n + m) : w[i] = IF i <= n THEN s[i] ELSE t[i - n]
  BY ConcatProperties, Zenon
<1>1. /\ w \in Seq(T) /\ n \in Nat /\ m \in Nat /\ DOMAIN s = 1..n /\ DOMAIN t = 1..m
      /\ DOMAIN w = 1..(n + m)
      /\ \A i \in 1..(n + m) : w[i] = IF i <= n THEN s[i] ELSE t[i - n]
  <2> HIDE DEF w
  <2> QED  BY <1>a, LenProperties
<1> HIDE DEF w, n, m
<1>2. ASSUME NEW i \in 1..(n + m) PROVE w[i] \in ToSet(s) \cup ToSet(t)
  <2>1. CASE i <= n
    <3>1. i \in 1..n /\ w[i] = s[i]
      BY <1>1, <2>1
    <3> QED  BY <1>1, <3>1 DEF ToSet
  <2>2. CASE i > n
    <3>1. i - n \in 1..m /\ w[i] = t[i - n]
      BY <1>1, <2>2
    <3> QED  BY <1>1, <3>1 DEF ToSet
  <2> QED  BY <1>1, <2>1, <2>2
<1>3. ASSUME NEW i \in 1..n PROVE s[i] \in ToSet(w)
  <2>1. i \in 1..(n + m) /\ w[i] = s[i]
    BY <1>1
  <2> QED  BY <1>1, <2>1 DEF ToSet
<1>4. ASSUME NEW i \in 1..m PROVE t[i] \in ToSet(w)
  <2>1. i + n \in 1..(n + m) /\ ~(i + n <= n) /\ (i + n) - n = i
    BY <1>1
  <2>2. w[i + n] = t[i]
    BY <1>1, <2>1
  <2> QED  BY <1>1, <2>1, <2>2 DEF ToSet
<1>5. ToSet(w) = ToSet(s) \cup ToSet(t)
  BY <1>1, <1>2, <1>3, <1>4 DEF ToSet
<1> QED  BY <1>1, <1>5 DEF w

\* A list of lists, one after the other, as in nested for loops: its
\* elements are elements of theirs.
LEMMA FlattenList ==
  ASSUME NEW T, NEW ss \in Seq(Seq(T))
  PROVE  /\ FlattenSeq(ss) \in Seq(T)
         /\ \A x \in ToSet(FlattenSeq(ss)) : \E k \in DOMAIN ss : x \in ToSet(ss[k])
<1> DEFINE n == Len(ss)
           Fix(f, m) == f = [i \in 1..m |-> IF i = 1 THEN ss[i] ELSE f[i - 1] \o ss[i]]
<1>1. n \in Nat /\ DOMAIN ss = 1..n /\ \A i \in 1..n : ss[i] \in Seq(T)
  BY LenProperties, ElementOfSeq
<1>n. n = Len(ss)
  OBVIOUS
<1> HIDE DEF n, Fix
<1>2. CASE n = 0
  <2>1. FlattenSeq(ss) = ss
    BY <1>2, <1>n DEF FlattenSeq
  <2>2. ss \in Seq(T) /\ ToSet(ss) = {}
    BY <1>1, <1>2 DEF ToSet
  <2> QED  BY <2>1, <2>2
<1>3. CASE n # 0
  <2>1. \A m \in 1..n : \E f : Fix(f, m)
    <3> DEFINE Bad == {m \in 1..n : ~ \E f : Fix(f, m)}
    <3> SUFFICES ASSUME Bad # {} PROVE FALSE
      OBVIOUS
    <3>1. PICK m \in Bad : \A x \in Bad : m <= x
      <4>1. Bad \subseteq Nat
        BY <1>1
      <4> HIDE DEF Bad
      <4> QED  BY <4>1, LeastNat
    <3>2. m \in 1..n /\ ~ \E f : Fix(f, m)
      OBVIOUS
    <3>3. CASE m = 1
      <4> DEFINE g == [i \in 1..1 |-> ss[i]]
      <4>1. Fix(g, m)
        BY <3>3 DEF Fix
      <4> QED  BY <3>2, <4>1
    <3>4. CASE m # 1
      <4>1. m - 1 \in 1..n /\ m - 1 \notin Bad
        <5> HIDE DEF Bad
        <5> QED  BY <1>1, <3>1, <3>2, <3>4
      <4>2. PICK f : Fix(f, m - 1)
        BY <4>1
      <4> DEFINE g == [i \in 1..m |-> IF i = m THEN f[m - 1] \o ss[m] ELSE f[i]]
      <4>3. ASSUME NEW i \in 1..m PROVE g[i] = IF i = 1 THEN ss[i] ELSE g[i - 1] \o ss[i]
        <5>1. CASE i = m
          <6>1. g[i] = f[m - 1] \o ss[m] /\ g[m - 1] = f[m - 1]
            BY <1>1, <3>2, <3>4, <5>1
          <6> QED  BY <3>4, <5>1, <6>1
        <5>2. CASE i # m
          <6>1. i \in 1..(m - 1) /\ g[i] = f[i]
            BY <1>1, <3>2, <5>2
          <6>2. i # 1 => i - 1 \in 1..m /\ i - 1 # m /\ g[i - 1] = f[i - 1]
            BY <1>1, <3>2, <6>1
          <6>3. f[i] = IF i = 1 THEN ss[i] ELSE f[i - 1] \o ss[i]
            BY <4>2, <6>1 DEF Fix
          <6> QED  BY <6>1, <6>2, <6>3
        <5> QED  BY <5>1, <5>2
      <4>4. Fix(g, m)
        <5>1. g = [i \in 1..m |-> g[i]]
          OBVIOUS
        <5> HIDE DEF g
        <5> QED  BY <4>3, <5>1 DEF Fix
      <4> QED  BY <3>2, <4>4
    <3> QED  BY <3>3, <3>4
  <2>2. PICK f : Fix(f, n) /\ FlattenSeq(ss) = f[n]
    <3> DEFINE h == CHOOSE f : Fix(f, n)
    <3>1. Fix(h, n)
      <4>1. \E f : Fix(f, n)
        BY <1>1, <1>3, <2>1
      <4> QED  BY <4>1, Zenon
    <3>2. FlattenSeq(ss) = h[n]
      BY <1>3, <1>n DEF FlattenSeq, Fix
    <3> QED  BY <3>1, <3>2
  <2>3. \A i \in 1..n : f[i] = IF i = 1 THEN ss[i] ELSE f[i - 1] \o ss[i]
    BY <2>2 DEF Fix
  <2> DEFINE Right(i) == /\ f[i] \in Seq(T)
                         /\ \A x \in ToSet(f[i]) : \E k \in 1..n : x \in ToSet(ss[k])
             Bad == {i \in 1..n : ~Right(i)}
  <2>4. Bad = {}
    <3> SUFFICES ASSUME Bad # {} PROVE FALSE
      OBVIOUS
    <3>1. PICK i \in Bad : \A x \in Bad : i <= x
      <4>1. Bad \subseteq Nat
        BY <1>1
      <4> HIDE DEF Bad
      <4> QED  BY <4>1, LeastNat
    <3>2. i \in 1..n /\ ~Right(i)
      OBVIOUS
    <3>3. i # 1
      <4>1. i = 1 => f[i] = ss[i]
        BY <2>3, <3>2
      <4> QED  BY <1>1, <3>2, <4>1
    <3>4. i - 1 \in 1..n /\ i - 1 \notin Bad
      <4> HIDE DEF Bad
      <4> QED  BY <1>1, <3>1, <3>2, <3>3
    <3>5. Right(i - 1)
      BY <3>4
    <3>6. f[i] = f[i - 1] \o ss[i] /\ ss[i] \in Seq(T)
      BY <1>1, <2>3, <3>2, <3>3
    <3>7. f[i] \in Seq(T) /\ ToSet(f[i]) = ToSet(f[i - 1]) \cup ToSet(ss[i])
      BY <3>5, <3>6, ConcatElements
    <3> QED  BY <3>2, <3>5, <3>7
  <2>5. Right(n)
    <3>1. n \in 1..n /\ n \notin Bad
      <4> HIDE DEF Bad
      <4> QED  BY <1>1, <1>3, <2>4
    <3> QED  BY <3>1
  <2> QED  BY <1>1, <2>2, <2>5
<1> QED  BY <1>2, <1>3

\* A list in reverse has the same elements.
LEMMA ReverseList ==
  ASSUME NEW T, NEW s \in Seq(T)
  PROVE  Reverse(s) \in Seq(T) /\ ToSet(Reverse(s)) = ToSet(s)
<1> DEFINE n == Len(s)
           w == Reverse(s)
<1>1. n \in Nat /\ DOMAIN s = 1..n /\ \A i \in 1..n : s[i] \in T
  BY LenProperties, ElementOfSeq
<1>2. w = [i \in 1..n |-> s[(n - i) + 1]]
  BY DEF Reverse
<1> HIDE DEF n, w
<1>3. \A i \in 1..n : (n - i) + 1 \in 1..n /\ (n - ((n - i) + 1)) + 1 = i
  BY <1>1
<1>4. w \in Seq(T) /\ DOMAIN w = 1..n /\ \A i \in 1..n : w[i] = s[(n - i) + 1]
  BY <1>1, <1>2, <1>3, SeqDef
<1>5. \A i \in 1..n : w[(n - i) + 1] = s[i]
  BY <1>3, <1>4
<1>6. ToSet(w) = ToSet(s)
  BY <1>1, <1>3, <1>4, <1>5 DEF ToSet
<1> QED  BY <1>4, <1>6 DEF w

=============================================================================
