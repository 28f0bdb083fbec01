---------------------------- MODULE IRTree_proofs ----------------------------
(***************************************************************************)
(* Proofs of the structural invariants of IRTree, for any sets of          *)
(* operations, blocks and regions, and of the refinement to BlockSeqs.     *)
(***************************************************************************)
EXTENDS IRTree, ListLemmas, FiniteSetTheorems, FunctionTheorems

----------------------------------------------------------------------------
(* What drop_all_references reaches. *)

\* The children of a live node are live, name it as their parent, and were not
\* left behind by a failed insert_block.
LEMMA ChildrenFacts ==
  ASSUME TypeOK, ErasedOrphans, OwnershipInv, NEW x \in Live, NEW q \in Children(x)
  PROVE  q \in Live /\ parent[q] = x /\ q \notin torn
<1> USE NodeKinds DEF Live, Node
<1>1. CASE x \in Op
  <2>1. q \in ToSet(regions[x]) /\ x \in LiveOp
    BY <1>1 DEF Children, LiveOp
  <2>2. q \in Region
    BY <1>1, <2>1, LenProperties DEF TypeOK, ToSet
  <2>3. parent[q] = x /\ q \notin erased
    BY <2>1, <2>2 DEF OwnershipInv
  <2> QED  BY <2>2, <2>3 DEF TypeOK
<1>2. CASE x \in Region
  <2>1. q \in ToSet(blocks[x]) /\ x \in LiveRegion
    BY <1>2 DEF Children, LiveRegion
  <2>2. q \in Block
    BY <1>2, <2>1, LenProperties DEF TypeOK, ToSet
  <2>3. parent[q] = x /\ q \notin erased /\ q \notin torn
    BY <2>1, <2>2 DEF OwnershipInv
  <2> QED  BY <2>2, <2>3
<1>3. CASE x \in Block
  <2>1. q \in Op /\ parent[q] = x
    BY <1>3 DEF Children
  <2> QED  BY <1>3, <2>1 DEF TypeOK, ErasedOrphans
<1> QED  BY <1>1, <1>2, <1>3

\* Contents(n) holds n, is closed under children, consists of live nodes, and
\* everything in it but n has its parent in it.
LEMMA ContentsFacts ==
  ASSUME TypeOK, ErasedOrphans, OwnershipInv, NEW n \in Live
  PROVE  /\ n \in Contents(n)
         /\ Contents(n) \subseteq Live
         /\ \A x \in Contents(n) : Children(x) \subseteq Contents(n)
         /\ \A x \in Contents(n) : x # n => parent[x] \in Contents(n) /\ x \notin torn
<1> DEFINE C == Contents(n)
<1>1. n \in C
  BY DEF Contents, Live
<1>2. C \subseteq Live
  <2>1. Live \in SUBSET Node /\ n \in Live
    BY DEF Live
  <2>2. DownClosed(Live)
    BY ChildrenFacts DEF DownClosed
  <2> QED  BY <2>1, <2>2 DEF Contents
<1>3. ASSUME NEW x \in C, NEW y \in Children(x) PROVE y \in C
  <2>1. y \in Node
    BY <1>2, ChildrenFacts DEF Live
  <2>2. ASSUME NEW S \in SUBSET Node, n \in S, DownClosed(S) PROVE y \in S
    <3>1. x \in S
      BY <2>2 DEF Contents
    <3> QED  BY <2>2, <3>1 DEF DownClosed
  <2> QED  BY <2>1, <2>2 DEF Contents
<1>4. ASSUME NEW q \in C, q # n PROVE \E x \in C : q \in Children(x)
  <2>1. SUFFICES ASSUME \A x \in C : q \notin Children(x) PROVE FALSE
    OBVIOUS
  <2>2. C \ {q} \in SUBSET Node /\ n \in C \ {q}
    BY <1>1, <1>4 DEF Contents
  <2>3. DownClosed(C \ {q})
    BY <1>3, <2>1 DEF DownClosed
  <2>4. q \in C \ {q}
    BY <2>2, <2>3 DEF Contents
  <2> QED  BY <2>4
<1>5. ASSUME NEW q \in C, q # n PROVE parent[q] \in C /\ q \notin torn
  <2>1. PICK x \in C : q \in Children(x)
    BY <1>4, <1>5
  <2>2. x \in Live
    BY <1>2
  <2>3. parent[q] = x /\ q \notin torn
    BY <2>1, <2>2, ChildrenFacts
  <2> QED  BY <2>3
<1> QED  BY <1>1, <1>2, <1>3, <1>5

----------------------------------------------------------------------------
(* Acyclicity.  The ancestors of a node are the least set that contains it   *)
(* and is closed under parent.                                               *)

Ancestors(n) == {a \in Node : IsAncestor(a, n)}

\* is_ancestor, defined by closed sets, is reflexive, transitive, and goes through the parent.
LEMMA AncestorFacts ==
  ASSUME TypeOK, NEW n \in Node
  PROVE  /\ n \in Ancestors(n)
         /\ UpClosed(Ancestors(n))
         /\ \A m \in Ancestors(n) : Ancestors(m) \subseteq Ancestors(n)
<1>1. n \in Ancestors(n)
  BY DEF Ancestors, IsAncestor
<1>2. ASSUME NEW x \in Ancestors(n), parent[x] # NULL PROVE parent[x] \in Ancestors(n)
  <2>1. x \in Node /\ parent[x] \in Node
    BY <1>2 DEF Ancestors, TypeOK
  <2>2. ASSUME NEW S \in SUBSET Node, n \in S, UpClosed(S) PROVE parent[x] \in S
    BY <1>2, <2>2 DEF Ancestors, IsAncestor, UpClosed
  <2> QED  BY <2>1, <2>2 DEF Ancestors, IsAncestor
<1>3. UpClosed(Ancestors(n))
  BY <1>2 DEF UpClosed
<1>4. ASSUME NEW m \in Ancestors(n) PROVE Ancestors(m) \subseteq Ancestors(n)
  BY <1>3 DEF Ancestors, IsAncestor
<1> QED  BY <1>1, <1>3, <1>4

\* A set that is closed under the new parents, holds the new parent of x and
\* not x itself, shows that x does not contain itself.
LEMMA AcyclicWitness ==
  ASSUME NEW x \in Node, NEW S \in SUBSET Node, parent'[x] \in S, x \notin S,
         \A z \in S : parent'[z] # NULL => parent'[z] \in S
  PROVE  ~IsAncestor(x, parent[x])'
BY DEF IsAncestor, UpClosed

\* Giving a set of nodes a new parent outside all of them closes no cycle.
LEMMA Reparent ==
  ASSUME TypeOK, Acyclic, NEW M \in SUBSET Node, NEW h \in Node,
         parent' = [x \in Node |-> IF x \in M THEN h ELSE parent[x]],
         \A m \in M : ~IsAncestor(m, h)
  PROVE  Acyclic'
<1>1. h \in Ancestors(h) /\ UpClosed(Ancestors(h)) /\ Ancestors(h) \cap M = {}
      /\ Ancestors(h) \in SUBSET Node
  BY AncestorFacts DEF Ancestors
<1>2. SUFFICES ASSUME NEW x \in Node, parent'[x] # NULL
      PROVE  ~IsAncestor(x, parent[x])'
  BY DEF Acyclic
<1>3. CASE x \in M
  <2>1. \A z \in Ancestors(h) : parent'[z] # NULL => parent'[z] \in Ancestors(h)
    BY <1>1 DEF UpClosed
  <2> QED  BY <1>1, <1>3, <2>1, AcyclicWitness
<1>4. CASE x \notin M
  <2> DEFINE y == parent[x]
             A == Ancestors(y)
  <2>1. y \in Node /\ parent'[x] = y /\ x \notin A
    BY <1>2, <1>4 DEF TypeOK, Acyclic, Ancestors
  <2>2. y \in A /\ UpClosed(A) /\ A \in SUBSET Node
    BY <2>1, AncestorFacts DEF Ancestors
  <2>3. CASE A \cap M = {}
    <3>1. \A z \in A : parent'[z] # NULL => parent'[z] \in A
      BY <2>2, <2>3 DEF UpClosed
    <3> QED  BY <2>1, <2>2, <3>1, AcyclicWitness
  <2>4. CASE A \cap M # {}
    <3>1. x \notin Ancestors(h)
      <4>1. SUFFICES ASSUME x \in Ancestors(h) PROVE FALSE
        OBVIOUS
      <4>2. y \in Ancestors(h)
        BY <1>1, <1>2, <2>1, <4>1 DEF UpClosed
      <4>3. A \subseteq Ancestors(h)
        BY <4>2, AncestorFacts
      <4> QED  BY <1>1, <2>4, <4>3
    <3> DEFINE S == A \cup Ancestors(h)
    <3>2. S \in SUBSET Node /\ parent'[x] \in S /\ x \notin S
      BY <1>1, <2>1, <2>2, <3>1
    <3>3. \A z \in S : parent'[z] # NULL => parent'[z] \in S
      BY <1>1, <2>2 DEF UpClosed
    <3> HIDE DEF S
    <3> QED  BY <3>2, <3>3, AcyclicWitness
  <2> QED  BY <2>3, <2>4
<1> QED  BY <1>3, <1>4

\* Clearing parents closes no cycle either.
LEMMA Orphan ==
  ASSUME TypeOK, Acyclic, NEW M \in SUBSET Node,
         parent' = [x \in Node |-> IF x \in M THEN NULL ELSE parent[x]]
  PROVE  Acyclic'
<1>1. SUFFICES ASSUME NEW x \in Node, parent'[x] # NULL
      PROVE  ~IsAncestor(x, parent[x])'
  BY DEF Acyclic
<1> DEFINE y == parent[x]
           A == Ancestors(y)
<1>2. y \in Node /\ parent'[x] = y /\ x \notin A
  BY <1>1 DEF TypeOK, Acyclic, Ancestors
<1>3. y \in A /\ UpClosed(A) /\ A \in SUBSET Node
  BY <1>2, AncestorFacts DEF Ancestors
<1>4. \A z \in A : parent'[z] # NULL => parent'[z] \in A
  BY <1>3 DEF UpClosed
<1> QED  BY <1>2, <1>3, <1>4, AcyclicWitness

----------------------------------------------------------------------------
(* Traversals.  link is nextOp or prevOp, M the operations of a block and    *)
(* start its first or last operation, before and (link2, start2) after a     *)
(* step.                                                                     *)

\* link does not leave M.
StaysIn(M, link) == \A x \in M : link[x] # NULL => link[x] \in M

\* A block whose operations keep their links is still traversed completely.
Kept(L, L2, M, link, link2) ==
  /\ M \subseteq L /\ M \subseteq L2 /\ L2 \subseteq L
  /\ StaysIn(L \ M, link)
  /\ \A x \in M : link2[x] = link[x]

\* A span of the operation list survives a step that leaves its members and their links alone.
LEMMA SpansKept ==
  ASSUME NEW L, NEW L2, NEW M, NEW start, NEW link, NEW link2,
         Spans(L, M, start, link), Kept(L, L2, M, link, link2)
  PROVE  Spans(L2, M, start, link2)
<1> USE DEF Kept
<1>1. SUFFICES ASSUME NEW S \in SUBSET L2, start # NULL => start \in S,
                      \A x \in S : link2[x] # NULL => link2[x] \in S
      PROVE  M \subseteq S
  BY DEF Spans
<1> DEFINE T == S \cup (L \ M)
<1>2. T \in SUBSET L /\ (start # NULL => start \in T)
  BY <1>1
<1>3. ASSUME NEW x \in T, link[x] # NULL PROVE link[x] \in T
  <2>1. CASE x \in M
    BY <1>1, <1>3, <2>1
  <2>2. CASE x \notin M
    BY <1>1, <1>3, <2>2 DEF StaysIn
  <2> QED  BY <2>1, <2>2
<1> HIDE DEF T
<1>4. M \subseteq T
  BY <1>2, <1>3 DEF Spans
<1> QED  BY <1>4 DEF T

\* Inserting new between p and q, either of which may be NULL.
Inserted(L, M, start, start2, link, link2, new, p, q) ==
  /\ M \subseteq L /\ NULL \notin L /\ new \in L /\ new # p
  /\ (\A x \in L : link[x] # new) /\ start # new
  /\ p # NULL => p \in M /\ link[p] = q /\ start2 = start
  /\ p = NULL => start = q /\ start2 = new
  /\ \A x \in L : link2[x] = IF x = p THEN new ELSE IF x = new THEN q ELSE link[x]

\* Putting a new operation between two neighbours of a span gives a span with one more member (insert_op_after, insert_op_before).
LEMMA SpansInsert ==
  ASSUME NEW L, NEW M, NEW start, NEW start2, NEW link, NEW link2, NEW new, NEW p, NEW q,
         Spans(L, M, start, link), Inserted(L, M, start, start2, link, link2, new, p, q)
  PROVE  Spans(L, M \cup {new}, start2, link2)
<1> USE DEF Inserted
<1>1. SUFFICES ASSUME NEW S \in SUBSET L, start2 # NULL => start2 \in S,
                      \A x \in S : link2[x] # NULL => link2[x] \in S
      PROVE  M \cup {new} \subseteq S
  BY DEF Spans
<1> DEFINE T == S \ {new}
<1>2. T \in SUBSET L /\ (start # NULL => start \in T)
  BY <1>1
<1>3. ASSUME NEW x \in T, link[x] # NULL PROVE link[x] \in T
  <2>1. CASE x = p
    BY <1>1, <1>3, <2>1
  <2>2. CASE x # p
    BY <1>1, <1>3, <2>2
  <2> QED  BY <2>1, <2>2
<1> HIDE DEF T
<1>4. M \subseteq T
  BY <1>2, <1>3 DEF Spans
<1>5. new \in S
  BY <1>1, <1>4 DEF T
<1> QED  BY <1>4, <1>5 DEF T

\* Taking out o, which is between p and q.
Cut(L, L2, M, start, start2, link, link2, o, p, q) ==
  /\ o \in M /\ M \subseteq L /\ M \ {o} \subseteq L2 /\ L2 \subseteq L /\ NULL \notin L
  /\ StaysIn(L \ M, link)
  /\ start # NULL => start \in L
  /\ \A x \in L : link[x] # NULL => link[x] \in L
  /\ \A x \in L : link[x] = o => x = p
  /\ link[o] = q /\ (q # NULL => q \in M)
  /\ p # NULL => p \in M /\ link[p] = o /\ start2 = start /\ start # o
  /\ p = NULL => start = o /\ start2 = q
  /\ \A x \in M : x # o => link2[x] = IF x = p THEN q ELSE link[x]

\* Taking one operation out of a span and linking its neighbours gives a span without it (detach_op).
LEMMA SpansCut ==
  ASSUME NEW L, NEW L2, NEW M, NEW start, NEW start2, NEW link, NEW link2, NEW o, NEW p, NEW q,
         Spans(L, M, start, link), Cut(L, L2, M, start, start2, link, link2, o, p, q)
  PROVE  Spans(L2, M \ {o}, start2, link2)
<1> USE DEF Cut
<1>1. SUFFICES ASSUME NEW S \in SUBSET L2, start2 # NULL => start2 \in S,
                      \A x \in S : link2[x] # NULL => link2[x] \in S
      PROVE  M \ {o} \subseteq S
  BY DEF Spans
<1>0. p # o
  <2> SUFFICES ASSUME p = o PROVE FALSE
    OBVIOUS
  <2> DEFINE U == L \ {o}
  <2>1. U \in SUBSET L /\ (start # NULL => start \in U)
    OBVIOUS
  <2>2. \A x \in U : link[x] # NULL => link[x] \in U
    OBVIOUS
  <2> HIDE DEF U
  <2>3. M \subseteq U
    BY <2>1, <2>2 DEF Spans
  <2> QED  BY <2>3 DEF U
<1>2. CASE q = NULL \/ q \in S
  <2> DEFINE T == S \cup (L \ M) \cup {o}
  <2>1. T \in SUBSET L /\ (start # NULL => start \in T)
    BY <1>1
  <2>2. ASSUME NEW x \in T, link[x] # NULL PROVE link[x] \in T
    <3>1. CASE x = o
      BY <1>2, <2>2, <3>1
    <3>2. CASE x # o /\ x \in M
      BY <1>1, <2>2, <3>2
    <3>3. CASE x \notin M
      BY <1>1, <2>2, <3>3 DEF StaysIn
    <3> QED  BY <3>1, <3>2, <3>3
  <2> HIDE DEF T
  <2>3. M \subseteq T
    BY <2>1, <2>2 DEF Spans
  <2> QED  BY <2>3 DEF T
<1>3. CASE q # NULL /\ q \notin S
  <2> DEFINE T == (S \cup (L \ M)) \ {o}
  <2>1. p # NULL
    BY <1>1, <1>3
  <2>2. p \notin S
    BY <1>0, <1>1, <1>3, <2>1
  <2>3. T \in SUBSET L /\ (start # NULL => start \in T)
    BY <1>1, <2>1
  <2>4. ASSUME NEW x \in T, link[x] # NULL PROVE link[x] \in T
    <3>1. CASE x \in M
      BY <1>1, <2>2, <2>4, <3>1
    <3>2. CASE x \notin M
      BY <1>1, <2>2, <2>4, <3>2 DEF StaysIn
    <3> QED  BY <3>1, <3>2
  <2> HIDE DEF T
  <2>5. M \subseteq T
    BY <2>3, <2>4 DEF Spans
  <2> QED  BY <2>5 DEF T
<1> QED  BY <1>2, <1>3

\* Moving the operations Mb, from first fb to last lb, between p and n.
Joined(L, M, Mb, start, start2, link, link2, fb, lb, p, n) ==
  /\ NULL \notin L /\ M \subseteq L /\ Mb \subseteq L /\ M \cap Mb = {} /\ fb \in Mb /\ lb \in Mb
  /\ StaysIn(L \ M, link) /\ StaysIn(M, link) /\ StaysIn(L \ Mb, link) /\ StaysIn(Mb, link)
  /\ link[lb] = NULL /\ (n # NULL => n \in M)
  /\ p # NULL => p \in M /\ link[p] = n /\ start2 = start
  /\ p = NULL => start = n /\ start2 = fb
  /\ \A x \in L : link2[x] = IF x = p THEN fb ELSE IF x = lb THEN n ELSE link[x]

\* Two spans linked end to start make one span (the inlining of a block).
LEMMA SpansJoin ==
  ASSUME NEW L, NEW M, NEW Mb, NEW start, NEW start2, NEW link, NEW link2,
         NEW fb, NEW lb, NEW p, NEW n,
         Spans(L, M, start, link), Spans(L, Mb, fb, link),
         Joined(L, M, Mb, start, start2, link, link2, fb, lb, p, n)
  PROVE  Spans(L, M \cup Mb, start2, link2)
<1> USE DEF Joined
<1>1. SUFFICES ASSUME NEW S \in SUBSET L, start2 # NULL => start2 \in S,
                      \A x \in S : link2[x] # NULL => link2[x] \in S
      PROVE  M \cup Mb \subseteq S
  BY DEF Spans
<1>2. ASSUME fb \in S PROVE Mb \subseteq S
  <2> DEFINE T == S \cup (L \ Mb)
  <2>1. T \in SUBSET L /\ fb \in T
    BY <1>2
  <2>2. ASSUME NEW x \in T, link[x] # NULL PROVE link[x] \in T
    <3>1. CASE x \in Mb
      BY <1>1, <2>2, <3>1
    <3>2. CASE x \notin Mb
      BY <1>1, <2>2, <3>2 DEF StaysIn
    <3> QED  BY <3>1, <3>2
  <2> HIDE DEF T
  <2>3. Mb \subseteq T
    BY <2>1, <2>2 DEF Spans
  <2> QED  BY <2>3 DEF T
<1>3. fb \in S => (n # NULL => n \in S)
  BY <1>1, <1>2
<1>4. M \subseteq S
  <2> DEFINE T == S \cup (L \ M)
  <2>1. T \in SUBSET L /\ (start # NULL => start \in T)
    BY <1>1, <1>3
  <2>2. ASSUME NEW x \in T, link[x] # NULL PROVE link[x] \in T
    <3>1. CASE x \in M /\ x = p
      BY <1>1, <1>3, <2>2, <3>1
    <3>2. CASE x \in M /\ x # p
      BY <1>1, <2>2, <3>2
    <3>3. CASE x \notin M
      BY <1>1, <2>2, <3>3 DEF StaysIn
    <3> QED  BY <3>1, <3>2, <3>3
  <2> HIDE DEF T
  <2>3. M \subseteq T
    BY <2>1, <2>2 DEF Spans
  <2> QED  BY <2>3 DEF T
<1>5. fb \in S
  BY <1>1, <1>4
<1> QED  BY <1>2, <1>4, <1>5

----------------------------------------------------------------------------
(* Steps on operation lists. *)

\* Calls that touch neither block lists and region lists nor the parents of
\* blocks and regions keep the lists consistent.
LEMMA KeepsOwnership ==
  ASSUME TypeOK, OwnershipInv, TornKept, UNCHANGED <<blocks, regions, erased, torn>>,
         \A x \in Block \cup Region : parent'[x] = parent[x]
  PROVE  OwnershipInv' /\ TornKept'
<1>1. OwnershipInv'
  BY DEF OwnershipInv, LiveRegion, LiveOp
<1>2. TornKept'
  BY DEF TornKept, TypeOK
<1> QED  BY <1>1, <1>2

\* The types of the linked lists, pointwise.
LinkTypes ==
  /\ NULL \notin Op /\ NULL \notin Block
  /\ \A o \in Op : /\ parent[o] \in Block \cup {NULL}
                   /\ nextOp[o] \in Op \cup {NULL}
                   /\ prevOp[o] \in Op \cup {NULL}
  /\ \A b \in Block : firstOp[b] \in Op \cup {NULL} /\ lastOp[b] \in Op \cup {NULL}

\* The type invariant gives the types of the four link variables.
LEMMA TypesOfLinks == TypeOK => LinkTypes
BY NodeKinds DEF TypeOK, LinkTypes, Node

\* Calls that touch neither the links nor the parents of operations keep the
\* linked lists well formed.
LEMMA KeepsLinks ==
  ASSUME TypeOK, LinkInv, UNCHANGED <<nextOp, prevOp, firstOp, lastOp, erased>>,
         \A x \in Op : parent'[x] = parent[x]
  PROVE  LinkInv'
<1>t. LinkTypes
  BY TypesOfLinks
<1>1. DetachedUnlinked'
  BY DEF LinkInv, DetachedUnlinked, LiveOp
<1>2. LinksMatch'
  BY <1>t DEF LinkInv, LinksMatch, LiveOp, LinkTypes
<1>3. EndsMatch'
  BY <1>t DEF LinkInv, EndsMatch, LiveOp, LiveBlock, LinkTypes
<1> QED  BY <1>1, <1>2, <1>3 DEF LinkInv

\* Attaching one live operation to a live block keeps the tree a tree.
LEMMA AttachOp ==
  ASSUME TypeOK, ErasedOrphans, Acyclic, NEW b \in LiveBlock, NEW new \in LiveOp,
         ~IsAncestor(new, b), parent' = [parent EXCEPT ![new] = b], UNCHANGED erased
  PROVE  /\ Acyclic' /\ ErasedOrphans'
         /\ \A x \in Block \cup Region : parent'[x] = parent[x]
         /\ parent' \in [Node -> Node \cup {NULL}]
         /\ \A x \in Node : parent'[x] \in (IF x \in Op THEN Block ELSE IF x \in Block THEN Region ELSE Op)
                                            \cup {NULL}
<1> USE NodeKinds DEF Node, LiveOp, LiveBlock
<1>1. parent' = [x \in Node |-> IF x \in {new} THEN b ELSE parent[x]]
  BY DEF TypeOK
<1>2. Acyclic'
  <2>1. {new} \in SUBSET Node /\ b \in Node /\ \A m \in {new} : ~IsAncestor(m, b)
    OBVIOUS
  <2> HIDE DEF Node
  <2> QED  BY <1>1, <2>1, Reparent
<1>3. ErasedOrphans'
  BY DEF ErasedOrphans, TypeOK
<1> QED  BY <1>2, <1>3 DEF TypeOK

\* Links of live operations stay within the block, and nothing live leads to an
\* operation that is in no block.
LEMMA LinksStay ==
  ASSUME TypeOK, LinkInv
  PROVE  /\ \A x \in LiveOp : nextOp[x] # NULL => nextOp[x] \in LiveOp
         /\ \A x \in LiveOp : prevOp[x] # NULL => prevOp[x] \in LiveOp
         /\ \A b : /\ Members(b) \subseteq LiveOp
                   /\ StaysIn(Members(b), nextOp) /\ StaysIn(LiveOp \ Members(b), nextOp)
                   /\ StaysIn(Members(b), prevOp) /\ StaysIn(LiveOp \ Members(b), prevOp)
         /\ \A x, y \in LiveOp : parent[y] = NULL => nextOp[x] # y /\ prevOp[x] # y
         /\ NULL \notin LiveOp
<1>t. LinkTypes
  BY TypesOfLinks
<1> USE <1>t DEF LinkInv, LinksMatch, DetachedUnlinked, LiveOp, LinkTypes
<1>1. /\ \A x \in LiveOp : nextOp[x] # NULL => nextOp[x] \in LiveOp
      /\ \A x \in LiveOp : prevOp[x] # NULL => prevOp[x] \in LiveOp
  OBVIOUS
<1>2. ASSUME NEW b
      PROVE  /\ Members(b) \subseteq LiveOp
             /\ StaysIn(Members(b), nextOp) /\ StaysIn(LiveOp \ Members(b), nextOp)
             /\ StaysIn(Members(b), prevOp) /\ StaysIn(LiveOp \ Members(b), prevOp)
  BY DEF Members, StaysIn
<1>3. \A x, y \in LiveOp : parent[y] = NULL => nextOp[x] # y /\ prevOp[x] # y
  OBVIOUS
<1> QED  BY <1>1, <1>2, <1>3

\* p and q are neighbours in block b, NULL standing for the ends of the list.
Adjacent(b, p, q) ==
  /\ p # NULL => p \in LiveOp /\ parent[p] = b /\ nextOp[p] = q
  /\ q # NULL => q \in LiveOp /\ parent[q] = b /\ prevOp[q] = p
  /\ p = NULL => firstOp[b] = q
  /\ q = NULL => lastOp[b] = p

\* The operation new gets its place between the neighbours p and q of block b.
PutBetween(b, new, p, q) ==
  /\ CanAttach(new, b) /\ Adjacent(b, p, q)
  /\ parent' = [parent EXCEPT ![new] = b]
  /\ nextOp' = [x \in Op |-> IF x = p THEN new ELSE IF x = new THEN q ELSE nextOp[x]]
  /\ prevOp' = [x \in Op |-> IF x = q THEN new ELSE IF x = new THEN p ELSE prevOp[x]]
  /\ firstOp' = [c \in Block |-> IF c = b /\ p = NULL THEN new ELSE firstOp[c]]
  /\ lastOp' = [c \in Block |-> IF c = b /\ q = NULL THEN new ELSE lastOp[c]]
  /\ UNCHANGED <<blocks, regions, erased, torn>>

\* Putting an operation that is in no block between two neighbours preserves the
\* inductive invariant.
LEMMA InsertBetween ==
  ASSUME IInv, NEW b \in LiveBlock, NEW new \in LiveOp, NEW p, NEW q, PutBetween(b, new, p, q)
  PROVE  IInv'
<1> USE DEF IInv, PutBetween
<1>1. /\ b \in Block /\ b \notin erased /\ new \in Op /\ new \notin erased
      /\ parent[new] = NULL /\ ~IsAncestor(new, b) /\ erased' = erased
      /\ p \in Op \cup {NULL} /\ q \in Op \cup {NULL}
  BY DEF LiveBlock, LiveOp, CanAttach, Adjacent
<1>2. Acyclic' /\ ErasedOrphans' /\ (\A x \in Block \cup Region : parent'[x] = parent[x])
      /\ parent' \in [Node -> Node \cup {NULL}]
      /\ \A x \in Node : parent'[x] \in (IF x \in Op THEN Block ELSE IF x \in Block THEN Region ELSE Op)
                                            \cup {NULL}
  BY <1>1, AttachOp
<1>3. TypeOK'
  BY <1>1, <1>2 DEF TypeOK
<1>4. OwnershipInv' /\ TornKept'
  BY <1>2, KeepsOwnership
<1>5. \A o \in Op : parent'[o] = IF o = new THEN b ELSE parent[o]
  BY <1>1 DEF TypeOK, Node
<1>t. LinkTypes
  BY TypesOfLinks
<1>6. LinkInv'
  <2>1. DetachedUnlinked /\ LinksMatch /\ EndsMatch
    BY DEF LinkInv
  <2>2. /\ \A x \in Op : /\ nextOp'[x] = IF x = p THEN new ELSE IF x = new THEN q ELSE nextOp[x]
                         /\ prevOp'[x] = IF x = q THEN new ELSE IF x = new THEN p ELSE prevOp[x]
        /\ \A c \in Block : /\ firstOp'[c] = IF c = b /\ p = NULL THEN new ELSE firstOp[c]
                            /\ lastOp'[c] = IF c = b /\ q = NULL THEN new ELSE lastOp[c]
    OBVIOUS
  <2> USE <1>1, <1>5, <1>t, <2>1, <2>2 DEF LiveOp, LinkTypes, Adjacent
  <2>3. DetachedUnlinked'
    BY DEF DetachedUnlinked, LinksMatch
  <2>4. LinksMatch'
    BY DEF DetachedUnlinked, LinksMatch
  <2>5. EndsMatch'
    BY DEF DetachedUnlinked, LinksMatch, EndsMatch, LiveBlock
  <2> QED  BY <2>3, <2>4, <2>5 DEF LinkInv
<1>7. VisitsAll'
  <2>1. Members(b)' = Members(b) \cup {new} /\ LiveOp' = LiveOp /\ LiveBlock' = LiveBlock
    BY <1>1, <1>5 DEF Members, LiveOp, LiveBlock
  <2>2. new \notin Members(b) /\ p # new /\ q # new /\ firstOp[b] # new /\ lastOp[b] # new
    BY <1>1, <1>t DEF Members, Adjacent, LinkInv, EndsMatch, LinkTypes, LiveBlock
  <2>3. (p # NULL => p \in Members(b)) /\ (q # NULL => q \in Members(b))
    BY DEF Adjacent, Members
  <2>4. \A x \in LiveOp : /\ nextOp'[x] = IF x = p THEN new ELSE IF x = new THEN q ELSE nextOp[x]
                          /\ prevOp'[x] = IF x = q THEN new ELSE IF x = new THEN p ELSE prevOp[x]
    BY DEF LiveOp
  <2>5. /\ Spans(LiveOp, Members(b), firstOp[b], nextOp)
        /\ Spans(LiveOp, Members(b), lastOp[b], prevOp)
    BY DEF VisitsAll
  <2>6. firstOp'[b] = (IF p = NULL THEN new ELSE firstOp[b])
        /\ lastOp'[b] = (IF q = NULL THEN new ELSE lastOp[b])
    BY <1>1
  <2>7. Spans(LiveOp, Members(b) \cup {new}, firstOp'[b], nextOp')
    <3>1. Inserted(LiveOp, Members(b), firstOp[b], firstOp'[b], nextOp, nextOp', new, p, q)
      BY <1>1, <2>2, <2>3, <2>4, <2>6, LinksStay DEF Adjacent, Inserted
    <3> QED  BY <2>5, <3>1, SpansInsert
  <2>8. Spans(LiveOp, Members(b) \cup {new}, lastOp'[b], prevOp')
    <3>1. Inserted(LiveOp, Members(b), lastOp[b], lastOp'[b], prevOp, prevOp', new, q, p)
      BY <1>1, <2>2, <2>3, <2>4, <2>6, LinksStay DEF Adjacent, Inserted
    <3> QED  BY <2>5, <3>1, SpansInsert
  <2>9. ASSUME NEW c \in LiveBlock, c # b
        PROVE  /\ Members(c)' = Members(c)
               /\ Spans(LiveOp, Members(c), firstOp'[c], nextOp')
               /\ Spans(LiveOp, Members(c), lastOp'[c], prevOp')
    <3>1. Members(c)' = Members(c) /\ c \in Block
      BY <1>1, <1>5, <1>t, <2>9 DEF Members, LiveOp, LiveBlock, LinkTypes
    <3>2. firstOp'[c] = firstOp[c] /\ lastOp'[c] = lastOp[c]
      BY <2>9, <3>1
    <3>3. \A x \in Members(c) : nextOp'[x] = nextOp[x] /\ prevOp'[x] = prevOp[x]
      BY <1>1, <1>t, <2>4, <2>9, <3>1 DEF Members, Adjacent, LiveOp, LinkTypes
    <3>4. Spans(LiveOp, Members(c), firstOp[c], nextOp) /\ Spans(LiveOp, Members(c), lastOp[c], prevOp)
      BY DEF VisitsAll
    <3>5. Kept(LiveOp, LiveOp, Members(c), nextOp, nextOp')
          /\ Kept(LiveOp, LiveOp, Members(c), prevOp, prevOp')
      BY <3>3, LinksStay DEF Kept
    <3>6. Spans(LiveOp, Members(c), firstOp[c], nextOp') /\ Spans(LiveOp, Members(c), lastOp[c], prevOp')
      BY <3>4, <3>5, SpansKept
    <3> QED  BY <3>1, <3>2, <3>5, <3>6
  <2> QED
    <3>1. SUFFICES ASSUME NEW c \in LiveBlock
          PROVE  /\ Spans(LiveOp', Members(c)', firstOp'[c], nextOp')
                 /\ Spans(LiveOp', Members(c)', lastOp'[c], prevOp')
      BY <2>1 DEF VisitsAll, Spans
    <3> QED  BY <2>1, <2>7, <2>8, <2>9
<1> QED  BY <1>2, <1>3, <1>4, <1>6, <1>7

\* Block.insert_op_after puts the operation between ex and its successor.
LEMMA InsertOpAfterBetween ==
  ASSUME IInv, NEW b \in LiveBlock, NEW new \in LiveOp, NEW ex \in LiveOp,
         InsertOpAfter(b, new, ex)
  PROVE  PutBetween(b, new, ex, nextOp[ex])
<1> DEFINE q == nextOp[ex]
<1>1. TypeOK /\ LinkTypes /\ LinksMatch /\ EndsMatch
  BY TypesOfLinks DEF IInv, LinkInv
<1>0. parent[ex] = b /\ parent[new] = NULL
  BY DEF InsertOpAfter, CanAttach
<1>2. Adjacent(b, ex, q)
  <2>1. ex \in Op /\ ex \notin erased /\ b \in Block /\ b # NULL
    BY <1>1 DEF LiveOp, LiveBlock, LinkTypes
  <2> QED  BY <1>0, <1>1, <2>1 DEF Adjacent, LiveOp, LinkTypes, LinksMatch, EndsMatch
<1>3. new # ex
  BY <1>0, <1>1 DEF LiveBlock, LinkTypes
<1>4. /\ CanAttach(new, b) /\ parent' = [parent EXCEPT ![new] = b]
      /\ UNCHANGED <<blocks, regions, erased, torn>>
  BY DEF InsertOpAfter, ghosts
<1>5. /\ nextOp' = [x \in Op |-> IF x = ex THEN new ELSE IF x = new THEN q ELSE nextOp[x]]
      /\ prevOp' = [x \in Op |-> IF x = q THEN new ELSE IF x = new THEN ex ELSE prevOp[x]]
  BY <1>1, <1>3 DEF InsertOpAfter, LinkAfter, TypeOK, LiveOp
<1>6. /\ firstOp' = [c \in Block |-> IF c = b /\ ex = NULL THEN new ELSE firstOp[c]]
      /\ lastOp' = [c \in Block |-> IF c = b /\ q = NULL THEN new ELSE lastOp[c]]
  BY <1>1 DEF InsertOpAfter, TypeOK, LiveOp, LinkTypes
<1> HIDE DEF q
<1>7. PutBetween(b, new, ex, q)
  BY <1>2, <1>4, <1>5, <1>6 DEF PutBetween
<1> QED  BY <1>7 DEF q

\* Block.insert_op_before puts the operation between ex and its predecessor.
LEMMA InsertOpBeforeBetween ==
  ASSUME IInv, NEW b \in LiveBlock, NEW new \in LiveOp, NEW ex \in LiveOp,
         InsertOpBefore(b, new, ex)
  PROVE  PutBetween(b, new, prevOp[ex], ex)
<1> DEFINE p == prevOp[ex]
<1>1. TypeOK /\ LinkTypes /\ LinksMatch /\ EndsMatch
  BY TypesOfLinks DEF IInv, LinkInv
<1>0. parent[ex] = b /\ parent[new] = NULL
  BY DEF InsertOpBefore, CanAttach
<1>2. Adjacent(b, p, ex)
  <2>1. ex \in Op /\ ex \notin erased /\ b \in Block /\ b # NULL
    BY <1>1 DEF LiveOp, LiveBlock, LinkTypes
  <2> QED  BY <1>0, <1>1, <2>1 DEF Adjacent, LiveOp, LinkTypes, LinksMatch, EndsMatch
<1>3. new # ex
  BY <1>0, <1>1 DEF LiveBlock, LinkTypes
<1>4. /\ CanAttach(new, b) /\ parent' = [parent EXCEPT ![new] = b]
      /\ UNCHANGED <<blocks, regions, erased, torn>>
  BY DEF InsertOpBefore, ghosts
<1>5. /\ nextOp' = [x \in Op |-> IF x = p THEN new ELSE IF x = new THEN ex ELSE nextOp[x]]
      /\ prevOp' = [x \in Op |-> IF x = ex THEN new ELSE IF x = new THEN p ELSE prevOp[x]]
  BY <1>1, <1>3 DEF InsertOpBefore, LinkBefore, TypeOK, LiveOp
<1>6. /\ firstOp' = [c \in Block |-> IF c = b /\ p = NULL THEN new ELSE firstOp[c]]
      /\ lastOp' = [c \in Block |-> IF c = b /\ ex = NULL THEN new ELSE lastOp[c]]
  BY <1>1 DEF InsertOpBefore, TypeOK, LiveOp, LinkTypes
<1> HIDE DEF p
<1>7. PutBetween(b, new, p, ex)
  BY <1>2, <1>4, <1>5, <1>6 DEF PutBetween
<1> QED  BY <1>7 DEF p

\* Block.add_op puts the operation after the last one, if there is one.
LEMMA AddOpBetween ==
  ASSUME IInv, NEW b \in LiveBlock, NEW new \in LiveOp, AddOp(b, new)
  PROVE  \E p, q : PutBetween(b, new, p, q)
<1>1. TypeOK /\ LinkTypes /\ DetachedUnlinked /\ EndsMatch
  BY TypesOfLinks DEF IInv, LinkInv
<1>2. CASE lastOp[b] # NULL
  <2>1. lastOp[b] \in LiveOp /\ InsertOpAfter(b, new, lastOp[b])
    BY <1>1, <1>2 DEF AddOp, EndsMatch, LinkTypes, LiveOp, LiveBlock
  <2> QED  BY <2>1, InsertOpAfterBetween
<1>3. CASE lastOp[b] = NULL
  <2>1. Adjacent(b, NULL, NULL)
    BY <1>1, <1>3 DEF Adjacent, EndsMatch
  <2>2. /\ CanAttach(new, b) /\ parent' = [parent EXCEPT ![new] = b]
        /\ UNCHANGED <<nextOp, prevOp, blocks, regions, erased, torn>>
        /\ firstOp' = [firstOp EXCEPT ![b] = new] /\ lastOp' = [lastOp EXCEPT ![b] = new]
    BY <1>3 DEF AddOp, ghosts
  <2>3. nextOp[new] = NULL /\ prevOp[new] = NULL
    BY <1>1, <2>2 DEF DetachedUnlinked, CanAttach
  <2>4. /\ nextOp' = [x \in Op |-> IF x = NULL THEN new ELSE IF x = new THEN NULL ELSE nextOp[x]]
        /\ prevOp' = [x \in Op |-> IF x = NULL THEN new ELSE IF x = new THEN NULL ELSE prevOp[x]]
    BY <1>1, <2>2, <2>3 DEF TypeOK, LinkTypes
  <2>5. /\ firstOp' = [c \in Block |-> IF c = b /\ NULL = NULL THEN new ELSE firstOp[c]]
        /\ lastOp' = [c \in Block |-> IF c = b /\ NULL = NULL THEN new ELSE lastOp[c]]
    BY <1>1, <2>2 DEF TypeOK
  <2>6. PutBetween(b, new, NULL, NULL)
    BY <2>1, <2>2, <2>4, <2>5 DEF PutBetween
  <2> QED  BY <2>6
<1> QED  BY <1>2, <1>3

\* Block.insert_op_after, insert_op_before and add_op.
Inserts(b, new) ==
  AddOp(b, new) \/ \E ex \in LiveOp : InsertOpAfter(b, new, ex) \/ InsertOpBefore(b, new, ex)

LEMMA InsertsBetween ==
  ASSUME IInv, NEW b \in LiveBlock, NEW new \in LiveOp, Inserts(b, new)
  PROVE  \E p, q : PutBetween(b, new, p, q)
<1>1. CASE AddOp(b, new)
  BY <1>1, AddOpBetween
<1>2. ASSUME NEW ex \in LiveOp, InsertOpAfter(b, new, ex) PROVE \E p, q : PutBetween(b, new, p, q)
  BY <1>2, InsertOpAfterBetween
<1>3. ASSUME NEW ex \in LiveOp, InsertOpBefore(b, new, ex) PROVE \E p, q : PutBetween(b, new, p, q)
  BY <1>3, InsertOpBeforeBetween
<1> QED  BY <1>1, <1>2, <1>3 DEF Inserts

----------------------------------------------------------------------------
(* Steps that erase. *)

\* Dropping everything below n, which leaves its block list if it is in one,
\* keeps lists, parents and acyclicity.
LEMMA DropKeeps ==
  ASSUME TypeOK, ErasedOrphans, TornKept, OwnershipInv, Acyclic, NEW n \in Live, n \notin Region, n \notin torn,
         DropAllReferences(n), UNCHANGED <<regions, torn>>,
         \A r \in LiveRegion : ToSet(blocks'[r]) = ToSet(blocks[r]) \ {n} /\ IsInjective(blocks'[r])
  PROVE  /\ ErasedOrphans' /\ TornKept' /\ OwnershipInv' /\ Acyclic'
         /\ erased' \subseteq Node
         /\ parent' \in [Node -> Node \cup {NULL}]
         /\ \A x \in Node : parent'[x] \in (IF x \in Op THEN Block ELSE IF x \in Block THEN Region ELSE Op)
                                            \cup {NULL}
<1> DEFINE C == Contents(n)
<1>1. /\ n \in C /\ C \subseteq Live
      /\ \A x \in C : x # n => parent[x] \in C /\ x \notin torn
  BY ContentsFacts
<1>2. parent' = [x \in Node |-> IF x \in C THEN NULL ELSE parent[x]] /\ erased' = erased \cup C
  BY DEF DropAllReferences
<1> HIDE DEF C
<1>3. C \subseteq Node
  BY <1>1 DEF Live
<1>4. Acyclic'
  BY <1>2, <1>3, Orphan
<1>5. ErasedOrphans'
  BY <1>2, <1>3 DEF ErasedOrphans, TypeOK
<1>6. TornKept'
  BY <1>1, <1>2 DEF TornKept, TypeOK, Node
<1>7. erased' \subseteq Node /\ parent' \in [Node -> Node \cup {NULL}]
      /\ \A x \in Node : parent'[x] \in (IF x \in Op THEN Block ELSE IF x \in Block THEN Region ELSE Op)
                                            \cup {NULL}
  BY <1>2, <1>3 DEF TypeOK
<1>8. ASSUME NEW r \in LiveRegion'
      PROVE  /\ IsInjective(blocks'[r])
             /\ \A b \in Block : b \in ToSet(blocks'[r]) <=> parent'[b] = r /\ b \notin torn'
             /\ ToSet(blocks'[r]) \cap erased' = {}
  <2>1. r \in LiveRegion /\ r \notin C /\ r \in Region /\ r # NULL
    BY <1>2, NodeKinds DEF LiveRegion, Node
  <2>2. /\ ToSet(blocks'[r]) = ToSet(blocks[r]) \ {n} /\ IsInjective(blocks'[r])
        /\ \A b \in Block : b \in ToSet(blocks[r]) <=> parent[b] = r /\ b \notin torn
        /\ ToSet(blocks[r]) \cap erased = {}
    BY <2>1 DEF OwnershipInv
  <2>3. ToSet(blocks[r]) \subseteq Block
    BY <2>1, LenProperties DEF TypeOK, ToSet
  <2>4. \A b \in Block : b \in C /\ b # n => parent[b] # r
    BY <1>1, <2>1
  <2>5. \A b \in Block : parent'[b] = IF b \in C THEN NULL ELSE parent[b]
    BY <1>2 DEF Node
  <2> QED  BY <1>1, <1>2, <2>1, <2>2, <2>3, <2>4, <2>5
<1>9. ASSUME NEW o \in LiveOp'
      PROVE  /\ IsInjective(regions'[o])
             /\ \A r \in Region : r \in ToSet(regions'[o]) <=> parent'[r] = o
             /\ ToSet(regions'[o]) \cap erased' = {}
  <2>1. o \in LiveOp /\ o \notin C /\ o \in Op /\ o # NULL
    BY <1>2, NodeKinds DEF LiveOp, Node
  <2>2. /\ IsInjective(regions[o]) /\ regions' = regions
        /\ \A r \in Region : r \in ToSet(regions[o]) <=> parent[r] = o
        /\ ToSet(regions[o]) \cap erased = {}
    BY <2>1 DEF OwnershipInv
  <2>3. ToSet(regions[o]) \subseteq Region
    BY <2>1, LenProperties DEF TypeOK, ToSet
  <2>4. \A r \in Region : r \in C => parent[r] # o
    BY <1>1, <2>1
  <2>5. \A r \in Region : parent'[r] = IF r \in C THEN NULL ELSE parent[r]
    BY <1>2 DEF Node
  <2> QED  BY <1>2, <2>1, <2>2, <2>3, <2>4, <2>5
<1>10. OwnershipInv'
  BY <1>8, <1>9 DEF OwnershipInv
<1> QED  BY <1>4, <1>5, <1>6, <1>7, <1>10

\* C takes operations together with their blocks, o itself excepted.
WholeBlocks(C, o) == \A x \in Op : x # o /\ parent[x] # NULL => (x \in C <=> parent[x] \in C)

\* What drop_all_references reaches holds all or none of a block's operations, apart from the node it starts at.
LEMMA ContentsWholeBlocks ==
  ASSUME TypeOK, ErasedOrphans, OwnershipInv, NEW n \in Live
  PROVE  WholeBlocks(Contents(n), n)
<1>1. SUFFICES ASSUME NEW x \in Op, x # n, parent[x] # NULL
      PROVE  x \in Contents(n) <=> parent[x] \in Contents(n)
  BY DEF WholeBlocks
<1>2. x \in Contents(n) => parent[x] \in Contents(n)
  BY <1>1, ContentsFacts
<1>3. parent[x] \in Block /\ parent[x] \notin Op /\ parent[x] \notin Region
  BY <1>1, NodeKinds DEF TypeOK, Node
<1>4. x \in Children(parent[x])
  BY <1>3 DEF Children
<1>5. parent[x] \in Contents(n) => x \in Contents(n)
  BY <1>4, ContentsFacts
<1> QED  BY <1>2, <1>5

\* Block.detach_op and Block.erase_op take o out of its list; erase_op also drops
\* C, everything below o.
TakesOut(b, o, C) ==
  /\ parent[o] = b /\ Unlink(b, o)
  /\ WholeBlocks(C, o) /\ (C = {} \/ o \in C)
  /\ \A x \in Op : parent'[x] = IF x \in C \cup {o} THEN NULL ELSE parent[x]
  /\ erased' = erased \cup C

LEMMA TakeOut ==
  ASSUME TypeOK, LinkInv, VisitsAll, NEW b \in LiveBlock, NEW o \in LiveOp, NEW C, TakesOut(b, o, C)
  PROVE  LinkInv' /\ VisitsAll'
         /\ nextOp' \in [Op -> Op \cup {NULL}] /\ prevOp' \in [Op -> Op \cup {NULL}]
         /\ firstOp' \in [Block -> Op \cup {NULL}] /\ lastOp' \in [Block -> Op \cup {NULL}]
<1> USE DEF TakesOut
<1> DEFINE p == prevOp[o]
           q == nextOp[o]
<1>t. LinkTypes
  BY TypesOfLinks
<1>1. /\ b \in Block /\ b # NULL /\ b \notin erased /\ o \in Op /\ o \notin erased /\ o # NULL
      /\ p \in Op \cup {NULL} /\ q \in Op \cup {NULL}
  BY <1>t DEF LiveBlock, LiveOp, LinkTypes
<1>2. /\ nextOp' = [x \in Op |-> IF x = p THEN q ELSE IF x = o THEN NULL ELSE nextOp[x]]
      /\ prevOp' = [x \in Op |-> IF x = q THEN p ELSE IF x = o THEN NULL ELSE prevOp[x]]
      /\ firstOp' = [c \in Block |-> IF c = b /\ p = NULL THEN q ELSE firstOp[c]]
      /\ lastOp' = [c \in Block |-> IF c = b /\ q = NULL THEN p ELSE lastOp[c]]
  BY <1>1 DEF Unlink, TypeOK
<1>3. /\ nextOp' \in [Op -> Op \cup {NULL}] /\ prevOp' \in [Op -> Op \cup {NULL}]
      /\ firstOp' \in [Block -> Op \cup {NULL}] /\ lastOp' \in [Block -> Op \cup {NULL}]
  BY <1>1, <1>2 DEF TypeOK
<1>4. /\ \A x \in Op : /\ nextOp'[x] = IF x = p THEN q ELSE IF x = o THEN NULL ELSE nextOp[x]
                       /\ prevOp'[x] = IF x = q THEN p ELSE IF x = o THEN NULL ELSE prevOp[x]
      /\ \A c \in Block : /\ firstOp'[c] = IF c = b /\ p = NULL THEN q ELSE firstOp[c]
                          /\ lastOp'[c] = IF c = b /\ q = NULL THEN p ELSE lastOp[c]
  BY <1>2
<1>5. DetachedUnlinked /\ LinksMatch /\ EndsMatch
  BY DEF LinkInv
<1>6. /\ p # NULL => p \in LiveOp /\ parent[p] = b /\ nextOp[p] = o
      /\ q # NULL => q \in LiveOp /\ parent[q] = b /\ prevOp[q] = o
      /\ p = NULL <=> firstOp[b] = o
      /\ q = NULL <=> lastOp[b] = o
      /\ \A x \in LiveOp : (nextOp[x] = o => x = p) /\ (prevOp[x] = o => x = q)
  BY <1>1, <1>5 DEF LinksMatch, EndsMatch, LiveOp
<1>7. \A c \in Block : c # b => /\ firstOp'[c] = firstOp[c]
                                /\ lastOp'[c] = lastOp[c]
  BY <1>4
<1>8. \A c \in LiveBlock : /\ firstOp[c] # NULL => firstOp[c] \in LiveOp
                           /\ lastOp[c] # NULL => lastOp[c] \in LiveOp
  BY <1>5, <1>t DEF EndsMatch, LiveOp, LiveBlock, LinkTypes
<1>s. /\ Spans(LiveOp, Members(b), firstOp[b], nextOp)
      /\ Spans(LiveOp, Members(b), lastOp[b], prevOp)
  BY DEF VisitsAll
<1> HIDE DEF p, q
<1>9. p # o /\ q # o
  <2>1. o \in Members(b) /\ firstOp[b] \in LiveOp \cup {NULL} /\ lastOp[b] \in LiveOp \cup {NULL}
    BY <1>8 DEF Members
  <2>2. ASSUME p = o PROVE FALSE
    <3> DEFINE U == LiveOp \ {o}
    <3>1. \A x \in U : nextOp[x] # NULL => nextOp[x] \in U
      BY <1>6, <2>2, LinksStay
    <3>2. U \in SUBSET LiveOp /\ (firstOp[b] # NULL => firstOp[b] \in U)
      BY <1>1, <1>6, <2>1, <2>2
    <3> HIDE DEF U
    <3>3. Members(b) \subseteq U
      BY <1>s, <3>1, <3>2 DEF Spans
    <3> QED  BY <2>1, <3>3 DEF U
  <2>3. ASSUME q = o PROVE FALSE
    BY <1>1, <1>6, <2>2, <2>3 DEF p
  <2> QED  BY <2>2, <2>3
<1>10. LinkInv'
  <2> USE <1>1, <1>4, <1>5, <1>6, <1>9, <1>t DEF LiveOp, LinkTypes, WholeBlocks
  <2>1. DetachedUnlinked'
    BY DEF DetachedUnlinked, LinksMatch
  <2>2. LinksMatch'
    BY DEF DetachedUnlinked, LinksMatch
  <2>3. EndsMatch'
    BY DEF DetachedUnlinked, LinksMatch, EndsMatch, LiveBlock
  <2> QED  BY <2>1, <2>2, <2>3 DEF LinkInv
<1>11. VisitsAll'
  <2>1. LiveOp' \subseteq LiveOp /\ LiveBlock' \subseteq LiveBlock /\ LiveBlock \subseteq Block
    BY DEF LiveOp, LiveBlock
  <2>2. ASSUME b \in LiveBlock'
        PROVE  /\ Members(b)' = Members(b) \ {o}
               /\ Spans(LiveOp', Members(b)', firstOp'[b], nextOp')
               /\ Spans(LiveOp', Members(b)', lastOp'[b], prevOp')
    <3>0. b \notin C
      BY <2>2 DEF LiveBlock
    <3>1. Members(b)' = Members(b) \ {o}
      BY <1>1, <3>0 DEF Members, LiveOp, WholeBlocks
    <3>2. Members(b) \ {o} \subseteq LiveOp'
      BY <3>1 DEF Members
    <3>3. o \in Members(b) /\ (p # NULL => p \in Members(b)) /\ (q # NULL => q \in Members(b))
      BY <1>6 DEF Members
    <3>4. /\ firstOp'[b] = (IF p = NULL THEN q ELSE firstOp[b])
          /\ lastOp'[b] = (IF q = NULL THEN p ELSE lastOp[b])
          /\ \A x \in Members(b) : x # o => /\ nextOp'[x] = IF x = p THEN q ELSE nextOp[x]
                                            /\ prevOp'[x] = IF x = q THEN p ELSE prevOp[x]
      BY <1>1, <1>4 DEF Members, LiveOp
    <3>5. nextOp[o] = q /\ prevOp[o] = p
      BY DEF p, q
    <3>6. Cut(LiveOp, LiveOp', Members(b), firstOp[b], firstOp'[b], nextOp, nextOp', o, p, q)
      BY <1>6, <1>8, <2>1, <3>2, <3>3, <3>4, <3>5, LinksStay DEF Cut
    <3>7. Cut(LiveOp, LiveOp', Members(b), lastOp[b], lastOp'[b], prevOp, prevOp', o, q, p)
      BY <1>6, <1>8, <2>1, <3>2, <3>3, <3>4, <3>5, LinksStay DEF Cut
    <3> QED  BY <1>s, <3>1, <3>6, <3>7, SpansCut
  <2>3. ASSUME NEW c \in LiveBlock', c # b
        PROVE  /\ Spans(LiveOp', Members(c)', firstOp'[c], nextOp')
               /\ Spans(LiveOp', Members(c)', lastOp'[c], prevOp')
    <3>0. c \in LiveBlock /\ c \in Block /\ c \notin C /\ c # NULL
      BY <2>1, <1>t DEF LiveBlock, LinkTypes
    <3>1. Members(c)' = Members(c)
      BY <2>3, <3>0 DEF Members, LiveOp, WholeBlocks
    <3>2. Members(c) \subseteq LiveOp'
      BY <3>1 DEF Members
    <3>3. \A x \in Members(c) : nextOp'[x] = nextOp[x] /\ prevOp'[x] = prevOp[x]
      BY <1>1, <1>4, <1>6, <1>t, <2>3 DEF Members, LiveOp, LinkTypes
    <3>4. Spans(LiveOp, Members(c), firstOp[c], nextOp) /\ Spans(LiveOp, Members(c), lastOp[c], prevOp)
      BY <3>0 DEF VisitsAll
    <3>5. Kept(LiveOp, LiveOp', Members(c), nextOp, nextOp')
          /\ Kept(LiveOp, LiveOp', Members(c), prevOp, prevOp')
      BY <2>1, <3>2, <3>3, LinksStay DEF Kept
    <3>6. Spans(LiveOp', Members(c), firstOp[c], nextOp') /\ Spans(LiveOp', Members(c), lastOp[c], prevOp')
      BY <3>4, <3>5, SpansKept
    <3>7. firstOp'[c] = firstOp[c] /\ lastOp'[c] = lastOp[c]
      BY <1>7, <2>3, <3>0
    <3> QED  BY <3>1, <3>6, <3>7
  <2>4. SUFFICES ASSUME NEW c \in LiveBlock'
        PROVE  /\ Spans(LiveOp', Members(c)', firstOp'[c], nextOp')
               /\ Spans(LiveOp', Members(c)', lastOp'[c], prevOp')
    BY DEF VisitsAll, Spans
  <2> QED  BY <2>2, <2>3, <2>4
<1> QED  BY <1>3, <1>10, <1>11

\* Block.detach_op preserves the inductive invariant.
LEMMA DetachOpStep ==
  ASSUME IInv, NEW b \in LiveBlock, NEW o \in LiveOp, DetachOp(b, o)
  PROVE  IInv'
<1> USE DEF IInv
<1>1. /\ parent[o] = b /\ Unlink(b, o) /\ parent' = [parent EXCEPT ![o] = NULL]
      /\ UNCHANGED <<blocks, regions, erased, torn>> /\ o \in Op
  BY DEF DetachOp, ghosts, LiveOp
<1>2. parent' = [x \in Node |-> IF x \in {o} THEN NULL ELSE parent[x]] /\ {o} \in SUBSET Node
  BY <1>1 DEF TypeOK, Node
<1>3. Acyclic'
  BY <1>2, Orphan
<1>4. \A x \in Block \cup Region : parent'[x] = parent[x]
  BY <1>1, <1>2, NodeKinds DEF Node
<1>5. OwnershipInv' /\ TornKept'
  BY <1>1, <1>4, KeepsOwnership
<1>6. ErasedOrphans'
  BY <1>1, <1>2 DEF ErasedOrphans, TypeOK
<1>7. /\ WholeBlocks({}, o)
      /\ \A x \in Op : parent'[x] = IF x \in {} \cup {o} THEN NULL ELSE parent[x]
      /\ erased' = erased \cup {}
  BY <1>1, <1>2 DEF WholeBlocks, Node
<1>8. /\ LinkInv' /\ VisitsAll'
      /\ nextOp' \in [Op -> Op \cup {NULL}] /\ prevOp' \in [Op -> Op \cup {NULL}]
      /\ firstOp' \in [Block -> Op \cup {NULL}] /\ lastOp' \in [Block -> Op \cup {NULL}]
  BY <1>1, <1>7, TakeOut DEF TakesOut
<1>9. TypeOK'
  BY <1>1, <1>2, <1>8 DEF TypeOK
<1> QED  BY <1>3, <1>5, <1>6, <1>8, <1>9

\* Block.erase_op preserves the inductive invariant.
LEMMA EraseOpStep ==
  ASSUME IInv, NEW b \in LiveBlock, NEW o \in LiveOp, EraseOp(b, o)
  PROVE  IInv'
<1> USE DEF IInv
<1>1. /\ parent[o] = b /\ Unlink(b, o) /\ DropAllReferences(o)
      /\ UNCHANGED <<blocks, regions, torn>>
  BY DEF EraseOp
<1>2. o \in Live /\ o \in Op /\ o \notin Region /\ o \notin Block /\ o \notin torn
  BY NodeKinds DEF LiveOp, Live, Node, TypeOK
<1>3. \A r \in LiveRegion : ToSet(blocks'[r]) = ToSet(blocks[r]) \ {o} /\ IsInjective(blocks'[r])
  <2> SUFFICES ASSUME NEW r \in LiveRegion
      PROVE  ToSet(blocks'[r]) = ToSet(blocks[r]) \ {o} /\ IsInjective(blocks'[r])
    OBVIOUS
  <2>1. ToSet(blocks[r]) \subseteq Block
    BY LenProperties DEF TypeOK, ToSet, LiveRegion
  <2> QED  BY <1>1, <1>2, <2>1 DEF OwnershipInv
<1>4. /\ ErasedOrphans' /\ TornKept' /\ OwnershipInv' /\ Acyclic' /\ erased' \subseteq Node
      /\ parent' \in [Node -> Node \cup {NULL}]
      /\ \A x \in Node : parent'[x] \in (IF x \in Op THEN Block ELSE IF x \in Block THEN Region ELSE Op)
                                         \cup {NULL}
  BY <1>1, <1>2, <1>3, DropKeeps
<1> DEFINE C == Contents(o)
<1>5. WholeBlocks(C, o) /\ o \in C
  BY <1>2, ContentsWholeBlocks, ContentsFacts
<1>6. parent' = [x \in Node |-> IF x \in C THEN NULL ELSE parent[x]] /\ erased' = erased \cup C
  BY <1>1 DEF DropAllReferences
<1> HIDE DEF C
<1>7. \A x \in Op : parent'[x] = IF x \in C \cup {o} THEN NULL ELSE parent[x]
  BY <1>5, <1>6 DEF Node
<1>8. /\ LinkInv' /\ VisitsAll'
      /\ nextOp' \in [Op -> Op \cup {NULL}] /\ prevOp' \in [Op -> Op \cup {NULL}]
      /\ firstOp' \in [Block -> Op \cup {NULL}] /\ lastOp' \in [Block -> Op \cup {NULL}]
  BY <1>1, <1>5, <1>6, <1>7, TakeOut DEF TakesOut
<1>9. TypeOK'
  BY <1>1, <1>4, <1>8 DEF TypeOK
<1> QED  BY <1>4, <1>8, <1>9

\* Dropping a node that is no operation of a block leaves the other lists alone.
LEMMA DropLinks ==
  ASSUME TypeOK, LinkInv, VisitsAll, NEW n, n \in Op => parent[n] = NULL,
         NEW C, WholeBlocks(C, n),
         \A x \in Op : parent'[x] = IF x \in C THEN NULL ELSE parent[x],
         erased' = erased \cup C, UNCHANGED <<nextOp, prevOp, firstOp, lastOp>>
  PROVE  LinkInv' /\ VisitsAll'
<1>t. LinkTypes
  BY TypesOfLinks
<1>1. DetachedUnlinked /\ LinksMatch /\ EndsMatch
  BY DEF LinkInv
<1>2. LinkInv'
  <2> USE <1>1, <1>t DEF LiveOp, LinkTypes, WholeBlocks
  <2>1. DetachedUnlinked'
    BY DEF DetachedUnlinked, LinksMatch
  <2>2. LinksMatch'
    BY DEF DetachedUnlinked, LinksMatch
  <2>3. EndsMatch'
    BY DEF DetachedUnlinked, LinksMatch, EndsMatch, LiveBlock
  <2> QED  BY <2>1, <2>2, <2>3 DEF LinkInv
<1>3. VisitsAll'
  <2>1. LiveOp' \subseteq LiveOp /\ LiveBlock' \subseteq LiveBlock /\ LiveBlock \subseteq Block
    BY DEF LiveOp, LiveBlock
  <2>2. ASSUME NEW c \in LiveBlock'
        PROVE  /\ Spans(LiveOp', Members(c)', firstOp[c], nextOp)
               /\ Spans(LiveOp', Members(c)', lastOp[c], prevOp)
    <3>0. c \in LiveBlock /\ c \in Block /\ c \notin C /\ c # NULL
      BY <2>1, <1>t DEF LiveBlock, LinkTypes
    <3>1. Members(c)' = Members(c)
      BY <3>0 DEF Members, LiveOp, WholeBlocks
    <3>2. Members(c) \subseteq LiveOp'
      BY <3>1 DEF Members
    <3>3. Spans(LiveOp, Members(c), firstOp[c], nextOp) /\ Spans(LiveOp, Members(c), lastOp[c], prevOp)
      BY <3>0 DEF VisitsAll
    <3>4. Kept(LiveOp, LiveOp', Members(c), nextOp, nextOp)
          /\ Kept(LiveOp, LiveOp', Members(c), prevOp, prevOp)
      BY <2>1, <3>2, LinksStay DEF Kept
    <3>5. Spans(LiveOp', Members(c), firstOp[c], nextOp) /\ Spans(LiveOp', Members(c), lastOp[c], prevOp)
      BY <3>3, <3>4, SpansKept
    <3> QED  BY <3>1, <3>5
  <2>3. SUFFICES ASSUME NEW c \in LiveBlock'
        PROVE  /\ Spans(LiveOp', Members(c)', firstOp'[c], nextOp')
               /\ Spans(LiveOp', Members(c)', lastOp'[c], prevOp')
    BY DEF VisitsAll, Spans
  <2> QED  BY <2>2, <2>3
<1> QED  BY <1>2, <1>3

\* Operation.erase and Block.erase of a detached node preserve the inductive invariant.
LEMMA EraseDetachedStep ==
  ASSUME IInv, NEW n \in LiveOp \cup LiveBlock, EraseDetached(n)
  PROVE  IInv'
<1> USE DEF IInv
<1>1. /\ parent[n] = NULL /\ DropAllReferences(n)
      /\ UNCHANGED <<nextOp, prevOp, firstOp, lastOp, blocks, regions, torn>>
  BY DEF EraseDetached, links
<1>2. n \in Live /\ n \notin Region /\ n \notin torn
  BY <1>1, NodeKinds DEF LiveOp, LiveBlock, Live, Node, TypeOK, TornKept
<1>3. \A r \in LiveRegion : ToSet(blocks'[r]) = ToSet(blocks[r]) \ {n} /\ IsInjective(blocks'[r])
  <2> SUFFICES ASSUME NEW r \in LiveRegion
      PROVE  ToSet(blocks'[r]) = ToSet(blocks[r]) \ {n} /\ IsInjective(blocks'[r])
    OBVIOUS
  <2>1. ToSet(blocks[r]) \subseteq Block /\ r # NULL
    BY LenProperties, NodeKinds DEF TypeOK, ToSet, LiveRegion, Node
  <2>2. n \notin ToSet(blocks[r])
    BY <1>1, <2>1 DEF OwnershipInv
  <2> QED  BY <1>1, <2>2 DEF OwnershipInv
<1>4. /\ ErasedOrphans' /\ TornKept' /\ OwnershipInv' /\ Acyclic' /\ erased' \subseteq Node
      /\ parent' \in [Node -> Node \cup {NULL}]
      /\ \A x \in Node : parent'[x] \in (IF x \in Op THEN Block ELSE IF x \in Block THEN Region ELSE Op)
                                         \cup {NULL}
  BY <1>1, <1>2, <1>3, DropKeeps
<1> DEFINE C == Contents(n)
<1>5. WholeBlocks(C, n)
  BY <1>2, ContentsWholeBlocks
<1>6. parent' = [x \in Node |-> IF x \in C THEN NULL ELSE parent[x]] /\ erased' = erased \cup C
  BY <1>1 DEF DropAllReferences
<1> HIDE DEF C
<1>7. \A x \in Op : parent'[x] = IF x \in C THEN NULL ELSE parent[x]
  BY <1>6 DEF Node
<1>8. LinkInv' /\ VisitsAll'
  BY <1>1, <1>5, <1>6, <1>7, DropLinks
<1>9. TypeOK'
  BY <1>1, <1>4 DEF TypeOK
<1> QED  BY <1>4, <1>8, <1>9

\* Region.erase_block preserves the inductive invariant.
LEMMA EraseBlockStep ==
  ASSUME IInv, NEW r \in LiveRegion, NEW b \in LiveBlock, EraseBlock(r, b)
  PROVE  IInv'
<1> USE DEF IInv
<1>1. /\ DropAllReferences(b)
      /\ UNCHANGED <<nextOp, prevOp, firstOp, lastOp, regions, torn>>
  BY DEF EraseBlock, links
<1>2. PICK i \in DOMAIN blocks[r] : /\ blocks[r][i] = b
                                    /\ blocks' = [blocks EXCEPT ![r] = RemoveAt(blocks[r], i)]
  BY DEF EraseBlock, RemoveBlock
<1>3. b \in Live /\ b \in Block /\ b \notin Op /\ b \notin Region /\ r \in Region
  BY NodeKinds DEF LiveBlock, LiveRegion, Live, Node
<1>4. blocks[r] \in Seq(Block) /\ IsInjective(blocks[r]) /\ b \in ToSet(blocks[r])
  BY <1>2, <1>3 DEF TypeOK, OwnershipInv, ToSet
<1>5. b \notin torn
  BY <1>3, <1>4 DEF OwnershipInv
<1>6. /\ RemoveAt(blocks[r], i) \in Seq(Block) /\ IsInjective(RemoveAt(blocks[r], i))
      /\ ToSet(RemoveAt(blocks[r], i)) = ToSet(blocks[r]) \ {b}
  BY <1>2, <1>4, RemoveList
<1>7. blocks' \in [Region -> Seq(Block)] /\ blocks'[r] = RemoveAt(blocks[r], i)
      /\ \A s \in Region : s # r => blocks'[s] = blocks[s]
  BY <1>2, <1>3, <1>6 DEF TypeOK
<1>8. \A s \in LiveRegion : ToSet(blocks'[s]) = ToSet(blocks[s]) \ {b} /\ IsInjective(blocks'[s])
  <2> SUFFICES ASSUME NEW s \in LiveRegion, s # r
      PROVE  ToSet(blocks'[s]) = ToSet(blocks[s]) \ {b} /\ IsInjective(blocks'[s])
    BY <1>6, <1>7
  <2>1. b \notin ToSet(blocks[s])
    BY <1>3, <1>4 DEF OwnershipInv
  <2> QED  BY <1>7, <2>1 DEF OwnershipInv, LiveRegion
<1>9. /\ ErasedOrphans' /\ TornKept' /\ OwnershipInv' /\ Acyclic' /\ erased' \subseteq Node
      /\ parent' \in [Node -> Node \cup {NULL}]
      /\ \A x \in Node : parent'[x] \in (IF x \in Op THEN Block ELSE IF x \in Block THEN Region ELSE Op)
                                         \cup {NULL}
  BY <1>1, <1>3, <1>5, <1>8, DropKeeps
<1> DEFINE C == Contents(b)
<1>10. WholeBlocks(C, b)
  BY <1>3, ContentsWholeBlocks
<1>11. parent' = [x \in Node |-> IF x \in C THEN NULL ELSE parent[x]] /\ erased' = erased \cup C
  BY <1>1 DEF DropAllReferences
<1> HIDE DEF C
<1>12. \A x \in Op : parent'[x] = IF x \in C THEN NULL ELSE parent[x]
  BY <1>11 DEF Node
<1>13. LinkInv' /\ VisitsAll'
  BY <1>1, <1>3, <1>10, <1>11, <1>12, DropLinks
<1>14. TypeOK'
  BY <1>1, <1>7, <1>9 DEF TypeOK
<1> QED  BY <1>9, <1>13, <1>14

----------------------------------------------------------------------------
(* Inlining a block. *)

\* The operations of b end up between the neighbours p and n of block d.
LEMMA SpliceStep ==
  ASSUME IInv, NEW b \in LiveBlock, NEW d \in LiveBlock, NEW p, NEW n,
         Adjacent(d, p, n), Splice(b, d, p, n)
  PROVE  IInv'
<1> USE DEF IInv
<1> DEFINE M == {x \in Op : parent[x] = b}
           fb == firstOp[b]
           lb == lastOp[b]
<1>t. LinkTypes
  BY TypesOfLinks
<1>1. /\ ~IsAncestor(b, d) /\ fb # NULL
      /\ parent' = [x \in Node |-> IF x \in M THEN d ELSE parent[x]]
      /\ nextOp' = [x \in Op |-> IF x = p THEN fb ELSE IF x = lb THEN n ELSE nextOp[x]]
      /\ prevOp' = [x \in Op |-> IF x = n THEN lb ELSE IF x = fb THEN p ELSE prevOp[x]]
      /\ firstOp' = [firstOp EXCEPT ![b] = NULL, ![d] = IF p = NULL THEN fb ELSE firstOp[d]]
      /\ lastOp' = [lastOp EXCEPT ![b] = NULL, ![d] = IF n = NULL THEN lb ELSE lastOp[d]]
      /\ UNCHANGED <<blocks, regions, erased, torn>>
  <2>1. b # d
    BY DEF Splice, IsAncestor
  <2> QED  BY <2>1 DEF Splice, ghosts
<1>2. /\ b \in Block /\ d \in Block /\ b # NULL /\ d # NULL /\ b \notin erased /\ d \notin erased
      /\ p \in Op \cup {NULL} /\ n \in Op \cup {NULL} /\ b \in Node /\ d \in Node
  BY <1>t DEF LiveBlock, LiveOp, LinkTypes, Adjacent, Node
<1>3. b # d
  BY <1>1 DEF IsAncestor
<1>4. /\ fb \in Op /\ lb \in Op /\ parent[fb] = b /\ parent[lb] = b /\ fb \notin erased /\ lb \notin erased
      /\ prevOp[fb] = NULL /\ nextOp[lb] = NULL
  BY <1>1, <1>2, <1>t DEF LinkInv, EndsMatch, LinkTypes, LiveBlock, LiveOp
<1>5. Acyclic'
  <2>1. M \in SUBSET Node
    BY DEF Node
  <2>2. \A m \in M : ~IsAncestor(m, d)
    <3>1. SUFFICES ASSUME NEW m \in M, m \in Ancestors(d) PROVE FALSE
      BY DEF Ancestors, Node
    <3>2. b \in Ancestors(d)
      BY <1>2, <3>1, AncestorFacts DEF UpClosed
    <3> QED  BY <1>1, <3>2 DEF Ancestors
  <2> HIDE DEF M
  <2> QED  BY <1>1, <1>2, <2>1, <2>2, Reparent
<1>6. /\ \A x \in Op : parent'[x] = IF parent[x] = b THEN d ELSE parent[x]
      /\ \A x \in Block \cup Region : parent'[x] = parent[x]
  BY <1>1, NodeKinds DEF Node
<1>7. OwnershipInv' /\ TornKept'
  BY <1>1, <1>6, KeepsOwnership
<1>8. ErasedOrphans'
  BY <1>1, <1>2 DEF ErasedOrphans, TypeOK
<1>9. TypeOK'
  <2>1. nextOp' \in [Op -> Op \cup {NULL}] /\ prevOp' \in [Op -> Op \cup {NULL}]
    BY <1>1, <1>2, <1>4 DEF TypeOK
  <2>2. firstOp' \in [Block -> Op \cup {NULL}] /\ lastOp' \in [Block -> Op \cup {NULL}]
    BY <1>1, <1>2, <1>4 DEF TypeOK
  <2>3. /\ parent' \in [Node -> Node \cup {NULL}]
        /\ \A x \in Node : parent'[x] \in (IF x \in Op THEN Block ELSE IF x \in Block THEN Region ELSE Op)
                                           \cup {NULL}
    BY <1>1, <1>2 DEF TypeOK
  <2> QED  BY <1>1, <2>1, <2>2, <2>3 DEF TypeOK
<1>10. /\ \A x \in Op : /\ nextOp'[x] = IF x = p THEN fb ELSE IF x = lb THEN n ELSE nextOp[x]
                        /\ prevOp'[x] = IF x = n THEN lb ELSE IF x = fb THEN p ELSE prevOp[x]
       /\ \A c \in Block : /\ firstOp'[c] = IF c = b THEN NULL
                                            ELSE IF c = d /\ p = NULL THEN fb ELSE firstOp[c]
                           /\ lastOp'[c] = IF c = b THEN NULL
                                           ELSE IF c = d /\ n = NULL THEN lb ELSE lastOp[c]
  BY <1>1, <1>2, <1>3 DEF TypeOK
<1>x. DetachedUnlinked /\ LinksMatch /\ EndsMatch /\ erased' = erased
  BY <1>1 DEF LinkInv
<1>y. /\ p # NULL => p \in Op /\ p \notin erased /\ parent[p] = d /\ nextOp[p] = n
      /\ n # NULL => n \in Op /\ n \notin erased /\ parent[n] = d /\ prevOp[n] = p
      /\ p = NULL => firstOp[d] = n
      /\ n = NULL => lastOp[d] = p
  BY DEF Adjacent, LiveOp
<1>z. firstOp[b] = fb /\ lastOp[b] = lb
  OBVIOUS
<1> HIDE DEF M, fb, lb
<1>11. LinkInv'
  <2> USE <1>2, <1>3, <1>4, <1>6, <1>10, <1>t, <1>x, <1>y, <1>z DEF LiveOp, LinkTypes
  <2>1. DetachedUnlinked'
    BY DEF DetachedUnlinked, LinksMatch
  <2>2. LinksMatch'
    BY DEF DetachedUnlinked, LinksMatch
  <2>3. EndsMatch'
    BY DEF DetachedUnlinked, LinksMatch, EndsMatch, LiveBlock
  <2> QED  BY <2>1, <2>2, <2>3 DEF LinkInv
<1>12. VisitsAll'
  <2>1. LiveOp' = LiveOp /\ LiveBlock' = LiveBlock
    BY <1>x DEF LiveOp, LiveBlock
  <2>2. Members(b)' = {} /\ Members(d)' = Members(d) \cup Members(b)
    BY <1>2, <1>3, <1>6, <1>x DEF Members, LiveOp
  <2>3. \A c \in LiveBlock : Spans(LiveOp, Members(c), firstOp[c], nextOp)
                             /\ Spans(LiveOp, Members(c), lastOp[c], prevOp)
    BY DEF VisitsAll
  <2>4. /\ Members(d) \cap Members(b) = {} /\ fb \in Members(b) /\ lb \in Members(b)
        /\ (p # NULL => p \in Members(d)) /\ (n # NULL => n \in Members(d))
    BY <1>3, <1>4, <1>y DEF Members, LiveOp
  <2>5. /\ firstOp'[d] = (IF p = NULL THEN fb ELSE firstOp[d])
        /\ lastOp'[d] = (IF n = NULL THEN lb ELSE lastOp[d])
        /\ \A x \in LiveOp : /\ nextOp'[x] = IF x = p THEN fb ELSE IF x = lb THEN n ELSE nextOp[x]
                             /\ prevOp'[x] = IF x = n THEN lb ELSE IF x = fb THEN p ELSE prevOp[x]
    BY <1>2, <1>3, <1>10 DEF LiveOp
  <2>6. Spans(LiveOp, Members(d) \cup Members(b), firstOp'[d], nextOp')
    <3>1. Joined(LiveOp, Members(d), Members(b), firstOp[d], firstOp'[d], nextOp, nextOp', fb, lb, p, n)
      BY <1>4, <1>y, <2>4, <2>5, LinksStay DEF Joined
    <3> QED  BY <1>z, <2>3, <3>1, SpansJoin
  <2>7. Spans(LiveOp, Members(d) \cup Members(b), lastOp'[d], prevOp')
    <3>1. Joined(LiveOp, Members(d), Members(b), lastOp[d], lastOp'[d], prevOp, prevOp', lb, fb, n, p)
      BY <1>4, <1>y, <2>4, <2>5, LinksStay DEF Joined
    <3> QED  BY <1>z, <2>3, <3>1, SpansJoin
  <2>8. Spans(LiveOp, {}, firstOp'[b], nextOp') /\ Spans(LiveOp, {}, lastOp'[b], prevOp')
    BY DEF Spans
  <2>9. ASSUME NEW c \in LiveBlock, c # b, c # d
        PROVE  /\ Spans(LiveOp, Members(c)', firstOp'[c], nextOp')
               /\ Spans(LiveOp, Members(c)', lastOp'[c], prevOp')
    <3>0. c \in Block /\ c # NULL
      BY <1>t DEF LiveBlock, LinkTypes
    <3>1. Members(c)' = Members(c)
      BY <1>6, <1>x, <2>9 DEF Members, LiveOp
    <3>2. firstOp'[c] = firstOp[c] /\ lastOp'[c] = lastOp[c]
      BY <1>10, <2>9, <3>0
    <3>3. \A x \in Members(c) : nextOp'[x] = nextOp[x] /\ prevOp'[x] = prevOp[x]
      BY <1>4, <1>y, <1>t, <2>5, <2>9 DEF Members, LiveOp, LinkTypes
    <3>4. Kept(LiveOp, LiveOp, Members(c), nextOp, nextOp')
          /\ Kept(LiveOp, LiveOp, Members(c), prevOp, prevOp')
      BY <3>3, LinksStay DEF Kept
    <3>5. Spans(LiveOp, Members(c), firstOp[c], nextOp') /\ Spans(LiveOp, Members(c), lastOp[c], prevOp')
      BY <2>3, <3>4, SpansKept
    <3> QED  BY <3>1, <3>2, <3>5
  <2>10. SUFFICES ASSUME NEW c \in LiveBlock
         PROVE  /\ Spans(LiveOp', Members(c)', firstOp'[c], nextOp')
                /\ Spans(LiveOp', Members(c)', lastOp'[c], prevOp')
    BY <2>1 DEF VisitsAll, Spans
  <2> QED  BY <2>1, <2>2, <2>6, <2>7, <2>8, <2>9
<1> QED  BY <1>5, <1>7, <1>8, <1>9, <1>11, <1>12

\* inline_block_at_end, _at_start, _before and _after.
Inlines(b) ==
  \/ \E d \in LiveBlock : InlineBlockAtEnd(b, d) \/ InlineBlockAtStart(b, d)
  \/ \E o \in LiveOp : InlineBlockBefore(b, o) \/ InlineBlockAfter(b, o)

\* They all put the operations between two neighbours of a block.
LEMMA InlinesBetween ==
  ASSUME IInv, NEW b \in LiveBlock, Inlines(b)
  PROVE  \E d \in LiveBlock : \E p, n : Adjacent(d, p, n) /\ Splice(b, d, p, n)
<1> DEFINE Spliced == \E d \in LiveBlock : \E p, n : Adjacent(d, p, n) /\ Splice(b, d, p, n)
<1>1. TypeOK /\ LinkTypes /\ LinksMatch /\ EndsMatch
  BY TypesOfLinks DEF IInv, LinkInv
<1>2. \A d \in LiveBlock : Adjacent(d, lastOp[d], NULL)
  BY <1>1 DEF Adjacent, LinkTypes, EndsMatch, LiveBlock, LiveOp
<1>3. \A o \in LiveOp : parent[o] # NULL => /\ parent[o] \in LiveBlock
                                            /\ Adjacent(parent[o], prevOp[o], o)
                                            /\ Adjacent(parent[o], o, nextOp[o])
  BY <1>1 DEF Adjacent, LinkTypes, LinksMatch, EndsMatch, LiveBlock, LiveOp
<1>4. ASSUME NEW d \in LiveBlock, InlineBlockAtEnd(b, d) PROVE Spliced
  BY <1>2, <1>4 DEF InlineBlockAtEnd
<1>5. ASSUME NEW o \in LiveOp, InlineBlockBefore(b, o) PROVE Spliced
  BY <1>3, <1>5 DEF InlineBlockBefore
<1>6. ASSUME NEW o \in LiveOp, InlineBlockAfter(b, o) PROVE Spliced
  BY <1>3, <1>6 DEF InlineBlockAfter
<1>7. \A d \in LiveBlock : firstOp[d] # NULL => firstOp[d] \in LiveOp
  BY <1>1 DEF LinkTypes, EndsMatch, LiveBlock, LiveOp
<1>8. ASSUME NEW d \in LiveBlock, InlineBlockAtStart(b, d) PROVE Spliced
  BY <1>4, <1>5, <1>7, <1>8 DEF InlineBlockAtStart
<1> QED  BY <1>4, <1>5, <1>6, <1>8 DEF Inlines

----------------------------------------------------------------------------
(* Steps on block lists and region lists: they leave operation lists alone. *)

LEMMA KeepsTraversal ==
  ASSUME VisitsAll, UNCHANGED <<nextOp, prevOp, firstOp, lastOp, erased>>,
         \A x \in Op : parent'[x] = parent[x]
  PROVE  VisitsAll'
<1>1. LiveOp' = LiveOp /\ LiveBlock' = LiveBlock
  BY DEF LiveOp, LiveBlock
<1>2. \A c \in LiveBlock : Members(c)' = Members(c)
  BY DEF Members, LiveOp
<1>3. SUFFICES ASSUME NEW c \in LiveBlock
      PROVE  /\ Spans(LiveOp', Members(c)', firstOp'[c], nextOp')
             /\ Spans(LiveOp', Members(c)', lastOp'[c], prevOp')
  BY <1>1 DEF VisitsAll, Spans
<1> QED  BY <1>1, <1>2 DEF VisitsAll

\* M is the set of blocks or regions that get a new parent h, NULL if they are
\* detached.
NewParents(M, h) ==
  /\ \/ M \subseteq Block /\ h \in Region \cup {NULL}
     \/ M \subseteq Region /\ h \in Op \cup {NULL}
  /\ M \cap erased = {}
  /\ h # NULL => \A m \in M : ~IsAncestor(m, h)
  /\ parent' = [x \in Node |-> IF x \in M THEN h ELSE parent[x]]

\* What any such step has to show.
LEMMA ListStep ==
  ASSUME IInv, UNCHANGED <<nextOp, prevOp, firstOp, lastOp, erased>>,
         NEW M, NEW h, NewParents(M, h),
         blocks' \in [Region -> Seq(Block)], regions' \in [Op -> Seq(Region)], torn' \subseteq Block,
         OwnershipInv', TornKept'
  PROVE  IInv'
<1> USE DEF IInv, NewParents
<1>1. M \in SUBSET Node /\ M \cap Op = {} /\ h \in Node \cup {NULL}
  BY NodeKinds DEF Node
<1>2. \A x \in Op : parent'[x] = parent[x]
  BY <1>1 DEF Node
<1>3. LinkInv'
  BY <1>2, KeepsLinks
<1>4. VisitsAll'
  BY <1>2, KeepsTraversal
<1>5. Acyclic'
  <2>1. CASE h = NULL
    BY <1>1, <2>1, Orphan
  <2>2. CASE h # NULL
    <3>1. h \in Node
      BY <1>1, <2>2
    <3> QED  BY <1>1, <2>2, <3>1, Reparent
  <2> QED  BY <2>1, <2>2
<1>6. ErasedOrphans'
  BY DEF ErasedOrphans, TypeOK
<1>7. TypeOK'
  <2>1. parent' \in [Node -> Node \cup {NULL}]
    BY <1>1 DEF TypeOK
  <2>2. ASSUME NEW x \in Node
        PROVE  parent'[x] \in (IF x \in Op THEN Block ELSE IF x \in Block THEN Region ELSE Op) \cup {NULL}
    <3>1. CASE x \in M
      <4>1. parent'[x] = h
        BY <3>1
      <4> QED  BY <3>1, <4>1, NodeKinds
    <3>2. CASE x \notin M
      <4>1. parent'[x] = parent[x]
        BY <3>2
      <4> QED  BY <4>1 DEF TypeOK
    <3> QED  BY <3>1, <3>2
  <2> QED  BY <2>1, <2>2 DEF TypeOK
<1> QED  BY <1>3, <1>4, <1>5, <1>6, <1>7

\* The parts of OwnershipInv, for one region and for one operation.
OwnsBlocks(r) ==
  /\ IsInjective(blocks[r])
  /\ \A b \in Block : b \in ToSet(blocks[r]) <=> parent[b] = r /\ b \notin torn
  /\ ToSet(blocks[r]) \cap erased = {}

OwnsRegions(o) ==
  /\ IsInjective(regions[o])
  /\ \A r \in Region : r \in ToSet(regions[o]) <=> parent[r] = o
  /\ ToSet(regions[o]) \cap erased = {}

\* The parts of the ownership invariant, one by one.
LEMMA OwnershipParts ==
  /\ OwnershipInv <=> (\A r \in LiveRegion : OwnsBlocks(r)) /\ (\A o \in LiveOp : OwnsRegions(o))
  /\ OwnershipInv' <=> (\A r \in LiveRegion' : OwnsBlocks(r)') /\ (\A o \in LiveOp' : OwnsRegions(o)')
<1>1. OwnershipInv <=> (\A r \in LiveRegion : OwnsBlocks(r)) /\ (\A o \in LiveOp : OwnsRegions(o))
  BY DEF OwnershipInv, OwnsBlocks, OwnsRegions
<1>2. OwnershipInv' <=> (\A r \in LiveRegion' : OwnsBlocks(r)') /\ (\A o \in LiveOp' : OwnsRegions(o)')
  BY DEF OwnershipInv, OwnsBlocks, OwnsRegions
<1> QED  BY <1>1, <1>2

\* Operation.add_region preserves the inductive invariant.
LEMMA AddRegionStep ==
  ASSUME IInv, NEW o \in LiveOp, NEW r \in LiveRegion, AddRegion(o, r)
  PROVE  IInv'
<1> USE DEF IInv
<1>1. /\ parent[r] = NULL /\ parent[o] = NULL
      /\ regions' = [regions EXCEPT ![o] = Append(regions[o], r)]
      /\ parent' = [parent EXCEPT ![r] = o]
      /\ UNCHANGED <<nextOp, prevOp, firstOp, lastOp, blocks, erased, torn>>
  BY DEF AddRegion, links, ghosts
<1>2. o \in Op /\ r \in Region /\ o \notin erased /\ r \notin erased /\ o # NULL /\ r \notin Block
      /\ o \in Node /\ r \in Node
  BY NodeKinds DEF LiveOp, LiveRegion, Node
<1>3. parent' = [x \in Node |-> IF x \in {r} THEN o ELSE parent[x]]
  BY <1>1, <1>2 DEF TypeOK
<1>4. ~IsAncestor(r, o)
  <2>1. UpClosed({o})
    BY <1>1 DEF UpClosed
  <2>2. r # o /\ {o} \in SUBSET Node
    BY <1>2, NodeKinds
  <2> QED  BY <2>1, <2>2 DEF IsAncestor
<1>5. /\ regions[o] \in Seq(Region) /\ IsInjective(regions[o]) /\ r \notin ToSet(regions[o])
      /\ ToSet(regions[o]) \cap erased = {}
  BY <1>1, <1>2 DEF OwnershipInv, TypeOK, LiveOp
<1>6. /\ Append(regions[o], r) \in Seq(Region) /\ IsInjective(Append(regions[o], r))
      /\ ToSet(Append(regions[o], r)) = ToSet(regions[o]) \cup {r}
  BY <1>2, <1>5, AppendList
<1>7. /\ regions' \in [Op -> Seq(Region)] /\ regions'[o] = Append(regions[o], r)
      /\ \A x \in Op : x # o => regions'[x] = regions[x]
  BY <1>1, <1>2, <1>6 DEF TypeOK
<1>8. /\ \A b \in Block : parent'[b] = parent[b]
      /\ \A x \in Region : parent'[x] = IF x = r THEN o ELSE parent[x]
  BY <1>2, <1>3 DEF Node
<1>9. OwnershipInv'
  <2>1. ASSUME NEW x \in LiveOp' PROVE OwnsRegions(x)'
    <3>1. x \in LiveOp /\ x \in Op /\ OwnsRegions(x) /\ x # NULL
      BY <1>1, OwnershipParts, NodeKinds DEF LiveOp, Node
    <3>2. CASE x = o
      BY <1>1, <1>2, <1>5, <1>6, <1>7, <1>8, <3>1, <3>2 DEF OwnsRegions
    <3>3. CASE x # o
      BY <1>1, <1>2, <1>7, <1>8, <3>1, <3>3 DEF OwnsRegions
    <3> QED  BY <3>2, <3>3
  <2>2. ASSUME NEW x \in LiveRegion' PROVE OwnsBlocks(x)'
    <3>1. OwnsBlocks(x)
      BY <1>1, OwnershipParts DEF LiveRegion
    <3> QED  BY <1>1, <1>8, <3>1 DEF OwnsBlocks
  <2> QED  BY <2>1, <2>2, OwnershipParts
<1>10. TornKept' /\ blocks' \in [Region -> Seq(Block)] /\ torn' \subseteq Block
  BY <1>1, <1>8 DEF TornKept, TypeOK
<1>11. NewParents({r}, o)
  BY <1>2, <1>3, <1>4 DEF NewParents
<1> QED  BY <1>1, <1>7, <1>9, <1>10, <1>11, ListStep

\* Operation.detach_region preserves the inductive invariant.
LEMMA DetachRegionStep ==
  ASSUME IInv, NEW o \in LiveOp, NEW r \in LiveRegion, DetachRegion(o, r)
  PROVE  IInv'
<1> USE DEF IInv
<1>1. /\ parent[r] = o /\ parent' = [parent EXCEPT ![r] = NULL]
      /\ UNCHANGED <<nextOp, prevOp, firstOp, lastOp, blocks, erased, torn>>
  BY DEF DetachRegion, links, ghosts
<1>2. PICK i \in DOMAIN regions[o] : /\ regions[o][i] = r
                                     /\ regions' = [regions EXCEPT ![o] = RemoveAt(regions[o], i)]
  BY DEF DetachRegion
<1>3. o \in Op /\ r \in Region /\ o \notin erased /\ r \notin erased /\ o # NULL /\ r \notin Block
      /\ r \in Node
  BY NodeKinds DEF LiveOp, LiveRegion, Node
<1>4. parent' = [x \in Node |-> IF x \in {r} THEN NULL ELSE parent[x]]
  BY <1>1, <1>3 DEF TypeOK
<1>5. regions[o] \in Seq(Region) /\ IsInjective(regions[o])
  BY <1>3 DEF OwnershipInv, TypeOK, LiveOp
<1>6. /\ RemoveAt(regions[o], i) \in Seq(Region) /\ IsInjective(RemoveAt(regions[o], i))
      /\ ToSet(RemoveAt(regions[o], i)) = ToSet(regions[o]) \ {r}
  BY <1>2, <1>5, RemoveList
<1>7. /\ regions' \in [Op -> Seq(Region)] /\ regions'[o] = RemoveAt(regions[o], i)
      /\ \A x \in Op : x # o => regions'[x] = regions[x]
  BY <1>2, <1>3, <1>6 DEF TypeOK
<1>8. /\ \A b \in Block : parent'[b] = parent[b]
      /\ \A x \in Region : parent'[x] = IF x = r THEN NULL ELSE parent[x]
  BY <1>3, <1>4 DEF Node
<1>9. OwnershipInv'
  <2>1. ASSUME NEW x \in LiveOp' PROVE OwnsRegions(x)'
    <3>1. x \in LiveOp /\ x \in Op /\ OwnsRegions(x) /\ x # NULL
      BY <1>1, OwnershipParts, NodeKinds DEF LiveOp, Node
    <3>2. CASE x = o
      BY <1>1, <1>3, <1>6, <1>7, <1>8, <3>1, <3>2 DEF OwnsRegions
    <3>3. CASE x # o
      BY <1>1, <1>3, <1>7, <1>8, <3>1, <3>3 DEF OwnsRegions
    <3> QED  BY <3>2, <3>3
  <2>2. ASSUME NEW x \in LiveRegion' PROVE OwnsBlocks(x)'
    <3>1. OwnsBlocks(x)
      BY <1>1, OwnershipParts DEF LiveRegion
    <3> QED  BY <1>1, <1>8, <3>1 DEF OwnsBlocks
  <2> QED  BY <2>1, <2>2, OwnershipParts
<1>10. TornKept' /\ blocks' \in [Region -> Seq(Block)] /\ torn' \subseteq Block
  BY <1>1, <1>8 DEF TornKept, TypeOK
<1>11. NewParents({r}, NULL)
  BY <1>3, <1>4 DEF NewParents
<1> QED  BY <1>1, <1>7, <1>9, <1>10, <1>11, ListStep

\* Steps on block lists leave region lists alone.
LEMMA BlockListStep ==
  ASSUME IInv, UNCHANGED <<nextOp, prevOp, firstOp, lastOp, regions, erased>>,
         NEW M, M \subseteq Block, NEW h, NewParents(M, h),
         blocks' \in [Region -> Seq(Block)], torn' \subseteq Block,
         \A r \in LiveRegion : OwnsBlocks(r)', TornKept'
  PROVE  IInv'
<1> USE DEF IInv
<1>1. \A x \in Region : parent'[x] = parent[x]
  BY NodeKinds DEF NewParents, Node
<1>2. \A x \in LiveOp' : OwnsRegions(x)'
  <2> SUFFICES ASSUME NEW x \in LiveOp' PROVE OwnsRegions(x)'
    OBVIOUS
  <2>1. OwnsRegions(x)
    BY OwnershipParts DEF LiveOp
  <2> QED  BY <1>1, <2>1 DEF OwnsRegions
<1>3. LiveRegion' = LiveRegion
  BY DEF LiveRegion
<1>4. OwnershipInv'
  BY <1>2, <1>3, OwnershipParts
<1>5. regions' \in [Op -> Seq(Region)]
  BY DEF TypeOK
<1> QED  BY <1>4, <1>5, ListStep

\* Region.insert_block preserves the inductive invariant.
LEMMA InsertBlocksStep ==
  ASSUME IInv, NEW r \in LiveRegion, NEW bs \in Seq(Block), ToSet(bs) \subseteq LiveBlock,
         NEW i, InsertBlocks(r, bs, i)
  PROVE  IInv'
<1> USE DEF IInv
<1> DEFINE B == ToSet(bs)
           w == SubSeq(blocks[r], 1, i) \o bs \o SubSeq(blocks[r], i + 1, Len(blocks[r]))
<1>1. /\ i \in 0..Len(blocks[r])
      /\ \A k \in DOMAIN bs : CanAttachNth(r, bs, k)
      /\ parent' = [x \in Node |-> IF x \in B THEN r ELSE parent[x]]
      /\ blocks' = [blocks EXCEPT ![r] = w]
      /\ UNCHANGED <<nextOp, prevOp, firstOp, lastOp, regions, erased, torn>>
  BY DEF InsertBlocks, links, ghosts
<1>2. r \in Region /\ r # NULL /\ r \in Node /\ r \notin erased
  BY NodeKinds DEF LiveRegion, Node
<1>3. B \subseteq Block /\ B \cap erased = {} /\ \A b \in B : parent[b] = NULL /\ ~IsAncestor(b, r)
  BY <1>1 DEF LiveBlock, ToSet, CanAttachNth, CanAttach
<1>4. IsInjective(bs)
  <2>1. DOMAIN bs = 1..Len(bs) /\ Len(bs) \in Nat
    BY LenProperties
  <2>2. ASSUME NEW j \in DOMAIN bs, NEW k \in DOMAIN bs, j < k PROVE bs[j] # bs[k]
    <3>1. j \in 1..(k - 1)
      BY <2>1, <2>2
    <3>2. bs[j] \in Before(bs, k)
      BY <3>1 DEF Before
    <3> QED  BY <1>1, <3>2 DEF CanAttachNth
  <2>3. SUFFICES ASSUME NEW j \in DOMAIN bs, NEW k \in DOMAIN bs, bs[j] = bs[k] PROVE j = k
    BY DEF IsInjective
  <2>4. j < k \/ k < j \/ j = k
    BY <2>1
  <2> QED  BY <2>2, <2>3, <2>4
<1>5. blocks[r] \in Seq(Block) /\ OwnsBlocks(r)
  BY <1>2, OwnershipParts DEF TypeOK
<1>6. ToSet(blocks[r]) \cap B = {}
  BY <1>2, <1>3, <1>5 DEF OwnsBlocks
<1>7. /\ w \in Seq(Block) /\ ToSet(w) = ToSet(blocks[r]) \cup B /\ IsInjective(w)
  BY <1>1, <1>4, <1>5, <1>6, InsertList DEF OwnsBlocks
<1> HIDE DEF w, B
<1>8. /\ blocks' \in [Region -> Seq(Block)] /\ blocks'[r] = w
      /\ \A x \in Region : x # r => blocks'[x] = blocks[x]
  BY <1>1, <1>2, <1>7 DEF TypeOK
<1>9. \A b \in Block : parent'[b] = IF b \in B THEN r ELSE parent[b]
  BY <1>1 DEF Node
<1>10. \A b \in B : b \notin torn
  BY <1>3 DEF TornKept
<1>11. ASSUME NEW x \in LiveRegion PROVE OwnsBlocks(x)'
  <2>1. x \in Region /\ x # NULL /\ OwnsBlocks(x)
    BY OwnershipParts, NodeKinds DEF LiveRegion, Node
  <2>2. CASE x = r
    BY <1>1, <1>3, <1>7, <1>8, <1>9, <1>10, <2>1, <2>2 DEF OwnsBlocks
  <2>3. CASE x # r
    BY <1>1, <1>3, <1>8, <1>9, <2>1, <2>3 DEF OwnsBlocks
  <2> QED  BY <2>2, <2>3
<1>12. TornKept' /\ torn' \subseteq Block
  BY <1>1, <1>2, <1>9 DEF TornKept, TypeOK
<1>13. NewParents(B, r)
  BY <1>1, <1>2, <1>3 DEF NewParents
<1> QED  BY <1>1, <1>3, <1>8, <1>11, <1>12, <1>13, BlockListStep

\* A failed insert_block: the blocks before the offending one are torn.
LEMMA InsertBlocksRaisesStep ==
  ASSUME IInv, NEW r \in LiveRegion, NEW bs \in Seq(Block), ToSet(bs) \subseteq LiveBlock,
         NEW k, InsertBlocksRaises(r, bs, k)
  PROVE  IInv'
<1> USE DEF IInv
<1> DEFINE B == Before(bs, k)
<1>1. /\ k \in DOMAIN bs
      /\ \A j \in 1..(k - 1) : CanAttachNth(r, bs, j)
      /\ parent' = [x \in Node |-> IF x \in B THEN r ELSE parent[x]]
      /\ torn' = torn \cup B
      /\ UNCHANGED <<nextOp, prevOp, firstOp, lastOp, blocks, regions, erased>>
  BY DEF InsertBlocksRaises, links
<1>2. r \in Region /\ r # NULL /\ r \in Node /\ r \notin erased
  BY NodeKinds DEF LiveRegion, Node
<1>3. B \subseteq ToSet(bs)
  <2>1. DOMAIN bs = 1..Len(bs) /\ Len(bs) \in Nat
    BY LenProperties
  <2> QED  BY <1>1, <2>1 DEF Before, ToSet
<1>4. B \subseteq Block /\ B \cap erased = {} /\ \A b \in B : parent[b] = NULL /\ ~IsAncestor(b, r)
  BY <1>1, <1>3 DEF LiveBlock, Before, CanAttachNth, CanAttach
<1> HIDE DEF B
<1>5. \A b \in Block : parent'[b] = IF b \in B THEN r ELSE parent[b]
  BY <1>1 DEF Node
<1>6. ASSUME NEW x \in LiveRegion PROVE OwnsBlocks(x)'
  <2>1. x \in Region /\ x # NULL /\ OwnsBlocks(x)
    BY OwnershipParts, NodeKinds DEF LiveRegion, Node
  <2> QED  BY <1>1, <1>4, <1>5, <2>1 DEF OwnsBlocks
<1>7. TornKept' /\ torn' \subseteq Block /\ blocks' \in [Region -> Seq(Block)]
  BY <1>1, <1>2, <1>4, <1>5 DEF TornKept, TypeOK
<1>8. NewParents(B, r)
  BY <1>1, <1>2, <1>4 DEF NewParents
<1> QED  BY <1>1, <1>4, <1>6, <1>7, <1>8, BlockListStep

\* Region.add_block preserves the inductive invariant.
LEMMA AddBlockStep ==
  ASSUME IInv, NEW r \in LiveRegion, NEW b \in LiveBlock, AddBlock(r, b)
  PROVE  IInv'
<1> USE DEF IInv
<1>1. /\ parent[b] = NULL /\ ~IsAncestor(b, r)
      /\ parent' = [parent EXCEPT ![b] = r]
      /\ blocks' = [blocks EXCEPT ![r] = Append(blocks[r], b)]
      /\ UNCHANGED <<nextOp, prevOp, firstOp, lastOp, regions, erased, torn>>
  BY DEF AddBlock, CanAttach, links, ghosts
<1>2. r \in Region /\ r # NULL /\ r \in Node /\ r \notin erased /\ b \in Block /\ b \in Node /\ b \notin erased
  BY NodeKinds DEF LiveRegion, LiveBlock, Node
<1>3. blocks[r] \in Seq(Block) /\ OwnsBlocks(r) /\ b \notin ToSet(blocks[r]) /\ b \notin torn
  BY <1>1, <1>2, OwnershipParts DEF TypeOK, OwnsBlocks, TornKept
<1>4. /\ Append(blocks[r], b) \in Seq(Block) /\ IsInjective(Append(blocks[r], b))
      /\ ToSet(Append(blocks[r], b)) = ToSet(blocks[r]) \cup {b}
  BY <1>2, <1>3, AppendList DEF OwnsBlocks
<1>5. /\ blocks' \in [Region -> Seq(Block)] /\ blocks'[r] = Append(blocks[r], b)
      /\ \A x \in Region : x # r => blocks'[x] = blocks[x]
  BY <1>1, <1>2, <1>4 DEF TypeOK
<1>6. parent' = [x \in Node |-> IF x \in {b} THEN r ELSE parent[x]]
  BY <1>1, <1>2 DEF TypeOK
<1>7. \A c \in Block : parent'[c] = IF c = b THEN r ELSE parent[c]
  BY <1>6 DEF Node
<1>8. ASSUME NEW x \in LiveRegion PROVE OwnsBlocks(x)'
  <2>1. x \in Region /\ x # NULL /\ OwnsBlocks(x)
    BY OwnershipParts, NodeKinds DEF LiveRegion, Node
  <2>2. CASE x = r
    BY <1>1, <1>2, <1>3, <1>4, <1>5, <1>7, <2>1, <2>2 DEF OwnsBlocks
  <2>3. CASE x # r
    BY <1>1, <1>5, <1>7, <2>1, <2>3 DEF OwnsBlocks
  <2> QED  BY <2>2, <2>3
<1>9. TornKept' /\ torn' \subseteq Block
  BY <1>1, <1>2, <1>7 DEF TornKept, TypeOK
<1>10. NewParents({b}, r) /\ {b} \subseteq Block
  BY <1>1, <1>2, <1>6 DEF NewParents
<1> QED  BY <1>1, <1>5, <1>8, <1>9, <1>10, BlockListStep

\* Region.detach_block preserves the inductive invariant.
LEMMA DetachBlockStep ==
  ASSUME IInv, NEW r \in LiveRegion, NEW b \in LiveBlock, DetachBlock(r, b)
  PROVE  IInv'
<1> USE DEF IInv
<1>1. /\ parent[b] = r /\ parent' = [parent EXCEPT ![b] = NULL]
      /\ UNCHANGED <<nextOp, prevOp, firstOp, lastOp, regions, erased, torn>>
  BY DEF DetachBlock, links, ghosts
<1>2. PICK i \in DOMAIN blocks[r] : /\ blocks[r][i] = b
                                    /\ blocks' = [blocks EXCEPT ![r] = RemoveAt(blocks[r], i)]
  BY DEF DetachBlock, RemoveBlock
<1>3. r \in Region /\ r # NULL /\ b \in Block /\ b \in Node /\ b \notin erased
  BY NodeKinds DEF LiveRegion, LiveBlock, Node
<1>4. blocks[r] \in Seq(Block) /\ OwnsBlocks(r) /\ b \in ToSet(blocks[r])
  BY <1>2, <1>3, OwnershipParts DEF TypeOK, ToSet
<1>5. b \notin torn /\ IsInjective(blocks[r])
  BY <1>3, <1>4 DEF OwnsBlocks
<1>6. /\ RemoveAt(blocks[r], i) \in Seq(Block) /\ IsInjective(RemoveAt(blocks[r], i))
      /\ ToSet(RemoveAt(blocks[r], i)) = ToSet(blocks[r]) \ {b}
  BY <1>2, <1>4, <1>5, RemoveList
<1>7. /\ blocks' \in [Region -> Seq(Block)] /\ blocks'[r] = RemoveAt(blocks[r], i)
      /\ \A x \in Region : x # r => blocks'[x] = blocks[x]
  BY <1>2, <1>3, <1>6 DEF TypeOK
<1>8. parent' = [x \in Node |-> IF x \in {b} THEN NULL ELSE parent[x]]
  BY <1>1, <1>3 DEF TypeOK
<1>9. \A c \in Block : parent'[c] = IF c = b THEN NULL ELSE parent[c]
  BY <1>8 DEF Node
<1>10. ASSUME NEW x \in LiveRegion PROVE OwnsBlocks(x)'
  <2>1. x \in Region /\ x # NULL /\ OwnsBlocks(x)
    BY OwnershipParts, NodeKinds DEF LiveRegion, Node
  <2>2. CASE x = r
    BY <1>1, <1>3, <1>6, <1>7, <1>9, <2>1, <2>2 DEF OwnsBlocks
  <2>3. CASE x # r
    BY <1>1, <1>7, <1>9, <2>1, <2>3 DEF OwnsBlocks
  <2> QED  BY <2>2, <2>3
<1>11. TornKept' /\ torn' \subseteq Block
  BY <1>1, <1>5, <1>9 DEF TornKept, TypeOK
<1>12. NewParents({b}, NULL) /\ {b} \subseteq Block
  BY <1>3, <1>8 DEF NewParents
<1> QED  BY <1>1, <1>7, <1>10, <1>11, <1>12, BlockListStep

\* move_blocks into an empty region d that is not inside r.
LEMMA MoveBlocksStep ==
  ASSUME IInv, NEW r \in LiveRegion, NEW d \in LiveRegion, blocks[d] = <<>>, ~IsAncestor(r, d),
         MoveBlockList(r, d)
  PROVE  IInv'
<1> USE DEF IInv
<1> DEFINE B == ToSet(blocks[r])
<1>0. r # d
  BY DEF IsAncestor
<1>1. /\ blocks' = [blocks EXCEPT ![r] = <<>>, ![d] = blocks[r]]
      /\ parent' = [x \in Node |-> IF x \in B THEN d ELSE parent[x]]
      /\ UNCHANGED <<nextOp, prevOp, firstOp, lastOp, regions, erased, torn>>
  BY DEF MoveBlockList, links, ghosts
<1>2. /\ r \in Region /\ d \in Region /\ d # NULL /\ d \in Node /\ r # NULL
      /\ OwnsBlocks(r) /\ OwnsBlocks(d) /\ blocks[r] \in Seq(Block)
  BY NodeKinds, OwnershipParts DEF LiveRegion, Node, TypeOK
<1>3. B \subseteq Block /\ B \cap erased = {} /\ \A b \in B : parent[b] = r /\ b \notin torn
  <2>1. B \subseteq Block
    BY <1>2, LenProperties DEF ToSet
  <2> QED  BY <1>2, <2>1 DEF OwnsBlocks
<1>4. ToSet(<<>>) = {} /\ IsInjective(<<>>) /\ <<>> \in Seq(Block)
  BY DEF ToSet, IsInjective
<1>5. \A m \in B : ~IsAncestor(m, d)
  <2>1. SUFFICES ASSUME NEW m \in B, m \in Ancestors(d) PROVE FALSE
    BY <1>3 DEF Ancestors, Node
  <2>2. parent[m] = r /\ r \in Ancestors(d)
    BY <1>2, <1>3, <2>1, AncestorFacts DEF UpClosed
  <2> QED  BY <2>2 DEF Ancestors
<1>6. /\ blocks' \in [Region -> Seq(Block)] /\ blocks'[r] = <<>> /\ blocks'[d] = blocks[r]
      /\ \A x \in Region : x # r /\ x # d => blocks'[x] = blocks[x]
  BY <1>0, <1>1, <1>2, <1>4 DEF TypeOK
<1> HIDE DEF B
<1>7. \A c \in Block : parent'[c] = IF c \in B THEN d ELSE parent[c]
  BY <1>1 DEF Node
<1>8. ASSUME NEW x \in LiveRegion PROVE OwnsBlocks(x)'
  <2>1. x \in Region /\ x # NULL /\ OwnsBlocks(x)
    BY OwnershipParts, NodeKinds DEF LiveRegion, Node
  <2>2. CASE x = r
    BY <1>0, <1>1, <1>2, <1>4, <1>6, <1>7, <2>1, <2>2 DEF OwnsBlocks, B
  <2>3. CASE x = d
    BY <1>0, <1>1, <1>2, <1>3, <1>4, <1>6, <1>7, <2>1, <2>3 DEF OwnsBlocks, B
  <2>4. CASE x # r /\ x # d
    BY <1>1, <1>3, <1>6, <1>7, <2>1, <2>4 DEF OwnsBlocks
  <2> QED  BY <2>2, <2>3, <2>4
<1>9. TornKept' /\ torn' \subseteq Block
  BY <1>1, <1>2, <1>7 DEF TornKept, TypeOK
<1>10. NewParents(B, d)
  BY <1>1, <1>2, <1>3, <1>5 DEF NewParents
<1> QED  BY <1>1, <1>3, <1>6, <1>8, <1>9, <1>10, BlockListStep

----------------------------------------------------------------------------
(* The invariant holds in the initial state and every call preserves it. *)

LEMMA InitIInv == Init => IInv
<1> SUFFICES ASSUME Init PROVE IInv
  OBVIOUS
<1> USE NodeKinds DEF Init
<1>1. TypeOK
  BY DEF TypeOK
<1>2. ErasedOrphans /\ TornKept /\ Acyclic
  BY DEF ErasedOrphans, TornKept, Acyclic
<1>3. OwnershipInv
  BY DEF OwnershipInv, LiveRegion, LiveOp, ToSet, IsInjective, Node
<1>4. LinkInv
  BY DEF LinkInv, DetachedUnlinked, LinksMatch, EndsMatch, LiveOp, LiveBlock, Node
<1>5. VisitsAll
  BY DEF VisitsAll, Spans, Members, LiveOp, LiveBlock, Node
<1> QED  BY <1>1, <1>2, <1>3, <1>4, <1>5 DEF IInv

\* insert_block gets one live block or a list of live blocks.
LEMMA BlockListsFacts ==
  ASSUME NEW bs \in BlockLists
  PROVE  bs \in Seq(Block) /\ ToSet(bs) \subseteq LiveBlock
<1>1. CASE bs \in {<<b>> : b \in LiveBlock}
  <2>1. PICK b \in LiveBlock : bs = <<b>>
    BY <1>1
  <2>2. bs \in Seq(Block)
    BY <2>1 DEF LiveBlock
  <2>3. DOMAIN bs = {1} /\ bs[1] = b
    BY <2>1
  <2>4. ToSet(bs) = {b}
    BY <2>3 DEF ToSet
  <2> QED  BY <2>2, <2>4
<1>2. CASE bs \in LiveBlock \X LiveBlock
  <2>1. PICK a \in LiveBlock, b \in LiveBlock : bs = <<a, b>>
    BY <1>2
  <2>2. bs \in Seq(Block)
    BY <2>1 DEF LiveBlock
  <2>3. DOMAIN bs = {1, 2} /\ bs[1] = a /\ bs[2] = b
    BY <2>1
  <2>4. ToSet(bs) = {a, b}
    BY <2>3 DEF ToSet
  <2> QED  BY <2>2, <2>4
<1> QED  BY <1>1, <1>2 DEF BlockLists

\* Every call on operation lists preserves the inductive invariant.
LEMMA NextOpsIInv ==
  ASSUME IInv, NextOps
  PROVE  IInv'
<1>1. ASSUME NEW b \in LiveBlock, NEW o \in LiveOp, Inserts(b, o) PROVE IInv'
  BY <1>1, InsertsBetween, InsertBetween
<1>2. ASSUME NEW b \in LiveBlock, NEW o \in LiveOp, DetachOp(b, o) PROVE IInv'
  BY <1>2, DetachOpStep
<1>3. ASSUME NEW b \in LiveBlock, NEW o \in LiveOp, EraseOp(b, o) PROVE IInv'
  BY <1>3, EraseOpStep
<1>4. ASSUME NEW b \in LiveBlock, Inlines(b) PROVE IInv'
  BY <1>4, InlinesBetween, SpliceStep
<1>5. ASSUME NEW n \in LiveOp \cup LiveBlock, EraseDetached(n) PROVE IInv'
  BY <1>5, EraseDetachedStep
<1> QED  BY <1>1, <1>2, <1>3, <1>4, <1>5 DEF NextOps, Inserts, Inlines

\* Every call on block and region lists preserves the inductive invariant.
LEMMA NextRegionsIInv ==
  ASSUME IInv, NextRegions
  PROVE  IInv'
<1>1. ASSUME NEW o \in LiveOp, NEW r \in LiveRegion, AddRegion(o, r) \/ DetachRegion(o, r)
      PROVE  IInv'
  BY <1>1, AddRegionStep, DetachRegionStep
<1>2. ASSUME NEW r \in LiveRegion, NEW b \in LiveBlock,
             AddBlock(r, b) \/ DetachBlock(r, b) \/ EraseBlock(r, b)
      PROVE  IInv'
  BY <1>2, AddBlockStep, DetachBlockStep, EraseBlockStep
<1>3. ASSUME NEW r \in LiveRegion, NEW bs \in BlockLists, NEW i, InsertBlocks(r, bs, i) PROVE IInv'
  BY <1>3, BlockListsFacts, InsertBlocksStep
<1>4. ASSUME NEW r \in LiveRegion, NEW bs \in BlockLists, NEW k, InsertBlocksRaises(r, bs, k)
      PROVE  IInv'
  BY <1>4, BlockListsFacts, InsertBlocksRaisesStep
<1>5. ASSUME NEW r \in LiveRegion, NEW d \in LiveRegion, MoveBlocks(r, d) PROVE IInv'
  BY <1>5, MoveBlocksStep DEF MoveBlocks
<1>6. ASSUME NEW r \in LiveRegion, NEW d \in LiveRegion, MoveRegionContents(r, d) PROVE IInv'
  <2>1. parent[d] = NULL /\ blocks[d] = <<>> /\ r # d /\ MoveBlockList(r, d)
    BY <1>6 DEF MoveRegionContents
  <2>2. UpClosed({d}) /\ {d} \in SUBSET Node /\ r \notin {d}
    BY <2>1 DEF UpClosed, LiveRegion, Node
  <2>3. ~IsAncestor(r, d)
    BY <2>2 DEF IsAncestor
  <2> QED  BY <2>1, <2>3, MoveBlocksStep
<1> QED  BY <1>1, <1>2, <1>3, <1>4, <1>5, <1>6 DEF NextRegions

\* Every step preserves the inductive invariant.
LEMMA NextIInv == IInv /\ [Next]_vars => IInv'
<1> SUFFICES ASSUME IInv, [Next]_vars PROVE IInv'
  OBVIOUS
<1>1. CASE Next
  BY <1>1, NextOpsIInv, NextRegionsIInv DEF Next
<1>2. CASE UNCHANGED vars
  <2> USE <1>2 DEF vars
  <2>1. TypeOK' /\ ErasedOrphans' /\ TornKept'
    BY DEF IInv, TypeOK, ErasedOrphans, TornKept
  <2>2. OwnershipInv'
    BY KeepsOwnership DEF IInv
  <2>3. LinkInv' /\ VisitsAll'
    BY KeepsLinks, KeepsTraversal DEF IInv
  <2>4. Acyclic'
    BY DEF IInv, Acyclic, IsAncestor, UpClosed
  <2> QED  BY <2>1, <2>2, <2>3, <2>4 DEF IInv
<1> QED  BY <1>1, <1>2

\* Every reachable state satisfies the inductive invariant.
THEOREM Structure == Spec => []IInv
BY InitIInv, NextIInv, PTL DEF Spec

\* The fields of every node hold what their Python annotations say.
THEOREM TypeCorrect == Spec => []TypeOK
<1>1. IInv => TypeOK
  BY DEF IInv
<1> QED  BY <1>1, Structure, PTL

\* Whatever sequence of calls built the IR, the doubly linked list of each block
\* is well formed: the assertions of Block.detach_op never fail.
THEOREM ListsWellFormed == Spec => []LinkInv
<1>1. IInv => LinkInv
  BY DEF IInv
<1> QED  BY <1>1, Structure, PTL

\* Iterating over a block in either direction visits all of its operations.
THEOREM TraversalComplete == Spec => []VisitsAll
<1>1. IInv => VisitsAll
  BY DEF IInv
<1> QED  BY <1>1, Structure, PTL

\* Block lists and region lists agree with the parent pointers.
THEOREM OwnershipConsistent == Spec => []OwnershipInv
<1>1. IInv => OwnershipInv
  BY DEF IInv
<1> QED  BY <1>1, Structure, PTL

\* No operation, block or region ever contains itself.
THEOREM NoCycle == Spec => []Acyclic
<1>1. IInv => Acyclic
  BY DEF IInv
<1> QED  BY <1>1, Structure, PTL

----------------------------------------------------------------------------
(* The pointers of IRTree implement the sequences of BlockSeqs.  The       *)
(* operations of a live block form a chain, a sequence whose elements      *)
(* _next_op links from _first_op on; a chain is what the iterator yields   *)
(* (AllLists); and each call turns the chains into the sequences that the  *)
(* abstract call yields (the lemmas ...Simulated).                         *)

\* The i-th element of s, NULL beyond the ends.
At(s, i) == IF i \in 1..Len(s) THEN s[i] ELSE NULL

\* Following link from start, one meets the elements of s in their order.
Chain(s, start, link) ==
  /\ s \in Seq(Op) /\ IsInjective(s)
  /\ start = At(s, 1)
  /\ \A i \in 1..Len(s) : link[s[i]] = At(s, i + 1)

\* The list of block b is s.
Lists(s, b) == Chain(s, firstOp[b], nextOp) /\ ToSet(s) = Members(b)

\* The lists of all blocks.
ListedBy(l) ==
  /\ l \in [Block -> Seq(Op)]
  /\ \A b \in Block : IF b \in erased THEN l[b] = <<>> ELSE Lists(l[b], b)

\* Where the iterator is after k steps.
LEMMA StepsOfList ==
  ASSUME TypeOK, NEW b \in LiveBlock, NEW s, Lists(s, b)
  PROVE  Steps(b) = [k \in Nat |-> At(s, k + 1)]
<1> DEFINE g == [k \in Nat |-> At(s, k + 1)]
           Fix(f) == f = [k \in Nat |-> IF k = 0 THEN firstOp[b]
                                        ELSE IF f[k - 1] = NULL THEN NULL ELSE nextOp[f[k - 1]]]
<1>1. /\ s \in Seq(Op) /\ Len(s) \in Nat /\ NULL \notin Op
      /\ \A i \in 1..Len(s) : s[i] \in Op
  BY NodeKinds, LenProperties, ElementOfSeq DEF Lists, Chain, Node
<1>2. Fix(g)
  <2>1. ASSUME NEW k \in Nat
        PROVE  g[k] = IF k = 0 THEN firstOp[b]
                      ELSE IF g[k - 1] = NULL THEN NULL ELSE nextOp[g[k - 1]]
    <3>1. CASE k = 0
      BY <3>1 DEF Lists, Chain
    <3>2. CASE k # 0
      <4>1. k - 1 \in Nat /\ (k - 1) + 1 = k /\ k \in Nat \ {0}
        BY <3>2
      <4>2. g[k - 1] = At(s, k) /\ g[k] = At(s, k + 1)
        BY <4>1
      <4>3. CASE k \in 1..Len(s)
        BY <1>1, <3>2, <4>2, <4>3 DEF Lists, Chain, At
      <4>4. CASE k \notin 1..Len(s)
        BY <1>1, <3>2, <4>1, <4>2, <4>4 DEF At
      <4> QED  BY <4>3, <4>4
    <3> QED  BY <3>1, <3>2
  <2> QED  BY <2>1
<1>3. ASSUME NEW f, Fix(f) PROVE f = g
  <2> DEFINE D == {k \in Nat : f[k] # g[k]}
  <2>1. ASSUME D # {} PROVE FALSE
    <3>1. PICK k \in D : \A j \in D : k <= j
      BY <2>1, LeastNat
    <3>2. f[k] = (IF k = 0 THEN firstOp[b]
                  ELSE IF f[k - 1] = NULL THEN NULL ELSE nextOp[f[k - 1]])
      BY <1>3
    <3>3. g[k] = (IF k = 0 THEN firstOp[b]
                  ELSE IF g[k - 1] = NULL THEN NULL ELSE nextOp[g[k - 1]])
      BY <1>2
    <3>4. k # 0 => f[k - 1] = g[k - 1]
      <4>1. k # 0 => k - 1 \in Nat /\ ~(k <= k - 1)
        OBVIOUS
      <4> HIDE DEF g
      <4> QED  BY <3>1, <4>1
    <3> HIDE DEF g
    <3> QED  BY <3>2, <3>3, <3>4
  <2>2. \A k \in Nat : f[k] = g[k]
    BY <2>1
  <2>3. DOMAIN f = Nat /\ DOMAIN g = Nat /\ f = [k \in Nat |-> f[k]] /\ g = [k \in Nat |-> g[k]]
    BY <1>2, <1>3
  <2> HIDE DEF g, Fix
  <2> QED  BY <2>2, <2>3
<1>4. Steps(b) = CHOOSE f : Fix(f)
  BY Zenon DEF Steps
<1> HIDE DEF Fix, g
<1> QED
  <2>1. Fix(CHOOSE f : Fix(f))
    BY <1>2, Zenon
  <2> QED  BY <1>3, <1>4, <2>1 DEF g

\* Iterating over the operations of a block yields its list.
LEMMA OpsOfList ==
  ASSUME TypeOK, NEW b \in LiveBlock, NEW s, Lists(s, b)
  PROVE  OpsOf(b) = s
<1> DEFINE n == Len(s)
           visited == {k \in 0..Cardinality(Op) : Steps(b)[k] # NULL}
<1>1. /\ s \in Seq(Op) /\ n \in Nat /\ NULL \notin Op /\ DOMAIN s = 1..n
      /\ \A i \in 1..n : s[i] \in Op
  BY NodeKinds, LenProperties, ElementOfSeq DEF Lists, Chain, Node
<1>2. n <= Cardinality(Op) /\ Cardinality(Op) \in Nat
  <2>1. s \in Injection(1..n, Op)
    <3>1. s \in [1..n -> Op]
      BY <1>1
    <3>2. \A i, j \in 1..n : s[i] = s[j] => i = j
      BY <1>1 DEF Lists, Chain, IsInjective
    <3> QED  BY <3>1, <3>2, Fun_IsInj
  <2>2. Cardinality(1..n) <= Cardinality(Op)
    BY <2>1, FS_Injection, OpsFinite
  <2>3. Cardinality(1..n) = IF 1 > n THEN 0 ELSE n - 1 + 1
    BY <1>1, FS_Interval
  <2> QED  BY <1>1, <2>2, <2>3, FS_CardinalityType, OpsFinite
<1>3. \A k \in Nat : Steps(b)[k] = At(s, k + 1)
  BY StepsOfList
<1>4. visited = 0..(n - 1)
  BY <1>1, <1>2, <1>3 DEF At
<1> HIDE DEF visited, n
<1>5. Cardinality(visited) = n
  <2>1. 0 \in Int /\ n - 1 \in Int
    BY <1>1
  <2>2. Cardinality(0..(n - 1)) = IF 0 > n - 1 THEN 0 ELSE (n - 1) - 0 + 1
    BY <2>1, FS_Interval
  <2> QED  BY <1>1, <1>4, <2>2
<1>6. OpsOf(b) = [k \in 1..n |-> Steps(b)[k - 1]]
  BY <1>5 DEF OpsOf, LiveBlock, visited
<1>7. \A k \in 1..n : Steps(b)[k - 1] = s[k]
  BY <1>1, <1>3 DEF At, n
<1> QED  BY <1>1, <1>6, <1>7

\* All lists at once.
LEMMA AllLists ==
  ASSUME TypeOK, NEW l, ListedBy(l)
  PROVE  l = [b \in Block |-> OpsOf(b)]
<1>1. ASSUME NEW b \in Block PROVE l[b] = OpsOf(b)
  <2>1. CASE b \in erased
    BY <2>1 DEF ListedBy, OpsOf
  <2>2. CASE b \notin erased
    <3>1. b \in LiveBlock /\ Lists(l[b], b)
      BY <2>2 DEF ListedBy, LiveBlock
    <3> QED  BY <3>1, OpsOfList
  <2> QED  BY <2>1, <2>2
<1> QED  BY <1>1 DEF ListedBy

----------------------------------------------------------------------------
(* How a list changes with the links. *)

\* What the proofs use of a chain.
LEMMA ChainFacts ==
  ASSUME NEW s, NEW start, NEW link, Chain(s, start, link)
  PROVE  /\ s \in Seq(Op) /\ Len(s) \in Nat /\ DOMAIN s = 1..Len(s) /\ NULL \notin Op
         /\ \A i \in 1..Len(s) : s[i] \in Op /\ s[i] # NULL
         /\ \A i, j \in 1..Len(s) : s[i] = s[j] => i = j
         /\ \A x : x \in ToSet(s) <=> \E i \in 1..Len(s) : x = s[i]
<1>1. s \in Seq(Op) /\ Len(s) \in Nat /\ DOMAIN s = 1..Len(s) /\ NULL \notin Op
  BY NodeKinds, LenProperties DEF Chain, Node
<1>2. \A i \in 1..Len(s) : s[i] \in Op /\ s[i] # NULL
  BY <1>1, ElementOfSeq
<1>3. \A i, j \in 1..Len(s) : s[i] = s[j] => i = j
  BY <1>1 DEF Chain, IsInjective
<1>4. \A x : x \in ToSet(s) <=> \E i \in 1..Len(s) : x = s[i]
  BY <1>1 DEF ToSet
<1> QED  BY <1>1, <1>2, <1>3, <1>4

\* A chain whose members keep their links.
LEMMA ChainKept ==
  ASSUME NEW s, NEW start, NEW link, NEW link2, Chain(s, start, link),
         \A x \in ToSet(s) : link2[x] = link[x]
  PROVE  Chain(s, start, link2)
BY ChainFacts DEF Chain

\* An element more, at position i.
LEMMA ChainInsert ==
  ASSUME NEW s, NEW start, NEW link, NEW link2, Chain(s, start, link),
         NEW e \in Op, e \notin ToSet(s), NEW i \in 1..(Len(s) + 1),
         \A x \in Op : link2[x] = IF x = At(s, i - 1) THEN e ELSE IF x = e THEN At(s, i) ELSE link[x]
  PROVE  /\ Chain(InsertAt(s, i, e), IF At(s, i - 1) = NULL THEN e ELSE start, link2)
         /\ ToSet(InsertAt(s, i, e)) = ToSet(s) \cup {e}
<1> DEFINE n == Len(s)
           w == InsertAt(s, i, e)
           t == <<e>>
<1>1. /\ s \in Seq(Op) /\ n \in Nat /\ NULL \notin Op /\ i \in 1..(n + 1)
      /\ \A j \in 1..n : s[j] \in Op /\ s[j] # NULL /\ s[j] # e
      /\ \A j, k \in 1..n : s[j] = s[k] => j = k
  BY ChainFacts
<1>2. /\ w \in Seq(Op) /\ DOMAIN w = 1..(n + 1)
      /\ \A j \in 1..(n + 1) : w[j] = IF j < i THEN s[j] ELSE IF j = i THEN e ELSE s[j - 1]
  BY <1>1, InsertedAt
<1>3. Len(w) = n + 1
  BY <1>1, <1>2, LenProperties
<1>4. ToSet(w) = ToSet(s) \cup {e} /\ IsInjective(w)
  <2>1. t \in Seq(Op) /\ ToSet(t) = {e} /\ IsInjective(t)
    <3>1. t \in Seq(Op) /\ DOMAIN t = {1} /\ t[1] = e
      OBVIOUS
    <3> HIDE DEF t
    <3> QED  BY <3>1 DEF ToSet, IsInjective
  <2>2. i - 1 \in 0..n /\ (i - 1) + 1 = i
    BY <1>1
  <2>3. w = SubSeq(s, 1, i - 1) \o t \o SubSeq(s, (i - 1) + 1, n)
    BY <2>2 DEF InsertAt
  <2>4. IsInjective(s) /\ ToSet(s) \cap ToSet(t) = {}
    BY <2>1 DEF Chain
  <2> HIDE DEF w, t
  <2> QED  BY <1>1, <2>1, <2>2, <2>3, <2>4, InsertList
<1>5. \A j \in 1..n : link[s[j]] = At(s, j + 1)
  BY DEF Chain
<1> HIDE DEF w
<1>6. ASSUME NEW k \in 1..(n + 1) PROVE link2[w[k]] = At(w, k + 1)
  <2>1. CASE k < i - 1
    <3>1. w[k] = s[k] /\ k \in 1..n /\ k + 1 \in 1..n /\ w[k + 1] = s[k + 1] /\ s[k] # At(s, i - 1)
      BY <1>1, <1>2, <2>1 DEF At
    <3> QED  BY <1>1, <1>3, <1>5, <2>1, <3>1 DEF At
  <2>2. CASE k = i - 1
    <3>1. w[k] = s[k] /\ k \in 1..n /\ w[k + 1] = e /\ s[k] = At(s, i - 1)
      BY <1>1, <1>2, <2>2 DEF At
    <3> QED  BY <1>1, <1>3, <2>2, <3>1 DEF At
  <2>3. CASE k = i
    <3>1. w[k] = e /\ e # At(s, i - 1) /\ (k \in 1..n => w[k + 1] = s[k])
      BY <1>1, <1>2, <2>3 DEF At
    <3> QED  BY <1>1, <1>3, <2>3, <3>1 DEF At
  <2>4. CASE k > i
    <3>1. w[k] = s[k - 1] /\ k - 1 \in 1..n /\ s[k - 1] # At(s, i - 1) /\ (k \in 1..n => w[k + 1] = s[k])
      BY <1>1, <1>2, <2>4 DEF At
    <3>2. link2[w[k]] = At(s, k)
      BY <1>1, <1>5, <3>1
    <3> QED  BY <1>1, <1>3, <2>4, <3>1, <3>2 DEF At
  <2> QED  BY <1>1, <2>1, <2>2, <2>3, <2>4
<1>7. At(w, 1) = IF At(s, i - 1) = NULL THEN e ELSE start
  <2>1. start = At(s, 1)
    BY DEF Chain
  <2>2. CASE i = 1
    BY <1>1, <1>2, <1>3, <2>2 DEF At
  <2>3. CASE i # 1
    BY <1>1, <1>2, <1>3, <2>1, <2>3 DEF At
  <2> QED  BY <2>2, <2>3
<1> QED  BY <1>2, <1>3, <1>4, <1>6, <1>7 DEF Chain, w

\* An element less.
LEMMA ChainRemove ==
  ASSUME NEW s, NEW start, NEW link, NEW link2, Chain(s, start, link), NEW i \in 1..Len(s),
         \A x \in Op : x # s[i] => link2[x] = IF x = At(s, i - 1) THEN At(s, i + 1) ELSE link[x]
  PROVE  /\ Chain(RemoveAt(s, i), IF At(s, i - 1) = NULL THEN At(s, i + 1) ELSE start, link2)
         /\ ToSet(RemoveAt(s, i)) = ToSet(s) \ {s[i]}
<1> DEFINE n == Len(s)
           w == RemoveAt(s, i)
<1>1. /\ s \in Seq(Op) /\ n \in Nat /\ NULL \notin Op /\ i \in 1..n /\ i \in DOMAIN s
      /\ \A j \in 1..n : s[j] \in Op /\ s[j] # NULL
      /\ \A j, k \in 1..n : s[j] = s[k] => j = k
  BY ChainFacts
<1>2. /\ w \in Seq(Op) /\ DOMAIN w = 1..(n - 1)
      /\ \A j \in 1..(n - 1) : w[j] = IF j < i THEN s[j] ELSE s[j + 1]
  BY <1>1, RemovedAt
<1>3. Len(w) = n - 1
  BY <1>1, <1>2, LenProperties
<1>4. ToSet(w) = ToSet(s) \ {s[i]} /\ IsInjective(w)
  BY <1>1, RemoveList DEF Chain
<1>5. \A j \in 1..n : link[s[j]] = At(s, j + 1)
  BY DEF Chain
<1> HIDE DEF w
<1>6. ASSUME NEW k \in 1..(n - 1) PROVE link2[w[k]] = At(w, k + 1)
  <2>1. CASE k < i - 1
    <3>1. w[k] = s[k] /\ k \in 1..n /\ k + 1 \in 1..n /\ w[k + 1] = s[k + 1] /\ s[k] # At(s, i - 1) /\ s[k] # s[i]
      BY <1>1, <1>2, <2>1 DEF At
    <3> QED  BY <1>1, <1>3, <1>5, <2>1, <3>1 DEF At
  <2>2. CASE k = i - 1
    <3>1. w[k] = s[k] /\ k \in 1..n /\ s[k] = At(s, i - 1) /\ s[k] # s[i]
          /\ (k + 1 \in 1..(n - 1) => w[k + 1] = s[i + 1])
      BY <1>1, <1>2, <2>2 DEF At
    <3> QED  BY <1>1, <1>3, <2>2, <3>1 DEF At
  <2>3. CASE k >= i
    <3>1. w[k] = s[k + 1] /\ k + 1 \in 1..n /\ s[k + 1] # At(s, i - 1) /\ s[k + 1] # s[i]
          /\ (k + 1 \in 1..(n - 1) => w[k + 1] = s[k + 2])
      BY <1>1, <1>2, <2>3 DEF At
    <3>2. link2[w[k]] = At(s, (k + 1) + 1)
      BY <1>1, <1>5, <3>1
    <3> QED  BY <1>1, <1>3, <2>3, <3>1, <3>2 DEF At
  <2> QED  BY <1>1, <2>1, <2>2, <2>3
<1>7. At(w, 1) = IF At(s, i - 1) = NULL THEN At(s, i + 1) ELSE start
  <2>1. start = At(s, 1)
    BY DEF Chain
  <2>2. CASE i = 1
    BY <1>1, <1>2, <1>3, <2>2 DEF At
  <2>3. CASE i # 1
    BY <1>1, <1>2, <1>3, <2>1, <2>3 DEF At
  <2> QED  BY <2>2, <2>3
<1> QED  BY <1>2, <1>3, <1>4, <1>6, <1>7 DEF Chain, w

\* A whole list more, after position i.
LEMMA ChainSplice ==
  ASSUME NEW s, NEW start, NEW link, NEW link2, Chain(s, start, link),
         NEW t, NEW startT, Chain(t, startT, link), startT # NULL, ToSet(s) \cap ToSet(t) = {},
         NEW i \in 0..Len(s),
         \A x \in Op : link2[x] = IF x = At(s, i) THEN startT
                                   ELSE IF x = At(t, Len(t)) THEN At(s, i + 1) ELSE link[x]
  PROVE  LET w == SubSeq(s, 1, i) \o t \o SubSeq(s, i + 1, Len(s))
         IN  /\ Chain(w, IF At(s, i) = NULL THEN startT ELSE start, link2)
             /\ ToSet(w) = ToSet(s) \cup ToSet(t)
<1> DEFINE n == Len(s)
           m == Len(t)
           w == SubSeq(s, 1, i) \o t \o SubSeq(s, i + 1, Len(s))
<1>1. /\ s \in Seq(Op) /\ n \in Nat /\ NULL \notin Op /\ i \in 0..n
      /\ \A j \in 1..n : s[j] \in Op /\ s[j] # NULL
      /\ \A j, k \in 1..n : s[j] = s[k] => j = k
  BY ChainFacts
<1>2. /\ t \in Seq(Op) /\ m \in Nat
      /\ \A j \in 1..m : t[j] \in Op /\ t[j] # NULL
      /\ \A j, k \in 1..m : t[j] = t[k] => j = k
  BY ChainFacts
<1>3. \A j \in 1..n, k \in 1..m : s[j] # t[k]
  BY ChainFacts
<1>4. startT = At(t, 1) /\ m >= 1
  BY <1>2 DEF Chain, At
<1>5. /\ w \in Seq(Op) /\ DOMAIN w = 1..(n + m)
      /\ \A j \in 1..(n + m) :
            w[j] = IF j <= i THEN s[j] ELSE IF j <= i + m THEN t[j - i] ELSE s[j - m]
  <2>1. s \in Seq(Op) /\ t \in Seq(Op)
    BY <1>1, <1>2
  <2>2. i \in 0..Len(s)
    OBVIOUS
  <2> QED  BY ONLY <2>1, <2>2, SlicedIn
<1>6. Len(w) = n + m
  <2> HIDE DEF w, n, m
  <2> QED  BY <1>1, <1>2, <1>5, LenProperties
<1>7. ToSet(w) = ToSet(s) \cup ToSet(t) /\ IsInjective(w)
  BY <1>1, <1>2, InsertList DEF Chain
<1>8. /\ \A j \in 1..n : link[s[j]] = At(s, j + 1)
      /\ \A j \in 1..m : link[t[j]] = At(t, j + 1)
  BY DEF Chain
<1> HIDE DEF w
<1>9. ASSUME NEW k \in 1..(n + m) PROVE link2[w[k]] = At(w, k + 1)
  <2>1. CASE k < i
    <3>1. w[k] = s[k] /\ k \in 1..n /\ k + 1 \in 1..n /\ w[k + 1] = s[k + 1]
          /\ s[k] # At(s, i) /\ s[k] # At(t, m)
      BY <1>1, <1>2, <1>3, <1>4, <1>5, <2>1 DEF At
    <3> QED  BY <1>1, <1>2, <1>6, <1>8, <2>1, <3>1 DEF At
  <2>2. CASE k = i
    <3>1. w[k] = s[k] /\ k \in 1..n /\ s[k] = At(s, i) /\ k + 1 \in 1..(n + m)
      BY <1>1, <1>2, <1>4, <1>5, <2>2 DEF At
    <3>2. w[k + 1] = t[1]
      <4>1. ~(k + 1 <= i) /\ k + 1 <= i + m /\ (k + 1) - i = 1
        BY <1>1, <1>2, <1>4, <2>2
      <4> QED  BY <1>5, <3>1, <4>1
    <3> QED  BY <1>1, <1>2, <1>4, <1>6, <3>1, <3>2 DEF At
  <2>3. CASE k > i /\ k < i + m
    <3>1. /\ k - i \in 1..m /\ (k - i) + 1 \in 1..m /\ k + 1 \in 1..(n + m)
          /\ (k + 1) - i = (k - i) + 1
      BY <1>1, <1>2, <2>3
    <3>2. w[k] = t[k - i] /\ w[k + 1] = t[(k - i) + 1]
      BY <1>1, <1>2, <1>5, <2>3, <3>1
    <3>3. t[k - i] # At(s, i) /\ t[k - i] # At(t, m)
      BY <1>1, <1>2, <1>3, <2>3, <3>1 DEF At
    <3> QED  BY <1>2, <1>6, <1>8, <3>1, <3>2, <3>3 DEF At
  <2>4. CASE k = i + m
    <3>0. w[k] = t[m]
      <4>1. ~(k <= i) /\ k <= i + m /\ k - i = m
        BY <1>1, <1>2, <1>4, <2>4
      <4> QED  BY <1>5, <4>1
    <3>1. w[k] = t[m] /\ t[m] = At(t, m) /\ t[m] # At(s, i)
      BY <1>1, <1>2, <1>3, <1>4, <3>0 DEF At
    <3>2. link2[w[k]] = At(s, i + 1)
      BY <1>2, <1>4, <3>1
    <3>3. i + 1 \in 1..n => w[k + 1] = s[i + 1]
      <4>1. i + 1 \in 1..n => /\ k + 1 \in 1..(n + m) /\ ~(k + 1 <= i) /\ ~(k + 1 <= i + m)
                              /\ (k + 1) - m = i + 1
        BY <1>1, <1>2, <2>4
      <4> QED  BY <1>5, <4>1
    <3> QED  BY <1>1, <1>2, <1>6, <2>4, <3>2, <3>3 DEF At
  <2>5. CASE k > i + m
    <3>1. k - m \in 1..n /\ k - m > i /\ ~(k <= i) /\ ~(k <= i + m)
      BY <1>1, <1>2, <2>5
    <3>2. w[k] = s[k - m]
      BY <1>5, <3>1
    <3>3. s[k - m] # At(s, i) /\ s[k - m] # At(t, m)
      BY <1>1, <1>2, <1>3, <1>4, <3>1 DEF At
    <3>4. link2[w[k]] = At(s, (k - m) + 1)
      BY <1>1, <1>8, <3>1, <3>2, <3>3
    <3>5. (k - m) + 1 \in 1..n => w[k + 1] = s[(k - m) + 1]
      <4>1. (k - m) + 1 \in 1..n => /\ k + 1 \in 1..(n + m) /\ ~(k + 1 <= i) /\ ~(k + 1 <= i + m)
                                    /\ (k + 1) - m = (k - m) + 1
        BY <1>1, <1>2, <2>5
      <4> QED  BY <1>5, <4>1
    <3> QED  BY <1>1, <1>2, <1>6, <2>5, <3>4, <3>5 DEF At
  <2>6. k < i \/ k = i \/ (k > i /\ k < i + m) \/ k = i + m \/ k > i + m
    BY <1>1, <1>2
  <2> QED  BY <2>1, <2>2, <2>3, <2>4, <2>5, <2>6
<1>10. At(w, 1) = IF At(s, i) = NULL THEN startT ELSE start
  <2>1. start = At(s, 1)
    BY DEF Chain
  <2>2. CASE i = 0
    BY <1>1, <1>2, <1>4, <1>5, <1>6, <2>2 DEF At
  <2>3. CASE i # 0
    BY <1>1, <1>2, <1>5, <1>6, <2>1, <2>3 DEF At
  <2> QED  BY <2>2, <2>3
<1> QED  BY <1>5, <1>6, <1>7, <1>9, <1>10 DEF Chain, w

----------------------------------------------------------------------------
(* Every call is a call on sequences. *)

\* A step of BlockSeqs from the lists l to the lists m.
InsertedOne(l, m) ==
  \E b \in Block, o \in Op : \E i \in 1..(Len(l[b]) + 1) :
     /\ o \notin UNION {ToSet(l[c]) : c \in Block}
     /\ m = [l EXCEPT ![b] = InsertAt(l[b], i, o)]

Taken(l, m) ==
  \E b \in Block, gone \in SUBSET Block : \E i \in DOMAIN l[b] :
     /\ b \notin gone
     /\ m = [c \in Block |-> IF c = b THEN RemoveAt(l[b], i) ELSE IF c \in gone THEN <<>> ELSE l[c]]

Cleared(l, m) ==
  \E gone \in SUBSET Block : m = [c \in Block |-> IF c \in gone THEN <<>> ELSE l[c]]

Moved(l, m) ==
  \E b, d \in Block : \E i \in 0..Len(l[d]) :
     /\ b # d
     /\ m = [l EXCEPT ![b] = <<>>,
                      ![d] = SubSeq(l[d], 1, i) \o l[b] \o SubSeq(l[d], i + 1, Len(l[d]))]

Simulated(l, m) == InsertedOne(l, m) \/ Taken(l, m) \/ Cleared(l, m) \/ Moved(l, m) \/ m = l

\* A block whose operations and links stay keeps its list.
LEMMA ListKept ==
  ASSUME NEW b, NEW s, Lists(s, b), Members(b)' = Members(b), firstOp'[b] = firstOp[b],
         \A x \in Members(b) : nextOp'[x] = nextOp[x]
  PROVE  Lists(s, b)'
<1>1. Chain(s, firstOp[b], nextOp) /\ ToSet(s) = Members(b)
  BY DEF Lists
<1>2. Chain(s, firstOp[b], nextOp')
  BY <1>1, ChainKept
<1> QED  BY <1>1, <1>2 DEF Lists, Chain

\* Neighbours are neighbours in the list.
LEMMA NeighboursInList ==
  ASSUME NEW b, NEW p, NEW q, NEW s, Adjacent(b, p, q), Lists(s, b)
  PROVE  \E i \in 0..Len(s) : p = At(s, i) /\ q = At(s, i + 1)
<1>1. Chain(s, firstOp[b], nextOp) /\ ToSet(s) = Members(b)
  BY DEF Lists
<1>2. /\ Len(s) \in Nat
      /\ \A x : x \in ToSet(s) <=> \E i \in 1..Len(s) : x = s[i]
  BY <1>1, ChainFacts
<1>3. CASE p = NULL
  <2>1. q = At(s, 1) /\ p = At(s, 0)
    BY <1>1, <1>3 DEF Adjacent, Chain, At
  <2> QED  BY <1>2, <2>1
<1>4. CASE p # NULL
  <2>1. p \in ToSet(s) /\ nextOp[p] = q
    BY <1>1, <1>4 DEF Adjacent, Members
  <2>2. PICK i \in 1..Len(s) : p = s[i]
    BY <1>2, <2>1
  <2>3. q = At(s, i + 1) /\ p = At(s, i)
    BY <1>1, <2>1, <2>2 DEF Chain, At
  <2> QED  BY <1>2, <2>3
<1> QED  BY <1>3, <1>4

\* insert_op_after, insert_op_before and add_op insert one element.
LEMMA InsertSimulated ==
  ASSUME IInv, NEW l, ListedBy(l), NEW b \in LiveBlock, NEW new \in LiveOp,
         NEW p, NEW q, PutBetween(b, new, p, q)
  PROVE  \E m : ListedBy(m)' /\ Simulated(l, m)
<1> DEFINE s == l[b]
<1>t. LinkTypes
  BY TypesOfLinks DEF IInv
<1>1. /\ b \in Block /\ b # NULL /\ b \notin erased /\ new \in Op /\ new \notin erased
      /\ parent[new] = NULL /\ Adjacent(b, p, q) /\ erased' = erased
      /\ \A o \in Op : parent'[o] = IF o = new THEN b ELSE parent[o]
      /\ \A x \in Op : nextOp'[x] = IF x = p THEN new ELSE IF x = new THEN q ELSE nextOp[x]
      /\ \A c \in Block : firstOp'[c] = IF c = b /\ p = NULL THEN new ELSE firstOp[c]
  BY <1>t DEF PutBetween, CanAttach, LiveBlock, LiveOp, IInv, TypeOK, Node, LinkTypes
<1>2. Lists(s, b)
  BY <1>1 DEF ListedBy
<1>3. PICK j \in 0..Len(s) : p = At(s, j) /\ q = At(s, j + 1)
  BY <1>1, <1>2, NeighboursInList
<1> DEFINE i == j + 1
           w == InsertAt(s, i, new)
           m == [l EXCEPT ![b] = w]
<1>4. s \in Seq(Op) /\ Len(s) \in Nat /\ Chain(s, firstOp[b], nextOp) /\ ToSet(s) = Members(b)
  BY <1>2, LenProperties DEF Lists, Chain
<1>5. i \in 1..(Len(s) + 1) /\ i - 1 = j
  BY <1>3, <1>4
<1>6. new \notin UNION {ToSet(l[c]) : c \in Block}
  <2> SUFFICES ASSUME NEW c \in Block, new \in ToSet(l[c]) PROVE FALSE
    OBVIOUS
  <2>1. CASE c \in erased
    BY <2>1 DEF ListedBy, ToSet
  <2>2. CASE c \notin erased
    <3>1. new \in Members(c)
      BY <2>2 DEF ListedBy, Lists
    <3> QED  BY <1>1, <1>t, <3>1 DEF Members, LinkTypes
  <2> QED  BY <2>1, <2>2
<1> HIDE DEF i
<1>7. Chain(w, firstOp'[b], nextOp') /\ ToSet(w) = ToSet(s) \cup {new}
  <2>1. new \notin ToSet(s)
    BY <1>1, <1>6
  <2>2. \A x \in Op : nextOp'[x] = IF x = At(s, i - 1) THEN new ELSE IF x = new THEN At(s, i) ELSE nextOp[x]
    BY <1>1, <1>3, <1>5 DEF i
  <2>3. firstOp'[b] = IF At(s, i - 1) = NULL THEN new ELSE firstOp[b]
    BY <1>1, <1>3, <1>5
  <2> HIDE DEF s
  <2> QED  BY <1>1, <1>4, <1>5, <2>1, <2>2, <2>3, ChainInsert
<1>8. Members(b)' = Members(b) \cup {new} /\ \A c \in Block : c # b => Members(c)' = Members(c)
  BY <1>1, <1>t DEF Members, LiveOp, LinkTypes
<1>9. Lists(w, b)'
  BY <1>4, <1>7, <1>8 DEF Lists, Chain
<1>10. ASSUME NEW c \in Block, c # b, c \notin erased PROVE Lists(l[c], c)'
  <2>1. Lists(l[c], c) /\ firstOp'[c] = firstOp[c]
    BY <1>1, <1>10 DEF ListedBy
  <2>2. \A x \in Members(c) : nextOp'[x] = nextOp[x]
    BY <1>1, <1>t, <1>10 DEF Members, Adjacent, LiveOp, LinkTypes
  <2> QED  BY <1>8, <1>10, <2>1, <2>2, ListKept
<1>11. m \in [Block -> Seq(Op)] /\ m[b] = w /\ \A c \in Block : c # b => m[c] = l[c]
  BY <1>1, <1>7 DEF ListedBy, Chain
<1> HIDE DEF w, m
<1>12. ListedBy(m)'
  <2> SUFFICES ASSUME NEW c \in Block
      PROVE  IF c \in erased THEN m[c] = <<>> ELSE Lists(m[c], c)'
    BY <1>1, <1>11 DEF ListedBy
  <2> QED  BY <1>1, <1>9, <1>10, <1>11 DEF ListedBy
<1>13. InsertedOne(l, m)
  BY <1>1, <1>5, <1>6 DEF InsertedOne, m, w
<1> QED  BY <1>12, <1>13 DEF Simulated

\* An operation is not inside its own contents' parents: b, the block of o, is not
\* among what drop_all_references reaches from o.
LEMMA ParentNotInContents ==
  ASSUME IInv, NEW o \in Live, parent[o] # NULL
  PROVE  parent[o] \notin Contents(o)
<1> USE DEF IInv
<1>1. SUFFICES ASSUME parent[o] \in Contents(o) PROVE FALSE
  OBVIOUS
<1>2. /\ o \in Contents(o) /\ Contents(o) \subseteq Live
      /\ \A x \in Contents(o) : Children(x) \subseteq Contents(o)
  BY ContentsFacts
<1>3. IsAncestor(o, parent[o])
  <2> SUFFICES ASSUME NEW S \in SUBSET Node, parent[o] \in S, UpClosed(S), o \notin S PROVE FALSE
    BY DEF IsAncestor
  <2> DEFINE D == Contents(o) \ S
  <2>1. D \in SUBSET Node /\ o \in D
    BY <1>2 DEF Live
  <2>2. DownClosed(D)
    <3> SUFFICES ASSUME NEW x \in D, NEW y \in Children(x) PROVE y \in D
      BY DEF DownClosed
    <3>1. y \in Contents(o) /\ x \in Live
      BY <1>2
    <3>2. parent[y] = x
      BY <3>1, ChildrenFacts
    <3>3. x # NULL
      BY <3>1, NodeKinds DEF Live
    <3> QED  BY <3>1, <3>2, <3>3 DEF UpClosed
  <2>3. Contents(o) \subseteq D
    <3> HIDE DEF D
    <3> QED  BY <2>1, <2>2 DEF Contents
  <2> QED  BY <1>1, <2>3
<1> QED  BY <1>3 DEF Acyclic, Live

\* detach_op and erase_op take the operation out of its block, with nothing or with
\* all that it contains.
LEMMA TakesOutBlock ==
  ASSUME IInv, NEW b \in LiveBlock, NEW o \in LiveOp, DetachOp(b, o) \/ EraseOp(b, o)
  PROVE  \E C : TakesOut(b, o, C) /\ b \notin C
<1> USE DEF IInv
<1>1. o \in Live /\ o \in Op /\ b # NULL
  BY NodeKinds DEF LiveOp, LiveBlock, Live, Node
<1>2. CASE DetachOp(b, o)
  <2>1. /\ parent[o] = b /\ Unlink(b, o) /\ parent' = [parent EXCEPT ![o] = NULL] /\ erased' = erased
    BY <1>2 DEF DetachOp, ghosts
  <2>2. \A x \in Op : parent'[x] = IF x \in {} \cup {o} THEN NULL ELSE parent[x]
    BY <1>1, <2>1 DEF TypeOK, Node
  <2>3. TakesOut(b, o, {})
    BY <2>1, <2>2 DEF TakesOut, WholeBlocks
  <2> QED  BY <2>3
<1>3. CASE EraseOp(b, o)
  <2>1. /\ parent[o] = b /\ Unlink(b, o) /\ erased' = erased \cup Contents(o)
        /\ parent' = [x \in Node |-> IF x \in Contents(o) THEN NULL ELSE parent[x]]
    BY <1>3 DEF EraseOp, DropAllReferences
  <2>2. WholeBlocks(Contents(o), o) /\ o \in Contents(o)
    BY <1>1, ContentsWholeBlocks, ContentsFacts
  <2>3. \A x \in Op : parent'[x] = IF x \in Contents(o) \cup {o} THEN NULL ELSE parent[x]
    BY <2>1, <2>2 DEF Node
  <2>4. TakesOut(b, o, Contents(o))
    BY <2>1, <2>2, <2>3 DEF TakesOut
  <2>5. b \notin Contents(o)
    BY <1>1, <2>1, ParentNotInContents
  <2> QED  BY <2>4, <2>5
<1> QED  BY <1>2, <1>3

\* Taking an operation out removes one element and empties the blocks that go.
LEMMA TakeSimulated ==
  ASSUME IInv, NEW l, ListedBy(l), NEW b \in LiveBlock, NEW o \in LiveOp,
         NEW C, TakesOut(b, o, C), b \notin C
  PROVE  \E m : ListedBy(m)' /\ Simulated(l, m)
<1> DEFINE s == l[b]
<1>t. LinkTypes /\ LinksMatch /\ EndsMatch
  BY TypesOfLinks DEF IInv, LinkInv
<1>1. /\ b \in Block /\ b # NULL /\ b \notin erased /\ o \in Op /\ o \notin erased /\ parent[o] = b
      /\ \A x \in Op : parent'[x] = IF x \in C \cup {o} THEN NULL ELSE parent[x]
      /\ erased' = erased \cup C /\ WholeBlocks(C, o) /\ (C = {} \/ o \in C)
      /\ \A x \in Op : nextOp'[x] = IF x = prevOp[o] THEN nextOp[o] ELSE IF x = o THEN NULL ELSE nextOp[x]
      /\ \A c \in Block : firstOp'[c] = IF c = b /\ prevOp[o] = NULL THEN nextOp[o] ELSE firstOp[c]
  BY <1>t DEF TakesOut, Unlink, LiveBlock, LiveOp, IInv, TypeOK, LinkTypes
<1>2. Lists(s, b)
  BY <1>1 DEF ListedBy
<1>3. Chain(s, firstOp[b], nextOp) /\ ToSet(s) = Members(b)
  BY <1>2 DEF Lists
<1>4. /\ s \in Seq(Op) /\ Len(s) \in Nat /\ DOMAIN s = 1..Len(s) /\ NULL \notin Op
      /\ \A j \in 1..Len(s) : s[j] \in Op /\ s[j] # NULL
      /\ \A j, k \in 1..Len(s) : s[j] = s[k] => j = k
      /\ \A x : x \in ToSet(s) <=> \E j \in 1..Len(s) : x = s[j]
  BY <1>3, ChainFacts
<1>5. PICK i \in 1..Len(s) : o = s[i]
  BY <1>1, <1>3, <1>4 DEF Members, LiveOp
<1>6. nextOp[o] = At(s, i + 1) /\ prevOp[o] = At(s, i - 1)
  <2>1. nextOp[o] = At(s, i + 1)
    BY <1>3, <1>5 DEF Chain
  <2>2. CASE i = 1
    <3>1. firstOp[b] = o
      BY <1>3, <1>5, <2>2 DEF Chain, At
    <3>2. prevOp[o] = NULL
      BY <1>1, <1>t, <3>1 DEF EndsMatch, LiveOp
    <3> QED  BY <2>1, <2>2, <3>2 DEF At
  <2>3. CASE i # 1
    <3>1. i - 1 \in 1..Len(s) /\ (i - 1) + 1 = i
      BY <1>4, <2>3
    <3>2. nextOp[s[i - 1]] = o
      BY <1>3, <1>5, <3>1 DEF Chain, At
    <3>3. s[i - 1] \in LiveOp
      BY <1>3, <1>4, <3>1 DEF Members
    <3>4. prevOp[o] = s[i - 1]
      BY <1>1, <1>4, <1>t, <3>2, <3>3 DEF LinksMatch
    <3> QED  BY <2>1, <3>1, <3>4 DEF At
  <2> QED  BY <2>2, <2>3
<1> DEFINE w == RemoveAt(s, i)
           gone == C \cap Block
           m == [c \in Block |-> IF c = b THEN RemoveAt(l[b], i) ELSE IF c \in gone THEN <<>> ELSE l[c]]
<1>7. Chain(w, firstOp'[b], nextOp') /\ ToSet(w) = ToSet(s) \ {o}
  <2>1. \A x \in Op : x # s[i] => nextOp'[x] = IF x = At(s, i - 1) THEN At(s, i + 1) ELSE nextOp[x]
    BY <1>1, <1>5, <1>6
  <2>2. firstOp'[b] = IF At(s, i - 1) = NULL THEN At(s, i + 1) ELSE firstOp[b]
    BY <1>1, <1>6
  <2> HIDE DEF s, w
  <2>3. /\ Chain(w, IF At(s, i - 1) = NULL THEN At(s, i + 1) ELSE firstOp[b], nextOp')
        /\ ToSet(w) = ToSet(s) \ {s[i]}
    <3>1. Chain(s, firstOp[b], nextOp) /\ i \in 1..Len(s)
      BY <1>3, <1>5
    <3> QED  BY <2>1, <3>1, ChainRemove DEF w
  <2> QED  BY <1>5, <2>2, <2>3
<1>8. /\ Members(b)' = Members(b) \ {o}
      /\ \A c \in Block : c # b /\ c \notin C => Members(c)' = Members(c)
  BY <1>1, <1>t DEF Members, LiveOp, LinkTypes, WholeBlocks
<1>9. Lists(w, b)'
  BY <1>3, <1>7, <1>8 DEF Lists, Chain
<1>10. ASSUME NEW c \in Block, c # b, c \notin erased' PROVE Lists(l[c], c)'
  <2>0. c \notin erased /\ c \notin C
    BY <1>1, <1>10
  <2>1. Lists(l[c], c) /\ firstOp'[c] = firstOp[c]
    BY <1>1, <1>10, <2>0 DEF ListedBy
  <2>2. prevOp[o] # NULL => parent[prevOp[o]] = b
    BY <1>1, <1>t DEF LinksMatch, LiveOp
  <2>3. \A x \in Members(c) : nextOp'[x] = nextOp[x]
    BY <1>1, <1>t, <1>10, <2>2 DEF Members, LiveOp, LinkTypes
  <2> QED  BY <1>8, <1>10, <2>0, <2>1, <2>3, ListKept
<1>11. w \in Seq(Op)
  BY <1>7 DEF Chain
<1>12. m \in [Block -> Seq(Op)] /\ m[b] = w
       /\ \A c \in Block : c # b => m[c] = IF c \in C THEN <<>> ELSE l[c]
  BY <1>1, <1>11 DEF ListedBy
<1> HIDE DEF w
<1>13. ListedBy(m)'
  <2> HIDE DEF m
  <2> SUFFICES ASSUME NEW c \in Block
      PROVE  IF c \in erased' THEN m[c] = <<>> ELSE Lists(m[c], c)'
    BY <1>12 DEF ListedBy
  <2>1. CASE c = b
    BY <1>1, <1>9, <1>12, <2>1
  <2>2. CASE c # b /\ c \in erased'
    BY <1>1, <1>12, <2>2 DEF ListedBy
  <2>3. CASE c # b /\ c \notin erased'
    BY <1>1, <1>10, <1>12, <2>3
  <2> QED  BY <2>1, <2>2, <2>3
<1>14. Taken(l, m)
  <2>1. i \in DOMAIN l[b] /\ b \notin gone /\ gone \in SUBSET Block
    BY <1>4, <1>5
  <2> HIDE DEF s, gone
  <2> QED  BY <1>1, <2>1 DEF Taken
<1> QED  BY <1>13, <1>14 DEF Simulated

\* Dropping a node that is no operation of a block empties the blocks that go.
LEMMA ClearSimulated ==
  ASSUME IInv, NEW l, ListedBy(l), NEW n, n \in Op => parent[n] = NULL,
         NEW C, WholeBlocks(C, n),
         \A x \in Op : parent'[x] = IF x \in C THEN NULL ELSE parent[x],
         erased' = erased \cup C, UNCHANGED <<nextOp, firstOp>>
  PROVE  \E m : ListedBy(m)' /\ Simulated(l, m)
<1> DEFINE gone == C \cap Block
           m == [c \in Block |-> IF c \in gone THEN <<>> ELSE l[c]]
<1>t. LinkTypes
  BY TypesOfLinks DEF IInv
<1>1. ASSUME NEW c \in Block, c \notin erased' PROVE Lists(l[c], c)'
  <2>1. c \notin erased /\ c \notin C /\ c # NULL
    BY <1>t, <1>1 DEF LinkTypes
  <2>2. Members(c)' = Members(c)
    BY <1>t, <2>1 DEF Members, LiveOp, LinkTypes, WholeBlocks
  <2> QED  BY <2>1, <2>2, ListKept DEF ListedBy
<1>2. m \in [Block -> Seq(Op)] /\ \A c \in Block : m[c] = IF c \in C THEN <<>> ELSE l[c]
  BY DEF ListedBy
<1>3. Cleared(l, m)
  <2>1. gone \in SUBSET Block
    OBVIOUS
  <2> HIDE DEF gone
  <2> QED  BY <2>1 DEF Cleared
<1> HIDE DEF m
<1>4. ListedBy(m)'
  BY <1>1, <1>2 DEF ListedBy
<1> QED  BY <1>3, <1>4 DEF Simulated

\* inline_block_* moves the whole list.
LEMMA SpliceSimulated ==
  ASSUME IInv, NEW l, ListedBy(l), NEW b \in LiveBlock, NEW d \in LiveBlock,
         NEW p, NEW n, Adjacent(d, p, n), Splice(b, d, p, n)
  PROVE  \E m : ListedBy(m)' /\ Simulated(l, m)
<1> DEFINE s == l[d]
           t == l[b]
<1>t. LinkTypes /\ LinksMatch /\ EndsMatch
  BY TypesOfLinks DEF IInv, LinkInv
<1>1. /\ b # d /\ b \in Block /\ d \in Block /\ b # NULL /\ d # NULL
      /\ b \notin erased /\ d \notin erased /\ erased' = erased /\ firstOp[b] # NULL
  BY <1>t DEF Splice, IsAncestor, ghosts, LiveBlock, LinkTypes
<1>2. /\ \A x \in Op : parent'[x] = IF parent[x] = b THEN d ELSE parent[x]
      /\ \A x \in Op : nextOp'[x] = IF x = p THEN firstOp[b] ELSE IF x = lastOp[b] THEN n ELSE nextOp[x]
      /\ \A c \in Block : firstOp'[c] = IF c = b THEN NULL
                                         ELSE IF c = d /\ p = NULL THEN firstOp[b] ELSE firstOp[c]
  BY <1>1 DEF Splice, Node, IInv, TypeOK
<1>3. /\ Chain(s, firstOp[d], nextOp) /\ ToSet(s) = Members(d)
      /\ Chain(t, firstOp[b], nextOp) /\ ToSet(t) = Members(b) /\ Lists(s, d)
  BY <1>1 DEF ListedBy, Lists
<1>4. PICK i \in 0..Len(s) : p = At(s, i) /\ n = At(s, i + 1)
  BY <1>3, NeighboursInList
<1>5. Members(d) \cap Members(b) = {}
  BY <1>1 DEF Members
<1>6. lastOp[b] = At(t, Len(t))
  <2>1. /\ Len(t) \in Nat /\ \A j \in 1..Len(t) : t[j] \in Op /\ t[j] # NULL
        /\ \A x : x \in ToSet(t) <=> \E j \in 1..Len(t) : x = t[j]
    BY <1>3, ChainFacts
  <2>2. Len(t) >= 1 /\ Len(t) \in 1..Len(t)
    BY <1>1, <1>3, <2>1 DEF Chain, At
  <2>3. nextOp[t[Len(t)]] = NULL
    BY <1>3, <2>1, <2>2 DEF Chain, At
  <2>4. t[Len(t)] \in Members(b)
    BY <1>3, <2>1, <2>2
  <2>5. lastOp[b] = t[Len(t)]
    BY <1>1, <1>t, <2>3, <2>4 DEF EndsMatch, Members
  <2> QED  BY <2>2, <2>5 DEF At
<1> DEFINE w == SubSeq(s, 1, i) \o t \o SubSeq(s, i + 1, Len(s))
           m == [l EXCEPT ![b] = <<>>, ![d] = SubSeq(l[d], 1, i) \o l[b] \o SubSeq(l[d], i + 1, Len(l[d]))]
<1>7. Chain(w, firstOp'[d], nextOp') /\ ToSet(w) = ToSet(s) \cup ToSet(t)
  <2>1. \A x \in Op : nextOp'[x] = IF x = At(s, i) THEN firstOp[b]
                                   ELSE IF x = At(t, Len(t)) THEN At(s, i + 1) ELSE nextOp[x]
    BY <1>2, <1>4, <1>6
  <2>2. firstOp'[d] = IF At(s, i) = NULL THEN firstOp[b] ELSE firstOp[d]
    BY <1>1, <1>2, <1>4
  <2>3. ToSet(s) \cap ToSet(t) = {}
    BY <1>3, <1>5
  <2> HIDE DEF s, t
  <2> QED  BY <1>1, <1>3, <1>4, <2>1, <2>2, <2>3, ChainSplice
<1>8. /\ Members(b)' = {} /\ Members(d)' = Members(d) \cup Members(b)
      /\ \A c \in Block : c # b /\ c # d => Members(c)' = Members(c)
  BY <1>1, <1>2 DEF Members, LiveOp
<1>9. Lists(w, d)'
  BY <1>3, <1>7, <1>8 DEF Lists, Chain
<1>10. Lists(<<>>, b)'
  <2>1. firstOp'[b] = NULL
    BY <1>1, <1>2
  <2>2. <<>> \in Seq(Op) /\ Len(<<>>) = 0 /\ ToSet(<<>>) = {} /\ IsInjective(<<>>)
    BY DEF ToSet, IsInjective
  <2>3. At(<<>>, 1) = NULL
    BY <2>2 DEF At
  <2>4. Chain(<<>>, firstOp'[b], nextOp')
    BY <2>1, <2>2, <2>3 DEF Chain
  <2> QED  BY <1>8, <2>2, <2>4 DEF Lists, Chain
<1>11. ASSUME NEW c \in Block, c # b, c # d, c \notin erased PROVE Lists(l[c], c)'
  <2>1. Lists(l[c], c) /\ firstOp'[c] = firstOp[c]
    BY <1>1, <1>2, <1>11 DEF ListedBy
  <2>2. (p # NULL => parent[p] = d) /\ (lastOp[b] # NULL => parent[lastOp[b]] = b)
    BY <1>t DEF Adjacent, EndsMatch, LiveBlock
  <2>3. \A x \in Members(c) : nextOp'[x] = nextOp[x]
    BY <1>1, <1>2, <1>t, <1>11, <2>2 DEF Members, LiveOp, LinkTypes
  <2> QED  BY <1>8, <1>11, <2>1, <2>3, ListKept
<1>12. w \in Seq(Op)
  BY <1>7 DEF Chain
<1>13. m \in [Block -> Seq(Op)] /\ m[d] = w /\ m[b] = <<>>
       /\ \A c \in Block : c # b /\ c # d => m[c] = l[c]
  <2>1. m = [l EXCEPT ![b] = <<>>, ![d] = w]
    OBVIOUS
  <2>2. <<>> \in Seq(Op)
    OBVIOUS
  <2> HIDE DEF w, m
  <2> QED  BY <1>1, <1>12, <2>1, <2>2 DEF ListedBy
<1>14. Moved(l, m)
  <2> HIDE DEF s, t, w
  <2>1. i \in 0..Len(l[d])
    BY DEF s
  <2> QED  BY <1>1, <2>1 DEF Moved
<1> HIDE DEF w, m
<1>15. ListedBy(m)'
  <2> SUFFICES ASSUME NEW c \in Block
      PROVE  IF c \in erased THEN m[c] = <<>> ELSE Lists(m[c], c)'
    BY <1>1, <1>13 DEF ListedBy
  <2>1. CASE c = b
    BY <1>1, <1>10, <1>13, <2>1
  <2>2. CASE c = d
    BY <1>1, <1>9, <1>13, <2>2
  <2>3. CASE c # b /\ c # d
    BY <1>11, <1>13, <2>3 DEF ListedBy
  <2> QED  BY <2>1, <2>2, <2>3
<1> QED  BY <1>14, <1>15 DEF Simulated

\* Calls on block and region lists leave all operation lists alone.
LEMMA ListsStay ==
  ASSUME NEW l, ListedBy(l), UNCHANGED <<nextOp, firstOp, erased>>,
         \A x \in Op : parent'[x] = parent[x]
  PROVE  \E m : ListedBy(m)' /\ Simulated(l, m)
<1>1. \A b \in Block : Members(b)' = Members(b)
  BY DEF Members, LiveOp
<1>2. ASSUME NEW b \in Block, b \notin erased PROVE Lists(l[b], b)'
  BY <1>1, <1>2, ListKept DEF ListedBy
<1>3. ListedBy(l)'
  BY <1>2 DEF ListedBy
<1> QED  BY <1>3 DEF Simulated

\* Every call on operation lists is a step on sequences.
LEMMA NextOpsSimulated ==
  ASSUME IInv, NextOps, NEW l, ListedBy(l)
  PROVE  \E m : ListedBy(m)' /\ Simulated(l, m)
<1> DEFINE Goal == \E m : ListedBy(m)' /\ Simulated(l, m)
<1>1. ASSUME NEW b \in LiveBlock, NEW o \in LiveOp, Inserts(b, o) PROVE Goal
  BY <1>1, InsertsBetween, InsertSimulated
<1>2. ASSUME NEW b \in LiveBlock, NEW o \in LiveOp, DetachOp(b, o) \/ EraseOp(b, o) PROVE Goal
  BY <1>2, TakesOutBlock, TakeSimulated
<1>3. ASSUME NEW b \in LiveBlock, Inlines(b) PROVE Goal
  BY <1>3, InlinesBetween, SpliceSimulated
<1>4. ASSUME NEW n \in LiveOp \cup LiveBlock, EraseDetached(n) PROVE Goal
  <2>1. parent[n] = NULL /\ DropAllReferences(n) /\ UNCHANGED <<nextOp, firstOp>>
    BY <1>4 DEF EraseDetached, links
  <2>2. n \in Live
    BY DEF LiveOp, LiveBlock, Live, Node
  <2>3. WholeBlocks(Contents(n), n)
    BY <2>2, ContentsWholeBlocks DEF IInv
  <2>4. /\ \A x \in Op : parent'[x] = IF x \in Contents(n) THEN NULL ELSE parent[x]
        /\ erased' = erased \cup Contents(n)
    BY <2>1 DEF DropAllReferences, Node
  <2> QED  BY <2>1, <2>3, <2>4, ClearSimulated
<1> HIDE DEF Goal
<1>5. Goal
  BY <1>1, <1>2, <1>3, <1>4 DEF NextOps, Inserts, Inlines
<1> QED  BY <1>5 DEF Goal

\* Every call on block and region lists is a step on sequences: erase_block
\* empties blocks, the others change no list of operations.
LEMMA NextRegionsSimulated ==
  ASSUME IInv, NextRegions, NEW l, ListedBy(l)
  PROVE  \E m : ListedBy(m)' /\ Simulated(l, m)
<1> DEFINE Goal == \E m : ListedBy(m)' /\ Simulated(l, m)
           Stays == UNCHANGED <<nextOp, firstOp, erased>> /\ \A x \in Op : parent'[x] = parent[x]
<1> USE NodeKinds DEF IInv
<1>0. TypeOK
  OBVIOUS
<1>1. ASSUME NEW o \in LiveOp, NEW r \in LiveRegion, AddRegion(o, r) \/ DetachRegion(o, r)
      PROVE  Stays
  BY <1>0, <1>1 DEF AddRegion, DetachRegion, links, ghosts, TypeOK, LiveRegion, Node
<1>2. ASSUME NEW r \in LiveRegion, NEW b \in LiveBlock, AddBlock(r, b) \/ DetachBlock(r, b)
      PROVE  Stays
  BY <1>0, <1>2 DEF AddBlock, DetachBlock, links, ghosts, TypeOK, LiveBlock, Node
<1>3. ASSUME NEW r \in LiveRegion, NEW bs \in BlockLists, NEW i, InsertBlocks(r, bs, i) PROVE Stays
  <2>1. ToSet(bs) \subseteq Block
    BY BlockListsFacts DEF LiveBlock
  <2> QED  BY <1>3, <2>1 DEF InsertBlocks, links, ghosts, Node
<1>4. ASSUME NEW r \in LiveRegion, NEW bs \in BlockLists, NEW k, InsertBlocksRaises(r, bs, k)
      PROVE  Stays
  <2>1. bs \in Seq(Block) /\ k \in DOMAIN bs
    BY <1>4, BlockListsFacts DEF InsertBlocksRaises
  <2>2. Before(bs, k) \subseteq Block
    BY <2>1, LenProperties, ElementOfSeq DEF Before
  <2> QED  BY <1>4, <2>2 DEF InsertBlocksRaises, links, Node
<1>5. ASSUME NEW r \in LiveRegion, NEW d \in LiveRegion, MoveBlockList(r, d) PROVE Stays
  <2>1. blocks[r] \in Seq(Block)
    BY <1>0 DEF TypeOK, LiveRegion
  <2>2. ToSet(blocks[r]) \subseteq Block
    BY <2>1, LenProperties, ElementOfSeq DEF ToSet
  <2> QED  BY <1>5, <2>2 DEF MoveBlockList, links, ghosts, Node
<1>6. ASSUME NEW r \in LiveRegion, NEW b \in LiveBlock, EraseBlock(r, b) PROVE Goal
  <2>1. DropAllReferences(b) /\ UNCHANGED <<nextOp, firstOp>>
    BY <1>6 DEF EraseBlock, links
  <2>2. b \in Live /\ b \notin Op
    BY DEF LiveBlock, Live, Node
  <2>3. WholeBlocks(Contents(b), b)
    BY <2>2, ContentsWholeBlocks
  <2>4. /\ \A x \in Op : parent'[x] = IF x \in Contents(b) THEN NULL ELSE parent[x]
        /\ erased' = erased \cup Contents(b)
    BY <2>1 DEF DropAllReferences, Node
  <2> QED  BY <2>1, <2>2, <2>3, <2>4, ClearSimulated
<1>7. ASSUME Stays PROVE Goal
  BY <1>7, ListsStay
<1> HIDE DEF Goal, Stays
<1>8. Goal
  BY <1>1, <1>2, <1>3, <1>4, <1>5, <1>6, <1>7 DEF NextRegions, MoveBlocks, MoveRegionContents
<1> QED  BY <1>8 DEF Goal

\* What iterating over each block yields.
AllOps == [b \in Block |-> OpsOf(b)]

\* Iterating over a block follows its list: with IInv, the invariant under which
\* every step is a step on sequences.
IterationFollows == ListedBy(AllOps)

\* There is only one way to list the operations of all blocks.
LEMMA ListsYielded == TypeOK => \A s : ListedBy(s) => s = AllOps
BY AllLists DEF AllOps

\* New blocks are empty.
LEMMA InitLists == Init => IterationFollows /\ Abs!Init
<1> SUFFICES ASSUME Init PROVE IterationFollows /\ Abs!Init
  OBVIOUS
<1> DEFINE l == [b \in Block |-> <<>>]
<1>1. TypeOK
  BY InitIInv DEF IInv
<1>2. ASSUME NEW b \in Block PROVE Lists(<<>>, b)
  <2>1. firstOp[b] = NULL /\ Members(b) = {}
    BY NodeKinds DEF Init, Members, LiveOp, Node
  <2>2. <<>> \in Seq(Op) /\ Len(<<>>) = 0 /\ ToSet(<<>>) = {} /\ IsInjective(<<>>)
    BY DEF ToSet, IsInjective
  <2>3. At(<<>>, 1) = NULL
    BY <2>2 DEF At
  <2> QED  BY <2>1, <2>2, <2>3 DEF Lists, Chain
<1>3. l \in [Block -> Seq(Op)] /\ \A b \in Block : l[b] = <<>>
  <2>1. <<>> \in Seq(Op)
    OBVIOUS
  <2> QED  BY <2>1
<1>4. ListedBy(l)
  <2> HIDE DEF l
  <2> QED  BY <1>2, <1>3 DEF ListedBy
<1>5. l = AllOps
  BY <1>1, <1>4, AllLists DEF AllOps
<1> QED  BY <1>4, <1>5 DEF IterationFollows, AllOps, Abs!Init

\* A step of the pointers is a step on the sequences that iteration yields, or
\* leaves them all as they are.
LEMMA NextSimulated ==
  ASSUME IInv, IterationFollows, [Next]_vars
  PROVE  IterationFollows' /\ (Simulated(AllOps, AllOps'))
<1>1. PICK m : ListedBy(m)' /\ Simulated(AllOps, m)
  <2>1. CASE NextOps
    BY <2>1, NextOpsSimulated DEF IterationFollows
  <2>2. CASE NextRegions
    BY <2>2, NextRegionsSimulated DEF IterationFollows
  <2>3. CASE UNCHANGED vars
    BY <2>3, ListsStay DEF IterationFollows, vars
  <2> QED  BY <2>1, <2>2, <2>3 DEF Next
<1>2. TypeOK'
  BY NextIInv DEF IInv
<1>3. m = AllOps'
  <2>1. (TypeOK => \A s : ListedBy(s) => s = AllOps)'
    BY ListsYielded, PTL
  <2> QED  BY <1>1, <1>2, <2>1
<1> QED  BY <1>1, <1>3 DEF IterationFollows

\* The steps of BlockSeqs are those relations.
LEMMA SimulatedNext ==
  ASSUME Simulated(AllOps, AllOps')
  PROVE  [Abs!Next]_AllOps
<1>0. /\ \A s : Abs!ToSet(s) = ToSet(s)
      /\ \A s, i : Abs!RemoveAt(s, i) = RemoveAt(s, i)
      /\ \A s, i, e : Abs!InsertAt(s, i, e) = InsertAt(s, i, e)
  BY DEF Abs!ToSet, ToSet, Abs!RemoveAt, RemoveAt, Abs!InsertAt, InsertAt
<1>1. CASE InsertedOne(AllOps, AllOps')
  <2>1. PICK b \in Block, o \in Op : \E i \in 1..(Len(AllOps[b]) + 1) :
           /\ o \notin UNION {ToSet(AllOps[c]) : c \in Block}
           /\ AllOps' = [AllOps EXCEPT ![b] = InsertAt(AllOps[b], i, o)]
    BY <1>1 DEF InsertedOne
  <2>2. PICK i \in 1..(Len(AllOps[b]) + 1) :
           /\ o \notin UNION {ToSet(AllOps[c]) : c \in Block}
           /\ AllOps' = [AllOps EXCEPT ![b] = InsertAt(AllOps[b], i, o)]
    BY <2>1
  <2>3. o \notin Abs!Attached
    BY <1>0, <2>2 DEF Abs!Attached, AllOps
  <2>4. Abs!Insert(b, o, i)
    BY <1>0, <2>2, <2>3 DEF Abs!Insert, AllOps
  <2> QED  BY <2>4 DEF Abs!Next, AllOps
<1>2. CASE Taken(AllOps, AllOps')
  BY <1>0, <1>2 DEF Taken, Abs!Next, Abs!Take, AllOps
<1>3. CASE Cleared(AllOps, AllOps')
  BY <1>3 DEF Cleared, Abs!Next, Abs!Clear, AllOps
<1>4. CASE Moved(AllOps, AllOps')
  BY <1>4 DEF Moved, Abs!Next, Abs!Move, AllOps
<1> QED  BY <1>1, <1>2, <1>3, <1>4 DEF Simulated

\* The doubly linked lists of core.py implement sequences of operations: whatever
\* sequence of calls is made on blocks, regions and operations, iterating over
\* Block.ops yields what the same calls on plain sequences would.
THEOREM ListsImplementSequences == Spec => ImplementsBlockSeqs
<1>1. Init => IterationFollows /\ Abs!Init
  BY InitLists
<1>2. IInv /\ IterationFollows /\ [Next]_vars => IterationFollows' /\ [Abs!Next]_AllOps
  BY NextSimulated, SimulatedNext
<1>3. AllOps = [b \in Block |-> OpsOf(b)]
  BY DEF AllOps
<1> QED  BY <1>1, <1>2, Structure, PTL DEF Spec, ImplementsBlockSeqs, Abs!Spec, AllOps
=============================================================================
