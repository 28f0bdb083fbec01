------------------------------ MODULE BlockSeqs ------------------------------
(***************************************************************************)
(* What the operation lists of xDSL's blocks promise, without pointers: a  *)
(* block holds a sequence of operations, and a call inserts one operation  *)
(* that is in no block, takes one out, moves the whole contents of a block *)
(* into another, or empties blocks for good.  Module IRTree implements it. *)
(***************************************************************************)
EXTENDS Naturals, SequencesExt

CONSTANTS Op, Block

VARIABLE ops   \* Block.ops, as a sequence

Attached == UNION {ToSet(ops[b]) : b \in Block}

Init == ops = [b \in Block |-> <<>>]

\* o becomes the i-th operation of b
Insert(b, o, i) ==
  /\ o \notin Attached
  /\ ops' = [ops EXCEPT ![b] = InsertAt(@, i, o)]

\* the i-th operation leaves b; the blocks in gone, which it contained, are emptied
Take(b, i, gone) ==
  /\ b \notin gone
  /\ ops' = [c \in Block |-> IF c = b THEN RemoveAt(ops[b], i)
                             ELSE IF c \in gone THEN <<>> ELSE ops[c]]

\* the blocks in gone are emptied
Clear(gone) ==
  ops' = [c \in Block |-> IF c \in gone THEN <<>> ELSE ops[c]]

\* the operations of b move, in their order, to position i of d
Move(b, d, i) ==
  /\ b # d
  /\ ops' = [ops EXCEPT ![b] = <<>>,
                        ![d] = SubSeq(@, 1, i) \o ops[b] \o SubSeq(@, i + 1, Len(@))]

Next ==
  \/ \E b \in Block, o \in Op : \E i \in 1..(Len(ops[b]) + 1) : Insert(b, o, i)
  \/ \E b \in Block, gone \in SUBSET Block : \E i \in DOMAIN ops[b] : Take(b, i, gone)
  \/ \E gone \in SUBSET Block : Clear(gone)
  \/ \E b, d \in Block : \E i \in 0..Len(ops[d]) : Move(b, d, i)

Spec == Init /\ [][Next]_ops
=============================================================================
