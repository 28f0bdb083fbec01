------------------------------- MODULE IRTree -------------------------------
(***************************************************************************)
(* The containment structure of xDSL's IR (xdsl/ir/core.py and             *)
(* xdsl/rewriter.py): operations sit in blocks on a doubly linked list,    *)
(* blocks sit in regions and regions in operations on Python lists, and    *)
(* every node has a parent pointer.  One action per method that changes    *)
(* the structure.  A call that raises before it has changed anything is a  *)
(* disabled action; a call that raises half way is an action of its own.   *)
(* Operands, results and their uses are the subject of module UseDef.      *)
(***************************************************************************)
EXTENDS Naturals, FiniteSets, Functions, SequencesExt

CONSTANTS Op,       \* Operation objects
          Block,    \* Block objects
          Region,   \* Region objects
          NULL      \* Python's None

Node == Op \cup Block \cup Region

ASSUME NodeKinds ==
  /\ NULL \notin Node
  /\ Op \cap Block = {} /\ Op \cap Region = {} /\ Block \cap Region = {}

\* A program makes finitely many operations.
ASSUME OpsFinite == IsFiniteSet(Op)

VARIABLES parent,           \* the parent field of every node
          nextOp, prevOp,   \* Operation._next_op, Operation._prev_op
          firstOp, lastOp,  \* Block._first_op, Block._last_op
          blocks,           \* Region.blocks
          regions,          \* Operation.regions
          erased,           \* nodes whose references have been dropped
          torn              \* blocks left behind by an insert_block that raised

links == <<nextOp, prevOp, firstOp, lastOp>>
ghosts == <<erased, torn>>
vars == <<parent, nextOp, prevOp, firstOp, lastOp, blocks, regions, erased, torn>>

Live == Node \ erased

----------------------------------------------------------------------------
(* Helpers that only read the structure. *)

\* Sets of nodes that contain the parent of each of their members.
UpClosed(S) == \A x \in S : parent[x] # NULL => parent[x] \in S

\* IRNode.is_ancestor: a is met on the chain of parents that starts at n, that
\* is, a is in every set that contains n and is closed under parent.
IsAncestor(a, n) == \A S \in SUBSET Node : (n \in S /\ UpClosed(S)) => a \in S

\* Everything drop_all_references reaches from n: n itself, its regions, their
\* blocks, and the operations of those blocks.
Children(n) == IF n \in Op THEN ToSet(regions[n])
               ELSE IF n \in Region THEN ToSet(blocks[n])
               ELSE {o \in Op : parent[o] = n}

DownClosed(S) == \A x \in S : Children(x) \subseteq S

Contents(n) ==
  LET closed == {S \in SUBSET Node : n \in S /\ DownClosed(S)}
  IN  {x \in Node : \A S \in closed : x \in S}

\* Mutant of CanAttach: the ancestor check is missing.
CanAttachUnchecked(child, host) == parent[child] = NULL

\* Block._attach_op and Region._attach_block: the child has no parent yet and
\* does not contain the node it is put in.
CanAttach(child, host) == parent[child] = NULL /\ ~IsAncestor(child, host)

----------------------------------------------------------------------------
(* The operation list of a block. *)

\* Mutant of LinkAfter: the new operation does not get a successor.
LinkAfterDangling(new, ex) ==
  /\ nextOp' = [nextOp EXCEPT ![ex] = new]
  /\ prevOp' = [o \in Op |-> IF o = nextOp[ex] THEN new
                             ELSE IF o = new THEN ex ELSE prevOp[o]]

\* Operation._insert_next_op
LinkAfter(new, ex) ==
  /\ nextOp' = [nextOp EXCEPT ![new] = nextOp[ex], ![ex] = new]
  /\ prevOp' = [o \in Op |-> IF o = nextOp[ex] THEN new
                             ELSE IF o = new THEN ex ELSE prevOp[o]]

\* Operation._insert_prev_op
LinkBefore(new, ex) ==
  /\ prevOp' = [prevOp EXCEPT ![new] = prevOp[ex], ![ex] = new]
  /\ nextOp' = [o \in Op |-> IF o = prevOp[ex] THEN new
                             ELSE IF o = new THEN ex ELSE nextOp[o]]

\* Mutant of InsertOpAfter: the new operation gets its neighbour as parent.
InsertOpAfterWrongParent(b, new, ex) ==
  /\ parent[ex] = b
  /\ CanAttach(new, b)
  /\ parent' = [parent EXCEPT ![new] = ex]
  /\ LinkAfter(new, ex)
  /\ lastOp' = IF nextOp[ex] = NULL THEN [lastOp EXCEPT ![b] = new] ELSE lastOp
  /\ UNCHANGED <<firstOp, blocks, regions, ghosts>>

\* Block.insert_op_after
InsertOpAfter(b, new, ex) ==
  /\ parent[ex] = b
  /\ CanAttach(new, b)
  /\ parent' = [parent EXCEPT ![new] = b]
  /\ LinkAfter(new, ex)
  /\ lastOp' = IF nextOp[ex] = NULL THEN [lastOp EXCEPT ![b] = new] ELSE lastOp
  /\ UNCHANGED <<firstOp, blocks, regions, ghosts>>

\* Block.insert_op_before
InsertOpBefore(b, new, ex) ==
  /\ parent[ex] = b
  /\ CanAttach(new, b)
  /\ parent' = [parent EXCEPT ![new] = b]
  /\ LinkBefore(new, ex)
  /\ firstOp' = IF prevOp[ex] = NULL THEN [firstOp EXCEPT ![b] = new] ELSE firstOp
  /\ UNCHANGED <<lastOp, blocks, regions, ghosts>>

\* Block.add_op.  On an empty block the links of the new operation are not set:
\* they are taken to be None already.
AddOp(b, new) ==
  \/ /\ lastOp[b] = NULL
     /\ CanAttach(new, b)
     /\ parent' = [parent EXCEPT ![new] = b]
     /\ firstOp' = [firstOp EXCEPT ![b] = new]
     /\ lastOp' = [lastOp EXCEPT ![b] = new]
     /\ UNCHANGED <<nextOp, prevOp, blocks, regions, ghosts>>
  \/ /\ lastOp[b] # NULL
     /\ InsertOpAfter(b, new, lastOp[b])

\* Mutant of Unlink: the ends of the block's list are not moved.
UnlinkKeepingEnds(b, o) ==
  /\ nextOp' = [x \in Op |-> IF x = prevOp[o] THEN nextOp[o]
                             ELSE IF x = o THEN NULL ELSE nextOp[x]]
  /\ prevOp' = [x \in Op |-> IF x = nextOp[o] THEN prevOp[o]
                             ELSE IF x = o THEN NULL ELSE prevOp[x]]
  /\ UNCHANGED <<firstOp, lastOp>>

\* The pointer updates of Block.detach_op.
Unlink(b, o) ==
  /\ nextOp' = [x \in Op |-> IF x = prevOp[o] THEN nextOp[o]
                             ELSE IF x = o THEN NULL ELSE nextOp[x]]
  /\ prevOp' = [x \in Op |-> IF x = nextOp[o] THEN prevOp[o]
                             ELSE IF x = o THEN NULL ELSE prevOp[x]]
  /\ firstOp' = IF prevOp[o] = NULL THEN [firstOp EXCEPT ![b] = nextOp[o]] ELSE firstOp
  /\ lastOp' = IF nextOp[o] = NULL THEN [lastOp EXCEPT ![b] = prevOp[o]] ELSE lastOp

\* Block.detach_op, Operation.detach
DetachOp(b, o) ==
  /\ parent[o] = b
  /\ parent' = [parent EXCEPT ![o] = NULL]
  /\ Unlink(b, o)
  /\ UNCHANGED <<blocks, regions, ghosts>>

\* drop_all_references of Operation, Block and Region: every parent pointer in
\* the subtree becomes None; links and child lists are left as they are.
DropAllReferences(n) ==
  /\ parent' = [x \in Node |-> IF x \in Contents(n) THEN NULL ELSE parent[x]]
  /\ erased' = erased \cup Contents(n)

\* Block.erase_op, Rewriter.erase_op.  Whether or not erasing the results then
\* raises, this is what has happened to the structure.
EraseOp(b, o) ==
  /\ parent[o] = b
  /\ Unlink(b, o)
  /\ DropAllReferences(o)
  /\ UNCHANGED <<blocks, regions, torn>>

\* Operation.erase and Block.erase, which assert that the node has no parent.
EraseDetached(n) ==
  /\ parent[n] = NULL
  /\ DropAllReferences(n)
  /\ UNCHANGED <<links, blocks, regions, torn>>

----------------------------------------------------------------------------
(* The block list of a region and the region list of an operation. *)

\* Operation.add_region.  The code does not check that the region does not
\* contain the operation; its callers (Operation.__init__, MLIROptPass) only
\* pass an operation that is in no block.
AddRegion(o, r) ==
  /\ parent[r] = NULL
  /\ parent[o] = NULL
  /\ regions' = [regions EXCEPT ![o] = Append(@, r)]
  /\ parent' = [parent EXCEPT ![r] = o]
  /\ UNCHANGED <<links, blocks, ghosts>>

\* Operation.detach_region
DetachRegion(o, r) ==
  /\ parent[r] = o
  /\ \E i \in DOMAIN regions[o] :
        /\ regions[o][i] = r
        /\ regions' = [regions EXCEPT ![o] = RemoveAt(@, i)]
  /\ parent' = [parent EXCEPT ![r] = NULL]
  /\ UNCHANGED <<links, blocks, ghosts>>

\* Region.add_block
AddBlock(r, b) ==
  /\ CanAttach(b, r)
  /\ parent' = [parent EXCEPT ![b] = r]
  /\ blocks' = [blocks EXCEPT ![r] = Append(@, b)]
  /\ UNCHANGED <<links, regions, ghosts>>

\* The blocks of list bs that precede position k, and whether the k-th one can
\* be attached once those are.
Before(bs, k) == {bs[j] : j \in 1..(k - 1)}
CanAttachNth(r, bs, k) == CanAttach(bs[k], r) /\ bs[k] \notin Before(bs, k)

\* Region.insert_block, also called by Rewriter.insert_block_before and _after:
\* all of bs at position i.
InsertBlocks(r, bs, i) ==
  /\ i \in 0..Len(blocks[r])
  /\ \A k \in DOMAIN bs : CanAttachNth(r, bs, k)
  /\ parent' = [x \in Node |-> IF x \in ToSet(bs) THEN r ELSE parent[x]]
  /\ blocks' = [blocks EXCEPT ![r] = SubSeq(@, 1, i) \o bs \o SubSeq(@, i + 1, Len(@))]
  /\ UNCHANGED <<links, regions, ghosts>>

\* Region.insert_block when _attach_block raises for the k-th block: the blocks
\* before it keep the new parent although the block list never gets them.
InsertBlocksRaises(r, bs, k) ==
  /\ k \in DOMAIN bs
  /\ \A j \in 1..(k - 1) : CanAttachNth(r, bs, j)
  /\ ~CanAttachNth(r, bs, k)
  /\ Before(bs, k) # {}
  /\ parent' = [x \in Node |-> IF x \in Before(bs, k) THEN r ELSE parent[x]]
  /\ torn' = torn \cup Before(bs, k)
  /\ UNCHANGED <<links, blocks, regions, erased>>

\* The new block list when block b leaves region r.
RemoveBlock(r, b) ==
  \E i \in DOMAIN blocks[r] :
     /\ blocks[r][i] = b
     /\ blocks' = [blocks EXCEPT ![r] = RemoveAt(@, i)]

\* Mutant of DetachBlock: the region keeps the block in its list.
DetachBlockKeepingEntry(r, b) ==
  /\ parent[b] = r
  /\ parent' = [parent EXCEPT ![b] = NULL]
  /\ UNCHANGED <<links, blocks, regions, ghosts>>

\* Region.detach_block
DetachBlock(r, b) ==
  /\ parent[b] = r
  /\ RemoveBlock(r, b)
  /\ parent' = [parent EXCEPT ![b] = NULL]
  /\ UNCHANGED <<links, regions, ghosts>>

\* Region.erase_block
EraseBlock(r, b) ==
  /\ parent[b] = r
  /\ RemoveBlock(r, b)
  /\ DropAllReferences(b)
  /\ UNCHANGED <<links, regions, torn>>

\* Region.move_blocks: the list object of r becomes that of d, whatever d held.
MoveBlockList(r, d) ==
  /\ blocks' = [blocks EXCEPT ![r] = <<>>, ![d] = blocks[r]]
  /\ parent' = [x \in Node |-> IF x \in ToSet(blocks[r]) THEN d ELSE parent[x]]
  /\ UNCHANGED <<links, regions, ghosts>>

\* Region.move_blocks as its callers use it: into an empty region outside r.
MoveBlocks(r, d) ==
  /\ blocks[d] = <<>>
  /\ ~IsAncestor(r, d)
  /\ MoveBlockList(r, d)

\* Rewriter.move_region_contents_to_new_regions: d is a new Region().
MoveRegionContents(r, d) ==
  /\ parent[d] = NULL /\ blocks[d] = <<>> /\ r # d
  /\ MoveBlockList(r, d)

----------------------------------------------------------------------------
(* Rewriter.inline_block_*: all operations of b are detached and inserted    *)
(* one after the other between p and n, neighbours in block d (either may be *)
(* NULL, at an end of d).  Callers must not pass a block that contains d.    *)

\* Mutant of Splice: every operation is inserted right after p, so that they end
\* up in reverse order.
SpliceReversed(b, d, p, n) ==
  /\ ~IsAncestor(b, d)
  /\ firstOp[b] # NULL
  /\ parent' = [x \in Node |-> IF x \in Op /\ parent[x] = b THEN d ELSE parent[x]]
  /\ nextOp' = [x \in Op |-> IF x = p THEN lastOp[b]
                             ELSE IF x = firstOp[b] THEN n
                             ELSE IF parent[x] = b THEN prevOp[x] ELSE nextOp[x]]
  /\ prevOp' = [x \in Op |-> IF x = n THEN firstOp[b]
                             ELSE IF x = lastOp[b] THEN p
                             ELSE IF parent[x] = b THEN nextOp[x] ELSE prevOp[x]]
  /\ firstOp' = [firstOp EXCEPT ![b] = NULL, ![d] = IF p = NULL THEN lastOp[b] ELSE @]
  /\ lastOp' = [lastOp EXCEPT ![b] = NULL, ![d] = IF n = NULL THEN firstOp[b] ELSE @]
  /\ UNCHANGED <<blocks, regions, ghosts>>

Splice(b, d, p, n) ==
  /\ ~IsAncestor(b, d)
  /\ firstOp[b] # NULL
  /\ parent' = [x \in Node |-> IF x \in Op /\ parent[x] = b THEN d ELSE parent[x]]
  /\ nextOp' = [x \in Op |-> IF x = p THEN firstOp[b]
                             ELSE IF x = lastOp[b] THEN n ELSE nextOp[x]]
  /\ prevOp' = [x \in Op |-> IF x = n THEN lastOp[b]
                             ELSE IF x = firstOp[b] THEN p ELSE prevOp[x]]
  /\ firstOp' = [firstOp EXCEPT ![b] = NULL, ![d] = IF p = NULL THEN firstOp[b] ELSE @]
  /\ lastOp' = [lastOp EXCEPT ![b] = NULL, ![d] = IF n = NULL THEN lastOp[b] ELSE @]
  /\ UNCHANGED <<blocks, regions, ghosts>>

InlineBlockAtEnd(b, d) == Splice(b, d, lastOp[d], NULL)

InlineBlockBefore(b, o) == parent[o] # NULL /\ Splice(b, parent[o], prevOp[o], o)

InlineBlockAfter(b, o) == parent[o] # NULL /\ Splice(b, parent[o], o, nextOp[o])

InlineBlockAtStart(b, d) ==
  \/ firstOp[d] = NULL /\ InlineBlockAtEnd(b, d)
  \/ firstOp[d] # NULL /\ InlineBlockBefore(b, firstOp[d])

----------------------------------------------------------------------------
\* The constructors: nodes without contents and without parent.
Init ==
  /\ parent = [x \in Node |-> NULL]
  /\ nextOp = [o \in Op |-> NULL]
  /\ prevOp = [o \in Op |-> NULL]
  /\ firstOp = [b \in Block |-> NULL]
  /\ lastOp = [b \in Block |-> NULL]
  /\ blocks = [r \in Region |-> <<>>]
  /\ regions = [o \in Op |-> <<>>]
  /\ erased = {}
  /\ torn = {}

LiveOp == Op \ erased
LiveBlock == Block \ erased
LiveRegion == Region \ erased

\* Calls on operation lists, on nodes that have not been erased.
NextOps ==
  \/ \E b \in LiveBlock, o \in LiveOp :
        \/ AddOp(b, o)
        \/ DetachOp(b, o)
        \/ EraseOp(b, o)
        \/ InlineBlockBefore(b, o)
        \/ InlineBlockAfter(b, o)
        \/ \E ex \in LiveOp : InsertOpAfter(b, o, ex) \/ InsertOpBefore(b, o, ex)
  \/ \E b, d \in LiveBlock : InlineBlockAtEnd(b, d) \/ InlineBlockAtStart(b, d)
  \/ \E n \in LiveOp \cup LiveBlock : EraseDetached(n)

\* insert_block is called with one block or a list of two.
BlockLists == {<<b>> : b \in LiveBlock} \cup (LiveBlock \X LiveBlock)

\* Calls on block lists and region lists.
NextRegions ==
  \/ \E o \in LiveOp, r \in LiveRegion : AddRegion(o, r) \/ DetachRegion(o, r)
  \/ \E r \in LiveRegion, b \in LiveBlock :
        AddBlock(r, b) \/ DetachBlock(r, b) \/ EraseBlock(r, b)
  \/ \E r \in LiveRegion, bs \in BlockLists :
        \/ \E i \in 0..Len(blocks[r]) : InsertBlocks(r, bs, i)
        \/ \E k \in DOMAIN bs : InsertBlocksRaises(r, bs, k)
  \/ \E r, d \in LiveRegion : MoveBlocks(r, d) \/ MoveRegionContents(r, d)

Next == NextOps \/ NextRegions

Spec == Init /\ [][Next]_vars

----------------------------------------------------------------------------
(* Properties. *)

TypeOK ==
  /\ parent \in [Node -> Node \cup {NULL}]
  /\ \A x \in Node : parent[x] \in (IF x \in Op THEN Block ELSE IF x \in Block THEN Region ELSE Op)
                                    \cup {NULL}
  /\ nextOp \in [Op -> Op \cup {NULL}]
  /\ prevOp \in [Op -> Op \cup {NULL}]
  /\ firstOp \in [Block -> Op \cup {NULL}]
  /\ lastOp \in [Block -> Op \cup {NULL}]
  /\ blocks \in [Region -> Seq(Block)]
  /\ regions \in [Op -> Seq(Region)]
  /\ erased \subseteq Node
  /\ torn \subseteq Block

\* A live operation that is in no block has no neighbours: what add_op relies
\* on when it puts an operation in an empty block without setting its links.
DetachedUnlinked ==
  \A o \in LiveOp : parent[o] = NULL => nextOp[o] = NULL /\ prevOp[o] = NULL

\* _next_op and _prev_op are inverse to each other and stay within one block of
\* live operations.
LinksMatch ==
  \A o \in LiveOp :
     /\ nextOp[o] # NULL =>
          /\ nextOp[o] \notin erased
          /\ prevOp[nextOp[o]] = o
          /\ parent[nextOp[o]] = parent[o]
     /\ prevOp[o] # NULL =>
          /\ prevOp[o] \notin erased
          /\ nextOp[prevOp[o]] = o
          /\ parent[prevOp[o]] = parent[o]

\* An operation without predecessor is the first of its block, one without
\* successor the last, and conversely: the assertions of Block.detach_op, and
\* the guarantee that Block.first_op and Block.last_op are what they claim.
EndsMatch ==
  /\ \A o \in LiveOp : parent[o] # NULL =>
        /\ parent[o] \notin erased
        /\ prevOp[o] = NULL <=> firstOp[parent[o]] = o
        /\ nextOp[o] = NULL <=> lastOp[parent[o]] = o
  /\ \A b \in LiveBlock :
        /\ firstOp[b] # NULL => firstOp[b] \notin erased /\ parent[firstOp[b]] = b
        /\ lastOp[b] # NULL => lastOp[b] \notin erased /\ parent[lastOp[b]] = b
        /\ firstOp[b] = NULL <=> lastOp[b] = NULL

\* The linked list of every live block is well formed, after any sequence of
\* insertions, detachments, erasures and inlinings.
LinkInv == DetachedUnlinked /\ LinksMatch /\ EndsMatch

\* Following link from start, inside the operations L, one meets all of M: every
\* set that holds start and is closed under link includes M.
Spans(L, M, start, link) ==
  \A S \in SUBSET L :
     /\ start # NULL => start \in S
     /\ \A x \in S : link[x] # NULL => link[x] \in S
     => M \subseteq S

\* BlockOps visits every operation of a live block, and so does BlockReverseOps.
\* LinkInv alone would allow a ring of operations beside the list.
Members(b) == {o \in LiveOp : parent[o] = b}
VisitsAll ==
  \A b \in LiveBlock : /\ Spans(LiveOp, Members(b), firstOp[b], nextOp)
                       /\ Spans(LiveOp, Members(b), lastOp[b], prevOp)

\* Block lists and region lists agree with the parent pointers (Region.verify
\* and get_block_index rely on it), hold no node twice and only live nodes.
\* Blocks that a failed insert_block left behind are in no list.
OwnershipInv ==
  /\ \A r \in LiveRegion :
        /\ IsInjective(blocks[r])
        /\ \A b \in Block : b \in ToSet(blocks[r]) <=> parent[b] = r /\ b \notin torn
        /\ ToSet(blocks[r]) \cap erased = {}
  /\ \A o \in LiveOp :
        /\ IsInjective(regions[o])
        /\ \A r \in Region : r \in ToSet(regions[o]) <=> parent[r] = o
        /\ ToSet(regions[o]) \cap erased = {}

\* No node contains itself: walks over regions, blocks and operations end.
\* Holds although add_region, move_blocks and inline_block_* check nothing.
Acyclic == \A x \in Node : parent[x] # NULL => ~IsAncestor(x, parent[x])

\* An erased node has no parent, and a block that a failed insert_block left
\* behind keeps the parent it was given.
ErasedOrphans == \A x \in erased : parent[x] = NULL
TornKept == \A b \in torn : parent[b] # NULL

\* The inductive invariant of the proofs.
IInv == TypeOK /\ ErasedOrphans /\ TornKept /\ OwnershipInv /\ LinkInv
        /\ VisitsAll /\ Acyclic

\* What Region.get_block_index asserts ("Unexpected xdsl error" otherwise): a
\* block whose parent is the region is in the region's list. An insert_block that
\* raises half way breaks it, for the blocks in torn.
BlockIndexDefined ==
  \A r \in LiveRegion, b \in LiveBlock : parent[b] = r => b \in ToSet(blocks[r])

----------------------------------------------------------------------------
(* The linked lists implement sequences. *)

\* Where a BlockOps iterator is after k steps: follow _next_op from _first_op.
Steps(b) ==
  LET step[k \in Nat] == IF k = 0 THEN firstOp[b]
                         ELSE IF step[k - 1] = NULL THEN NULL ELSE nextOp[step[k - 1]]
  IN  step

\* What iterating over Block.ops yields.
OpsOf(b) ==
  LET visited == {k \in 0..Cardinality(Op) : Steps(b)[k] # NULL}
  IN  IF b \in erased THEN <<>> ELSE [k \in 1..Cardinality(visited) |-> Steps(b)[k - 1]]

Abs == INSTANCE BlockSeqs WITH ops <- [b \in Block |-> OpsOf(b)]

\* Every call on the pointer structure is a call on sequences of operations: no
\* operation is lost, duplicated or reordered by inserting, detaching, erasing
\* or inlining others.
ImplementsBlockSeqs == Abs!Spec

=============================================================================
