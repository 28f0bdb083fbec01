-------------------------------- MODULE Clone --------------------------------
(***************************************************************************)
(* Operation.clone, Region.clone_into, Operation.verify and                *)
(* is_structurally_equivalent of xdsl/ir/core.py.  An operation with two   *)
(* blocks is built, cloned one operation at a time through the two         *)
(* mappers, and both copies may then be changed and compared.  Operations  *)
(* have at most one region, one result and one operand, blocks at most one *)
(* argument.                                                               *)
(***************************************************************************)
EXTENDS IRGraph

CONSTANTS MaxOps,    \* bound: operations built inside the original
          MaxTweaks, \* bound: changes to either copy after cloning
          Liberties  \* {"forward"}: an operand may name a value that is
                     \* defined later in the walk order, or around it

ASSUME CloneInput ==
  MaxOps \in Nat /\ MaxTweaks \in Nat /\ Liberties \subseteq {"forward"}

VARIABLES vmap,   \* value_mapper
          bmap,   \* block_mapper
          todo,   \* the parts of clone and clone_into still to be done, in order
          phase,  \* "build", "clone", "done"
          copy,   \* the clone of Root, 0 before there is one
          tweaks  \* changes made since

vars == <<op, block, vmap, bmap, todo, phase, copy, tweaks>>
----------------------------------------------------------------------------
(* The original, and changes to either copy. *)

\* An operation more at the end of block b of o.
Grow(o, b) == AddOp(b, DefinedIn(o) \cup {Outer}, ToSet(op[block[b].parent].region))

\* An input that is not disciplined is not used.
Disciplined(o) == "forward" \in Liberties \/ DefinedFirst(o)

Build ==
  /\ phase = "build" /\ Len(op) <= MaxOps /\ Disciplined(Root)
  /\ \E b \in ToSet(BlocksOf(Root)) : Grow(Root, b)
  /\ UNCHANGED <<vmap, bmap, todo, phase, copy, tweaks>>

\* A change to one of the copies: an operation more, another operand, another
\* successor, another name, an argument more.
Tweak ==
  /\ phase = "done" /\ tweaks < MaxTweaks
  /\ \E r \in {Root, copy} :
       \/ \E b \in ToSet(BlocksOf(r)) : Grow(r, b)
       \/ /\ UNCHANGED block
          /\ \E o \in ToSet(OpsOf(r)) \ {r} :
               \/ op[o].operands # <<>> /\ \E v \in DefinedIn(Root) \cup DefinedIn(copy) \cup {Outer} :
                                             op' = [op EXCEPT ![o].operands = <<v>>]
               \/ op[o].succs # <<>> /\ \E b \in DOMAIN block : op' = [op EXCEPT ![o].succs = <<b>>]
               \/ HasResult(o) /\ op' = [op EXCEPT ![o].name = "b"]
       \/ /\ UNCHANGED op
          /\ \E b \in ToSet(BlocksOf(r)) : /\ block[b].args = 0
                                           /\ block' = [block EXCEPT ![b].args = 1]
  /\ tweaks' = tweaks + 1
  /\ UNCHANGED <<vmap, bmap, todo, phase, copy>>

----------------------------------------------------------------------------
(* clone *)

BeginClone ==
  /\ phase = "build" /\ Disciplined(Root)
  /\ phase' = "clone"
  /\ todo' = <<[do |-> "op", of |-> Root, to |-> 0]>>
  /\ UNCHANGED <<ir, vmap, bmap, copy, tweaks>>

\* clone_without_regions, with the blocks that clone_into is about to make.
ClonedOp(o) ==
  NewOp(op[o].name,
        [i \in DOMAIN op[o].operands |-> Mapped(vmap, op[o].operands[i])],
        [i \in DOMAIN op[o].succs |-> Mapped(bmap, op[o].succs[i])],
        [i \in DOMAIN op[o].region |-> Len(block) + i])

\* clone of one operation: the operation, its results in value_mapper, and all
\* the blocks of its region, empty, in block_mapper; then the blocks are filled,
\* and the caller adds the operation to its block.
CloneOp ==
  /\ phase = "clone" /\ todo # <<>> /\ Head(todo).do = "op"
  /\ LET o == Head(todo).of
         region == op[o].region
     IN  /\ op' = Append(op, ClonedOp(o))
         /\ vmap' = IF HasResult(o) THEN Extend(vmap, {Result(o)}, LAMBDA v : Result(NextOp)) ELSE vmap
         /\ bmap' = Extend(bmap, ToSet(region),
                           LAMBDA b : Len(block) + CHOOSE i \in DOMAIN region : region[i] = b)
         /\ block' = block \o [i \in DOMAIN region |-> NewBlock(0, NextOp)]
         /\ todo' = [i \in DOMAIN region |-> [do |-> "block", of |-> region[i], to |-> Len(block) + i]]
                    \o <<[do |-> "add", of |-> NextOp, to |-> Head(todo).to]>> \o Tail(todo)
  /\ UNCHANGED <<phase, copy, tweaks>>

\* Mutant: the arguments are made, but not entered in value_mapper.
FillBlockUnmapped ==
  /\ phase = "clone" /\ todo # <<>> /\ Head(todo).do = "block"
  /\ LET b == Head(todo).of
     IN  /\ block' = [block EXCEPT ![Head(todo).to].args = block[b].args]
         /\ todo' = [i \in DOMAIN block[b].ops |->
                       [do |-> "op", of |-> block[b].ops[i], to |-> Head(todo).to]] \o Tail(todo)
  /\ UNCHANGED <<op, bmap, vmap, phase, copy, tweaks>>

\* One turn of clone_into's second loop: the arguments, then the operations.
FillBlock ==
  /\ phase = "clone" /\ todo # <<>> /\ Head(todo).do = "block"
  /\ LET b == Head(todo).of
     IN  /\ block' = [block EXCEPT ![Head(todo).to].args = block[b].args]
         /\ vmap' = IF block[b].args = 0 THEN vmap
                    ELSE Extend(vmap, {BlockArg(b)}, LAMBDA v : BlockArg(Head(todo).to))
         /\ todo' = [i \in DOMAIN block[b].ops |->
                       [do |-> "op", of |-> block[b].ops[i], to |-> Head(todo).to]] \o Tail(todo)
  /\ UNCHANGED <<op, bmap, phase, copy, tweaks>>

\* Mutant: the cloned operation goes to the front of its block.
AddClonedFirst ==
  /\ phase = "clone" /\ todo # <<>> /\ Head(todo).do = "add"
  /\ IF Head(todo).to = 0 THEN copy' = Head(todo).of /\ phase' = "done" /\ UNCHANGED block
     ELSE /\ block' = [block EXCEPT ![Head(todo).to].ops = <<Head(todo).of>> \o @]
          /\ UNCHANGED <<copy, phase>>
  /\ todo' = Tail(todo)
  /\ UNCHANGED <<op, vmap, bmap, tweaks>>

\* new_block.add_op(op.clone(...)), or the end of the outermost clone.
AddCloned ==
  /\ phase = "clone" /\ todo # <<>> /\ Head(todo).do = "add"
  /\ IF Head(todo).to = 0 THEN copy' = Head(todo).of /\ phase' = "done" /\ UNCHANGED block
     ELSE /\ block' = [block EXCEPT ![Head(todo).to].ops = Append(@, Head(todo).of)]
          /\ UNCHANGED <<copy, phase>>
  /\ todo' = Tail(todo)
  /\ UNCHANGED <<op, vmap, bmap, tweaks>>

----------------------------------------------------------------------------
(* is_structurally_equivalent, on operations and on blocks.  The context is    *)
(* handed on from call to call; NotEquivalent once a call returned False.      *)

NotEquivalent == [ok |-> FALSE, ctx |-> <<>>]
Equivalent(ctx) == [ok |-> TRUE, ctx |-> ctx]

\* Mutant: the operands are not compared.
SameUsesOfSuccs(o, p, ctx) ==
  \A i \in DOMAIN op[o].succs : Mapped(ctx.blocks, op[o].succs[i]) = op[p].succs[i]

\* Operands and successors, through the context.
SameUses(o, p, ctx) ==
  /\ \A i \in DOMAIN op[o].operands : Mapped(ctx.vals, op[o].operands[i]) = op[p].operands[i]
  /\ \A i \in DOMAIN op[o].succs : Mapped(ctx.blocks, op[o].succs[i]) = op[p].succs[i]

SameShape(o, p) ==
  /\ op[o].name = op[p].name
  /\ Len(op[o].operands) = Len(op[p].operands)
  /\ Len(op[o].succs) = Len(op[p].succs)
  /\ Len(op[o].region) = Len(op[p].region)

\* Two attached operations must be in blocks the context has as equivalent; asked
\* without a context, attached operations are never equivalent.
SameParent(o, p, ctx) ==
  InBlock(o) /\ InBlock(p) => /\ BlockOf(o) \in DOMAIN ctx.blocks
                             /\ ctx.blocks[BlockOf(o)] = BlockOf(p)

RECURSIVE EquivalentOps(_, _, _)
EquivalentBlocks(b, c, ctx) ==
  IF block[b].args # block[c].args \/ Len(block[b].ops) # Len(block[c].ops) THEN NotEquivalent
  ELSE LET withArg == IF block[b].args = 0 THEN ctx
                      ELSE [ctx EXCEPT !.vals = Extend(@, {BlockArg(b)}, LAMBDA v : BlockArg(c))]
       IN  FoldLeft(LAMBDA r, i : IF r.ok THEN EquivalentOps(block[b].ops[i], block[c].ops[i], r.ctx)
                                  ELSE r,
                    Equivalent(withArg), [i \in DOMAIN block[b].ops |-> i])

\* Regions, as the sequences of their blocks, all of which are in the context before
\* any is compared.
EquivalentRegions(bs, cs, ctx) ==
  LET withBlocks == [ctx EXCEPT !.blocks =
                       Extend(@, ToSet(bs), LAMBDA b : cs[CHOOSE i \in DOMAIN bs : bs[i] = b])]
  IN  FoldLeft(LAMBDA r, i : IF r.ok THEN EquivalentBlocks(bs[i], cs[i], r.ctx) ELSE r,
               Equivalent(withBlocks), [i \in DOMAIN bs |-> i])

EquivalentOps(o, p, ctx) ==
  IF ~(SameShape(o, p) /\ SameParent(o, p, ctx) /\ SameUses(o, p, ctx)) THEN NotEquivalent
  ELSE LET regions == EquivalentRegions(op[o].region, op[p].region, ctx)
       IN  IF regions.ok /\ HasResult(o)
           THEN Equivalent([regions.ctx EXCEPT !.vals = Extend(@, {Result(o)}, LAMBDA v : Result(p))])
           ELSE regions

IsStructurallyEquivalent(o, p) == EquivalentOps(o, p, [vals |-> <<>>, blocks |-> <<>>]).ok

----------------------------------------------------------------------------
Init ==
  /\ InitIR
  /\ vmap = <<>> /\ bmap = <<>> /\ todo = <<>>
  /\ phase = "build" /\ copy = 0 /\ tweaks = 0

Finished == (phase = "done" \/ (phase = "build" /\ ~Disciplined(Root))) /\ UNCHANGED vars

Next == Build \/ BeginClone \/ CloneOp \/ FillBlock \/ AddCloned \/ Tweak \/ Finished

Spec == Init /\ [][Next]_vars

----------------------------------------------------------------------------
(* Properties. *)

Cloned == phase = "done" /\ tweaks = 0

TypeOK ==
  /\ phase \in {"build", "clone", "done"} /\ tweaks \in 0..MaxTweaks
  /\ \A o \in DOMAIN op : /\ op[o].name \in {"m", "a", "b", "t"}
                          /\ ToSet(op[o].region) \cup ToSet(op[o].succs) \subseteq DOMAIN block
  /\ \A b \in DOMAIN block : /\ block[b].args \in 0..1 /\ block[b].parent \in DOMAIN op
                             /\ ToSet(block[b].ops) \subseteq DOMAIN op
  /\ copy \in 0..Len(op)

\* The clone stands for itself: its operands and successors are its own or come
\* from outside, none is a value or a block of the original.
Separate ==
  Cloned => \A o \in ToSet(OpsOf(copy)) :
              /\ ToSet(op[o].operands) \cap DefinedIn(Root) = {}
              /\ ToSet(op[o].succs) \cap ToSet(BlocksOf(Root)) = {}

\* "Clone an operation with all its regions and operations in them": the clone is
\* structurally equivalent to the original, and what verify accepts of the
\* original it accepts of the clone.
ClonedAlike ==
  Cloned => /\ IsStructurallyEquivalent(Root, copy)
            /\ Verified(Root) => Verified(copy)

\* is_structurally_equivalent returns True exactly for operations that are alike,
\* after any change to either: "the use dependencies and successors are equivalent".
\* Both are detached; attached operations are compared here only inside them.
EquivalenceExact ==
  phase = "done" /\ Disciplined(Root) /\ Disciplined(copy) =>
    (IsStructurallyEquivalent(Root, copy) <=> Isomorphic(Root, copy))

=============================================================================
