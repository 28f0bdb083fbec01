---------------------------- MODULE PatternWalker ----------------------------
(***************************************************************************)
(* PatternRewriteWalker and PatternRewriter of xdsl/pattern_rewriter.py:   *)
(* the walk over a module that hands every operation to a pattern, while   *)
(* the pattern inserts, erases, replaces and inlines operations through    *)
(* the rewriter.  Operation lists are sequences (IRTree shows that the     *)
(* linked lists implement them).  A pattern makes any calls the rewriter   *)
(* lets it make, in any order, but for what Liberties withhold; it is      *)
(* bound to stop acting after MaxActs matches.  A call that raises ends    *)
(* the walk, and is left out.                                              *)
(***************************************************************************)
EXTENDS Naturals, FiniteSets, SequencesExt

CONSTANTS Op, Block, NULL,
          Module,      \* the ModuleOp that is rewritten
          InitOps,     \* the operations of every block at the start
          InitRegions, \* the regions of every operation, as sequences of blocks
          Modes,       \* the walker's options, see Init
          MaxActs,     \* bound: matches in which the pattern does something
          MaxCalls,    \* bound: calls of the rewriter in a match
          Liberties    \* what a pattern does, in walks that are recursive (TRUE) and
                       \* those that are not, of
                       \* "module": act on the module itself;
                       \* "after": insert after the matched operation in two calls;
                       \* "own block": put operations in the matched operation's block
                       \* by other calls than the *_matched_op ones;
                       \* "own ops": inline the matched operation's block elsewhere;
                       \* "erased": act on the module after the matched operation was
                       \* erased, other than on an operation without regions that it
                       \* has just put next to it and the walk does not go on at

ASSUME WalkerInput ==
  /\ Module \in Op /\ NULL \notin Op
  /\ InitOps \in [Block -> Seq(Op)]
  /\ InitRegions \in [Op -> Seq(Seq(Block))]
  /\ Modes \subseteq [first : BOOLEAN, recursive : BOOLEAN, reverse : BOOLEAN]
  /\ MaxActs \in Nat /\ MaxCalls \in Nat
  /\ Liberties \in [BOOLEAN -> SUBSET {"module", "after", "own block", "own ops", "erased"}]

\* An operation has one place in one block and a block one region that holds it,
\* which IRTree proves of every IR; the module is a root, in no block.
ASSUME InitTree ==
  /\ \A b \in Block : IsInjective(InitOps[b]) /\ Module \notin ToSet(InitOps[b])
  /\ \A b, c \in Block : b # c => ToSet(InitOps[b]) \cap ToSet(InitOps[c]) = {}
  /\ \A o, p \in Op : \A i \in DOMAIN InitRegions[o], j \in DOMAIN InitRegions[p] :
       o # p \/ i # j => ToSet(InitRegions[o][i]) \cap ToSet(InitRegions[p][j]) = {}

VARIABLES mode,     \* walk_regions_first, apply_recursively, walk_reverse
          ops,      \* Block.ops
          regions,  \* Operation.regions, each the sequence of its blocks
          fresh,    \* operations not yet put in a block
          stack,    \* activations of _rewrite_op, the innermost first
          rw,       \* the PatternRewriter of the match under way
          acts,     \* matches in which the pattern did something
          seen,     \* operations the pattern was matched on
          twice,    \* operations it was matched on more than once
          quiet,    \* operations on which the last match did nothing
          moved     \* operations that a pattern moved with a block, or inside an
                    \* operation to a place the walker is not told of

ir == <<ops, regions, fresh, moved>>
walk == <<mode, stack, seen, twice, quiet>>
vars == <<mode, ops, regions, fresh, stack, rw, acts, seen, twice, quiet, moved>>

Original == UNION {ToSet(InitOps[b]) : b \in Block}

----------------------------------------------------------------------------
(* The IR.  Blocks that are in no region are detached. *)

Attached(o) == \E b \in Block : o \in ToSet(ops[b])
BlockOf(o) == CHOOSE b \in Block : o \in ToSet(ops[b])

PosOf(o) == CHOOSE i \in DOMAIN ops[BlockOf(o)] : ops[BlockOf(o)][i] = o

\* Operation.next_op and prev_op
NextOp(o) == IF Attached(o) /\ PosOf(o) < Len(ops[BlockOf(o)])
             THEN ops[BlockOf(o)][PosOf(o) + 1] ELSE NULL
PrevOp(o) == IF Attached(o) /\ PosOf(o) > 1
             THEN ops[BlockOf(o)][PosOf(o) - 1] ELSE NULL

ChildBlocks(o) == UNION {ToSet(regions[o][k]) : k \in DOMAIN regions[o]}

\* The blocks inside o, at any depth.
NestedBlocks(o) ==
  {b \in Block : \A S \in SUBSET Block :
     /\ ChildBlocks(o) \subseteq S
     /\ \A c \in S : \A p \in ToSet(ops[c]) : ChildBlocks(p) \subseteq S
     => b \in S}

NestedOps(o) == UNION {ToSet(ops[b]) : b \in NestedBlocks(o)}
InModule(o) == o = Module \/ o \in NestedOps(Module)

\* Sequence s with t put in after position i.
Spliced(s, t, i) == SubSeq(s, 1, i) \o t \o SubSeq(s, i + 1, Len(s))

\* The operation lists once o is erased with everything in it.
Without(o) ==
  [b \in Block |-> IF b = BlockOf(o) THEN RemoveAt(ops[b], PosOf(o))
                  ELSE IF b \in NestedBlocks(o) THEN <<>> ELSE ops[b]]

----------------------------------------------------------------------------
(* PatternRewriter, while the pattern is matched on cur. *)

cur == stack[1].op
Matching == stack # <<>> /\ stack[1].ph = "match"

\* A liberty the pattern takes.
May(l) == l \in Liberties[mode.recursive]

NewRewriter == [before |-> <<>>, after |-> <<>>, erased |-> FALSE, done |-> FALSE, calls |-> 0]

\* Mutant: has_erased_matched_operation is not looked at.
AffectedOpsWithErased == rw.before \o <<cur>> \o rw.after

\* iter_affected_ops
AffectedOps == rw.before \o (IF rw.erased THEN <<>> ELSE <<cur>>) \o rw.after

\* Mutant: the created operations are not returned to.
NeighbourReturned == IF mode.reverse THEN stack[1].prev ELSE stack[1].next

\* Mutant: has_done_action is not looked at.
AffectedReturned ==
  IF ~mode.recursive \/ AffectedOps = <<>> THEN NeighbourReturned
  ELSE IF mode.reverse THEN Last(AffectedOps) ELSE Head(AffectedOps)

\* What _rewrite_op returns: the neighbour read before the match, or with
\* apply_recursively the first (in reverse the last) affected operation.
ReturnedOp ==
  LET neighbour == IF mode.reverse THEN stack[1].prev ELSE stack[1].next
  IN  IF ~(rw.done /\ mode.recursive) \/ AffectedOps = <<>> THEN neighbour
      ELSE IF mode.reverse THEN Last(AffectedOps) ELSE Head(AffectedOps)

\* Any call: has_done_action is set.
Act(r) ==
  /\ Matching
  /\ cur # Module \/ May("module")
  /\ rw.done \/ acts < MaxActs
  /\ rw.calls < MaxCalls
  /\ rw' = [r EXCEPT !.done = TRUE, !.calls = @ + 1]
  /\ acts' = IF rw.done THEN acts ELSE acts + 1
  /\ UNCHANGED walk

\* _can_modify_op and _can_modify_block climb to the matched operation, which they
\* allow, or to a root: a block, a region or an operation in no block.  They refuse the
\* root operation of the matched one and what is in it; current_operation.parent is
\* allowed too.
Within(R) == UNION {NestedBlocks(r) : r \in R}
OwnBlock == {b \in Block : cur \in ToSet(ops[b])}
Toplevel == {r \in Op : ~Attached(r) /\ cur \in {r} \cup NestedOps(r)}
CanModifyBlock == OwnBlock \cup NestedBlocks(cur) \cup (Block \ Within(Toplevel))
CanModifyOp ==
  {cur} \cup NestedOps(cur) \cup (Op \ UNION {{r} \cup NestedOps(r) : r \in Toplevel})

\* What a pattern leaves alone although the rewriter does not mind: operations that
\* were erased and what was in them; unless it takes the liberty, the matched
\* operation's own block, and the module once the matched operation is erased.
Erased == {o \in Op \ fresh : o # Module /\ ~Attached(o)}
LeftModule == rw.erased /\ ~May("erased")
LeftBlocks(own) ==
  Within(Erased) \cup (IF May(own) THEN {} ELSE OwnBlock)
                 \cup (IF LeftModule THEN NestedBlocks(Module) ELSE {})
LeftOps ==
  Erased \cup (IF LeftModule
               THEN {o \in Op : InModule(o) /\ (o \notin ToSet(AffectedOps) \ {ReturnedOp} \/ regions[o] # <<>>)}
               ELSE {})

\* The blocks a pattern takes operations from and those it puts them in, the
\* operations it replaces or takes regions from.
Sources == CanModifyBlock \ LeftBlocks("own ops")
Targets == CanModifyBlock \ LeftBlocks("own block")
Subjects == CanModifyOp \ LeftOps

\* Operations a pattern has created: one, or a list of two.
NewOps == {<<n>> : n \in fresh} \cup (fresh \X fresh)

\* Operations ns can be attached to block b.
CanAttach(ns, b) ==
  IsInjective(ns) /\ \A n \in ToSet(ns) : n # cur /\ b \notin NestedBlocks(n)

\* insert_op_before_matched_op
InsertBeforeMatched(ns) ==
  /\ Act([rw EXCEPT !.before = @ \o ns])
  /\ Attached(cur) /\ CanAttach(ns, BlockOf(cur))
  /\ ops' = [ops EXCEPT ![BlockOf(cur)] = Spliced(@, ns, PosOf(cur) - 1)]
  /\ fresh' = fresh \ ToSet(ns)
  /\ UNCHANGED <<regions, moved>>

\* insert_op_after_matched_op
InsertAfterMatched(ns) ==
  /\ Act([rw EXCEPT !.after = @ \o ns])
  /\ rw.after = <<>> \/ May("after")
  /\ Attached(cur) /\ CanAttach(ns, BlockOf(cur))
  /\ ops' = [ops EXCEPT ![BlockOf(cur)] = Spliced(@, ns, PosOf(cur))]
  /\ fresh' = fresh \ ToSet(ns)
  /\ UNCHANGED <<regions, moved>>

\* insert_op_at_start, insert_op_at_end, insert_op_before, insert_op_after: n at
\* some place of a block; the walker is not told.
InsertInBlock(n, b, i) ==
  /\ Act(rw)
  /\ CanAttach(<<n>>, b)
  /\ ops' = [ops EXCEPT ![b] = Spliced(@, <<n>>, i)]
  /\ fresh' = fresh \ {n}
  /\ moved' = moved \cup IF b \in NestedBlocks(cur) THEN {} ELSE NestedOps(n)
  /\ UNCHANGED regions

\* erase_matched_op
EraseMatched ==
  /\ Act([rw EXCEPT !.erased = TRUE])
  /\ Attached(cur)
  /\ ops' = Without(cur)
  /\ UNCHANGED <<regions, fresh, moved>>

\* replace_matched_op
ReplaceMatched(ns) ==
  /\ Act([rw EXCEPT !.before = @ \o ns, !.erased = TRUE])
  /\ Attached(cur) /\ CanAttach(ns, BlockOf(cur))
  /\ ops' = [Without(cur) EXCEPT ![BlockOf(cur)] = Spliced(@, ns, PosOf(cur) - 1)]
  /\ fresh' = fresh \ ToSet(ns)
  /\ UNCHANGED <<regions, moved>>

\* erase_op and replace_op on another operation than the matched one.
ReplaceNested(o, ns) ==
  /\ Act(rw)
  /\ Attached(o) /\ o # cur /\ CanAttach(ns, BlockOf(o))
  /\ ops' = [Without(o) EXCEPT ![BlockOf(o)] = Spliced(@, ns, PosOf(o) - 1)]
  /\ fresh' = fresh \ ToSet(ns)
  /\ moved' = moved \cup IF o \in NestedOps(cur) THEN {} ELSE UNION {NestedOps(n) : n \in ToSet(ns)}
  /\ UNCHANGED regions

\* The operations of block b go to position i of block d; told is whether the
\* rewriter records them.
Inline(b, d, i, told) ==
  /\ ops[b] # <<>> /\ d # b /\ d \notin UNION {NestedBlocks(p) : p \in ToSet(ops[b])}
  /\ ops' = [ops EXCEPT ![b] = <<>>, ![d] = Spliced(@, ops[b], i)]
  /\ moved' = moved \cup ToSet(ops[b])
                   \cup IF d \in NestedBlocks(cur) \/ told THEN {} ELSE UNION {NestedOps(p) : p \in ToSet(ops[b])}
  /\ UNCHANGED <<regions, fresh>>

\* inline_block_before_matched_op
InlineBeforeMatched(b) ==
  /\ Act([rw EXCEPT !.before = @ \o ops[b]])
  /\ Attached(cur)
  /\ Inline(b, BlockOf(cur), PosOf(cur) - 1, TRUE)

\* inline_block_after_matched_op
InlineAfterMatched(b) ==
  /\ Act([rw EXCEPT !.after = @ \o ops[b]])
  /\ rw.after = <<>> \/ May("after")
  /\ Attached(cur)
  /\ Inline(b, BlockOf(cur), PosOf(cur), TRUE)

\* inline_block_at_end, _at_start, _before and _after.  In the block of cur, the
\* place just after cur is reached through inline_block_after_matched_op.
InlineNested(b, d, i) ==
  /\ Act(rw)
  /\ Attached(cur) /\ d = BlockOf(cur) => i # PosOf(cur) \/ i = Len(ops[d])
  /\ Inline(b, d, i, FALSE)

\* move_region_contents_to_new_regions on region k of p, the new region going to a
\* new operation.
MoveRegion(n, p, k) ==
  /\ Act(rw)
  /\ n # p /\ regions[p][k] # <<>>
  /\ regions' = [regions EXCEPT ![n] = Append(@, regions[p][k]), ![p][k] = <<>>]
  /\ UNCHANGED <<ops, fresh, moved>>

\* modify_block_argument_type, insert_block_argument, erase_block_argument, and
\* setting has_done_action by hand: nothing the walk depends on changes.
Touch == ~rw.done /\ Act(rw) /\ UNCHANGED ir

\* A call of the pattern, on what the rewriter allows.
Rewrite ==
  /\ Matching
  /\ \/ \E ns \in NewOps : InsertBeforeMatched(ns) \/ InsertAfterMatched(ns)
     \/ \E ns \in NewOps : ReplaceMatched(ns)
     \/ EraseMatched
     \/ \E b \in Targets, n \in fresh : \E i \in 0..Len(ops[b]) : InsertInBlock(n, b, i)
     \/ \E o \in Subjects : ReplaceNested(o, <<>>) \/ \E n \in fresh : ReplaceNested(o, <<n>>)
     \/ \E b \in Sources : InlineBeforeMatched(b) \/ InlineAfterMatched(b)
     \/ \E b \in Sources, d \in Targets : \E i \in 0..Len(ops[d]) : InlineNested(b, d, i)
     \/ \E p \in Subjects : \E n \in fresh, k \in DOMAIN regions[p] : MoveRegion(n, p, k)
     \/ Touch

----------------------------------------------------------------------------
(* PatternRewriteWalker._rewrite_op.  An activation walks the blocks of work, *)
(* at operation it; then it matches, or returns ret.                          *)

\* The blocks _rewrite_op_regions visits: the regions in order, the blocks of
\* each in order or in reverse.
BlocksOf(o) ==
  FlattenSeq([k \in DOMAIN regions[o] |->
                IF mode.reverse THEN Reverse(regions[o][k]) ELSE regions[o][k]])

Activation(o) ==
  [op |-> o, ph |-> "first", work |-> IF mode.first THEN BlocksOf(o) ELSE <<>>,
   it |-> NULL, prev |-> NULL, next |-> NULL, ret |-> NULL]

Walking == stack # <<>> /\ stack[1].ph \in {"first", "after"}

\* for block in blocks: iter_op = block.last_op or block.first_op
EnterBlock ==
  /\ Walking /\ stack[1].it = NULL /\ stack[1].work # <<>>
  /\ LET s == ops[Head(stack[1].work)]
     IN  stack' = [stack EXCEPT ![1].work = Tail(@),
                                ![1].it = IF s = <<>> THEN NULL
                                          ELSE IF mode.reverse THEN Last(s) ELSE Head(s)]
  /\ UNCHANGED <<ir, mode, rw, acts, seen, twice, quiet>>

\* while iter_op is not None: iter_op = self._rewrite_op(iter_op)
VisitOp ==
  /\ Walking /\ stack[1].it # NULL
  /\ stack' = <<Activation(stack[1].it)>> \o stack
  /\ UNCHANGED <<ir, mode, rw, acts, seen, twice, quiet>>

\* prev_op and next_op are read before the pattern runs.
StartMatch ==
  /\ Walking /\ stack[1].ph = "first" /\ stack[1].it = NULL /\ stack[1].work = <<>>
  /\ stack' = [stack EXCEPT ![1].ph = "match", ![1].prev = PrevOp(cur), ![1].next = NextOp(cur)]
  /\ rw' = NewRewriter
  /\ seen' = seen \cup {cur}
  /\ twice' = IF cur \in seen THEN twice \cup {cur} ELSE twice
  /\ UNCHANGED <<ir, mode, acts, quiet>>

\* Mutant: only the regions of the new operations are walked after an action.
BlocksOfNewOps ==
  IF mode.first \/ (rw.done /\ mode.recursive) THEN <<>>
  ELSE IF rw.done THEN FlattenSeq([k \in DOMAIN rw.before |-> BlocksOf(rw.before[k])])
  ELSE BlocksOf(cur)

\* Mutant: walk_regions_first is not looked at after an action.
BlocksAgain ==
  IF (~rw.done /\ mode.first) \/ (rw.done /\ mode.recursive) THEN <<>>
  ELSE FlattenSeq([k \in DOMAIN AffectedOps |-> BlocksOf(AffectedOps[k])])

\* The regions that are walked after the match.
BlocksAfter ==
  IF mode.first \/ (rw.done /\ mode.recursive) THEN <<>>
  ELSE IF rw.done THEN FlattenSeq([k \in DOMAIN AffectedOps |-> BlocksOf(AffectedOps[k])])
  ELSE BlocksOf(cur)

EndMatch ==
  /\ Matching
  /\ stack' = [stack EXCEPT ![1].ph = "after", ![1].work = BlocksAfter, ![1].ret = ReturnedOp]
  /\ quiet' = IF rw.done THEN quiet \ {cur} ELSE quiet \cup {cur}
  /\ UNCHANGED <<ir, mode, rw, acts, seen, twice>>

Return ==
  /\ Walking /\ stack[1].ph = "after" /\ stack[1].it = NULL /\ stack[1].work = <<>>
  /\ stack' = IF Len(stack) = 1 THEN <<>> ELSE [Tail(stack) EXCEPT ![1].it = stack[1].ret]
  /\ UNCHANGED <<ir, mode, rw, acts, seen, twice, quiet>>

Init ==
  /\ mode \in Modes
  /\ ops = InitOps
  /\ regions = InitRegions
  /\ fresh = Op \ (Original \cup {Module})
  /\ stack = <<Activation(Module)>>
  /\ rw = NewRewriter
  /\ acts = 0
  /\ seen = {} /\ twice = {} /\ quiet = {} /\ moved = {}

Finished == stack = <<>> /\ UNCHANGED vars

Next == EnterBlock \/ VisitOp \/ StartMatch \/ EndMatch \/ Return \/ Finished \/ Rewrite

\* The walk is one synchronous call: while it can go on, it does.
Spec == Init /\ [][Next]_vars /\ WF_vars(Next)

----------------------------------------------------------------------------
(* Properties. *)

TypeOK ==
  /\ mode \in Modes
  /\ \A b \in Block : ops[b] \in Seq(Op)
  /\ fresh \subseteq Op /\ seen \subseteq Op /\ quiet \subseteq seen /\ twice \subseteq seen
  /\ \A k \in DOMAIN stack : /\ stack[k].op \in Op
                             /\ stack[k].ph \in {"first", "match", "after"}
                             /\ stack[k].it \in Op \cup {NULL}
                             /\ stack[k].ret \in Op \cup {NULL}
  /\ acts \in 0..MaxActs

\* The walker never goes on at an operation that has left the module: what it
\* read before the match (next_op, prev_op), or takes from iter_affected_ops, is
\* still there when _rewrite_op_regions goes on with it.
NoStale == Walking /\ stack[1].it # NULL => InModule(stack[1].it)

\* "Rewrite an entire module operation": after the walk, the pattern has been
\* matched on every original operation that is still there, unless a pattern
\* moved it behind the walker's back.
OriginalsMatched ==
  stack = <<>> => \A o \in Original : InModule(o) => o \in seen \cup moved

\* With apply_recursively, the walk ends in a fixpoint: every operation that is in
\* the module was last matched without effect.
FixpointReached ==
  stack = <<>> /\ mode.recursive => \A o \in Op : InModule(o) => o \in quiet

\* Without apply_recursively, no operation is matched twice, unless a pattern
\* moved it to where the walk is still to come.
MatchedOnce == ~mode.recursive => twice \subseteq moved

\* The walk ends if the pattern stops acting.
Terminates == <>(stack = <<>>)

\* "The walker will also walk recursively on the created operations." Broken by two
\* insertions after the matched operation in one match.
CreatedWalked ==
  stack = <<>> /\ mode.recursive => \A o \in Op \ Original : InModule(o) => o \in seen

=============================================================================
