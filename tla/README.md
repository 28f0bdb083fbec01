# A TLA+ model of xDSL's core

xDSL is a Python toolkit for building compilers on SSA intermediate
representations, in the style of MLIR. This directory holds TLA+ modules that
model its core (the mutable IR, cloning, text, operation definitions, the
pattern rewriter, the desymrefier, RISC-V register allocation, the interpreter,
affine expressions, the interactive app), the TLC configurations that check them
on small instances, and proofs, checked by TLAPS, of the structural invariants
for instances of any size. `PROJECT.json` maps every definition to the lines it
models.

The compiler is sequential; only the interactive app handles messages that
arrive later and in another order than they were caused in. What makes the rest
hard is not concurrency but mutable, redundant, pointer-linked state that is changed while it is being traversed:
parent pointers next to child lists, linked lists with pointers at both ends,
use sets next to operand tuples, walkers that remember a position while a
callback edits the list, calls that raise half way and leave what they have
done, and an allocator whose queue has to stay in step with the types it wrote.

## 1. Inventory

| Component | State | Operations | What is hard | What makes it correct |
|---|---|---|---|---|
| IR containment (`ir/core.py`, `rewriter.py`) | parent pointers, `_next_op`/`_prev_op`, `_first_op`/`_last_op`, `Region.blocks`, `Operation.regions` | insert, detach, erase, inline, move, add, on all three kinds of nodes | the same fact is stored twice or three times; only some calls check for cycles; calls raise half way | lists well formed and complete, child lists agree with parents, no cycle, the lists behave as sequences |
| SSA values and uses (`ir/core.py`, `rewriter.py`) | `_operands`, `uses`, `Block._args`, `BlockArgument.index` | operand assignment, `replace_by`, `erase` with and without `safe_erase`, argument insertion and erasure, `replace_op` | two copies of one relation; references are dropped before results are checked | uses and operands describe one relation; no operand dangles silently; arguments know their position |
| Pattern rewriting (`pattern_rewriter.py`) | the recursion of `_rewrite_op`, the rewriter's record of a match | every `PatternRewriter` call, `rewrite_module` in eight modes | neighbours are read before the pattern runs and used after it | never continues in an erased operation, misses nothing, ends, reaches a fixpoint |
| RISC-V register allocation (`backend/riscv/`) | types of values, register queue, counter of made-up registers | allocation backwards over blocks and loops, limit, exclusion of preallocated registers | a register is given back at the definition, loops need values for longer than the text shows | the allocated function reads the values its operands stand for |
| Cloning, structural equivalence (`ir/core.py`) | value and block mappers | `clone_into`, `is_structurally_equivalent` | mapping fills up as it is used | a clone is equivalent and shares nothing |
| `MLContext` (`ir/core.py`) | registered dialects, operations, attributes | `load_dialect`, lookups | a load fails half way; a lookup registers | failed loads leave no trace; lookups do not block loads |
| Attributes, IRDL (`irdl/`) | an operation's flat lists and segment sizes; bound constraint variables | builder, accessors, verification | one shape is kept twice, and computed three times; variables are bound greedily | accessors give back what the builder got; verification accepts what meets the constraints |
| Affine expressions and maps (`ir/affine/`) | none | construction with folding, evaluation, composition, inverse permutation, text | rounding of negative numbers, index arithmetic, precedence | expressions evaluate to what was written, before and after printing |
| Verification and traits (`traits.py`) | symbol tables | checks, `ensure_terminator` | | |
| Parser (`parser/`) | value and block scopes, forward references | enter and leave regions, define, use | uses ahead of definitions across nested regions | every use gets the value its scope names, with its type |
| Printer (`printer.py`) | names and a counter | name choice | hints that look like made-up names | names are unique |
| Builder (`builder.py`) | insertion point, thread-local stack | `insert`, implicit builders | an insertion point goes stale; pops on exceptions | operations go where the innermost builder says |
| Interpreter (`interpreter.py`) | scope chain, symbol table | calls, branches, nested regions | activations of one function share keys; scopes left open by exceptions | every activation reads its own values; scopes are balanced |
| Passes, `xdsl-opt` (`passes.py`, `xdsl_opt_main.py`) | the pipeline, the module | apply, verify | error paths | a module is verified between passes |
| Interactive app (`interactive/`) | reactive variables, messages of widgets | handlers, watchers | messages are handled later, in any order between widgets | the output belongs to the input and the passes shown, at the latest when all is handled |
| Python frontend, desymrefier (`frontend/`) | symbol declarations, reads, writes | pruning to a fixpoint | the loop has no progress argument | it ends, and reads get the last write |
| Lowerings and transformations (`backend/*/lowering`, `transforms/`) | none of their own | patterns | their control is the walker's | |
| Dialects, interpreter functions, immutable IR, Toy | data, or pure functions | | | |

How they interact: everything stands on the IR. `Rewriter` and
`PatternRewriter` call the IR's methods, patterns call `PatternRewriter` from
inside the walk, passes call walkers, the register allocator rewrites value
types in place and the lowering of `riscv_scf` loops then relies on what it
chose. The calls are synchronous; nothing is shared between threads except the
thread-local stack of implicit builders.

## 2. Modules

| Module | Contents |
|---|---|
| `IRTree` | the containment structure, one action per method |
| `BlockSeqs` | what operation lists promise: sequences, without pointers |
| `MCIRTree` | instances of `IRTree` for TLC |
| `ListLemmas` | lemmas on sequences, for the proofs |
| `IRTree_proofs` | the invariants of `IRTree` and its refinement to `BlockSeqs` proved |
| `UseDef`, `MCUseDef`, `UseDef_proofs` | values, operands, uses, block arguments |
| `PatternWalker`, `MCPatternWalker`, `PatternWalker_proofs` | the walker with an arbitrary pattern |
| `RegAlloc`, `MCRegAlloc`, `RegAlloc_proofs` | the allocator, then the machine that runs what it made |
| `IRGraph` | operations, blocks and values with their walk, shared by the next two |
| `Clone`, `MCClone` | cloning, and structural equivalence |
| `Text`, `MCText` | the printer's names and the parser's scopes, as a round trip |
| `Desymref`, `MCDesymref`, `Desymref_proofs` | the desymrefier, against what the program means |
| `Interp`, `MCInterp`, `Interp_proofs` | the interpreter's scopes |
| `Affine`, `MCAffine` | affine expressions, maps and their text |
| `Irdl`, `MCIrdl` | building, reading and verifying an operation that IRDL defines |
| `App`, `MCApp`, `App_proofs` | the interactive app |

Definitions whose comment begins with "Mutant" are deliberately wrong variants
of the definition that follows them. No specification uses them; they show that
a property notices the mistake.

### IRTree

The variables are the fields of the objects, one function per field
(`parent`, `nextOp`, `prevOp`, `firstOp`, `lastOp`, `blocks`, `regions`), and two
ghosts: `erased`, the nodes whose references have been dropped, and `torn`, the
blocks that an `insert_block` that raised left with a parent and no place in
its list. Objects are made by the constructors without contents, so `Init` has
every node free. A call that raises before it changed anything is a disabled
action; `InsertBlocksRaises` is the one that raises later. Callers do not pass
erased nodes.

Three methods of the code check less than they need, and the model gives them
the guard their callers in the repository respect: `add_region` (to an operation
in no block), `move_blocks` (into an empty region that is not inside the
source), `inline_block_*` (not into the block's own contents). `Acyclic` holds
with these guards and without any other.

Ancestors and contents are defined as least closed sets rather than by
recursion; `Spans` ("following the links one meets everything") is defined in
the same way, which is what makes the completeness of traversal provable
without induction over data.

`ImplementsBlockSeqs` is the refinement to `BlockSeqs`: block `b` stands for the
sequence that iterating over its operations yields (`OpsOf`, the operations that the
iterator meets one `Steps` after the other). It says that
inserting, detaching, erasing and inlining never lose, duplicate or reorder
another operation, and it is what allows `PatternWalker` to use sequences.

### UseDef

`operands` and `uses` are the two sides of the relation; `args`, `index` and
`block` the arguments of blocks. Which operation sits in which block is a
constant here (`Holder`, `Host`): only what an erasure reaches matters. An
unchecked erasure replaces the value by an `ErasedSSAValue`, the record
`Erased(v)`. `EraseOp` drops the references of the whole subtree before the
results are looked at, as the code does, so that a checked erasure that raises
leaves the operation dropped and those of its results that are used in the ghost `failed`
(the code raises at the first of them and does not come to the others). Ghosts
`gone` and `asked` record the blocks and arguments whose erasure was asked for.
`ReplaceOpRaises` is `replace_op` stopped at the k-th result. `Scoped` restricts
operands to where they are visible, `Retry` lets a caller call `erase_arg` again
after it raised. Name hints are left out: no property depends on them.

### PatternWalker

`stack` holds the activations of `_rewrite_op`: the operation, the blocks still
to walk, the operation the inner loop is at, and the neighbours read before the
match. `rw` is the `PatternRewriter` of the match under way. Between `StartMatch` and
`EndMatch` the pattern makes any rewriter calls, in any order, with operations it
creates, on anything the rewriter lets it modify: `CanModifyOp` and `CanModifyBlock` are
`_can_modify_op` and `_can_modify_block`, which accept the matched operation, what is
inside it, its own block, and everything that does not have the same root, such as a
detached block. A pattern is limited in these ways and no others:

- `MaxActs`: matches in which it does anything. A pattern that acts for ever
  makes the walk endless, in the code too; the bound is the pattern's own
  termination. `MaxCalls` bounds the calls in one match.
- Operations that were erased are not used again.
- A call is given one or two new operations, one where it replaces another operation
  than the matched one. The IR is changed through the rewriter only.
- `Liberties`: five things the rewriter does not refuse and the walker does not expect, in
  recursive walks and in the others: "module", acting on the module operation; "after",
  inserting after the matched operation in two calls; "own block", inserting in
  the matched operation's block without the `*_matched_op` calls; "own ops", inlining
  the matched operation's own block elsewhere, which takes the matched operation and its
  neighbours along; "erased", acting on the module after the matched operation
  was erased, when `get_toplevel_object` is that operation and everything else is accepted.

Acting after the erasure needs no liberty on detached operations and blocks, nor on
operations without regions that the match has put next to the matched one, if the
walk is not about to go on at them. That is what the Toy tutorial does
(`docs/Toy/toy/rewrites/inline_toy.py:63`): it inlines a body, replaces the call and
then erases the body's return. Only if the body is nothing but that return is the
return what the walk goes on at.

Run `walker` gives recursive walks no liberty and the others "after" and "own block". What
the rest does is listed under "Seen while modelling". A call that raises leaves the walk
with the exception and is left out.
`moved` marks operations a pattern put where the walker is not told: the
properties that would be false for those say so. `TypeConversionPattern`,
`GreedyRewritePatternApplier` and `op_type_rewrite_pattern` only choose which of
these calls are made.

### RegAlloc

The allocator works on a record of its state (`type`, `avail`, `idx`, `freed`),
operator by operator as in the source: `Allocate` is `allocate` with
`RegisterQueue.pop`, `Free` is `_free` with `push`. `ProcessRiscvOp` and
`EnterLoop` are `process_riscv_op` and `allocate_for_loop`: they say which calls are
made and in which order, and `MakeCall` makes them one at a time, so that `RegsDisjoint`
is looked at after each. The live-ins of a loop are processed in any order. Once it is
done, the function runs twice in step: on a register file, and as SSA values.
Loops run as `riscv_scf_to_asm.py` lowers them, the counter moved and
incremented in its register, the upper bound and the step read again at the end
of every iteration. `ReadsRight` compares what an operation reads from registers
with what its operands stand for; this is the reference the allocator is judged
by, and it says nothing of how the allocator works.

Left out: the registers reserved for Snitch streams, `exclude_preallocated =
False`, input that names made-up registers.

### IRGraph, Clone

`IRGraph` numbers operations and blocks as they are created and defines their walk
once; `Clone` and `Text` build on it. A client builds an operation with two blocks,
regions in them, operands and branches. `Clone` then copies it as `clone` and
`clone_into` do, one operation per step: all blocks of a region first, so that
branches can be mapped, then their operations, with `vmap` and `bmap` filling up
(`todo` is what the recursion has still to do). Afterwards either copy may be
changed (`Tweak`), and `EquivalenceExact` compares `is_structurally_equivalent`, which
walks with a context, with a definition by pairing the two walks (`Isomorphic`). Both
roots are detached, as `clone` leaves them. `SameParent` is the check that attached
operations are in corresponding blocks; a comparison that starts at two attached
operations therefore fails whatever they are, and is not covered by the property.

### Text

The text is a sequence of tokens, a name a tuple (`<<"a", 1>>` is `%a_1`), so that
what names can clash is kept and no string is taken apart. `PrintModule` is the
printer's traversal with its dictionaries; `Parse` the recursive descent of the
generic format with its scopes of blocks, its table of values and both kinds of
forward references. A parsed module can be printed again, after one of its values
was replaced by another (`ReplaceBy`, which hands hints on). `RoundTrip` says that the
parser accepts the text and finds the same module, `TextStable` that printing it
once more gives the same text.

### Desymref

A program is built operation by operation, with at most one nested region, and its
meaning recorded by running it (`meaning`: what each use sees). A block is a set of
operations, numbered in program order: the pass erases operations and renames
operands but moves nothing, so the numbers stay the order of `Block.ops`, and the
positions `get_operation_index` compares are ordered like them. Operand `r > 0` is the
result of read `r`, operand `-n` a value defined just above operation `n`.

The pass works in steps as small as the properties can see: one iteration of a `for`
loop over declarations (`PruneDefinition`) or symbols (`PruneUse`), one read replaced
(`ReplaceNext`), one turn of the binary search of `lower_positional_bound` (`Search`),
what follows the loop (`EndLoop`). `loop` is the loop over the reads of a symbol that is
under way: how its reads are replaced, the reads to come, the list of writes that was
made before the loop began, and the bounds of the search. A loop that makes no
progress is thus a behaviour that never ends, which `Terminates` forbids. The assertions
of `replace_by` and of the worklist, and the exception of `prepare_block`, lead to phase
"raised". `Liberties` names the two things the pass cannot deal with: symbols of a
block used in a nested region, and a declared symbol read above all its writes.

### Interp

Nothing is known of the program but which values dominate which points; the
operation at a point is chosen when it runs. Every result is a number never used
before, so that any mix-up of activations shows. `ctx` is the chain of scopes of the
code; every frame also carries `env`, the environment that it would have alone,
and `ReadsRight` compares the two for every value an operand may name. `Raise` gives
up all active calls and leaves `ctx` as it is, as an exception does; the next call
from outside then runs on top of it. A block has one argument and gets one value:
`zip(block.args, args)` (`interpreter.py:541`) would silently leave arguments unset if
there were too few values, and that is not covered.

### Affine

Expressions are built by the operators with their folding rules, each next to its
meaning as a function of sample points; `Str` and the precedence parser are
modelled on tokens. `Reading` gives a text its meaning from its weakest operator,
without a parser's state, and is what `PrecedenceRight` compares with. `Operators` are the
operators that are applied: `__rsub__` is modelled as "rsub" and is none of them in run
`affine`, because it is wrong. `inverse_permutation` is left out, see below.

### Irdl

One operation from its definition to its verification. A field is plain, optional
or variadic and has a constraint; the builder flattens what it is given into four
lists and records sizes in an attribute or a property; accessors and verification
each find the fields again in their own way. Callers may edit the lists and the
sizes in between. A value is its type, a region says whether it has one block.
Segment sizes that a caller writes are `0..MaxSize`; negative ones, which an `i32`
allows, are left out.

### App

User inputs change the widgets at once and put a message into the widget's queue;
handlers take messages in the order of each queue and any order between queues.
Setting a reactive variable runs its watcher within the handler, as Textual
(external) does. What the parser makes of a text and what a pass makes of a module
is any function, chosen at the start.

## 3. Runs

`CHECK_DEADLOCK FALSE` is set where the system may stop: `IRTree` and `UseDef`, where
callers may run out of live nodes, `RegAlloc` and `Interp`, where the program ends,
`Affine` and `Irdl`, where the last object has been made, and `App`, where the user
may do nothing more. In the others a finished walk, pass, clone or text stutters
explicitly, and anything else that stops is an error.

| Run | Instance | Shows |
|---|---|---|
| `irtree` | 4 operations, 2 blocks, 2 regions; symmetric | `TypeOK`, `LinkInv`, `VisitsAll`, `OwnershipInv`, `Acyclic`, and the refinement `ImplementsBlockSeqs` |
| `usedef` | 3 operations, one nested in another, 2 arguments, 3 results | `TypeOK`, `UseDefInv`, `NoDangling`, `ArgIndexInv` |
| `walker` | module with 3 operations on two levels, a new one and a detached block; all 8 modes | `NoStale`, `FixpointReached`, `OriginalsMatched`, `MatchedOnce`, `Terminates` |
| `regalloc` | all straight-line functions of a certain shape and all nests of two loops, limits none, 0 and 1 | `RegsDisjoint`, `ReadsRight` |
| `desymref` | all programs of 6 operations on one symbol, or 5 on two | `MeaningKept` (every use sees what it saw), `Dominated` (operands stay above their uses), `AtMostOnce` (the block is ready for promotion), `Terminates` |
| `clone` | operations with 3 operations in two blocks and nested regions, one change afterwards | `Separate` (the clone names nothing of the original), `ClonedAlike` (it is isomorphic, and verifies if the original does), `EquivalenceExact` |
| `text` | modules of 3 operations, one hint, printed twice; values replaced in modules of 2 | `RoundTrip`, `TextStable` |
| `interp` | a recursive function of 2 blocks with a nested region of 2 blocks anywhere in it, 2 calls from outside, 3 activations | `TypeOK`, `ReadsRight`, `SetsOnce` (no value is set twice in a scope), `Balanced` (a call leaves as many scopes as it found) |
| `affine` | expressions of 2 operations on 2 dimensions, a symbol and constants; texts of 7 tokens | `MeaningKept`, `TextRight`, `PrecedenceRight` |
| `irdl` | all definitions of 2 fields in every construct, of 3 operands, of 2 operands and a result with constraints; one edit | `BuiltRight`, `VerifiedReads`, `VerifyExact` |
| `app` | 2 texts, 2 modules, 2 passes with any effects, 4 inputs | `OutputCurrent`, `ItemsCurrent`, `EventuallyCurrent` |

Every module has a `TypeOK` that documents its variables. The runs check it where other
results lean on it, in `IRTree`, `UseDef` and `Interp`, where it is part of what is proved;
elsewhere it can be added to the configuration.

One run ends in a counterexample: `regalloc_carried`, where `ReadsRight` fails. The
register of a loop-carried variable is freed at the definition of the yielded value
while the variable is still to be read, so that a value of the body gets the same
register (`register_allocation.py:178`).

### Seen while modelling

Where the code does something else than a comment, a docstring or an assertion says.
Those with a property in brackets are found by TLC when that property is added to
the configuration with the change named:

- An `insert_block` that raises on a later block leaves the earlier ones with a
  parent that does not list them; `get_block_index` then fails its "Unexpected xdsl
  error" assertion [`BlockIndexDefined`, in `MCIRTree.cfg`].
- `erase_arg` removes the argument from the list before it checks its uses; calling
  it again removes the argument that has moved into its place
  [`OnlyNamedArgsErased`, with `Retry = TRUE`].
- Two `insert_op_after_matched_op` calls are recorded in the opposite of their order
  in the block; a recursive walk goes back to the wrong one, and a created operation is
  never visited [`CreatedWalked` and `FixpointReached`, with `Liberties <- After`]. Insertions
  in the matched operation's block by `insert_op_at_start` and the like are not recorded
  at all [the same, with `Liberties <- IntoOwnBlock`].
- `_can_modify_block` accepts `current_operation.parent`, as a source of an inlining too:
  `inline_block_at_end(op.parent, Block())` moves the matched operation and the neighbour
  that was read before the match out of the module, and the walk goes on there
  [`NoStale`, with `Liberties <- OwnOps`].
- Once the matched operation is erased it is its own toplevel object, and the check
  of what may be modified accepts everything: a pattern can then erase the neighbour the
  walk goes on at [`NoStale`, with `Liberties <- AfterErasure`].
- `rewrite_module` ignores the operation `_rewrite_op` returns: a pattern that acts on
  the module ends a recursive walk there [`OriginalsMatched`, with
  `Liberties <- OnModule`].
- Each result of an operation is freed before the next is allocated, so that two
  results share a register [`ResultsApart`, with `Programs <- TwoResults`].
- A symbol that is declared in a block and read in a nested region loses its
  declaration and its write, and the read stays [`NoSymbols`, with
  `Liberties = {"shared"}`]. A declared symbol with no write or with several, read
  above all of them, makes the loop of `prune_definitions` endless; with one write
  the read above it gets that write's operand [`Terminates` and `Dominated`, with
  `Liberties = {"read first"}`].
- A clone whose original uses a value ahead of its definition in the walk refers to
  the original there [`Separate`, with `Liberties = {"forward"}`], and
  `is_structurally_equivalent` calls the two equivalent. Result types are not compared.
- Hints `a`, `a` and `a_1` are printed as the names `a`, `a_1` and `a_1`; the text is
  then refused as a second definition [`RoundTrip`, with `Liberties = {"numbered"}`].
- None for an optional result or successor of an operation with segment sizes is
  accepted by the builder ("expects a list of size at most 1 or None",
  `irdl.py:1747`) and recorded with no size, so that verification and accessors
  raise [`BuiltRight`, with `Liberties = {"none"}`].
- Segment sizes, whose "sum must be equal to the number of elements in the list"
  (`irdl.py:558`), are not summed: an operation with more operands than its sizes
  account for verifies, and so does one whose only variadic operand is optional and
  which has several. With too few the exception is an `IndexError`. Negative sizes
  are not refused.
- `OptSingleBlockRegionDef` and `VarSingleBlockRegionDef` are no subclasses of
  `SingleBlockRegionDef`, and the number of their blocks is not verified, although
  their docstrings expect "exactly one block" (`irdl.py:721`, `725`) [`VerifyExact`, with
  `Definitions <- UncheckedDefinitions`].
- `AnyOf` keeps the first alternative that accepts, with its bindings: an alternative
  that binds a variable, before one that does not, makes verification refuse
  operations for which other bindings exist [`VerifyExact`, with
  `Definitions <- GreedyDefinitions`]. The constraints of run `irdl` have the alternatives
  in the other order.
- `__rsub__` computes `self - other` where `other - self` is meant (`affine_expr.py:167`)
  [`MeaningKept`, with `Operators = {"rsub"}`].

By reading alone:

- `Region.erase` (`ir/core.py:1833`) asserts `self.parent` where its message, and
  `Operation.erase` and `Block.erase`, want no parent. Nothing calls it, and
  `IRTree` leaves it out.
- A checked `Block.erase` "check[s] that no operation results are used outside the
  block" but does not look at results of operations nested in the block's
  operations (`ir/core.py:1567`); `EraseBlock` of `UseDef` does as the code does,
  and `NoDangling` is checked and proved for operands that are visible where they are
  used. With `Scoped = FALSE` it fails as soon as a nested operation has a result.
- `walk_reverse`, "Walk the regions and blocks in reverse order", does not reverse
  the regions of an operation (`pattern_rewriter.py:697`).
- `gather_allocated` skips loops, so that a preallocated register only a loop
  names is handed out again (`register_allocation.py:24`).
- `limit_registers = 0` "signifies all available registers are used" and leaves
  none (`register_queue.py:91`).
- `inverse_permutation` returns `self.results[i] for i in found_dims`, which are the
  dimensions `d0, d1, ...` whenever all are found (`affine_map.py:200`): the docstring's
  example (179-182) gives `(d0, d1, d2)` and not `(d2, d0, d3)`. Where a dimension is the result in
  several positions, the last one counts, where the docstring says "the first" (170).
- `_parse_block` raises a `KeyError` for a second definition of a block that was
  referenced ahead of the first (`parser/core.py:220`); `resolve_operand` compares no
  types with an existing forward reference, although it "checks that the type is
  consistent"; a forward reference can be resolved by a definition in another
  region. The printer leaves out the label of an entry block without arguments, so
  that a branch to it cannot be parsed (such a branch is not valid MLIR).

### Bounds, and why they are enough

- `irtree`: with four operations a list has a first, a last and two inner
  elements, so every case of an insertion or removal in the middle, at an end
  and of the only element occurs, and two blocks of two can be inlined into each
  other. Two blocks and two regions give two levels of nesting, the smallest
  cycle, and an `insert_block` of a list whose second block is refused.
  `BlockLists` bounds that list to two. The symmetry is sound: no node is named
  by the specification, and the only temporal property is a safety refinement to
  a specification that is symmetric as well.
- `usedef`: `MaxOperands` gives one operation two operands, so that it can use one
  value twice or two values of one definition; one operation has two results,
  one is nested in another. Two arguments shift past each other.
- `walker`: two levels, a sibling after the operation with a region, and a new operation that
  can replace, precede, follow or take over a region. The detached block is a
  place to move operations to and to bring them back from. `MaxActs = 3` and `MaxCalls = 3`
  let a match undo what an earlier one, or an earlier call, relied on.
- `regalloc`: two integer registers and one float register, reduced to one and to
  none by the limits, against up to five values that live at once: registers run
  out in most functions, for both kinds. `MaxTrips = 2` is enough for a value to
  be overwritten in one iteration and read in the next.

- `desymref`: three writes and three reads of one symbol, or a declaration, a
  region and reads and writes in both blocks: every case of the two loops occurs,
  in blocks that come after each other. Two symbols depend on each other in five.
- `clone`: two blocks with branches both ways, a region nested in a region, an
  argument, an operand from outside and one from an enclosing region.
- `text`: three operations give a use ahead of its definition across a nested region
  and a branch ahead of its label. With one hint and the numbers made up for the
  rest, two values clash and a third has no name. `MaxPrints = 2`: what is printed
  the second time was parsed from the first. `MaxEdited` keeps the modules in which a
  value is replaced small, for time.
- `interp`: two calls from outside, so that one runs after an exception; three
  activations, so that a recursive call runs inside a nested region of the first.
  `MaxClock` bounds the values that are computed, and with them loops.
- `affine`: constants of both signs and zero, so that every folding rule and every
  rounding occurs; seven tokens hold three operators, or two and parentheses.
- `irdl`: with three fields a variadic one can stand before, between and after
  others, which is what the position of a segment depends on. Sizes up to two exceed
  what an optional field allows. One constraint variable and two types, because a
  wrong binding needs no more than two arguments.
- `app`: four inputs fill two queues with two messages each, or one after an edit in
  between; two passes with any effects on two modules include every failure.

### Fairness

`PatternWalker` and `Desymref` state `WF_vars` of their next step: each is one
synchronous call and goes on while it can. Nothing is assumed of the pattern but
that it stops acting (`MaxActs`), and nothing of the desymrefier's input but what
`Liberties` says. `App` assumes weak fairness of its three handlers and nothing of the
user: the message pump of the framework delivers what is queued.

## 4. Proofs

Checked by TLAPS for all values of the constants that satisfy the modules'
assumptions, with no other axiom.

**`IRTree_proofs`**, from `NodeKinds` (operations, blocks and regions are disjoint
and `NULL` is none of them; the sets may be infinite). The inductive invariant is

    IInv == TypeOK /\ ErasedOrphans /\ TornKept /\ OwnershipInv /\ LinkInv
            /\ VisitsAll /\ Acyclic

The parts need each other. `LinkInv` is preserved by `AddOp` on an empty block only
because detached operations have no links, which is one of its conjuncts. An
erasure drops the parents of everything below a node, and that this leaves the
lists outside alone needs `OwnershipInv` (what is reached through lists is what
has the node as ancestor) and `LinkInv` (links stay within a block).
`OwnershipInv` has to exempt the blocks of a failed `insert_block`, and `TornKept`
keeps that exemption from spreading to blocks that could be inserted again.
`VisitsAll` does not follow from `LinkInv`, which also allows a ring beside the
list; each action shows that a set closed under the new links yields one closed
under the old links. `Acyclic` is preserved because whatever is attached is no
ancestor of its new parent: by `CanAttach`, or by the callers' guards, or
because the parent is new.

There is one lemma per action and invariant where the action touches it, frame
lemmas where it does not, and lemmas on ancestors, contents and spans below.
`Structure` states `Spec => []IInv`; `TypeCorrect`, `ListsWellFormed`,
`TraversalComplete`, `OwnershipConsistent` and `NoCycle` are its parts, each the
property that run `irtree` checks.

The second half of the module adds `OpsFinite` (there are finitely many operations) and
proves the refinement: `ListsImplementSequences` states `Spec => ImplementsBlockSeqs`. The mapping counts
along the links with a recursive function (`Steps`). A sequence is the list of a block
(`Lists`) if it begins at `firstOp`, follows `nextOp` to its end and has each operation of
the block once; `OpsOfList` shows that then the iterator yields this sequence and no other.
It needs that the recursive equation has one solution: two of them would differ at a
least place (`LeastNat`, from the well-foundedness of `<`), which replaces the induction
rule that the provers cannot instantiate. That the iterator's sequences are lists is itself
an invariant (`IterationFollows`). Each call then becomes a statement about two
sequences: the old list with an operation inserted, removed or spliced in is a list for
the new links, hence what the iterator now yields, hence a step of `BlockSeqs`. Where
the sequences stay the same the step is a stutter. `LinkInv` and `OwnershipInv` provide that the
neighbours a call relinks are neighbours in the list, and that an erasure reaches no
list but those of the blocks it erases and the one it takes the operation from.

**`UseDef_proofs`**, from `Shape` (every result belongs to one place of one
operation) and `ValueKinds`. The inductive invariant is

    IInv == TypeOK /\ UseDefInv /\ ArgIndexInv /\ IndexPositive

The primitives (`WriteOperands`, `OperandsReplaced` with `UsesReplaced`,
`UsesDropped`, `EraseValues`) each get a lemma that says that they keep the two
sides in step, and every call is a combination of them. `IndexPositive` is needed
for a retried `erase_arg`, which uses the index of an argument that is no longer
listed. `UsesAndPositions` states `Spec => []IInv`; `ValuesTyped`, `UsesAreOperands`
and `ArgumentPositions` are the properties run `usedef` checks. They hold
with `Scoped` and `Retry` either way.

The second half of the module goes on from there to `NoDangling`, for every nesting of
operations that `Shape` allows. The inductive invariant is

    ScopeInv == IInv /\ NoDangling /\ OperandsVisible

`NoDangling` alone says nothing of where an operand is defined, and an erasure looks at
the results of the erased operation only. `OperandsVisible` (an operand belongs to an
operation or block that encloses the user, or stands in the same block) closes the
gap: whoever uses a result of an operation nested in the erased one is itself nested
there, and goes with it. `SubtreeClosed` and `SubtreeLeast` give what that needs of the
nesting, `Nested` and `NestedInBlock` derive it, and then there is a lemma per group of
calls. `NothingDangles` has two hypotheses, and TLC refutes it without either:
`Scoped`, because a checked erasure of an operation does not see users of nested
results elsewhere, and `~Retry`, because a repeated `erase_arg` removes another
argument without looking at its uses. `NoOtherArgErased` proves
`OnlyNamedArgsErased` of callers that do not repeat a call that raised, nested or not.

**`Interp_proofs`**, from `InterpInput` (what a block may assume to be computed when it
is entered is computed wherever the region that holds it runs, and functions assume
nothing), for any program, any length of blocks and any number of calls and
activations. The inductive invariant is

    IInv == TypeOK /\ StackRight(prog, ctx, frames)

where `StackRight` says of every active `run_ssacfg_region`, and not only of the
innermost one:

- `Stacked`: its scopes begin above its caller's and end where the next frame's begin,
  the last frame's at the end of `ctx`. This is `Balanced`, and makes the
  pops of a return hit the right scopes.
- `FrameReads`: what its operations may use is found from its own scopes down, with the
  value that its own environment has. A return exposes the caller's scopes again, so
  `ReadsRight` of the innermost frame is not enough.
- `FrameOwns`: its last scope holds only what its block has computed on this visit.
  `SetsOnce` follows, and a branch starts a fresh scope, so that a second visit of a
  block hides what the first one left.
- `Waiting`: a frame below the top is at an operation, whose result the return sets.

Scopes left behind by an exception lie below the `base` of all later frames, where
nothing above reads them: a lookup ends before it gets there. The lemmas say what
`Gets` finds after a push, a set and a pop; each action then has a lemma for the scopes
and one for the frames.

**`PatternWalker_proofs`**, from `WalkerInput` and `InitTree` (the IR is a tree and the
module is its root), for any module, any pattern, any number of rewrites and every option of
the walker. The inductive invariant is

    IInv == mode \in Modes /\ rw \in Rewriters /\ (rw.erased => rw.done)
            /\ Tree /\ Frames(stack) /\ Kept(...) /\ WorkApart(...)
            /\ VisitIn(...) /\ MatchIn(...)

over the set of operations of each block and the set of blocks of each operation.
`NoStale` speaks of the operation the innermost activation goes on at, but that operation was
read before a match, or was handed up by activations that ran other matches in between. So
the invariant says it of everything that any activation still relies on: the blocks it has
to walk, the operation it has to match after them, the one it will return (`Kept`), and
the neighbours and new operations of the match under way (`MatchIn`).
What keeps a rewrite from harming them is that it is local (`Local`): it changes the block of
the matched operation, what is inside that operation, and what is not in the module,
and in the block it removes the matched operation only; later also what the match itself
has put there and will not return (`Spare`). `SiteIs` shows that what a pattern may touch
(`Sources`, `Targets`, `Subjects`) is of these kinds. No operation of that block, and of the
blocks that are walked next, is or has inside what the activations rely on (`Walked`, `WorkApart`).
This is kept because what a rewrite puts into a block comes from inside the matched
operation or from outside the module. Each call of `PatternRewriter` has a
lemma that it is such a rewrite, each step of the walk one that it hands the invariant on.

`NeverStale` is the property `NoStale` of run `walker`. Its hypothesis `Mannerly` is that no walk
has the liberties "own ops" and "erased", and it needs both halves: TLC refutes `NoStale`
when either liberty is given (`Liberties <- OwnOps`, `Liberties <- AfterErasure`). A pattern may still
act after it has erased the matched operation, as far as described under `PatternWalker`
above. Acting on the module, inserting after the matched operation twice or inserting in its own
block, which other properties have to exclude, do no harm here.

**`RegAlloc_proofs`**, from `AllocatorInput` (functions in SSA form; integer and float
registers differ, and none of them is called like a made-up one), for any number of
registers, any limit and loops nested in any way. The inductive invariant is

    AllocInv == prog \in Programs
      /\ phase = "start" => QueueInv(State) /\ type = prog.type /\ ...
      /\ phase = "allocate" => QueueInv(State) /\ HeldInv(State) /\ TodoInv /\ CallsInv

`QueueInv` and `HeldInv` are `RegsDisjoint` with what it needs: registers are of their
value's kind, so that the two queues do not mix, and made-up ones have numbers below
`idx`, so that the next one is new. `AllocateKeeps` and `FreeKeeps` show that the two
methods preserve them, but `_free` only for a value that has not been freed: else its
register may be in the queue already or have a new owner. `TodoInv` and `CallsInv`
provide that: the results of what is still to be processed, at any depth, and those of
the calls still to be made, are not freed and are different from each other. When a
loop is replaced by the operations of its body this uses that they define part of
what the loop defines. `RegistersDisjoint` has two hypotheses. `CarriesNothing`:
a carried variable has one register for four values, by design, and run
`regalloc_carried` shows what comes of it. `PreallocatedFound`: a register that only a loop names, or that
is called like a made-up one, is not reserved and is handed out again.

**`Desymref_proofs`**, from `DesymrefInput`, for programs of any length on any symbols.
The inductive invariant is

    IInv == TypeOK /\ Numbered /\ Dominated /\ WrittenAbove
            /\ RegionThere /\ DefsThere /\ WorkThere /\ Achieved /\ LoopInv

`Dominated` is not inductive alone. A read may be replaced by the operand of a write only
if the write is above it. For the nearest write, `LoopNearest` says so: the write at the
lower bound of the search is above the read, the one past the upper bound is not, and
the list is still in program order and has exactly the writes that are in the block
(`LoopLists`), although operands were replaced since it was made. For the only write,
`WrittenAbove` says so, of every symbol that is still declared, which the input has to
bring along: `NoReadFirst`, the hypothesis of the theorems, is that no declared symbol is
read above all of its writes (not in `Liberties`), and TLC refutes all of them without it.
A write, a declaration and an unused read can be erased because nothing names them;
for the only write that takes that all reads of the symbol are gone, which
`LoopOnly` carries through the loop. `Achieved` collects what earlier loops have
established and later ones only shrink, `DefsThere` and `WorkThere` that what the
loops will look at is still there, because each changes the operations of its own
symbol only.

`OperandsDominated` and `ReadyForPromotion` are the properties `Dominated` and `AtMostOnce`
of run `desymref`; the latter includes that no assertion of the pass fails.
`SearchFindsNearest` is `NearestFound`: when the search ends, a write is above the read if
and only if it is at or before the one found. They hold when symbols are shared with
the nested region, too, which the run does not allow because `MeaningKept` is false then.

**`App_proofs`**, from `AppInput`, for any texts, modules and passes. The inductive
invariant `InStep` says that the handlers leave no stale copy: label, output and view are
the reactive variables they display, the list of passes is the one that the current
module and mode give, and the module is what the pipeline makes of the text unless the
message of an edit is queued. It ties each variable to the one it is
computed from, where the two properties relate only the ends; that a pass may raise, or
that a pass is selected from a list that no longer applies, needs no case of its own
because every handler recomputes from the text. `OutputIsCurrent` and
`ItemsAreCurrent` are its consequences.

**`ListLemmas`** proves what `RemoveAt`, `InsertAt`, `Append`, concatenation and `Reverse` do to
the set of elements and to injectivity, that the elements of `FlattenSeq` are elements of
its lists, and that a set of numbers has a least one (`LeastNat`).

Only model-checked:

- `Terminates` and `EventuallyCurrent`: liveness under fairness, which the prover does
  not handle.
- `Clone`, `Text`, `Affine` and `Irdl`: they walk nested operations, expressions or
  lists of fields with recursive operators, and their properties are about what the
  walk computes, which takes induction over that data.
- `MeaningKept` of `Desymref`: it compares what two programs compute when they run, which
  takes induction over their operations.
- `ReadsRight` of `RegAlloc`: no obstacle of principle, see the plan.
- The other properties of the walker (`OriginalsMatched`, `FixpointReached`, `MatchedOnce`)
  are about what the walk has behind it and ahead of it. Sets of operations, which were enough
  for `NoStale`, do not tell these apart; their invariant would be about places in the lists
  of all activations, which the pattern changes. See the plan.

## 5. Plan

Theorems next:

- `ReadsRight` of `RegAlloc` for operations with one result and loops that carry
  nothing: from `AllocInv` with a part that says of every operation processed that its
  result's register differs from those of the values still needed below it.
- `MatchedOnce` of the walker, from `WalkInvariant` with a part that says of every activation
  that the operations ahead of it in its block, and inside them, have not been matched or
  were moved.

Models next: the builder with its insertion point and iterators over a block on top
of `BlockSeqs`; `MLContext`, whose `load_dialect` fails half way; `RegAlloc` with
preallocated made-up registers and `exclude_preallocated = False`.

## 6. Not modelled

- Lexing, attributes and types in text, custom and declarative formats, formatting:
  string processing without state beyond what `Text` has.
- How IRDL turns class annotations into definitions: Python introspection at import
  time. What a definition does afterwards is in `Irdl`.
- The dialects, traits and the interpreter's functions: data, checks of a single
  operation, or arithmetic on Python values. They are most of the repository's
  lines, together with lowerings and transformations, which are patterns: what a
  pattern may do and what the walk makes of it is in `PatternWalker`, and the
  right-hand sides of the patterns are the semantics of the dialects involved. The
  map therefore covers a small share of the lines, and more modules of this kind
  would not change that.
- The frontend's translation of Python syntax trees, driven by Python's `ast`.
- Command line tools, packaging (`versioneer.py`), notebooks and examples, the Toy
  tutorial, the immutable IR.
- `MLContext` and the builder: small, and named in the plan.

`PROJECT.json` lists each with its reason.
