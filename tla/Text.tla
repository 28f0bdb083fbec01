-------------------------------- MODULE Text --------------------------------
(***************************************************************************)
(* Printing a module and parsing it again: the names that Printer          *)
(* (xdsl/printer.py) gives to values and blocks, and the scopes and        *)
(* forward references through which Parser (xdsl/parser/core.py) finds     *)
(* them.  The text is a sequence of tokens in the order of the generic     *)
(* format; attributes and types are left out.  A name is a tuple: <<"a">>  *)
(* for %a, <<"a", 1>> for %a_1, <<"", 0>> for %0.                          *)
(***************************************************************************)
EXTENDS IRGraph

CONSTANTS MaxOps,    \* bound: operations of the module
          MaxPrints, \* bound: times the module is printed
          Hints,     \* name hints that values may have at first
          MaxEdited, \* bound: operations of a module in which a value is replaced
          Liberties  \* {"numbered"}: a hint a is copied although some value has a
                     \* hint such as a_1

NoHint == <<>>

\* The operations os after every use of v became one of w.
ReplaceUses(os, v, w) ==
  [o \in DOMAIN os |->
     [os[o] EXCEPT !.operands = [i \in DOMAIN @ |-> IF @[i] = v THEN w ELSE @[i]]]]

ASSUME TextInput ==
  MaxOps \in Nat /\ MaxPrints \in Nat /\ MaxEdited \in Nat /\ Liberties \subseteq {"numbered"} /\ NoHint \in Hints

VARIABLES hint,   \* SSAValue.name_hint
          root,   \* the module that is printed next
          origin, \* the module the text was printed from
          text,   \* what was printed last
          before, \* what was printed the time before
          prints, \* times printed
          edited, \* a value was replaced since the last parse
          phase   \* "build", "printed", "parsed", "rejected"

vars == <<op, block, hint, root, origin, text, before, prints, edited, phase>>

----------------------------------------------------------------------------
(* The module. *)

\* Values can be used in the region that defines them and in the regions inside
\* it, before or after the definition.
RegionOf(v) == IF v[1] = "arg" THEN block[v[2]].parent ELSE block[BlockOf(v[2])].parent
Visible(b) == {v \in DefinedIn(Root) : RegionOf(v) \in Around(b)}

\* Branches go to any block of the region but the first.  Results and the argument
\* of Root's second block may have a hint.
Build ==
  /\ phase = "build" /\ Len(op) <= MaxOps
  /\ \E b \in ToSet(BlocksOf(Root)), h \in Hints :
       /\ AddOp(b, Visible(b) \cup {Result(NextOp)}, ToSet(Tail(op[block[b].parent].region)))
       /\ hint' = With(With(hint, Result(NextOp), h), BlockArg(NextBlock), NoHint)
       /\ op'[NextOp].name = "t" => h = NoHint
  /\ UNCHANGED <<root, origin, text, before, prints, edited, phase>>

----------------------------------------------------------------------------
(* Printer.  q: _ssa_values, _ssa_names, the counters, _block_names, the text. *)

NewPrinter == [names |-> <<>>, counts |-> <<>>, next |-> 0, blocks |-> <<>>, text |-> <<>>]

\* print_ssa_value
PrintValue(q, v) ==
  IF v \in DOMAIN q.names THEN q
  ELSE IF hint[v] # NoHint
  THEN LET count == IF hint[v] \in DOMAIN q.counts THEN q.counts[hint[v]] ELSE 0
       IN  [q EXCEPT !.names = With(@, v, IF count = 0 THEN hint[v] ELSE Append(hint[v], count)),
                     !.counts = With(@, hint[v], count + 1)]
  ELSE [q EXCEPT !.names = With(@, v, <<"", q.next>>), !.next = @ + 1]

\* print_block_name
PrintBlockName(q, b) ==
  IF b \in DOMAIN q.blocks THEN q
  ELSE [q EXCEPT !.blocks = With(@, b, Cardinality(DOMAIN q.blocks))]

Named(q, vs) == [i \in DOMAIN vs |-> q.names[vs[i]]]
Emit(q, token) == [q EXCEPT !.text = Append(@, token)]

Args(b) == IF block[b].args = 0 THEN <<>> ELSE <<BlockArg(b)>>
Results(o) == IF HasResult(o) THEN <<Result(o)>> ELSE <<>>

\* print_block: the label with the arguments
PrintLabel(q, b) ==
  LET p == FoldLeft(PrintValue, PrintBlockName(q, b), Args(b))
  IN  Emit(p, [k |-> "label", name |-> p.blocks[b], args |-> Named(p, Args(b))])

\* print_region: the first block has no label if it has no arguments and is not
\* empty.
Unlabelled(b) == block[b].args = 0 /\ block[b].ops # <<>>

\* print_op: results, operands, successors, then the region, then the types.
RECURSIVE PrintOp(_, _)
PrintBlock(q, b) ==
  LET region == op[block[b].parent].region
  IN  FoldLeft(PrintOp, IF b = Head(region) /\ Unlabelled(b) THEN q ELSE PrintLabel(q, b), block[b].ops)
PrintOp(q, o) ==
  LET named == FoldLeft(PrintValue, q, Results(o) \o op[o].operands)
      p == FoldLeft(PrintBlockName, named, op[o].succs)
      head == Emit(p, [k |-> "op", name |-> op[o].name, results |-> Named(p, Results(o)),
                       operands |-> Named(p, op[o].operands),
                       succs |-> [i \in DOMAIN op[o].succs |-> p.blocks[op[o].succs[i]]]])
      body == IF op[o].region = <<>> THEN head
              ELSE Emit(FoldLeft(PrintBlock, Emit(head, [k |-> "open"]), op[o].region), [k |-> "close"])
  IN  Emit(body, [k |-> "end"])

PrintModule ==
  /\ phase \in {"build", "parsed"} /\ prints < MaxPrints
  /\ phase' = "printed"
  /\ text' = PrintOp(NewPrinter, root).text
  /\ before' = text
  /\ prints' = prints + 1
  /\ UNCHANGED <<op, block, hint, root, origin, edited>>

----------------------------------------------------------------------------
(* Parser.  p: the operations and blocks made so far and the hints; ssa_values,   *)
(* blocks (with whether they are known to be defined), forward_block_references,  *)
(* forward_ssa_references; the operations that are being parsed, the innermost    *)
(* first; the error raised.                                                       *)

NewParser == [op |-> op, block |-> block, hint |-> hint,
              ssa |-> <<>>, blocks |-> <<>>, fblocks |-> {}, fssa |-> <<>>,
              stack |-> <<>>, error |-> "", done |-> 0]

Fail(p, e) == [p EXCEPT !.error = e]
Top(p) == p.stack[1]

\* is_valid_name: a name that is a number is no hint
IsValidName(name) == name[1] # ""

\* Mutant: forward references are not replaced by the definition.
RegisterWithoutForward(p, name, v) ==
  IF p.error # "" THEN p
  ELSE IF name \in DOMAIN p.ssa THEN Fail(p, "already defined")
  ELSE [p EXCEPT !.ssa = With(@, name, v),
                 !.hint = With(@, v, IF IsValidName(name) THEN name ELSE NoHint)]

\* Mutant: the name is not kept as a hint.
RegisterUnhinted(p, name, v) ==
  IF p.error # "" THEN p
  ELSE IF name \in DOMAIN p.ssa THEN Fail(p, "already defined")
  ELSE LET q == [p EXCEPT !.ssa = With(@, name, v), !.hint = With(@, v, NoHint)]
       IN  IF name \notin DOMAIN p.fssa THEN q
           ELSE [q EXCEPT !.op = ReplaceUses(@, p.fssa[name], v),
                          !.fssa = [n \in DOMAIN @ \ {name} |-> @[n]]]

\* _register_ssa_definition
Register(p, name, v) ==
  IF p.error # "" THEN p
  ELSE IF name \in DOMAIN p.ssa THEN Fail(p, "already defined")
  ELSE LET q == [p EXCEPT !.ssa = With(@, name, v),
                          !.hint = With(@, v, IF IsValidName(name) THEN name ELSE NoHint)]
       IN  IF name \notin DOMAIN p.fssa THEN q
           ELSE [q EXCEPT !.op = ReplaceUses(@, p.fssa[name], v),
                          !.fssa = [n \in DOMAIN @ \ {name} |-> @[n]]]

\* resolve_operand: a forward reference that exists already comes first.
Resolve(p, name) ==
  IF name \in DOMAIN p.fssa \/ name \in DOMAIN p.ssa THEN p
  ELSE [p EXCEPT !.fssa = With(@, name, <<"forward", name>>)]
Resolved(p, name) == IF name \in DOMAIN p.fssa THEN p.fssa[name] ELSE p.ssa[name]

\* parse_optional_successor
ResolveBlock(p, name) ==
  IF name \in DOMAIN p.blocks THEN p
  ELSE [p EXCEPT !.fblocks = @ \cup {name},
                 !.blocks = With(@, name, [b |-> Len(p.block) + 1, defined |-> FALSE]),
                 !.block = Append(@, NewBlock(0, 0))]

\* A block of the innermost region, in which operations now go.
EnterBlock(p, b) == [p EXCEPT !.stack[1].region = Append(@, b), !.stack[1].current = b]

\* parse_optional_region: a first block without a label.
EnterUnlabelled(p) ==
  IF p.stack = <<>> \/ Top(p).current # 0 THEN p
  ELSE EnterBlock([p EXCEPT !.block = Append(@, NewBlock(0, 0))], Len(p.block) + 1)

\* _parse_generic_operation, up to the successors: the operands stay unresolved.
ParseHead(p, t) ==
  LET q == FoldLeft(ResolveBlock, EnterUnlabelled(p), t.succs)
  IN  [q EXCEPT !.stack = <<[name |-> t.name, results |-> t.results, operands |-> t.operands,
                             succs |-> [i \in DOMAIN t.succs |-> q.blocks[t.succs[i]].b],
                             region |-> <<>>, current |-> 0,
                             ssa |-> q.ssa, blocks |-> q.blocks, fblocks |-> q.fblocks]>> \o @]

\* parse_optional_region: a new scope for blocks.  (That of values was kept by
\* ParseHead, and no value is defined in between.)
OpenRegion(p) == [p EXCEPT !.blocks = <<>>, !.fblocks = {}]

\* _parse_block and _parse_optional_block_arg_list
ParseLabel(p, t) ==
  LET known == t.name \in DOMAIN p.blocks
      b == IF known THEN p.blocks[t.name].b ELSE Len(p.block) + 1
      q == IF known THEN [p EXCEPT !.fblocks = @ \ {t.name}]
           ELSE [p EXCEPT !.blocks = With(@, t.name, [b |-> b, defined |-> TRUE]),
                          !.block = Append(@, NewBlock(0, 0))]
  IN  IF known /\ p.blocks[t.name].defined THEN Fail(p, "re-declaration of block")
      ELSE IF known /\ t.name \notin p.fblocks THEN Fail(p, "KeyError")
      ELSE FoldLeft(LAMBDA r, name : Register([r EXCEPT !.block[b].args = @ + 1], name, BlockArg(b)),
                    EnterBlock(q, b), t.args)

\* parse_optional_region: the end of the region restores the scopes.
CloseRegion(p) ==
  IF p.fblocks # {} THEN Fail(p, "missing block declarations")
  ELSE [p EXCEPT !.ssa = Top(p).ssa, !.blocks = Top(p).blocks, !.fblocks = Top(p).fblocks]

\* The rest of the operation: operands are resolved after the regions, the
\* operation is created, its results registered, and the caller adds it to a block.
ParseEnd(p) ==
  LET f == Top(p)
      o == Len(p.op) + 1
      q == FoldLeft(Resolve, p, f.operands)
      made == [q EXCEPT
        !.op = Append(@, NewOp(f.name, [i \in DOMAIN f.operands |-> Resolved(q, f.operands[i])],
                               f.succs, f.region)),
        !.block = [b \in DOMAIN @ |-> IF b \in ToSet(f.region) THEN [@[b] EXCEPT !.parent = o] ELSE @[b]],
        !.stack = Tail(@),
        !.done = o]
      registered == FoldLeft(LAMBDA r, name : Register(r, name, Result(o)), made, f.results)
  IN  IF registered.stack = <<>> THEN registered
      ELSE [registered EXCEPT !.block[Top(registered).current].ops = Append(@, o)]

ParseToken(p, t) ==
  IF p.error # "" THEN p
  ELSE CASE t.k = "op" -> ParseHead(p, t)
         [] t.k = "open" -> OpenRegion(p)
         [] t.k = "label" -> ParseLabel(p, t)
         [] t.k = "close" -> CloseRegion(p)
         [] t.k = "end" -> ParseEnd(p)

\* parse_module
Parsed == LET p == FoldLeft(ParseToken, NewParser, text)
          IN  IF p.error = "" /\ p.fssa # <<>> THEN Fail(p, "used but not defined") ELSE p

Parse ==
  /\ phase = "printed"
  /\ LET p == Parsed
     IN  IF p.error # "" THEN /\ phase' = "rejected"
                              /\ UNCHANGED <<op, block, hint, root, origin, edited>>
         ELSE /\ phase' = "parsed"
              /\ op' = p.op /\ block' = p.block /\ hint' = p.hint
              /\ root' = p.done /\ origin' = root
              /\ edited' = FALSE
  /\ UNCHANGED <<text, before, prints>>

\* The hints that a printer makes from h: the next clash with h may get such a name.
Numbered(h) == {g \in {hint[u] : u \in DefinedIn(root)} : Len(g) > Len(h) /\ IsPrefix(h, g)}

\* SSAValue.replace_by between parsing and printing, by a value of the same region:
\* the uses change, and the hint is carried over if the new value has none.  The
\* replaced value stays, with its hint.
ReplaceBy ==
  /\ phase = "parsed" /\ ~edited /\ prints < MaxPrints /\ Len(OpsOf(root)) <= MaxEdited + 1
  /\ \E v, w \in DefinedIn(root) :
       /\ v # w /\ RegionOf(v) = RegionOf(w)
       /\ "numbered" \in Liberties \/ Numbered(hint[v]) = {}
       /\ op' = ReplaceUses(op, v, w)
       /\ hint' = IF hint[w] = NoHint THEN [hint EXCEPT ![w] = hint[v]] ELSE hint
  /\ edited' = TRUE
  /\ UNCHANGED <<block, root, origin, text, before, prints, phase>>

Init ==
  /\ InitIR
  /\ \E h \in Hints : hint = With(<<>>, BlockArg(2), h)
  /\ root = Root /\ origin = Root
  /\ text = <<>> /\ before = <<>> /\ prints = 0
  /\ edited = FALSE /\ phase = "build"

Finished == /\ phase = "rejected" \/ (phase = "parsed" /\ prints = MaxPrints)
            /\ UNCHANGED vars

Next == Build \/ PrintModule \/ Parse \/ ReplaceBy \/ Finished

Spec == Init /\ [][Next]_vars

----------------------------------------------------------------------------
(* Properties. *)

TypeOK ==
  /\ phase \in {"build", "printed", "parsed", "rejected"} /\ prints \in 0..MaxPrints
  /\ {root, origin} \subseteq DOMAIN op
  /\ \A o \in DOMAIN op : /\ op[o].name \in {"m", "a", "t"}
                          /\ ToSet(op[o].region) \cup ToSet(op[o].succs) \subseteq DOMAIN block
  /\ \A b \in DOMAIN block : /\ block[b].args \in 0..1 /\ block[b].parent \in 0..Len(op)
                             /\ ToSet(block[b].ops) \subseteq DOMAIN op

\* What is printed can be parsed again, and gives the module it was printed from:
\* the same operations and blocks, every operand and successor on the same value
\* and block, however uses and definitions are ordered.
RoundTrip ==
  /\ phase # "rejected"
  /\ phase = "parsed" /\ ~edited => Isomorphic(origin, root)

\* Printing what was parsed gives the text that was parsed, name by name.
TextStable == phase = "printed" /\ before # <<>> /\ ~edited => text = before

=============================================================================
