------------------------------ MODULE Desymref ------------------------------
(***************************************************************************)
(* The desymrefier of xdsl/frontend/passes/desymref.py: it removes the     *)
(* declarations, reads and writes of symbols (symref.declare, fetch and    *)
(* update) from a function body, and gives every use of a read the value   *)
(* that was written last.  The input is built one operation at a time:     *)
(* block "body" may hold one operation with a region, whose only block is  *)
(* "inner".  The pass is then compared with the input's meaning, what the  *)
(* operations that use values see when the program runs.                   *)
(***************************************************************************)
EXTENDS Integers, FiniteSets, SequencesExt

CONSTANTS Sym,      \* symbols
          Undef,    \* what a declared symbol holds before it is written
          MaxOps,   \* bound: operations of an input that names one symbol, two, ...
          Liberties \* what the input does of "shared": name a symbol in both
                    \* blocks; "read first": read a declared symbol above all
                    \* its writes

ASSUME DesymrefInput ==
  /\ Undef \notin Sym /\ MaxOps \in [1..Cardinality(Sym) -> Nat]
  /\ Liberties \subseteq {"shared", "read first"}

VARIABLES size,    \* number of operations of the input
          ops,     \* Block.ops of the two blocks, in the order of their numbers
          phase,   \* where the pass is
          blk,     \* the block that is being prepared
          defs,    \* declarations left in the for loop of prune_definitions
          work,    \* symbols left in the for loop of prune_uses_without_definitions
          loop,    \* the for loop over the reads of a symbol
          prepared,\* prepared_symbols
          declared,\* symbols that the input declares
          meaning  \* what the input means

vars == <<size, ops, phase, blk, defs, work, loop, prepared, declared, meaning>>

Blocks == {"body", "inner"}

(***************************************************************************)
(* An operation: its number, in program order, its kind, its symbol and    *)
(* its operand.  Operand r > 0 is the result of read r; operand -n is a    *)
(* value that is defined just above operation n.                           *)
(***************************************************************************)
Declare(n, s) == [id |-> n, k |-> "declare", sym |-> s, val |-> 0]
Fetch(n, s) == [id |-> n, k |-> "fetch", sym |-> s, val |-> 0]
Update(n, s, v) == [id |-> n, k |-> "update", sym |-> s, val |-> v]
Use(n, v) == [id |-> n, k |-> "use", sym |-> Undef, val |-> v]
RegionOp(n) == [id |-> n, k |-> "region", sym |-> Undef, val |-> 0]

All == ops["body"] \cup ops["inner"]

\* The numbers of the operations of kind k on symbol s in block b.
Of(b, k, s) == {o.id : o \in {p \in ops[b] : p.k = k /\ p.sym = s}}
Several(S) == \E x, y \in S : x # y

\* get_symbols
Symbols(S) == {o.sym : o \in {p \in S : p.k \in {"declare", "fetch", "update"}}}

\* A set of numbers as the lists in increasing order: there is one.
Listings(S) ==
  {q \in [1..Cardinality(S) -> S] :
     ToSet(q) = S /\ \A i, j \in 1..Cardinality(S) : i < j => q[i] < q[j]}

----------------------------------------------------------------------------
(* What a program means. *)

ValueOf(m, v) == IF v < 0 THEN v ELSE m.env[v]

\* One operation without regions on the machine m.
Step(m, o) ==
  CASE o.k = "declare" -> [m EXCEPT !.store[o.sym] = Undef]
    [] o.k = "fetch" -> [m EXCEPT !.env[o.id] = m.store[o.sym]]
    [] o.k = "update" -> [m EXCEPT !.store[o.sym] = ValueOf(m, o.val)]
    [] o.k = "use" -> [m EXCEPT !.out = Append(@, ValueOf(m, o.val))]
    [] OTHER -> m

\* The operations of a block, one after the other.
InOrder(S) ==
  [i \in 1..Cardinality(S) |-> CHOOSE o \in S : Cardinality({p \in S : p.id < o.id}) = i - 1]

\* The operations that run when the region is entered n times.
Unrolled(p, n) ==
  LET body == InOrder(p["body"])
      inner == InOrder(p["inner"])
  IN  FlattenSeq([i \in DOMAIN body |->
                    IF body[i].k = "region" THEN FlattenSeq([j \in 1..n |-> inner])
                    ELSE <<body[i]>>])

\* What the users of values see, and the symbols of open when the program ends,
\* for a region that is not entered, entered once and entered twice.
Meaning(p, open) ==
  [n \in 0..2 |->
     LET m == FoldLeft(Step, [store |-> [s \in Sym |-> s],
                              env |-> [i \in 1..MaxOps[1] |-> Undef],
                              out |-> <<>>], Unrolled(p, n))
     IN  <<m.out, [s \in open |-> m.store[s]]>>]

----------------------------------------------------------------------------
(* The input. *)

\* New operations go to the end of the inner block until the body goes on.
ReadsOf(S) == {o.id : o \in {p \in S : p.k = "fetch"}}
Visible(b) == IF b = "inner" THEN ReadsOf(All) ELSE ReadsOf(ops["body"])

\* A declaration comes once, before the other operations on its symbol, as
\* visit_FunctionDef makes it.
MayDeclare(b, s) == s \notin Symbols(ops[b])
Shared(b, s) == \E c \in Blocks \ {b} : s \in Symbols(ops[c])
MayName(b, s) == "shared" \in Liberties \/ ~Shared(b, s)
MayRead(b, s) == \/ "read first" \in Liberties
                 \/ Of(b, "declare", s) = {}
                 \/ Of(b, "update", s) # {}

InRegion == \E o \in ops["body"] : o.k = "region" /\ \A p \in ops["body"] : p.id <= o.id

Add(b, o) ==
  /\ size < MaxOps[Max({1, Cardinality((Symbols(All) \cup {o.sym}) \ {Undef})})]
  /\ size' = size + 1
  /\ ops' = [ops EXCEPT ![b] = @ \cup {o}]
  /\ UNCHANGED <<phase, blk, defs, work, loop, prepared, declared, meaning>>

Build ==
  /\ phase = "build"
  /\ LET n == size + 1
     IN \E b \in Blocks :
          /\ b = "inner" => InRegion
          /\ \/ \E s \in Sym :
                  /\ MayName(b, s)
                  /\ \/ MayDeclare(b, s) /\ Add(b, Declare(n, s))
                     \/ MayRead(b, s) /\ Add(b, Fetch(n, s))
                     \/ \E v \in Visible(b) \cup {-n} : Add(b, Update(n, s, v))
             \/ \E v \in Visible(b) : Add(b, Use(n, v))
             \/ /\ b = "body" /\ \A o \in All : o.k # "region"
                /\ Add(b, RegionOp(n))

\* prepare_op, prepare_region: the blocks of nested regions are prepared first.
Prepare ==
  /\ phase = "build"
  /\ blk' = IF \E o \in All : o.k = "region" THEN "inner" ELSE "body"
  /\ phase' = "definitions"
  /\ declared' = {o.sym : o \in {p \in All : p.k = "declare"}}
  /\ meaning' = Meaning(ops, Sym \ declared')
  /\ UNCHANGED <<size, ops, defs, work, loop, prepared>>

----------------------------------------------------------------------------
(* Changes to the program. *)

\* Rewriter.erase_op, for the operations of blk with these numbers
Erased(ids) == [ops EXCEPT ![blk] = {o \in @ : o.id \notin ids}]

\* Rewriter.replace_op(read, [], [v]): every use of read r gets v.
Renamed(o, r, v) == IF o.val = r THEN [o EXCEPT !.val = v] ELSE o
ReplacedRead(r, v) ==
  [b \in Blocks |-> {Renamed(o, r, v) : o \in {p \in ops[b] : p.id # r}}]

\* The operand that operation i of blk has now.
OperandOf(i) == (CHOOSE o \in ops[blk] : o.id = i).val

----------------------------------------------------------------------------
(***************************************************************************)
(* The for loops over the reads of a symbol.  Each read gets the operand   *)
(* of the only write ("only"), that of the nearest write above it          *)
(* ("nearest"), or the result of the first read ("first").  anchor is the  *)
(* declaration, or the first read; writes lists the writes of the symbol;  *)
(* low and high are the bounds of lower_positional_bound, counted from 1.  *)
(***************************************************************************)
Idle == [how |-> "idle", sym |-> Undef, reads |-> {}, anchor |-> 0, writes |-> <<>>,
         low |-> 0, high |-> 0]

Loop(how, s, rs, anchor, ws) ==
  [how |-> how, sym |-> s, reads |-> rs, anchor |-> anchor, writes |-> ws,
   low |-> 0, high |-> Len(ws)]

\* lower_positional_bound: one turn of the binary search for the nearest write
\* above r.  Positions in a block are ordered like the numbers.
Narrowed(r) ==
  LET mid == (loop.high - loop.low + 1) \div 2 + loop.low
  IN  IF loop.writes[mid] < r THEN [loop EXCEPT !.low = mid] ELSE [loop EXCEPT !.high = mid - 1]

\* The read whose turn it is.
Current(r) == r \in loop.reads /\ \A x \in loop.reads : r <= x

Search ==
  /\ loop.how = "nearest" /\ loop.low < loop.high
  /\ \E r \in loop.reads : Current(r) /\ loop' = Narrowed(r)
  /\ UNCHANGED <<size, ops, phase, blk, defs, work, prepared, declared, meaning>>

\* The value that the current read gets, once the search has ended.
NewValue ==
  CASE loop.how = "first" -> loop.anchor
    [] loop.how = "only" -> OperandOf(loop.writes[1])
    [] OTHER -> OperandOf(loop.writes[loop.low])

\* replace_by asserts that no use is left, which is so when a read is replaced by
\* itself.
ReplaceNext ==
  /\ loop.how = "nearest" => loop.low >= loop.high
  /\ \E r \in loop.reads :
       /\ Current(r)
       /\ \/ /\ loop.how = "nearest" /\ loop.low = 0
             /\ UNCHANGED <<ops, phase>>
          \/ /\ loop.how = "nearest" => loop.low > 0
             /\ IF NewValue = r THEN phase' = "raised" /\ UNCHANGED ops
                ELSE ops' = ReplacedRead(r, NewValue) /\ UNCHANGED phase
       /\ loop' = [loop EXCEPT !.reads = @ \ {r}, !.low = 0, !.high = Len(loop.writes)]
  /\ UNCHANGED <<size, blk, defs, work, prepared, declared, meaning>>

\* Mutant: the first write is kept instead of the last.
SupersededByFirst(ws) == {ws[i] : i \in 2..Len(ws)}

\* The writes that a later one makes useless.
Superseded(ws) == {ws[i] : i \in 1..(Len(ws) - 1)}

\* What follows the loop: the only write goes with its declaration, of several
\* writes after all reads the last one stays.
EndLoop ==
  /\ loop.how # "idle" /\ loop.reads = {}
  /\ ops' = CASE loop.how = "only" -> Erased(ToSet(loop.writes) \cup {loop.anchor})
              [] loop.how = "first" -> Erased(Superseded(loop.writes))
              [] OTHER -> ops
  /\ prepared' = IF loop.how = "first" THEN prepared \cup {loop.sym} ELSE prepared
  /\ loop' = Idle
  /\ UNCHANGED <<size, phase, blk, defs, work, declared, meaning>>

----------------------------------------------------------------------------
(* prune_definitions *)

\* The while loop: the declarations that are still there.
FindDefinitions ==
  /\ phase = "definitions" /\ loop.how = "idle" /\ defs = {}
  /\ defs' = {o \in ops[blk] : o.k = "declare"}
  /\ phase' = IF defs' = {} THEN "uses" ELSE phase
  /\ UNCHANGED <<size, ops, blk, work, loop, prepared, declared, meaning>>

\* One declaration of the for loop: without reads its writes go, otherwise the
\* loop over its reads begins.
PruneDefinition ==
  /\ phase = "definitions" /\ loop.how = "idle"
  /\ \E d \in defs :
       /\ \A e \in defs : d.id <= e.id
       /\ defs' = defs \ {d}
       /\ LET reads == Of(blk, "fetch", d.sym)
              writes == Of(blk, "update", d.sym)
          IN  IF reads = {} THEN ops' = Erased(writes \cup {d.id}) /\ UNCHANGED loop
              ELSE /\ \E ws \in Listings(writes) :
                        loop' = Loop(IF Len(ws) = 1 THEN "only" ELSE "nearest", d.sym, reads, d.id, ws)
                   /\ UNCHANGED ops
  /\ UNCHANGED <<size, phase, blk, work, prepared, declared, meaning>>

----------------------------------------------------------------------------
(* prune_uses_without_definitions *)

\* Mutant: uses in nested regions are forgotten.
UnusedHere == {r \in ReadsOf(ops[blk]) : \A u \in ops[blk] : u.val # r}

\* _prune_unused_reads
Unused == {r \in ReadsOf(ops[blk]) : \A u \in All : u.val # r}

\* The while loop: unused reads are erased, and the symbols still in use found.
FindSymbols ==
  /\ phase = "uses" /\ loop.how = "idle" /\ work = {}
  /\ ops' = Erased(Unused)
  /\ work' = Symbols(ops'[blk]) \ prepared
  /\ phase' = IF work' = {} THEN "check" ELSE phase
  /\ UNCHANGED <<size, blk, defs, loop, prepared, declared, meaning>>

\* Mutant: a symbol that is both read and written is never prepared.
ReadyIfOneKind(s) == Of(blk, "fetch", s) = {} \/ Of(blk, "update", s) = {}

\* No read of s comes after a write: s will be prepared.
Ready(s) == \A r \in Of(blk, "fetch", s), w \in Of(blk, "update", s) : r < w

\* Mutant: the second read is kept as well.
LaterReadsButOne(reads) == {r \in reads : \E x, y \in reads : x < y /\ y < r}

\* reads[1:]
LaterReads(reads) == {r \in reads : \E x \in reads : x < r}

\* Symbol s of the worklist, a set taken in any order: "assert len(reads) > 0 or
\* len(writes) > 0"; a prepared symbol keeps its first read and last write.
PruneUse ==
  /\ phase = "uses" /\ loop.how = "idle"
  /\ \E s \in work :
       LET reads == Of(blk, "fetch", s)
           writes == Of(blk, "update", s)
       IN  /\ phase' = IF reads \cup writes = {} THEN "raised" ELSE phase
           /\ \E ws \in Listings(writes) :
                IF Ready(s)
                THEN \E first \in (IF reads = {} THEN {0} ELSE reads) :
                        /\ \A r \in reads : first <= r
                        /\ loop' = Loop("first", s, LaterReads(reads), first, ws)
                ELSE loop' = Loop("nearest", s, reads, 0, ws)
           /\ work' = work \ {s}
  /\ UNCHANGED <<size, ops, blk, defs, prepared, declared, meaning>>

\* prepare_block: "Ensure that each symbol is read/written at most once."
Check ==
  /\ phase = "check"
  /\ IF \E s \in Sym : Several(Of(blk, "fetch", s)) \/ Several(Of(blk, "update", s))
     THEN phase' = "raised" /\ UNCHANGED <<blk, prepared>>
     ELSE /\ phase' = IF blk = "inner" THEN "definitions" ELSE "done"
          /\ blk' = "body"
          /\ prepared' = {}
  /\ UNCHANGED <<size, ops, defs, work, loop, declared, meaning>>

Pass ==
  /\ phase # "raised"
  /\ \/ Search \/ ReplaceNext \/ EndLoop
     \/ FindDefinitions \/ PruneDefinition
     \/ FindSymbols \/ PruneUse \/ Check

Stopped == phase \in {"done", "raised"} /\ UNCHANGED vars

Init ==
  /\ size = 0
  /\ ops = [b \in Blocks |-> {}]
  /\ phase = "build" /\ blk = "body"
  /\ defs = {} /\ work = {} /\ loop = Idle /\ prepared = {} /\ declared = {}
  /\ meaning = <<>>

Next == Build \/ Prepare \/ Pass \/ Stopped

\* The pass is one synchronous call: once it has begun, it goes on.
Spec == Init /\ [][Next]_vars /\ WF_vars(Pass)

----------------------------------------------------------------------------
(* Properties. *)

Operation == [id : Nat, k : {"declare", "fetch", "update", "use", "region"},
              sym : Sym \cup {Undef}, val : Int]

TypeOK ==
  /\ size \in Nat
  /\ ops \in [Blocks -> SUBSET Operation]
  /\ phase \in {"build", "definitions", "uses", "check", "done", "raised"}
  /\ blk \in Blocks
  /\ defs \subseteq Operation
  /\ work \subseteq Sym /\ prepared \subseteq Sym /\ declared \subseteq Sym
  /\ loop \in [how : {"idle", "only", "nearest", "first"}, sym : Sym \cup {Undef},
               reads : SUBSET Nat, anchor : Nat, writes : Seq(Nat), low : Nat, high : Nat]

\* Removing reads and writes does not change what the program computes: every
\* use still sees the value that was written last before the read it named, and
\* the symbols the input does not declare end with the same values.
MeaningKept == phase = "done" => Meaning(ops, Sym \ declared) = meaning

\* Every operand stays defined, above its use and in a block that encloses it,
\* after every single replacement and erasure.
Dominated ==
  \A b \in Blocks : \A o \in ops[b] :
    /\ o.val < 0 => -o.val <= o.id
    /\ o.val > 0 => o.val < o.id /\ o.val \in Visible(b)

\* "This method guarantees that any symbol in any region of this operation is read
\* at most once and written at most once", and no declaration is left; the check
\* that raises when it is not so never does, and no assertion of the pass fails.
AtMostOnce ==
  /\ phase # "raised"
  /\ phase = "done" =>
       \A b \in Blocks, s \in Sym : /\ ~Several(Of(b, "fetch", s))
                                    /\ ~Several(Of(b, "update", s))
                                    /\ Of(b, "declare", s) = {}

\* The two while loops end.
Terminates == (phase # "build") ~> (phase \in {"done", "raised"})

\* "This method guarantees that the operation does not have any symbols", when all
\* of them are declared in it. Broken when a nested region uses a symbol of the
\* body (Liberties).
NoSymbols == phase = "done" => Symbols(All) \cap declared = {}

----------------------------------------------------------------------------
(* The inductive invariant of the proofs, for inputs that do not read a      *)
(* declared symbol above all of its writes.                                  *)

\* Operations have numbers of their own, and symbol operations have symbols; a
\* declaration has no operand.
Numbered ==
  /\ \A b \in Blocks : \A o \in ops[b] :
        /\ o.id \in 1..size
        /\ o.k \in {"declare", "fetch", "update"} => o.sym \in Sym
        /\ o.k = "declare" => o.val = 0
  /\ \A b, c \in Blocks : \A o \in ops[b], p \in ops[c] : o.id = p.id => b = c /\ o = p

\* While a symbol's declaration is there, each read in its block has a write above it.
WrittenAbove ==
  \A b \in Blocks, s \in Sym : Of(b, "declare", s) # {} =>
     \A r \in Of(b, "fetch", s) : \E w \in Of(b, "update", s) : w < r

\* Only an input with a region operation has operations in the inner block.
RegionThere == phase = "build" /\ ops["inner"] # {} => \E o \in All : o.k = "region"

\* The declarations left in the for loop are still in the block.
DefsThere ==
  /\ \A d \in defs : d \in ops[blk] /\ d.k = "declare"
  /\ phase # "definitions" => defs = {}

\* The symbols left in the worklist are still read or written in the block, and
\* the symbol of the loop is not one of them.
WorkThere ==
  /\ \A s \in work : phase = "uses" /\ Of(blk, "fetch", s) \cup Of(blk, "update", s) # {}
  /\ loop.how # "idle" => loop.sym \notin work

\* What is achieved: no declarations, and symbols read and written at most once.
NoneDeclared(b) == \A s \in Sym : Of(b, "declare", s) = {}
OnceIn(b, s) == ~Several(Of(b, "fetch", s)) /\ ~Several(Of(b, "update", s))

Achieved ==
  /\ phase # "raised"
  /\ phase \in {"uses", "check", "done"} => NoneDeclared(blk)
  /\ \A s \in prepared : OnceIn(blk, s)
  /\ phase \in {"check", "done"} => \A s \in Sym : OnceIn(blk, s)
  /\ phase # "build" /\ blk = "body" => NoneDeclared("inner") /\ \A s \in Sym : OnceIn("inner", s)
  /\ phase \in {"build", "done"} => blk = "body"
  /\ phase \in {"build", "definitions"} => prepared = {}

\* The for loop over reads has the reads and writes of its symbol in blk.
LoopLists ==
  loop.how # "idle" =>
    /\ phase \in {"definitions", "uses"} /\ loop.sym \in Sym
    /\ loop.reads \subseteq Of(blk, "fetch", loop.sym)
    /\ ToSet(loop.writes) = Of(blk, "update", loop.sym)
    /\ \A i, j \in 1..Len(loop.writes) : i < j => loop.writes[i] < loop.writes[j]

\* All reads are replaced by the only write, while the declaration is there.
LoopOnly ==
  loop.how = "only" =>
    /\ phase = "definitions" /\ Len(loop.writes) = 1
    /\ Of(blk, "fetch", loop.sym) \subseteq loop.reads
    /\ loop.anchor \in Of(blk, "declare", loop.sym)
    /\ \A d \in defs : d.id # loop.anchor

\* All reads but the first are replaced by the first.
LoopFirst ==
  loop.how = "first" =>
    /\ phase = "uses"
    /\ Of(blk, "fetch", loop.sym) \subseteq loop.reads \cup {loop.anchor}
    /\ loop.reads # {} => loop.anchor \in Of(blk, "fetch", loop.sym)
    /\ \A r \in loop.reads : loop.anchor < r

\* The bounds of the binary search: the write at low, if any, is above the
\* current read, and the one after high is not.
LoopNearest ==
  loop.how = "nearest" =>
    /\ loop.low <= loop.high /\ loop.high <= Len(loop.writes)
    /\ \A r \in loop.reads : Current(r) =>
         /\ loop.low > 0 => loop.writes[loop.low] < r
         /\ loop.high < Len(loop.writes) => r <= loop.writes[loop.high + 1]

LoopInv == (loop.how = "idle" => loop.reads = {}) /\ LoopLists /\ LoopOnly /\ LoopFirst /\ LoopNearest

IInv == /\ TypeOK /\ Numbered /\ Dominated /\ WrittenAbove
        /\ RegionThere /\ DefsThere /\ WorkThere /\ Achieved /\ LoopInv

\* When lower_positional_bound returns, it has found the nearest write above the
\* read: no other write of the symbol lies between the two.
NearestFound ==
  loop.how = "nearest" /\ loop.low >= loop.high =>
    \A r \in loop.reads : Current(r) =>
      \A w \in Of(blk, "update", loop.sym) :
        w < r <=> loop.low > 0 /\ w <= loop.writes[loop.low]

=============================================================================
