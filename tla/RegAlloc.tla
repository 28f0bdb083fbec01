------------------------------ MODULE RegAlloc ------------------------------
(***************************************************************************)
(* Register allocation for RISC-V functions                                *)
(* (xdsl/backend/riscv/register_allocation.py and register_queue.py): the  *)
(* allocator goes through a function backwards, gives a register to a      *)
(* value when it meets its last use and takes it back at the definition.   *)
(* Once it is done, the function runs on a register file, next to an SSA   *)
(* interpreter: what an operation reads from a register must be the value  *)
(* its operand stands for.  The running part is the reference, after the   *)
(* code that lowers loops in riscv_scf_to_asm.py.                          *)
(***************************************************************************)
EXTENDS Naturals, FiniteSets, SequencesExt

CONSTANTS Value,
          KindOf,    \* "int" or "float" for every value
          Block, Entry,
          Regs,      \* the registers of each kind, the next one to use last
          Programs,  \* functions: arguments and types on entry, blocks
          Limits,    \* limit_registers, NULL for no limit
          MaxTrips,  \* bound: iterations of a loop
          NULL

Kind == {"int", "float"}

\* Register j<n> of a kind, made up when the queue is empty; there are never
\* more of them than values.
Spill(k, n) == <<k, n>>
RegsOf(k) == ToSet(Regs[k]) \cup {Spill(k, n) : n \in 0..Cardinality(Value)}
Reg == RegsOf("int") \cup RegsOf("float")

----------------------------------------------------------------------------
(* Functions.  An operation is a record of its kind ("riscv", "for", "yield"), *)
(* its results, its operands and the block of its body.                        *)

OpsOf(p, b) == p.block[b].ops
OpSet(p, b) == ToSet(OpsOf(p, b))

\* The blocks inside block b, b included.
Inside(p, b) ==
  {c \in Block : \A S \in SUBSET Block :
     /\ b \in S
     /\ \A d \in S : \A o \in OpSet(p, d) : o.body # NULL => o.body \in S
     => c \in S}

OpsIn(p, b) == UNION {OpSet(p, c) : c \in Inside(p, b)}
ResultsIn(p, b) == UNION {ToSet(o.res) : o \in OpsIn(p, b)}
Defined(p, b) == ResultsIn(p, b) \cup UNION {ToSet(p.block[c].args) : c \in Inside(p, b)}

\* live_ins_per_block: the values used in b and defined outside.
LiveIns(p, b) == UNION {ToSet(o.opnds) : o \in OpsIn(p, b)} \ Defined(p, b)

\* The values that gather_allocated looks at: those of RISC-V operations, which
\* loops are not.
Gathered(p) == UNION {ToSet(o.opnds) \cup ToSet(o.res) :
                        o \in {q \in OpsIn(p, Entry) : q.kind = "riscv"}}

\* What operation o defines, in its body too.
Results(p, o) == ToSet(o.res) \cup IF o.body = NULL THEN {} ELSE ResultsIn(p, o.body)

IsOp(o) ==
  /\ o.kind \in {"riscv", "for", "yield"} /\ o.res \in Seq(Value) /\ o.opnds \in Seq(Value)
  /\ IF o.kind = "for" THEN o.body \in Block ELSE o.body = NULL

\* A function has a type for each value and blocks of operations, in SSA form: the
\* operations of a block, with what is inside them, define different values.
IsFunction(p) ==
  /\ p.type \in [Value -> Reg \cup {NULL}]
  /\ \A b \in Block :
       /\ p.block[b].args \in Seq(Value)
       /\ OpsOf(p, b) \in Seq(OpSet(p, b))
       /\ \A m \in DOMAIN OpsOf(p, b) :
            LET o == OpsOf(p, b)[m]
            IN  /\ IsOp(o) /\ IsInjective(o.res)
                /\ o.kind = "for" => /\ p.block[o.body].args # <<>>
                                     /\ ToSet(o.res) \cap ResultsIn(p, o.body) = {}
                /\ \A n \in DOMAIN OpsOf(p, b) \ {m} : Results(p, o) \cap Results(p, OpsOf(p, b)[n]) = {}

ASSUME AllocatorInput ==
  /\ IsFiniteSet(Value) /\ KindOf \in [Value -> Kind]
  /\ Regs \in [Kind -> Seq(UNION {ToSet(Regs[k]) : k \in Kind})]
  /\ \A k \in Kind : IsInjective(Regs[k]) /\ ToSet(Regs[k]) \cap (Kind \X Nat) = {} /\ NULL \notin ToSet(Regs[k])
  /\ ToSet(Regs["int"]) \cap ToSet(Regs["float"]) = {}
  /\ Entry \in Block /\ NULL \notin Block /\ NULL \notin Kind \X Nat
  /\ Limits \subseteq Nat \cup {NULL} /\ NULL \notin Nat /\ MaxTrips \in Nat \ {0}
  /\ \A p \in Programs : IsFunction(p)

VARIABLES prog,      \* the function
          limit,     \* limit_registers
          phase,     \* "start", "allocate", "run"
          type,      \* SSAValue.type: a register, or NULL while unallocated
          avail,     \* RegisterQueue.available_{int,float}_registers
          idx,       \* RegisterQueue._idx
          reserved,  \* RegisterQueue.reserved_registers
          todo,      \* operations still to be processed
          calls,     \* calls of allocate and _free still to be made for the last one
          freed,     \* values whose register has been given back
          frames,    \* the running function: blocks entered, innermost first
          ssa,       \* what each value stands for
          file,      \* what each register holds
          clock      \* operations executed

queue == <<type, avail, idx, freed>>
run == <<frames, ssa, file, clock>>
vars == <<prog, limit, phase, type, avail, idx, reserved, todo, calls, freed, frames, ssa, file, clock>>

----------------------------------------------------------------------------
(* RegisterAllocatorLivenessBlockNaive, on records of the variables queue. *)

State == [type |-> type, avail |-> avail, idx |-> idx, freed |-> freed]

Become(s) == type' = s.type /\ avail' = s.avail /\ idx' = s.idx /\ freed' = s.freed

\* Mutant: the counter of made-up registers does not advance.
AllocateSameSpill(s, v) ==
  LET k == KindOf[v]
  IN  IF s.type[v] # NULL THEN s
      ELSE IF s.avail[k] # <<>>
      THEN [s EXCEPT !.type[v] = Last(s.avail[k]), !.avail[k] = Front(@)]
      ELSE [s EXCEPT !.type[v] = Spill(k, s.idx)]

\* allocate, with RegisterQueue.pop
Allocate(s, v) ==
  LET k == KindOf[v]
  IN  IF s.type[v] # NULL THEN s
      ELSE IF s.avail[k] # <<>>
      THEN [s EXCEPT !.type[v] = Last(s.avail[k]), !.avail[k] = Front(@)]
      ELSE [s EXCEPT !.type[v] = Spill(k, s.idx), !.idx = @ + 1]

\* _free, with RegisterQueue.push
Free(s, v) ==
  IF s.type[v] = NULL \/ s.type[v] \in reserved THEN s
  ELSE [s EXCEPT !.avail[KindOf[v]] = Append(@, s.type[v]), !.freed = @ \cup {v}]

\* The i-th loop-carried variable: block argument, yield operand and operand
\* take the type of the result.
Share(s, o, i) ==
  LET t == Allocate(s, o.res[i])
      body == prog.block[o.body]
      same == {body.args[i + 1], Last(body.ops).opnds[i], o.opnds[i + 3]}
  IN  [t EXCEPT !.type = [v \in Value |-> IF v \in same THEN t.type[o.res[i]] ELSE t.type[v]]]

\* The calls that an operation makes, one after the other.
AllocateCall(v) == [do |-> "allocate", v |-> v]
ResultCall(v) == [do |-> "allocate, free", v |-> v]
ShareCall(o, i) == [do |-> "share", op |-> o, i |-> i]
AllocateAll(vs) == [i \in DOMAIN vs |-> AllocateCall(vs[i])]

Made(s, c) ==
  CASE c.do = "allocate" -> Allocate(s, c.v)
    [] c.do = "allocate, free" -> Free(Allocate(s, c.v), c.v)
    [] c.do = "share" -> Share(s, c.op, c.i)

\* process_riscv_op: a result is allocated and freed before the next one.
ProcessRiscvOp(o) == [i \in DOMAIN o.res |-> ResultCall(o.res[i])] \o AllocateAll(o.opnds)

\* Mutant: values from outside the loop are not allocated ahead of its body.
EnterLoopWithoutLiveIns(o, ls) == AllocateAll(<<prog.block[o.body].args[1]>> \o o.opnds)

\* allocate_for_loop up to the operations of the body, the live-ins in order ls.
EnterLoop(o, ls) ==
  AllocateAll(ls) \o [i \in DOMAIN o.res |-> ShareCall(o, i)]
    \o AllocateAll(<<prog.block[o.body].args[1]>> \o o.opnds)

\* gather_allocated: the registers that are named already, without the made-up ones.
GatherAllocated == {type[v] : v \in Gathered(prog)} \cap UNION {ToSet(Regs[k]) : k \in Kind}

\* A preallocated register is reserved, and removed from the queue.
Reserve ==
  /\ phase = "start"
  /\ \E r \in GatherAllocated \ reserved :
       /\ reserved' = reserved \cup {r}
       /\ avail' = [k \in Kind |->
                     IF r \in ToSet(avail[k])
                     THEN RemoveAt(avail[k], CHOOSE i \in DOMAIN avail[k] : avail[k][i] = r)
                     ELSE avail[k]]
  /\ UNCHANGED <<prog, limit, phase, type, idx, todo, calls, freed, run>>

\* allocate_func goes through its operations.
Start ==
  /\ phase = "start" /\ GatherAllocated \subseteq reserved
  /\ todo' = Reverse(OpsOf(prog, Entry))
  /\ phase' = "allocate"
  /\ UNCHANGED <<prog, limit, queue, reserved, calls, run>>

\* process_operation; yields are not RISC-V operations and are ignored.
Process ==
  /\ phase = "allocate" /\ calls = <<>> /\ todo # <<>>
  /\ LET o == Head(todo)
     IN  \/ /\ o.kind = "riscv"
            /\ calls' = ProcessRiscvOp(o)
            /\ todo' = Tail(todo)
         \/ /\ o.kind = "for"
            /\ \E ls \in SetToSeqs(LiveIns(prog, o.body)) : calls' = EnterLoop(o, ls)
            /\ todo' = Reverse(OpsOf(prog, o.body)) \o Tail(todo)
         \/ /\ o.kind = "yield"
            /\ todo' = Tail(todo)
            /\ UNCHANGED calls
  /\ UNCHANGED <<prog, limit, phase, queue, reserved, run>>

MakeCall ==
  /\ phase = "allocate" /\ calls # <<>>
  /\ Become(Made(State, Head(calls)))
  /\ calls' = Tail(calls)
  /\ UNCHANGED <<prog, limit, phase, reserved, todo, run>>

----------------------------------------------------------------------------
(* The allocated function runs. *)

Now == Head(frames[1].ops)
Running == phase = "run" /\ frames # <<>> /\ frames[1].ops # <<>>

Call ==
  /\ phase = "allocate" /\ calls = <<>> /\ todo = <<>>
  /\ phase' = "run"
  /\ frames' = <<[ops |-> OpsOf(prog, Entry), loop |-> NULL, trips |-> 0]>>
  /\ LET args == ToSet(prog.block[Entry].args)
     IN  /\ ssa' = [v \in Value |-> IF v \in args THEN v ELSE NULL]
         /\ file' = [r \in Reg |-> IF \E v \in args : type[v] = r
                                   THEN CHOOSE v \in args : type[v] = r ELSE NULL]
  /\ UNCHANGED <<prog, limit, queue, reserved, todo, calls, clock>>

\* The results of o that go to register r, later ones being written later.
Written(o, r) == {k \in DOMAIN o.res : type[o.res[k]] = r}

RunOp ==
  /\ Running /\ Now.kind = "riscv"
  /\ clock' = clock + 1
  /\ ssa' = [v \in Value |-> IF v \in ToSet(Now.res)
                             THEN <<clock, CHOOSE k \in DOMAIN Now.res : Now.res[k] = v>>
                             ELSE ssa[v]]
  /\ file' = [r \in Reg |-> IF Written(Now, r) # {}
                            THEN <<clock, CHOOSE k \in Written(Now, r) : \A j \in Written(Now, r) : j <= k>>
                            ELSE file[r]]
  /\ frames' = [frames EXCEPT ![1].ops = Tail(@)]
  /\ UNCHANGED <<prog, limit, phase, queue, reserved, todo, calls>>

\* The values vs get what the values ws stand for.
Bound(vs, ws) ==
  [v \in Value |-> IF v \in ToSet(vs) THEN ssa[ws[CHOOSE k \in DOMAIN vs : vs[k] = v]] ELSE ssa[v]]

\* Value iv gets a new value: the loop counter is moved and incremented in place.
Counted(s, iv) == [s EXCEPT ![iv] = <<clock, 1>>]

RunFor ==
  /\ Running /\ Now.kind = "for"
  /\ clock' = clock + 1
  /\ LET args == prog.block[Now.body].args
         iter == SubSeq(Now.opnds, 4, Len(Now.opnds))
     IN  \/ /\ frames' = <<[ops |-> OpsOf(prog, Now.body), loop |-> Now, trips |-> 1]>>
                         \o [frames EXCEPT ![1].ops = Tail(@)]
            /\ ssa' = Counted(Bound(Tail(args), iter), Head(args))
         \/ /\ frames' = [frames EXCEPT ![1].ops = Tail(@)]
            /\ ssa' = Counted(Bound(Now.res, iter), Head(args))
  /\ file' = [file EXCEPT ![type[Head(prog.block[Now.body].args)]] = <<clock, 1>>]
  /\ UNCHANGED <<prog, limit, phase, queue, reserved, todo, calls>>

\* The end of the body: increment, and back or out.
RunYield ==
  /\ Running /\ Now.kind = "yield"
  /\ clock' = clock + 1
  /\ LET loop == frames[1].loop
         args == prog.block[loop.body].args
     IN  /\ \/ /\ frames[1].trips < MaxTrips
               /\ frames' = [frames EXCEPT ![1].ops = OpsOf(prog, loop.body), ![1].trips = @ + 1]
               /\ ssa' = Counted(Bound(Tail(args), Now.opnds), Head(args))
            \/ /\ frames' = Tail(frames)
               /\ ssa' = Counted(Bound(loop.res, Now.opnds), Head(args))
         /\ file' = [file EXCEPT ![type[Head(args)]] = <<clock, 1>>]
  /\ UNCHANGED <<prog, limit, phase, queue, reserved, todo, calls>>

----------------------------------------------------------------------------
\* RegisterQueue.limit_registers
Limited(s, n) == IF n = NULL \/ n > Len(s) THEN s ELSE SubSeq(s, Len(s) - n + 1, Len(s))

Init ==
  /\ prog \in Programs
  /\ limit \in Limits
  /\ phase = "start"
  /\ type = prog.type
  /\ avail = [k \in Kind |-> Limited(Regs[k], limit)]
  /\ idx = 0
  /\ reserved = {} /\ todo = <<>> /\ calls = <<>> /\ freed = {} /\ frames = <<>> /\ clock = 0
  /\ ssa = [v \in Value |-> NULL]
  /\ file = [r \in Reg |-> NULL]

Next == Reserve \/ Start \/ Process \/ MakeCall \/ Call \/ RunOp \/ RunFor \/ RunYield

Spec == Init /\ [][Next]_vars

----------------------------------------------------------------------------
(* Properties. *)

TypeOK ==
  /\ phase \in {"start", "allocate", "run"}
  /\ \A v \in Value : type[v] \in RegsOf(KindOf[v]) \cup {NULL}
  /\ \A k \in Kind : avail[k] \in Seq(RegsOf(k))
  /\ idx \in Nat /\ freed \subseteq Value /\ reserved \subseteq Reg

\* Values that hold a register of the queue and have not given it back.
HeldIn(s) == {v \in Value \ s.freed : s.type[v] # NULL /\ s.type[v] \notin reserved}
Pending == HeldIn(State)

\* Going backwards, no two values hold one register, and no register in the
\* queue is held by a value or is there twice.
RegsDisjoint ==
  phase = "allocate" =>
    /\ \A v, w \in Pending : type[v] = type[w] => v = w
    /\ \A v \in Pending, k \in Kind : type[v] \notin ToSet(avail[k])
    /\ \A k \in Kind : IsInjective(avail[k]) /\ ToSet(avail[k]) \cap reserved = {}

----------------------------------------------------------------------------
(* The inductive invariant of the proof of RegsDisjoint, and what it needs. *)

\* gather_allocated finds every value that has a register on entry.
PreallocatedFound(p) ==
  \A v \in Value : p.type[v] # NULL => v \in Gathered(p) /\ p.type[v] \in ToSet(Regs[KindOf[v]])

\* No loop of p carries a variable.
CarriesNothing(p) == \A b \in Block : \A o \in OpSet(p, b) : o.kind = "for" => o.res = <<>>

\* The registers of a kind that there are before the n-th one is made up.
Known(k, n) == ToSet(Regs[k]) \cup {Spill(k, i) : i \in 0..(n - 1)}

\* The queue holds registers of the right kind, none twice and none that is reserved.
QueueInv(s) ==
  /\ s.idx \in Nat /\ DOMAIN s.avail = Kind
  /\ \A k \in Kind : /\ s.avail[k] \in Seq(Known(k, s.idx)) /\ IsInjective(s.avail[k])
                     /\ ToSet(s.avail[k]) \cap reserved = {}

\* Values have registers of their kind.  One that is to be given back is held once
\* and is not in the queue.
HeldInv(s) ==
  /\ DOMAIN s.type = Value /\ s.freed \subseteq Value
  /\ \A v \in Value : s.type[v] \in Known(KindOf[v], s.idx) \cup {NULL}
  /\ \A v, w \in HeldIn(s) : s.type[v] = s.type[w] => v = w
  /\ \A v \in HeldIn(s) : s.type[v] \notin ToSet(s.avail[KindOf[v]])

\* What is left to do: every result is still to be freed, and once.
TodoInv ==
  /\ todo \in Seq(UNION {OpSet(prog, b) : b \in Block})
  /\ \A i \in DOMAIN todo : Results(prog, todo[i]) \cap freed = {}
  /\ \A i, j \in DOMAIN todo : i # j => Results(prog, todo[i]) \cap Results(prog, todo[j]) = {}

CallsInv ==
  /\ calls \in Seq({AllocateCall(v) : v \in Value} \cup {ResultCall(v) : v \in Value})
  /\ \A i \in DOMAIN calls : calls[i].do = "allocate, free" =>
       /\ calls[i].v \notin freed
       /\ \A j \in DOMAIN todo : calls[i].v \notin Results(prog, todo[j])
       /\ \A j \in DOMAIN calls : calls[j] = calls[i] => j = i

AllocInv ==
  /\ prog \in Programs
  /\ phase = "start" => QueueInv(State) /\ type = prog.type /\ freed = {} /\ calls = <<>>
  /\ phase = "allocate" => QueueInv(State) /\ HeldInv(State) /\ TodoInv /\ CallsInv

----------------------------------------------------------------------------
\* What the next operation of the running function reads; the end of a loop
\* body reads the counter, the upper bound and the step as well.
Reads ==
  ToSet(Now.opnds) \cup IF Now.kind # "yield" THEN {}
                        ELSE {frames[1].loop.opnds[2], frames[1].loop.opnds[3],
                              prog.block[frames[1].loop.body].args[1]}

\* An operation of the allocated function reads the values its operands stand
\* for: allocation does not change what the function computes.
ReadsRight == Running => \A v \in Reads : type[v] # NULL /\ file[type[v]] = ssa[v]

\* The allocator "frees before [the] next instruction": two results of one
\* operation never have one register. They do: each is freed before the next.
ResultsApart ==
  phase = "run" => \A o \in OpsIn(prog, Entry) : \A k, l \in DOMAIN o.res :
     type[o.res[k]] = type[o.res[l]] => k = l

=============================================================================
