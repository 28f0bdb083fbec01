------------------------------- MODULE Interp -------------------------------
(***************************************************************************)
(* The scopes of xdsl/interpreter.py: Interpreter.call_op,                 *)
(* run_ssacfg_region and InterpreterContext, with the calls, branches and  *)
(* loops of interpreters/func.py, cf.py and scf.py.  What the operations   *)
(* compute is left out: every result is a value never seen before.  The    *)
(* program is left open too: the operation at a point may be of any kind,  *)
(* as long as it uses values that dominate it.  That is an SSA program     *)
(* seen through what the scopes depend on.                                 *)
(*                                                                         *)
(* A point <<b, i>> is the i-th operation of block b; <<b, i>> is also the *)
(* name of its result, and <<b, 0>> that of the block's only argument.     *)
(***************************************************************************)
EXTENDS Naturals, Sequences

CONSTANTS Blocks,
          Functions,  \* first blocks of the functions' bodies
          Bodies,     \* first blocks of the regions of other operations
          Region,     \* [Blocks -> the region of the block]
          Programs,   \* the programs that are interpreted
          MaxLen,     \* bound: operations of a block
          MaxFrames,  \* bound: calls and regions that are active at once
          MaxCalls,   \* bound: calls from outside
          MaxClock    \* bound: values computed

Points == Blocks \X (1..MaxLen)
Values == Blocks \X (0..MaxLen)

\* The values that the operation at a point may use.
UsableAt(p, point) == p.in[point[1]] \cup {<<point[1], j>> : j \in 0..(point[2] - 1)}

\* A program: the values defined outside of a block that dominate it, and the
\* operation whose region starts with a body.
ASSUME InterpInput ==
  /\ {MaxLen, MaxFrames, MaxCalls, MaxClock} \subseteq Nat
  /\ Functions \subseteq Blocks /\ Bodies \subseteq Blocks
  /\ Programs \subseteq [in : [Blocks -> SUBSET Values], owner : [Bodies -> Points]]
  /\ \A p \in Programs :
       /\ \A b \in Functions : p.in[b] = {}
       /\ \A b \in Blocks : \A i \in 0..MaxLen : <<b, i>> \notin p.in[b]
       /\ \A b \in Bodies : p.in[b] \subseteq UsableAt(p, p.owner[b])

VARIABLES prog,
          ctx,    \* _ctx and its parents: scopes, the current one last
          frames, \* active run_ssacfg_region calls, the innermost last
          clock,  \* values computed so far
          calls,  \* calls from outside so far
          failed  \* the last one raised an exception

vars == <<prog, ctx, frames, clock, calls, failed>>

\* Values and what was computed for them.
IsScope(s) == DOMAIN s \subseteq Values /\ s \in [DOMAIN s -> Nat]

\* Block, next operation, scope_count; and the depth of ctx at the start, with the
\* environment of an interpreter that has one for every call and region.
IsFrame(f) ==
  /\ f = [b |-> f.b, i |-> f.i, scopes |-> f.scopes, base |-> f.base, env |-> f.env]
  /\ f.b \in Blocks /\ f.i \in 1..(MaxLen + 1)
  /\ f.scopes \in Nat /\ f.base \in Nat /\ IsScope(f.env)

EmptyEnv == [v \in {} |-> 0]
Bind(env, v, x) == [w \in DOMAIN env \cup {v} |-> IF w = v THEN x ELSE env[w]]

Depth == Len(ctx)
Top == frames[Len(frames)]
Caller == frames[Len(frames) - 1]
Below == SubSeq(frames, 1, Len(frames) - 1)

Avail(f) == UsableAt(prog, <<f.b, f.i>>)

----------------------------------------------------------------------------
(* InterpreterContext *)

\* __getitem__: v is found, and has the value x.
Gets(scopes, v, x) ==
  \E k \in DOMAIN scopes :
    /\ v \in DOMAIN scopes[k] /\ scopes[k][v] = x
    /\ \A j \in DOMAIN scopes : j > k => v \notin DOMAIN scopes[j]

\* __setitem__, which raises if v is in the current scope: SetsOnce.
Set(scopes, v, x) == [scopes EXCEPT ![Len(scopes)] = Bind(@, v, x)]

----------------------------------------------------------------------------
(* run_ssacfg_region *)

\* push_scope and set_values for the block's argument.  A block has one argument
\* and is given one value: zip(block.args, args), which leaves the arguments
\* unset that there are too few values for, is not put to the test.
EnterBlock(b, scopes, x) == Append(scopes, Bind(EmptyEnv, <<b, 0>>, x))

\* Mutant: the first operation is counted as 0.
NewFrameFromZero(b, env, x) ==
  [b |-> b, i |-> 0, scopes |-> 1, base |-> Depth, env |-> Bind(env, <<b, 0>>, x)]

\* The start, at block b, with what is known around it.
NewFrame(b, env, x) ==
  [b |-> b, i |-> 1, scopes |-> 1, base |-> Depth, env |-> Bind(env, <<b, 0>>, x)]

Start(b, env) ==
  /\ clock < MaxClock /\ Len(frames) < MaxFrames
  /\ clock' = clock + 1
  /\ ctx' = EnterBlock(b, ctx, clock)
  /\ frames' = Append(frames, NewFrame(b, env, clock))

\* Mutant: the same operation runs again.
DoneAgain(f, x) == [f EXCEPT !.env = Bind(@, <<f.b, f.i>>, x)]

\* A value for the result of the operation at frame f, which then moves on.
Done(f, x) == [f EXCEPT !.i = @ + 1, !.env = Bind(@, <<f.b, f.i>>, x)]
CanRun == frames # <<>> /\ Top.i <= MaxLen

\* Interpreter.call_op by a client.
CallFromOutside ==
  /\ frames = <<>> /\ calls < MaxCalls
  /\ \E b \in Functions : Start(b, EmptyEnv)
  /\ calls' = calls + 1 /\ failed' = FALSE
  /\ UNCHANGED prog

\* An operation whose implementation computes its result, an external function,
\* a loop without iterations, a conditional without an else region.
Run ==
  /\ CanRun /\ clock < MaxClock
  /\ clock' = clock + 1
  /\ ctx' = Set(ctx, <<Top.b, Top.i>>, clock)
  /\ frames' = [frames EXCEPT ![Len(frames)] = Done(@, clock)]
  /\ UNCHANGED <<prog, calls, failed>>

\* func.Call: run_call, call_op.  The callee's scope is a child of the caller's.
Call ==
  /\ CanRun
  /\ \E b \in Functions : Start(b, EmptyEnv)
  /\ UNCHANGED <<prog, calls, failed>>

\* scf.If and scf.For: run_if, run_for.
EnterRegion ==
  /\ CanRun
  /\ \E b \in Bodies : prog.owner[b] = <<Top.b, Top.i>> /\ Start(b, Top.env)
  /\ UNCHANGED <<prog, calls, failed>>

\* Mutant: only the scope of the first block is counted.
BranchedUncounted(f, b, x) == [f EXCEPT !.b = b, !.i = 1, !.env = Bind(@, <<b, 0>>, x)]

\* Successor: the frame goes on in block b, with one scope more.
Branched(f, b, x) ==
  [f EXCEPT !.b = b, !.i = 1, !.scopes = @ + 1, !.env = Bind(@, <<b, 0>>, x)]

\* cf.Branch, cf.ConditionalBranch: a block of the same region that is dominated
\* by what is known here.
Branch ==
  /\ frames # <<>> /\ clock < MaxClock
  /\ \E b \in Blocks :
       /\ Region[b] = Region[Top.b] /\ b \notin Functions \cup Bodies
       /\ prog.in[b] \subseteq Avail(Top)
       /\ ctx' = EnterBlock(b, ctx, clock)
       /\ frames' = [frames EXCEPT ![Len(frames)] = Branched(@, b, clock)]
  /\ clock' = clock + 1
  /\ UNCHANGED <<prog, calls, failed>>

\* Mutant: one scope is popped, however many blocks were entered.
LeaveOnce(scopes, f) == SubSeq(scopes, 1, Len(scopes) - 1)

\* As many scopes as blocks were entered are popped.
Leave(scopes, f) == SubSeq(scopes, 1, Len(scopes) - f.scopes)

\* func.Return, scf.Yield or the end of a block: the caller's operation gets its
\* result, and the next one runs.
Return ==
  /\ frames # <<>>
  /\ IF Below = <<>> THEN /\ ctx' = Leave(ctx, Top) /\ frames' = <<>>
                          /\ UNCHANGED clock
     ELSE /\ clock < MaxClock /\ clock' = clock + 1
          /\ ctx' = Set(Leave(ctx, Top), <<Caller.b, Caller.i>>, clock)
          /\ frames' = [Below EXCEPT ![Len(Below)] = Done(@, clock)]
  /\ UNCHANGED <<prog, calls, failed>>

\* scf.Yield in a loop that goes on: run_for runs the region again.
NextIteration ==
  /\ Len(frames) > 1 /\ clock < MaxClock
  /\ \E b \in Bodies :
       /\ Region[b] = Region[Top.b] /\ prog.owner[b] = <<Caller.b, Caller.i>>
       /\ ctx' = EnterBlock(b, Leave(ctx, Top), clock)
       /\ frames' = Append(Below, [NewFrame(b, Caller.env, clock) EXCEPT !.base = Top.base])
  /\ clock' = clock + 1
  /\ UNCHANGED <<prog, calls, failed>>

\* No implementation, a failed interpreter_assert, an exception of an implementation:
\* nothing is popped on the way out.
Raise ==
  /\ frames # <<>>
  /\ frames' = <<>> /\ failed' = TRUE
  /\ UNCHANGED <<prog, ctx, clock, calls>>

Init ==
  /\ prog \in Programs
  /\ ctx = <<EmptyEnv>> /\ frames = <<>>
  /\ clock = 0 /\ calls = 0 /\ failed = FALSE

Next == \/ CallFromOutside \/ Run \/ Call \/ EnterRegion \/ Branch
        \/ Return \/ NextIteration \/ Raise

Spec == Init /\ [][Next]_vars

----------------------------------------------------------------------------
(* Properties. *)

TypeOK ==
  /\ prog \in Programs
  /\ \A k \in DOMAIN ctx : IsScope(ctx[k])
  /\ \A k \in DOMAIN frames : IsFrame(frames[k])
  /\ clock \in Nat /\ calls \in Nat /\ failed \in BOOLEAN

\* Whatever an operation uses, get_values finds, and finds what was computed last
\* for it in this activation: not what another call of the same function or an
\* earlier visit of the block has left in an outer scope, also after a call that
\* was given up half way.
ReadsRight ==
  frames # <<>> => \A v \in Avail(Top) : v \in DOMAIN Top.env /\ Gets(ctx, v, Top.env[v])

\* set_values never finds a value set already, also when a block is entered again:
\* the result of the operation that runs is not in its block's scope.
SetsOnce ==
  \A k \in DOMAIN frames :
    <<frames[k].b, frames[k].i>> \notin DOMAIN ctx[frames[k].base + frames[k].scopes]

\* Every region's scopes lie directly on those of its caller, so that leaving it
\* restores the caller's.
Balanced ==
  \A k \in DOMAIN frames :
    frames[k].base + frames[k].scopes = IF k = Len(frames) THEN Depth ELSE frames[k + 1].base

----------------------------------------------------------------------------
(* The inductive invariant of the proofs, for the program p, scopes c and frames fs. *)

\* The scopes of a frame and those around it.
Height(f) == f.base + f.scopes

\* What the operations of frame f may use is found from its own scopes.
FrameReads(p, c, f) ==
  \A v \in UsableAt(p, <<f.b, f.i>>) :
    v \in DOMAIN f.env /\ Gets(SubSeq(c, 1, Height(f)), v, f.env[v])

\* The last scope of a frame holds what its block has computed on this visit.
FrameOwns(c, f) ==
  /\ f.scopes > 0 /\ Height(f) <= Len(c)
  /\ DOMAIN c[Height(f)] \subseteq {<<f.b, j>> : j \in 0..(f.i - 1)}

\* A frame that waits for a call or region is at an operation.
Waiting(fs) == \A k \in DOMAIN fs : k < Len(fs) => fs[k].i <= MaxLen

\* The scopes of a frame begin where those of its caller end, above all the others.
Stacked(c, fs) ==
  \A k \in DOMAIN fs :
    /\ Height(fs[k]) = IF k = Len(fs) THEN Len(c) ELSE fs[k + 1].base
    /\ \A j \in DOMAIN fs : j < k => Height(fs[j]) <= fs[k].base

StackRight(p, c, fs) ==
  /\ Stacked(c, fs) /\ Waiting(fs)
  /\ \A k \in DOMAIN fs : FrameReads(p, c, fs[k]) /\ FrameOwns(c, fs[k])

IInv == TypeOK /\ StackRight(prog, ctx, frames)

=============================================================================
