---------------------------- MODULE Interp_proofs ----------------------------
(***************************************************************************)
(* Proofs about Interp: an operation reads the values of its own           *)
(* activation, sets each value once, and scopes are pushed and popped in   *)
(* pairs, for every program, any depth of calls and regions and any number *)
(* of calls, those that raise included.                                    *)
(***************************************************************************)
EXTENDS Interp, SequenceTheorems, TLAPS

Scope == UNION {[D -> Nat] : D \in SUBSET Values}
Frame == [b : Blocks, i : 1..(MaxLen + 1), scopes : Nat, base : Nat, env : Scope]

\* TypeOK with the sequences as such.
Typed ==
  /\ prog \in Programs
  /\ ctx \in Seq(Scope) /\ frames \in Seq(Frame)
  /\ clock \in Nat /\ calls \in Nat /\ failed \in BOOLEAN

Inv == Typed /\ StackRight(prog, ctx, frames)

\* Gets on the first h scopes of c.
GetsUpTo(c, h, v, x) ==
  \E k \in 1..h :
    /\ v \in DOMAIN c[k] /\ c[k][v] = x
    /\ \A j \in 1..h : j > k => v \notin DOMAIN c[j]

----------------------------------------------------------------------------
(* Scopes. *)

LEMMA Bounds == MaxLen \in Nat /\ MaxFrames \in Nat /\ MaxCalls \in Nat /\ MaxClock \in Nat
  BY InterpInput

LEMMA GetsInPrefix ==
  ASSUME NEW c \in Seq(Scope), NEW h \in 0..Len(c), NEW v, NEW x
  PROVE  Gets(SubSeq(c, 1, h), v, x) <=> GetsUpTo(c, h, v, x)
<1>1. /\ SubSeq(c, 1, h) \in Seq(Scope) /\ Len(SubSeq(c, 1, h)) = h
      /\ \A k \in 1..h : SubSeq(c, 1, h)[k] = c[k]
  OBVIOUS
<1>2. DOMAIN SubSeq(c, 1, h) = 1..h
  BY <1>1
<1> QED  BY <1>1, <1>2 DEF Gets, GetsUpTo

LEMMA GetsAll ==
  ASSUME NEW c \in Seq(Scope), NEW v, NEW x
  PROVE  Gets(c, v, x) <=> GetsUpTo(c, Len(c), v, x)
<1>1. DOMAIN c = 1..Len(c)
  OBVIOUS
<1> QED  BY <1>1 DEF Gets, GetsUpTo

LEMMA BindScope ==
  ASSUME NEW s \in Scope, NEW v \in Values, NEW x \in Nat
  PROVE  /\ Bind(s, v, x) \in Scope
         /\ DOMAIN Bind(s, v, x) = DOMAIN s \cup {v} /\ Bind(s, v, x)[v] = x
         /\ \A w \in DOMAIN s \ {v} : Bind(s, v, x)[w] = s[w]
<1>1. PICK D \in SUBSET Values : s \in [D -> Nat]
  BY DEF Scope
<1>2. Bind(s, v, x) \in [D \cup {v} -> Nat] /\ D \cup {v} \in SUBSET Values
  BY <1>1 DEF Bind
<1>3. Bind(s, v, x) \in Scope
  BY <1>2 DEF Scope
<1> QED  BY <1>3 DEF Bind

LEMMA EmptyScope == EmptyEnv \in Scope /\ DOMAIN EmptyEnv = {}
<1>1. EmptyEnv \in [{} -> Nat]
  BY DEF EmptyEnv
<1> QED  BY <1>1 DEF Scope, EmptyEnv

\* Entering a block: one scope more, with the block's argument.
LEMMA EnterScopes ==
  ASSUME NEW c \in Seq(Scope), NEW b \in Blocks, NEW x \in Nat
  PROVE  LET d == EnterBlock(b, c, x)
         IN  /\ d \in Seq(Scope) /\ Len(d) = Len(c) + 1
             /\ \A k \in 1..Len(c) : d[k] = c[k]
             /\ DOMAIN d[Len(c) + 1] = {<<b, 0>>} /\ d[Len(c) + 1][<<b, 0>>] = x
<1>1. <<b, 0>> \in Values
  BY Bounds DEF Values
<1>2. ASSUME NEW v \in Values
      PROVE  /\ Bind(EmptyEnv, v, x) \in Scope
             /\ DOMAIN Bind(EmptyEnv, v, x) = {v} /\ Bind(EmptyEnv, v, x)[v] = x
  <2>1. /\ Bind(EmptyEnv, v, x) \in Scope
        /\ DOMAIN Bind(EmptyEnv, v, x) = DOMAIN EmptyEnv \cup {v} /\ Bind(EmptyEnv, v, x)[v] = x
    BY BindScope, EmptyScope
  <2>2. DOMAIN EmptyEnv \cup {v} = {v}
    BY EmptyScope
  <2> QED  BY <2>1, <2>2
<1>3. ASSUME NEW s \in Scope
      PROVE  LET d == Append(c, s)
             IN  /\ d \in Seq(Scope) /\ Len(d) = Len(c) + 1 /\ d[Len(c) + 1] = s
                 /\ \A k \in 1..Len(c) : d[k] = c[k]
  OBVIOUS
<1>4. EnterBlock(b, c, x) = Append(c, Bind(EmptyEnv, <<b, 0>>, x))
  BY DEF EnterBlock
<1>5. ASSUME NEW v \in Values
      PROVE  LET d == Append(c, Bind(EmptyEnv, v, x))
             IN  /\ d \in Seq(Scope) /\ Len(d) = Len(c) + 1
                 /\ \A k \in 1..Len(c) : d[k] = c[k]
                 /\ DOMAIN d[Len(c) + 1] = {v} /\ d[Len(c) + 1][v] = x
  BY <1>2, <1>3
<1> QED  BY <1>1, <1>4, <1>5

\* Setting a value in the current scope.
LEMMA SetScopes ==
  ASSUME NEW c \in Seq(Scope), c # <<>>, NEW v \in Values, NEW x \in Nat
  PROVE  LET d == Set(c, v, x)
         IN  /\ d \in Seq(Scope) /\ Len(d) = Len(c)
             /\ \A k \in 1..(Len(c) - 1) : d[k] = c[k]
             /\ DOMAIN d[Len(c)] = DOMAIN c[Len(c)] \cup {v} /\ d[Len(c)][v] = x
             /\ \A w \in DOMAIN c[Len(c)] \ {v} : d[Len(c)][w] = c[Len(c)][w]
<1>1. Len(c) \in 1..Len(c) /\ c[Len(c)] \in Scope
  BY EmptySeq
<1>2. /\ Bind(c[Len(c)], v, x) \in Scope
      /\ DOMAIN Bind(c[Len(c)], v, x) = DOMAIN c[Len(c)] \cup {v}
      /\ Bind(c[Len(c)], v, x)[v] = x
      /\ \A w \in DOMAIN c[Len(c)] \ {v} : Bind(c[Len(c)], v, x)[w] = c[Len(c)][w]
  BY <1>1, BindScope
<1>3. Set(c, v, x) = [c EXCEPT ![Len(c)] = Bind(c[Len(c)], v, x)]
  BY DEF Set
<1> QED  BY <1>1, <1>2, <1>3

\* Popping n scopes.
LEMMA PopScopes ==
  ASSUME NEW c \in Seq(Scope), NEW n \in 0..Len(c)
  PROVE  LET d == SubSeq(c, 1, Len(c) - n)
         IN  d \in Seq(Scope) /\ Len(d) = Len(c) - n /\ \A k \in 1..(Len(c) - n) : d[k] = c[k]
  OBVIOUS

----------------------------------------------------------------------------
(* Frames. *)

LEMMA ProgramFacts ==
  ASSUME NEW p \in Programs
  PROVE  /\ p.in \in [Blocks -> SUBSET Values] /\ p.owner \in [Bodies -> Points]
         /\ \A b \in Functions : p.in[b] = {}
         /\ \A b \in Blocks : \A i \in 0..MaxLen : <<b, i>> \notin p.in[b]
         /\ \A b \in Bodies : p.in[b] \subseteq UsableAt(p, p.owner[b])
<1>1. p \in [in : [Blocks -> SUBSET Values], owner : [Bodies -> Points]]
  BY InterpInput
<1> QED  BY <1>1, InterpInput

LEMMA UsableFacts ==
  ASSUME NEW p, NEW b, NEW i
  PROVE  UsableAt(p, <<b, i>>) = p.in[b] \cup {<<b, j>> : j \in 0..(i - 1)}
  BY DEF UsableAt

LEMMA HeightType ==
  ASSUME NEW f \in Frame
  PROVE  Height(f) \in Nat /\ f.scopes \in Nat /\ f.base \in Nat /\ Height(f) = f.base + f.scopes
  BY DEF Frame, Height

LEMMA ReadsUpTo ==
  ASSUME NEW p, NEW c \in Seq(Scope), NEW f \in Frame, Height(f) <= Len(c)
  PROVE  FrameReads(p, c, f) <=>
           \A v \in UsableAt(p, <<f.b, f.i>>) :
             v \in DOMAIN f.env /\ GetsUpTo(c, Height(f), v, f.env[v])
<1>1. Height(f) \in 0..Len(c)
  BY HeightType
<1> QED  BY <1>1, GetsInPrefix DEF FrameReads

\* A frame depends on the scopes up to its height only.
LEMMA FrameKept ==
  ASSUME NEW p, NEW c \in Seq(Scope), NEW d \in Seq(Scope), NEW f \in Frame,
         FrameReads(p, c, f), FrameOwns(c, f), Height(f) <= Len(d),
         \A k \in 1..Height(f) : d[k] = c[k]
  PROVE  FrameReads(p, d, f) /\ FrameOwns(d, f)
<1>1. Height(f) \in Nat /\ f.scopes > 0 /\ Height(f) <= Len(c) /\ Height(f) \in 1..Height(f)
  BY HeightType DEF FrameOwns
<1>2. FrameOwns(d, f)
  BY <1>1 DEF FrameOwns
<1>3. \A v, x : GetsUpTo(c, Height(f), v, x) => GetsUpTo(d, Height(f), v, x)
  BY DEF GetsUpTo
<1> QED  BY <1>1, <1>2, <1>3, ReadsUpTo

\* A frame that has just entered block b, where what dominates it was known.
LEMMA FrameEntered ==
  ASSUME NEW p \in Programs, NEW c \in Seq(Scope), NEW env \in Scope,
         NEW b \in Blocks, NEW x \in Nat,
         \A v \in p.in[b] : v \in DOMAIN env /\ GetsUpTo(c, Len(c), v, env[v]),
         NEW f \in Frame, f.b = b, f.i = 1, f.env = Bind(env, <<b, 0>>, x),
         f.scopes > 0, Height(f) = Len(c) + 1
  PROVE  FrameReads(p, EnterBlock(b, c, x), f) /\ FrameOwns(EnterBlock(b, c, x), f)
<1> DEFINE a == <<b, 0>>
           d == EnterBlock(b, c, x)
<1>1. /\ d \in Seq(Scope) /\ Len(d) = Len(c) + 1
      /\ \A k \in 1..Len(c) : d[k] = c[k]
      /\ DOMAIN d[Len(c) + 1] = {a} /\ d[Len(c) + 1][a] = x
  BY EnterScopes
<1>2. a \in Values /\ a \notin p.in[b]
  BY Bounds, ProgramFacts DEF Values
<1>4. UsableAt(p, <<f.b, f.i>>) = p.in[b] \cup {a}
  BY UsableFacts
<1>0. a = <<b, 0>> /\ d = EnterBlock(b, c, x) /\ f.env = Bind(env, a, x)
  OBVIOUS
<1> HIDE DEF a, d
<1>3. /\ DOMAIN f.env = DOMAIN env \cup {a} /\ f.env[a] = x
      /\ \A w \in DOMAIN env \ {a} : f.env[w] = env[w]
  BY <1>0 DEF Bind
<1>5. ASSUME NEW v \in p.in[b]
      PROVE  v \in DOMAIN f.env /\ GetsUpTo(d, Len(c) + 1, v, f.env[v])
  <2>1. /\ v # a /\ v \in DOMAIN env /\ f.env[v] = env[v]
        /\ GetsUpTo(c, Len(c), v, env[v])
    BY <1>2, <1>3
  <2>2. PICK k \in 1..Len(c) : /\ v \in DOMAIN c[k] /\ c[k][v] = env[v]
                               /\ \A j \in 1..Len(c) : j > k => v \notin DOMAIN c[j]
    BY <2>1 DEF GetsUpTo
  <2>3. /\ k \in 1..(Len(c) + 1) /\ v \in DOMAIN d[k] /\ d[k][v] = f.env[v]
        /\ \A j \in 1..(Len(c) + 1) : j > k => v \notin DOMAIN d[j]
    BY <1>1, <2>1, <2>2
  <2> QED  BY <1>3, <2>1, <2>3 DEF GetsUpTo
<1>6. GetsUpTo(d, Len(c) + 1, a, x)
  BY <1>1 DEF GetsUpTo
<1>7. FrameReads(p, d, f)
  <2>1. ASSUME NEW v \in UsableAt(p, <<f.b, f.i>>)
        PROVE  v \in DOMAIN f.env /\ GetsUpTo(d, Height(f), v, f.env[v])
    BY <1>3, <1>4, <1>5, <1>6
  <2>2. Height(f) <= Len(d)
    BY <1>1
  <2> QED  BY <1>1, <2>1, <2>2, ReadsUpTo
<1>8. FrameOwns(d, f)
  <2>1. a \in {<<f.b, j>> : j \in 0..(f.i - 1)}
    BY <1>0
  <2> QED  BY <1>1, <2>1 DEF FrameOwns
<1> QED  BY <1>0, <1>7, <1>8

\* A frame whose operation has got its result.
LEMMA FrameDone ==
  ASSUME NEW p \in Programs, NEW c \in Seq(Scope), NEW f \in Frame, NEW x \in Nat,
         FrameReads(p, c, f), FrameOwns(c, f), Height(f) = Len(c), f.i <= MaxLen
  PROVE  LET d == Set(c, <<f.b, f.i>>, x)
         IN  /\ d \in Seq(Scope) /\ Len(d) = Len(c) /\ \A k \in 1..(Len(c) - 1) : d[k] = c[k]
             /\ Done(f, x) \in Frame
             /\ FrameReads(p, d, Done(f, x)) /\ FrameOwns(d, Done(f, x))
<1> DEFINE r == <<f.b, f.i>>
           d == Set(c, r, x)
           g == Done(f, x)
<1>1. r \in Values /\ f.b \in Blocks /\ f.i \in 1..MaxLen /\ f.env \in Scope
  BY Bounds DEF Values, Frame
<1>0. r = <<f.b, f.i>> /\ d = Set(c, r, x) /\ g = Done(f, x)
  OBVIOUS
<1> HIDE DEF d, g, r
<1>2. c # <<>> /\ Len(c) \in 1..Len(c)
  BY HeightType DEF FrameOwns
<1>3. /\ d \in Seq(Scope) /\ Len(d) = Len(c) /\ \A k \in 1..(Len(c) - 1) : d[k] = c[k]
      /\ DOMAIN d[Len(c)] = DOMAIN c[Len(c)] \cup {r} /\ d[Len(c)][r] = x
      /\ \A w \in DOMAIN c[Len(c)] \ {r} : d[Len(c)][w] = c[Len(c)][w]
  <2>1. LET e == Set(c, r, x)
        IN  /\ e \in Seq(Scope) /\ Len(e) = Len(c) /\ \A k \in 1..(Len(c) - 1) : e[k] = c[k]
            /\ DOMAIN e[Len(c)] = DOMAIN c[Len(c)] \cup {r} /\ e[Len(c)][r] = x
            /\ \A w \in DOMAIN c[Len(c)] \ {r} : e[Len(c)][w] = c[Len(c)][w]
    BY <1>1, <1>2, SetScopes
  <2> QED  BY <1>0, <2>1
<1>4. /\ Bind(f.env, r, x) \in Scope
      /\ DOMAIN Bind(f.env, r, x) = DOMAIN f.env \cup {r} /\ Bind(f.env, r, x)[r] = x
      /\ \A w \in DOMAIN f.env \ {r} : Bind(f.env, r, x)[w] = f.env[w]
  BY <1>1, BindScope
<1>5. /\ g \in Frame /\ g.b = f.b /\ g.i = f.i + 1 /\ g.env = Bind(f.env, r, x)
      /\ g.scopes = f.scopes /\ g.base = f.base
  <2>1. ASSUME NEW e \in Scope, NEW h, h = [f EXCEPT !.i = f.i + 1, !.env = e]
        PROVE  /\ h \in Frame /\ h.b = f.b /\ h.i = f.i + 1 /\ h.env = e
               /\ h.scopes = f.scopes /\ h.base = f.base
    <3>1. f.i + 1 \in 1..(MaxLen + 1)
      BY <1>1, Bounds
    <3> QED  BY <2>1, <3>1 DEF Frame
  <2>2. g = [f EXCEPT !.i = f.i + 1, !.env = Bind(f.env, r, x)]
    BY <1>0 DEF Done, Frame
  <2> QED  BY <1>4, <2>1, <2>2
<1>6. UsableAt(p, <<g.b, g.i>>) = UsableAt(p, <<f.b, f.i>>) \cup {r}
  <2>1. 0..((f.i + 1) - 1) = (0..(f.i - 1)) \cup {f.i}
    BY <1>1, Bounds
  <2>2. {<<f.b, j>> : j \in 0..((f.i + 1) - 1)} = {<<f.b, j>> : j \in 0..(f.i - 1)} \cup {r}
    BY <1>0, <2>1
  <2>3. UsableAt(p, <<f.b, f.i + 1>>) = UsableAt(p, <<f.b, f.i>>) \cup {r}
    BY <2>2, UsableFacts, Z3
  <2> QED  BY <1>5, <2>3
<1>7. Height(g) = Len(c) /\ g.scopes > 0
  BY <1>5 DEF Height, FrameOwns
<1>8. FrameOwns(d, g)
  <2>1. DOMAIN c[Len(c)] \subseteq {<<f.b, j>> : j \in 0..(f.i - 1)}
    BY DEF FrameOwns
  <2>2. {<<f.b, j>> : j \in 0..(f.i - 1)} \cup {r} \subseteq {<<g.b, j>> : j \in 0..(g.i - 1)}
    BY <1>0, <1>1, <1>5, Bounds
  <2>3. DOMAIN d[Len(c)] \subseteq {<<g.b, j>> : j \in 0..(g.i - 1)}
    BY <1>3, <2>1, <2>2
  <2> QED  BY <1>3, <1>7, <2>3 DEF FrameOwns
<1>9. ASSUME NEW v \in UsableAt(p, <<f.b, f.i>>), v # r
      PROVE  v \in DOMAIN g.env /\ GetsUpTo(d, Len(c), v, g.env[v])
  <2>1. v \in DOMAIN f.env /\ GetsUpTo(c, Len(c), v, f.env[v])
    BY ReadsUpTo
  <2>2. PICK k \in 1..Len(c) : /\ v \in DOMAIN c[k] /\ c[k][v] = f.env[v]
                               /\ \A j \in 1..Len(c) : j > k => v \notin DOMAIN c[j]
    BY <2>1 DEF GetsUpTo
  <2>3. g.env[v] = f.env[v] /\ v \in DOMAIN g.env
    BY <1>4, <1>5, <1>9, <2>1
  <2>4. /\ v \in DOMAIN d[k] /\ d[k][v] = g.env[v]
        /\ \A j \in 1..Len(c) : j > k => v \notin DOMAIN d[j]
    BY <1>3, <1>9, <2>2, <2>3, Z3
  <2> QED  BY <2>3, <2>4 DEF GetsUpTo
<1>10. r \in DOMAIN g.env /\ GetsUpTo(d, Len(c), r, g.env[r])
  BY <1>2, <1>3, <1>4, <1>5 DEF GetsUpTo
<1>11. FrameReads(p, d, g)
  <2>1. ASSUME NEW v \in UsableAt(p, <<g.b, g.i>>)
        PROVE  v \in DOMAIN g.env /\ GetsUpTo(d, Height(g), v, g.env[v])
    BY <1>6, <1>7, <1>9, <1>10
  <2> QED  BY <1>3, <1>5, <1>7, <2>1, ReadsUpTo
<1> QED  BY <1>0, <1>3, <1>5, <1>8, <1>11

----------------------------------------------------------------------------
(* The stack of frames. *)

\* A new frame at the top, right by itself, over frames of the old stack that are
\* at an operation: the scopes below its base are as before.
LEMMA StackTop ==
  ASSUME NEW p, NEW c \in Seq(Scope), NEW fs \in Seq(Frame), StackRight(p, c, fs),
         NEW d \in Seq(Scope), NEW gs \in Seq(Frame), NEW n \in Nat,
         n = Len(gs), n > 0, n - 1 <= Len(fs),
         \A k \in 1..(n - 1) : /\ gs[k] = fs[k] /\ fs[k].i <= MaxLen
                               /\ Height(fs[k]) <= gs[n].base,
         n > 1 => Height(fs[n - 1]) = gs[n].base,
         \A k \in 1..gs[n].base : d[k] = c[k],
         Height(gs[n]) = Len(d), FrameReads(p, d, gs[n]), FrameOwns(d, gs[n])
  PROVE  StackRight(p, d, gs)
<1>1. n \in DOMAIN gs /\ DOMAIN gs = 1..n /\ DOMAIN fs = 1..Len(fs) /\ gs[n] \in Frame
  OBVIOUS
<1>2. gs[n].base \in Nat /\ gs[n].base <= Len(d) /\ Len(d) \in Nat
  BY <1>1, HeightType
<1>3. ASSUME NEW k \in 1..(n - 1)
      PROVE  /\ k \in DOMAIN fs /\ fs[k] \in Frame /\ gs[k] = fs[k] /\ Height(fs[k]) \in Nat
             /\ FrameReads(p, c, fs[k]) /\ FrameOwns(c, fs[k])
  <2>1. k \in DOMAIN fs /\ fs[k] \in Frame
    BY <1>1
  <2> QED  BY <2>1, HeightType DEF StackRight
<1>4. ASSUME NEW k \in 1..n
      PROVE  FrameReads(p, d, gs[k]) /\ FrameOwns(d, gs[k])
  <2>1. CASE k = n
    BY <2>1
  <2>2. CASE k # n
    <3>1. k \in 1..(n - 1)
      BY <2>2
    <3>2. Height(fs[k]) <= gs[n].base
      BY <3>1
    <3>3. Height(fs[k]) <= Len(d) /\ \A j \in 1..Height(fs[k]) : d[j] = c[j]
      BY <1>2, <1>3, <3>1, <3>2
    <3> QED  BY <1>3, <3>1, <3>3, FrameKept
  <2> QED  BY <2>1, <2>2
<1>5. Waiting(gs)
  <2>1. ASSUME NEW k \in 1..n, k < n PROVE gs[k].i <= MaxLen
    <3>1. k \in 1..(n - 1)
      BY <2>1
    <3> QED  BY <3>1
  <2> QED  BY <1>1, <2>1 DEF Waiting
<1>6. Stacked(d, gs)
  <2> SUFFICES ASSUME NEW k \in 1..n
               PROVE  /\ Height(gs[k]) = IF k = n THEN Len(d) ELSE gs[k + 1].base
                      /\ \A j \in 1..n : j < k => Height(gs[j]) <= gs[k].base
    BY <1>1 DEF Stacked
  <2>1. CASE k = n
    <3>1. ASSUME NEW j \in 1..n, j < k PROVE Height(gs[j]) <= gs[n].base
      <4>1. j \in 1..(n - 1)
        BY <2>1, <3>1
      <4> QED  BY <4>1
    <3> QED  BY <2>1, <3>1
  <2>2. CASE k < n
    <3>1. k \in 1..(n - 1) /\ k \in 1..Len(fs)
      BY <2>2
    <3>2. \A j \in 1..n : j < k => Height(gs[j]) <= gs[k].base
      <4> SUFFICES ASSUME NEW j \in 1..n, j < k
                   PROVE  Height(gs[j]) <= gs[k].base
        OBVIOUS
      <4>1. j \in 1..(n - 1) /\ j \in DOMAIN fs /\ k \in DOMAIN fs
        BY <1>1, <3>1
      <4> QED  BY <1>3, <3>1, <4>1 DEF StackRight, Stacked
    <3>3. CASE k = n - 1
      BY <1>3, <2>2, <3>1, <3>2, <3>3
    <3>4. CASE k # n - 1
      <4>1. k + 1 \in 1..(n - 1) /\ k # Len(fs) /\ k \in DOMAIN fs
        <5>1. Len(fs) \in Nat /\ k \in Nat /\ k >= 1 /\ k < n - 1
          BY <2>2, <3>1, <3>4
        <5>2. k < Len(fs) /\ k + 1 \in 1..(n - 1)
          BY <5>1
        <5>3. k # Len(fs)
          BY <5>1, <5>2
        <5>4. k \in DOMAIN fs
          BY <1>1, <3>1
        <5> QED  BY <5>2, <5>3, <5>4
      <4>2. Height(fs[k]) = fs[k + 1].base
        BY <4>1 DEF StackRight, Stacked
      <4> QED  BY <1>3, <2>2, <3>1, <3>2, <4>1, <4>2
    <3> QED  BY <3>3, <3>4
  <2> QED  BY <2>1, <2>2
<1> QED  BY <1>1, <1>4, <1>5, <1>6 DEF StackRight

\* What StackRight says of the frames of a stack that is not empty.
LEMMA StackFacts ==
  ASSUME NEW p, NEW c \in Seq(Scope), NEW fs \in Seq(Frame), StackRight(p, c, fs), fs # <<>>
  PROVE  LET n == Len(fs)
         IN  /\ n \in Nat /\ n > 0 /\ fs[n] \in Frame /\ Height(fs[n]) = Len(c) /\ fs[n].scopes > 0
             /\ fs[n].base = Len(c) - fs[n].scopes /\ fs[n].base >= 0
             /\ \A k \in 1..n : /\ fs[k] \in Frame /\ FrameReads(p, c, fs[k]) /\ FrameOwns(c, fs[k])
                                 /\ Height(fs[k]) <= Len(c)
             /\ \A k \in 1..(n - 1) : fs[k].i <= MaxLen /\ Height(fs[k]) <= fs[n].base
             /\ n > 1 => Height(fs[n - 1]) = fs[n].base
<1> DEFINE n == Len(fs)
<1>1. n \in Nat /\ n > 0 /\ DOMAIN fs = 1..n /\ n \in 1..n
  BY EmptySeq
<1>2. \A k \in 1..n : fs[k] \in Frame /\ FrameReads(p, c, fs[k]) /\ FrameOwns(c, fs[k])
  BY <1>1 DEF StackRight
<1>3. Height(fs[n]) = Len(c) /\ \A k \in 1..(n - 1) : Height(fs[k]) <= fs[n].base
  BY <1>1 DEF StackRight, Stacked
<1>4. fs[n].scopes > 0 /\ fs[n].base = Len(c) - fs[n].scopes /\ fs[n].base >= 0
  BY <1>1, <1>2, <1>3, HeightType DEF FrameOwns
<1>5. \A k \in 1..(n - 1) : fs[k].i <= MaxLen
  BY <1>1 DEF StackRight, Waiting
<1>6. n > 1 => Height(fs[n - 1]) = fs[n].base
  <2> SUFFICES ASSUME n > 1 PROVE Height(fs[n - 1]) = fs[n].base
    OBVIOUS
  <2>0. ASSUME NEW m \in Nat, m > 1 PROVE m - 1 \in 1..m /\ m - 1 # m /\ (m - 1) + 1 = m
    BY <2>0
  <2>1. n - 1 \in 1..n /\ n - 1 # n /\ (n - 1) + 1 = n
    BY <1>1, <2>0
  <2>2. n - 1 \in DOMAIN fs
    BY <1>1, <2>1
  <2> QED  BY <2>1, <2>2 DEF StackRight, Stacked
<1>7. \A k \in 1..n : Height(fs[k]) <= Len(c)
  BY <1>2 DEF FrameOwns
<1> QED  BY <1>1, <1>2, <1>3, <1>4, <1>5, <1>6, <1>7

----------------------------------------------------------------------------
(* The steps. *)

\* The environment of a frame that enters block b, and its record.
LEMMA EntryEnv ==
  ASSUME NEW b \in Blocks, NEW env \in Scope, NEW x \in Nat
  PROVE  Bind(env, <<b, 0>>, x) \in Scope
<1>1. <<b, 0>> \in Values
  BY Bounds DEF Values
<1>2. ASSUME NEW v \in Values PROVE Bind(env, v, x) \in Scope
  BY BindScope
<1> QED  BY <1>1, <1>2

LEMMA FrameAtStart ==
  ASSUME NEW b \in Blocks, NEW env \in Scope, NEW n \in Nat, NEW m \in Nat,
         NEW f, f = [b |-> b, i |-> 1, scopes |-> n, base |-> m, env |-> env]
  PROVE  /\ f \in Frame /\ f.b = b /\ f.i = 1 /\ f.scopes = n /\ f.base = m
         /\ f.env = env /\ Height(f) = m + n
<1>1. 1 \in 1..(MaxLen + 1)
  BY Bounds
<1> QED  BY <1>1 DEF Frame, Height

LEMMA NewFrameFacts ==
  ASSUME NEW b \in Blocks, NEW env \in Scope, NEW x \in Nat, NEW m \in Nat, NEW f,
         f = [b |-> b, i |-> 1, scopes |-> 1, base |-> m, env |-> Bind(env, <<b, 0>>, x)]
  PROVE  /\ f \in Frame /\ f.b = b /\ f.i = 1 /\ f.scopes = 1 /\ f.base = m
         /\ f.env = Bind(env, <<b, 0>>, x)
<1>1. ASSUME NEW e \in Scope, NEW g, g = [b |-> b, i |-> 1, scopes |-> 1, base |-> m, env |-> e]
      PROVE  g \in Frame /\ g.b = b /\ g.i = 1 /\ g.scopes = 1 /\ g.base = m /\ g.env = e
  <2>1. 1 \in Nat
    OBVIOUS
  <2> QED  BY ONLY b \in Blocks, m \in Nat, e \in Scope, <1>1, <2>1, FrameAtStart
<1> QED  BY <1>1, EntryEnv

\* A frame that starts with block b, on a stack whose top is at an operation, where
\* what dominates the block is known in env and found in the scopes.
LEMMA PushFrame ==
  ASSUME NEW p \in Programs, NEW c \in Seq(Scope), NEW fs \in Seq(Frame), StackRight(p, c, fs),
         fs # <<>> => fs[Len(fs)].i <= MaxLen, NEW b \in Blocks, NEW env \in Scope, NEW x \in Nat,
         \A v \in p.in[b] : v \in DOMAIN env /\ GetsUpTo(c, Len(c), v, env[v]),
         NEW f \in Frame, f.b = b, f.i = 1, f.scopes = 1, f.base = Len(c),
         f.env = Bind(env, <<b, 0>>, x),
         NEW d, d = EnterBlock(b, c, x), NEW gs, gs = Append(fs, f)
  PROVE  d \in Seq(Scope) /\ gs \in Seq(Frame) /\ StackRight(p, d, gs)
<1> DEFINE n == Len(fs) + 1
<1>3. d \in Seq(Scope) /\ Len(d) = Len(c) + 1 /\ \A k \in 1..Len(c) : d[k] = c[k]
  BY EnterScopes
<1>4. Height(f) = Len(c) + 1 /\ f.scopes > 0
  BY DEF Height
<1>5. FrameReads(p, d, f) /\ FrameOwns(d, f)
  BY <1>4, FrameEntered
<1>6. /\ gs \in Seq(Frame) /\ Len(gs) = n /\ gs[n] = f /\ n \in Nat /\ n > 0
      /\ n - 1 = Len(fs) /\ \A k \in 1..(n - 1) : gs[k] = fs[k]
  BY <1>4
<1>7. ASSUME NEW k \in 1..Len(fs)
      PROVE  fs[k].i <= MaxLen /\ Height(fs[k]) <= Len(c)
  <2>1. fs # <<>>
    OBVIOUS
  <2>2. CASE k = Len(fs)
    BY <2>1, <2>2, StackFacts
  <2>3. CASE k # Len(fs)
    <3>1. k \in 1..(Len(fs) - 1)
      BY <2>3
    <3> QED  BY <2>1, <3>1, StackFacts
  <2> QED  BY <2>2, <2>3
<1>8. n > 1 => Height(fs[n - 1]) = Len(c)
  <2> SUFFICES ASSUME n > 1 PROVE Height(fs[Len(fs)]) = Len(c)
    BY <1>6
  <2>1. fs # <<>>
    BY <1>6
  <2> QED  BY <2>1, StackFacts
<1> HIDE DEF n
<1>9. StackRight(p, d, gs)
  <2>1. \A k \in 1..(n - 1) : /\ gs[k] = fs[k] /\ fs[k].i <= MaxLen
                              /\ Height(fs[k]) <= gs[n].base
    BY <1>4, <1>6, <1>7
  <2>2. n > 1 => Height(fs[n - 1]) = gs[n].base
    BY <1>4, <1>6, <1>8
  <2>3. \A k \in 1..gs[n].base : d[k] = c[k]
    BY <1>3, <1>4, <1>6
  <2>4. Height(gs[n]) = Len(d) /\ FrameReads(p, d, gs[n]) /\ FrameOwns(d, gs[n])
    BY <1>3, <1>4, <1>5, <1>6
  <2>5. n - 1 <= Len(fs)
    BY <1>6
  <2> QED  BY ONLY c \in Seq(Scope), fs \in Seq(Frame), StackRight(p, c, fs),
                   <1>3, <1>6, <2>1, <2>2, <2>3, <2>4, <2>5, StackTop
<1> QED  BY <1>3, <1>6, <1>9

\* The top frame is replaced by one with the same base.
LEMMA TopReplaced ==
  ASSUME NEW p, NEW c \in Seq(Scope), NEW fs \in Seq(Frame), StackRight(p, c, fs), fs # <<>>,
         NEW d \in Seq(Scope), NEW g \in Frame, NEW gs, gs = [fs EXCEPT ![Len(fs)] = g],
         g.base = fs[Len(fs)].base, \A k \in 1..g.base : d[k] = c[k],
         Height(g) = Len(d), FrameReads(p, d, g), FrameOwns(d, g)
  PROVE  gs \in Seq(Frame) /\ StackRight(p, d, gs)
<1> DEFINE n == Len(fs)
<1>1. n \in Nat /\ n > 0 /\ n - 1 <= Len(fs) /\ n \in 1..Len(fs)
  BY EmptySeq
<1>2. gs \in Seq(Frame) /\ Len(gs) = n /\ gs[n] = g
  BY <1>1
<1>3. ASSUME NEW k \in 1..(n - 1)
      PROVE  gs[k] = fs[k] /\ fs[k].i <= MaxLen /\ Height(fs[k]) <= g.base
  <2>1. gs[k] = fs[k]
    BY <1>1
  <2> QED  BY <2>1, StackFacts
<1>4. n > 1 => Height(fs[n - 1]) = g.base
  BY StackFacts
<1> HIDE DEF n
<1>5. \A k \in 1..(n - 1) : gs[k] = fs[k] /\ fs[k].i <= MaxLen /\ Height(fs[k]) <= gs[n].base
  BY <1>2, <1>3
<1>6. /\ n > 1 => Height(fs[n - 1]) = gs[n].base
      /\ \A k \in 1..gs[n].base : d[k] = c[k]
      /\ Height(gs[n]) = Len(d) /\ FrameReads(p, d, gs[n]) /\ FrameOwns(d, gs[n])
  BY <1>2, <1>4
<1> QED  BY <1>1, <1>2, <1>5, <1>6, StackTop

\* What leaving the top frame restores.
LEMMA TopLeft ==
  ASSUME NEW p, NEW c \in Seq(Scope), NEW fs \in Seq(Frame), StackRight(p, c, fs), Len(fs) > 1
  PROVE  LET d == Leave(c, fs[Len(fs)])
             gs == SubSeq(fs, 1, Len(fs) - 1)
         IN  /\ d \in Seq(Scope) /\ gs \in Seq(Frame) /\ StackRight(p, d, gs) /\ gs # <<>>
             /\ Len(d) = fs[Len(fs)].base /\ Len(gs) = Len(fs) - 1
             /\ gs[Len(gs)] = fs[Len(fs) - 1] /\ gs[Len(gs)].i <= MaxLen
<1> DEFINE n == Len(fs) - 1
           m == fs[Len(fs)].base
           d == Leave(c, fs[Len(fs)])
           gs == SubSeq(fs, 1, Len(fs) - 1)
<1>1. fs # <<>> /\ n \in Nat /\ n > 0 /\ n \in 1..n /\ n + 1 = Len(fs) /\ n <= Len(fs)
  OBVIOUS
<1>2. /\ gs \in Seq(Frame) /\ Len(gs) = n /\ \A k \in 1..n : gs[k] = fs[k]
  BY <1>1
<1>3. /\ fs[Len(fs)].scopes \in Nat /\ m = Len(c) - fs[Len(fs)].scopes /\ m >= 0 /\ m \in Nat
  BY <1>1, StackFacts, HeightType
<1>4. d \in Seq(Scope) /\ Len(d) = m /\ \A k \in 1..m : d[k] = c[k]
  BY <1>3, PopScopes DEF Leave
<1> HIDE DEF d, gs
<1>5. \A k \in 1..n : /\ fs[k] \in Frame /\ FrameReads(p, c, fs[k]) /\ FrameOwns(c, fs[k])
                      /\ fs[k].i <= MaxLen /\ Height(fs[k]) <= m
  BY <1>1, StackFacts
<1>6. Height(fs[n]) = m
  BY <1>1, StackFacts
<1>7. Height(gs[n]) = m /\ Height(gs[n]) = Len(d) /\ gs[n] = fs[n] /\ gs[n] \in Frame
  BY <1>1, <1>2, <1>4, <1>5, <1>6
<1> HIDE DEF n, m
<1>8. gs[n].base \in Nat /\ gs[n].base <= m
  <2>1. ASSUME NEW f \in Frame, Height(f) = m PROVE f.base \in Nat /\ f.base <= m
    <3>1. Height(f) = f.base + f.scopes /\ f.base \in Nat /\ f.scopes \in Nat
      BY ONLY f \in Frame, HeightType
    <3> QED  BY ONLY <2>1, <3>1
  <2> QED  BY ONLY <1>7, <2>1
<1>9. FrameReads(p, d, gs[n]) /\ FrameOwns(d, gs[n])
  <2>1. FrameReads(p, c, gs[n]) /\ FrameOwns(c, gs[n])
    BY <1>1, <1>5, <1>7
  <2>2. Height(gs[n]) <= Len(d) /\ \A k \in 1..Height(gs[n]) : d[k] = c[k]
    BY ONLY <1>3, <1>4, <1>7
  <2> QED  BY ONLY c \in Seq(Scope), <1>4, <1>7, <2>1, <2>2, FrameKept
<1>10. \A k \in 1..(n - 1) : gs[k] = fs[k] /\ fs[k].i <= MaxLen /\ Height(fs[k]) <= gs[n].base
  <2>1. ASSUME NEW k \in 1..(n - 1) PROVE k \in DOMAIN fs /\ n \in DOMAIN fs /\ k < n /\ k \in 1..n
    BY <1>1
  <2>2. ASSUME NEW k \in 1..(n - 1) PROVE Height(fs[k]) <= fs[n].base
    BY <2>1 DEF StackRight, Stacked
  <2> QED  BY <1>2, <1>5, <1>7, <2>1, <2>2
<1>11. n > 1 => Height(fs[n - 1]) = gs[n].base
  <2> SUFFICES ASSUME n > 1 PROVE Height(fs[n - 1]) = fs[n].base
    BY <1>7
  <2>1. n - 1 \in DOMAIN fs /\ n - 1 # Len(fs) /\ (n - 1) + 1 = n
    BY <1>1
  <2> QED  BY <2>1 DEF StackRight, Stacked
<1>12. n - 1 <= Len(fs) /\ \A k \in 1..gs[n].base : d[k] = c[k]
  BY <1>1, <1>4, <1>8
<1>13. StackRight(p, d, gs)
  BY <1>1, <1>2, <1>4, <1>7, <1>9, <1>10, <1>11, <1>12, StackTop
<1>14. gs # <<>> /\ gs[Len(gs)] = gs[n] /\ gs[n].i <= MaxLen /\ gs[n] = fs[Len(fs) - 1]
  <2>1. gs # <<>> /\ gs[Len(gs)] = gs[n]
    BY <1>1, <1>2
  <2>2. gs[n].i <= MaxLen
    BY <1>1, <1>5, <1>7
  <2> QED  BY <1>7, <2>1, <2>2 DEF n
<1>15. Len(d) = fs[Len(fs)].base /\ Len(gs) = Len(fs) - 1
  BY <1>2, <1>4 DEF n, m
<1>16. /\ d \in Seq(Scope) /\ gs \in Seq(Frame) /\ StackRight(p, d, gs) /\ gs # <<>>
       /\ gs[Len(gs)] = fs[Len(fs) - 1] /\ gs[Len(gs)].i <= MaxLen
  BY ONLY <1>2, <1>4, <1>13, <1>14
<1> QED  BY ONLY <1>15, <1>16 DEF d, gs

\* CallFromOutside, Call and EnterRegion: what dominates block b is known in env and
\* found in the scopes.
LEMMA StartStep ==
  ASSUME Inv, NEW b \in Blocks, NEW env \in Scope,
         \A v \in prog.in[b] : v \in DOMAIN env /\ GetsUpTo(ctx, Len(ctx), v, env[v]),
         frames # <<>> => Top.i <= MaxLen, Start(b, env), UNCHANGED prog,
         calls' \in Nat, failed' \in BOOLEAN
  PROVE  Inv'
<1>1. /\ prog \in Programs /\ ctx \in Seq(Scope) /\ frames \in Seq(Frame) /\ clock \in Nat
      /\ StackRight(prog, ctx, frames) /\ Len(ctx) \in Nat
  BY DEF Inv, Typed
<1>2. clock' \in Nat /\ ctx' = EnterBlock(b, ctx, clock)
  BY <1>1 DEF Start
<1>3. PICK f : /\ frames' = Append(frames, f)
               /\ f = [b |-> b, i |-> 1, scopes |-> 1, base |-> Len(ctx),
                       env |-> Bind(env, <<b, 0>>, clock)]
  BY DEF Start, NewFrame, Depth
<1>4. /\ f \in Frame /\ f.b = b /\ f.i = 1 /\ f.scopes = 1 /\ f.base = Len(ctx)
      /\ f.env = Bind(env, <<b, 0>>, clock)
  BY ONLY b \in Blocks, env \in Scope, <1>1, <1>3, NewFrameFacts
<1>5. frames # <<>> => frames[Len(frames)].i <= MaxLen
  BY DEF Top
<1>6. ctx' \in Seq(Scope) /\ frames' \in Seq(Frame) /\ StackRight(prog, ctx', frames')
  <2>1. frames' = Append(frames, f)
    BY <1>3
  <2>2. \A v \in prog.in[b] : v \in DOMAIN env /\ GetsUpTo(ctx, Len(ctx), v, env[v])
    OBVIOUS
  <2>3. \A d, gs : (d = EnterBlock(b, ctx, clock) /\ gs = Append(frames, f)) =>
                     d \in Seq(Scope) /\ gs \in Seq(Frame) /\ StackRight(prog, d, gs)
    BY ONLY b \in Blocks, env \in Scope, <1>1, <1>4, <1>5, <2>2, PushFrame
  <2> QED  BY ONLY <1>2, <2>1, <2>3
<1>7. Typed'
  BY <1>1, <1>2, <1>6 DEF Typed
<1>8. StackRight(prog, ctx, frames)'
  BY <1>6 DEF StackRight, Stacked, Waiting, FrameReads, FrameOwns, Gets, UsableAt, Height
<1> QED  BY <1>7, <1>8 DEF Inv

\* What the invariant says of a frame that is at the top of the stack.
LEMMA TopRight ==
  ASSUME NEW p, NEW c \in Seq(Scope), NEW fs \in Seq(Frame), StackRight(p, c, fs), fs # <<>>
  PROVE  LET t == fs[Len(fs)]
         IN  /\ t \in Frame /\ t.b \in Blocks /\ t.env \in Scope /\ t.scopes \in Nat /\ t.base \in Nat
             /\ Height(t) = Len(c) /\ FrameReads(p, c, t) /\ FrameOwns(c, t)
             /\ \A v \in UsableAt(p, <<t.b, t.i>>) :
                  v \in DOMAIN t.env /\ GetsUpTo(c, Len(c), v, t.env[v])
<1>1. Len(fs) \in 1..Len(fs)
  BY EmptySeq
<1>2. ASSUME NEW t, t = fs[Len(fs)]
      PROVE  t \in Frame /\ Height(t) = Len(c) /\ FrameReads(p, c, t) /\ FrameOwns(c, t)
  BY <1>1, <1>2, StackFacts
<1>3. ASSUME NEW t \in Frame, Height(t) = Len(c), FrameReads(p, c, t)
      PROVE  \A v \in UsableAt(p, <<t.b, t.i>>) :
               v \in DOMAIN t.env /\ GetsUpTo(c, Len(c), v, t.env[v])
  BY <1>3, ReadsUpTo
<1>4. ASSUME NEW t \in Frame
      PROVE  t.b \in Blocks /\ t.env \in Scope /\ t.scopes \in Nat /\ t.base \in Nat
  BY DEF Frame
<1> QED  BY <1>2, <1>3, <1>4

LEMMA CallSteps ==
  ASSUME Inv, CallFromOutside \/ Call
  PROVE  Inv'
<1>1. PICK b \in Functions : Start(b, EmptyEnv)
  BY DEF CallFromOutside, Call
<1>2. b \in Blocks /\ prog.in[b] = {} /\ calls \in Nat /\ failed \in BOOLEAN
  BY ProgramFacts, InterpInput DEF Inv, Typed
<1>3. frames # <<>> => Top.i <= MaxLen
  BY DEF CallFromOutside, Call, CanRun
<1>4. UNCHANGED prog /\ calls' \in Nat /\ failed' \in BOOLEAN
  <2>1. CASE CallFromOutside
    <3>1. prog' = prog /\ calls' = calls + 1 /\ failed' = FALSE
      BY <2>1 DEF CallFromOutside
    <3>2. calls' \in Nat
      BY <1>2, <3>1
    <3> QED  BY <3>1, <3>2
  <2>2. CASE Call
    BY <1>2, <2>2 DEF Call
  <2> QED  BY <2>1, <2>2
<1> QED  BY <1>1, <1>2, <1>3, <1>4, StartStep, EmptyScope

LEMMA EnterRegionStep ==
  ASSUME Inv, EnterRegion
  PROVE  Inv'
<1>1. PICK b \in Bodies : prog.owner[b] = <<Top.b, Top.i>> /\ Start(b, Top.env)
  BY DEF EnterRegion
<1>2. /\ prog \in Programs /\ ctx \in Seq(Scope) /\ frames \in Seq(Frame) /\ frames # <<>>
      /\ StackRight(prog, ctx, frames) /\ Top.i <= MaxLen /\ UNCHANGED prog
      /\ calls' \in Nat /\ failed' \in BOOLEAN
  BY DEF EnterRegion, CanRun, Inv, Typed
<1>3. b \in Blocks /\ prog.in[b] \subseteq UsableAt(prog, <<Top.b, Top.i>>)
  BY <1>1, <1>2, ProgramFacts, InterpInput
<1>4. Top.env \in Scope /\ \A v \in UsableAt(prog, <<Top.b, Top.i>>) :
                             v \in DOMAIN Top.env /\ GetsUpTo(ctx, Len(ctx), v, Top.env[v])
  BY <1>2, TopRight DEF Top
<1>5. \A v \in prog.in[b] : v \in DOMAIN Top.env /\ GetsUpTo(ctx, Len(ctx), v, Top.env[v])
  BY <1>3, <1>4
<1>6. Start(b, Top.env)
  BY <1>1
<1>7. ASSUME NEW env, env = Top.env PROVE Inv'
  <2>1. env \in Scope /\ \A v \in prog.in[b] : v \in DOMAIN env /\ GetsUpTo(ctx, Len(ctx), v, env[v])
    BY <1>4, <1>5, <1>7
  <2>2. Start(b, env)
    BY <1>6, <1>7
  <2> QED  BY <1>2, <1>3, <2>1, <2>2, StartStep
<1> QED  BY <1>7

\* A step that replaces the top of the stack fs over the scopes c: what is left when
\* the innermost region has been, or the stack as it was.
LEMMA TopStep ==
  ASSUME prog \in Programs, prog' = prog, clock' \in Nat, calls' \in Nat, failed' \in BOOLEAN,
         ctx' \in Seq(Scope), frames' \in Seq(Frame), StackRight(prog, ctx', frames')
  PROVE  Inv'
<1>1. Typed'
  BY DEF Typed
<1>2. StackRight(prog, ctx, frames)'
  BY DEF StackRight, Stacked, Waiting, FrameReads, FrameOwns, Gets, UsableAt, Height
<1> QED  BY <1>1, <1>2 DEF Inv

\* The operation at the top of a stack gets its result.
LEMMA ResultSet ==
  ASSUME NEW p \in Programs, NEW c \in Seq(Scope), NEW fs \in Seq(Frame), StackRight(p, c, fs),
         fs # <<>>, NEW x \in Nat, NEW t, t = fs[Len(fs)], t.i <= MaxLen
  PROVE  LET d == Set(c, <<t.b, t.i>>, x)
             gs == [fs EXCEPT ![Len(fs)] = Done(t, x)]
         IN  d \in Seq(Scope) /\ gs \in Seq(Frame) /\ StackRight(p, d, gs)
<1> DEFINE d == Set(c, <<t.b, t.i>>, x)
           g == Done(t, x)
           gs == [fs EXCEPT ![Len(fs)] = g]
<1>1. /\ t \in Frame /\ Height(t) = Len(c) /\ FrameReads(p, c, t) /\ FrameOwns(c, t)
  BY TopRight
<1>2. /\ d \in Seq(Scope) /\ Len(d) = Len(c) /\ \A k \in 1..(Len(c) - 1) : d[k] = c[k]
      /\ g \in Frame /\ FrameReads(p, d, g) /\ FrameOwns(d, g)
  BY <1>1, FrameDone
<1>3. g.base = t.base /\ g.scopes = t.scopes
  BY <1>1 DEF Done, Frame
<1> HIDE DEF d, g
<1>4. Height(g) = Len(d) /\ g.base = fs[Len(fs)].base
  BY <1>1, <1>2, <1>3 DEF Height
<1>5. \A k \in 1..g.base : d[k] = c[k]
  <2>1. /\ t.scopes > 0 /\ Height(t) = t.base + t.scopes /\ t.base \in Nat /\ t.scopes \in Nat
        /\ Len(c) \in Nat
    BY <1>1, HeightType DEF FrameOwns
  <2>2. g.base <= Len(c) - 1 /\ g.base \in Nat
    BY ONLY <1>1, <1>3, <2>1
  <2> QED  BY <1>2, <2>1, <2>2
<1>6. gs = [fs EXCEPT ![Len(fs)] = g]
  OBVIOUS
<1> HIDE DEF gs
<1>7. gs \in Seq(Frame) /\ StackRight(p, d, gs)
  BY ONLY c \in Seq(Scope), fs \in Seq(Frame), StackRight(p, c, fs), fs # <<>>,
          <1>2, <1>4, <1>5, <1>6, TopReplaced
<1> QED  BY <1>2, <1>7 DEF d, g, gs

LEMMA RunStep ==
  ASSUME Inv, Run
  PROVE  Inv'
<1>1. /\ prog \in Programs /\ ctx \in Seq(Scope) /\ frames \in Seq(Frame) /\ frames # <<>>
      /\ StackRight(prog, ctx, frames) /\ Top.i <= MaxLen /\ clock \in Nat
      /\ prog' = prog /\ clock' = clock + 1 /\ calls' \in Nat /\ failed' \in BOOLEAN
  BY DEF Run, CanRun, Inv, Typed
<1>2. /\ ctx' = Set(ctx, <<Top.b, Top.i>>, clock)
      /\ frames' = [frames EXCEPT ![Len(frames)] = Done(Top, clock)]
  BY DEF Run, Top
<1>3. ctx' \in Seq(Scope) /\ frames' \in Seq(Frame) /\ StackRight(prog, ctx', frames')
  BY ONLY <1>1, <1>2, ResultSet DEF Top
<1>4. clock' \in Nat
  BY <1>1
<1> QED  BY ONLY <1>1, <1>3, <1>4, TopStep

LEMMA BranchStep ==
  ASSUME Inv, Branch
  PROVE  Inv'
<1>1. /\ prog \in Programs /\ ctx \in Seq(Scope) /\ frames \in Seq(Frame) /\ frames # <<>>
      /\ StackRight(prog, ctx, frames) /\ clock \in Nat
      /\ prog' = prog /\ clock' = clock + 1 /\ calls' \in Nat /\ failed' \in BOOLEAN
  BY DEF Branch, Inv, Typed
<1> DEFINE t == Top
<1>2. PICK b \in Blocks : /\ prog.in[b] \subseteq UsableAt(prog, <<t.b, t.i>>)
                          /\ ctx' = EnterBlock(b, ctx, clock)
                          /\ frames' = [frames EXCEPT ![Len(frames)] = Branched(t, b, clock)]
  BY DEF Branch, Avail, Top
<1>3. /\ t \in Frame /\ t.env \in Scope /\ t.scopes \in Nat /\ t.base \in Nat
      /\ Height(t) = Len(ctx) /\ t = frames[Len(frames)] /\ t.base + t.scopes = Len(ctx)
      /\ \A v \in UsableAt(prog, <<t.b, t.i>>) :
           v \in DOMAIN t.env /\ GetsUpTo(ctx, Len(ctx), v, t.env[v])
  <2>1. t = frames[Len(frames)]
    BY DEF Top
  <2> HIDE DEF t
  <2>2. /\ t \in Frame /\ t.env \in Scope /\ t.scopes \in Nat /\ t.base \in Nat
        /\ Height(t) = Len(ctx)
        /\ \A v \in UsableAt(prog, <<t.b, t.i>>) :
             v \in DOMAIN t.env /\ GetsUpTo(ctx, Len(ctx), v, t.env[v])
    BY ONLY <1>1, <2>1, TopRight
  <2> QED  BY <2>1, <2>2 DEF Height
<1> HIDE DEF t
<1>4. PICK g : g = Branched(t, b, clock)
  OBVIOUS
<1>5. /\ g \in Frame /\ g.b = b /\ g.i = 1 /\ g.env = Bind(t.env, <<b, 0>>, clock)
      /\ g.scopes = t.scopes + 1 /\ g.base = t.base
  <2>1. ASSUME NEW e \in Scope, NEW h, h = [t EXCEPT !.b = b, !.i = 1, !.scopes = t.scopes + 1, !.env = e]
        PROVE  /\ h \in Frame /\ h.b = b /\ h.i = 1 /\ h.env = e
               /\ h.scopes = t.scopes + 1 /\ h.base = t.base
    <3>1. 1 \in 1..(MaxLen + 1)
      BY Bounds
    <3>2. t.scopes + 1 \in Nat /\ t \in Frame
      BY ONLY <1>3
    <3> QED  BY ONLY <2>1, <3>1, <3>2, b \in Blocks DEF Frame
  <2>2. Bind(t.env, <<b, 0>>, clock) \in Scope
    BY ONLY <1>1, <1>3, b \in Blocks, EntryEnv
  <2>3. g = [t EXCEPT !.b = b, !.i = 1, !.scopes = t.scopes + 1, !.env = Bind(t.env, <<b, 0>>, clock)]
    BY ONLY <1>3, <1>4 DEF Branched, Frame
  <2> QED  BY ONLY <2>1, <2>2, <2>3
<1>6. g.scopes > 0 /\ Height(g) = Len(ctx) + 1 /\ g.base <= Len(ctx) /\ Len(ctx) \in Nat
  BY ONLY <1>1, <1>3, <1>5 DEF Height
<1>7. /\ ctx' \in Seq(Scope) /\ Len(ctx') = Len(ctx) + 1
      /\ \A k \in 1..Len(ctx) : ctx'[k] = ctx[k]
  BY ONLY <1>1, <1>2, b \in Blocks, EnterScopes
<1>8. FrameReads(prog, ctx', g) /\ FrameOwns(ctx', g)
  <2>1. \A v \in prog.in[b] : v \in DOMAIN t.env /\ GetsUpTo(ctx, Len(ctx), v, t.env[v])
    BY ONLY <1>2, <1>3
  <2>2. /\ FrameReads(prog, EnterBlock(b, ctx, clock), g)
        /\ FrameOwns(EnterBlock(b, ctx, clock), g)
    BY ONLY <1>1, <1>3, <1>5, <1>6, <2>1, b \in Blocks, FrameEntered
  <2> QED  BY ONLY <1>2, <2>2
<1>9. /\ g.base = frames[Len(frames)].base /\ \A k \in 1..g.base : ctx'[k] = ctx[k]
      /\ Height(g) = Len(ctx') /\ frames' = [frames EXCEPT ![Len(frames)] = g]
  BY <1>2, <1>3, <1>4, <1>5, <1>6, <1>7
<1>10. frames' \in Seq(Frame) /\ StackRight(prog, ctx', frames')
  BY ONLY <1>1, <1>5, <1>7, <1>8, <1>9, TopReplaced
<1>11. clock' \in Nat
  BY <1>1
<1> QED  BY ONLY <1>1, <1>7, <1>10, <1>11, TopStep

\* The scopes and frames after the innermost region has been left.
LEMMA AfterTop ==
  ASSUME Inv, Len(frames) > 1
  PROVE  LET c == Leave(ctx, Top)
         IN  /\ c \in Seq(Scope) /\ Below \in Seq(Frame) /\ StackRight(prog, c, Below)
             /\ Below # <<>> /\ Len(c) = Top.base /\ Len(Below) = Len(frames) - 1
             /\ Below[Len(Below)] = Caller /\ Caller.i <= MaxLen
<1>1. ctx \in Seq(Scope) /\ frames \in Seq(Frame) /\ StackRight(prog, ctx, frames)
  BY DEF Inv, Typed
<1> QED  BY ONLY Len(frames) > 1, <1>1, TopLeft DEF Top, Caller, Below

LEMMA ReturnStep ==
  ASSUME Inv, Return
  PROVE  Inv'
<1>1. /\ prog \in Programs /\ ctx \in Seq(Scope) /\ frames \in Seq(Frame) /\ frames # <<>>
      /\ StackRight(prog, ctx, frames) /\ clock \in Nat
      /\ prog' = prog /\ calls' \in Nat /\ failed' \in BOOLEAN
  BY DEF Return, Inv, Typed
<1>0. Len(frames) \in Nat /\ Len(frames) > 0
  BY ONLY <1>1, EmptySeq
<1>2. Len(Below) = Len(frames) - 1 /\ Len(frames) \in Nat /\ Len(frames) > 0
  <2>1. ASSUME NEW s \in Seq(Frame), NEW k \in 0..Len(s) PROVE Len(SubSeq(s, 1, k)) = k
    OBVIOUS
  <2>2. Len(frames) - 1 \in 0..Len(frames)
    BY ONLY <1>0
  <2> QED  BY ONLY <1>0, <1>1, <2>1, <2>2 DEF Below
<1>3. CASE Below = <<>>
  <2>1. frames' = <<>> /\ clock' = clock /\ ctx' = Leave(ctx, Top)
    BY <1>3 DEF Return
  <2>2. /\ Top.scopes \in Nat /\ Len(ctx) - Top.scopes >= 0 /\ Len(ctx) \in Nat
    BY <1>1, StackFacts, HeightType DEF Top
  <2>3. ctx' \in Seq(Scope)
    BY <1>1, <2>1, <2>2, PopScopes DEF Leave
  <2>4. frames' \in Seq(Frame) /\ StackRight(prog, ctx', frames')
    BY <2>1 DEF StackRight, Stacked, Waiting
  <2>5. clock' \in Nat
    BY <1>1, <2>1
  <2> QED  BY ONLY <1>1, <2>3, <2>4, <2>5, TopStep
<1>4. CASE Below # <<>>
  <2>1. Len(frames) > 1
    BY <1>1, <1>2, <1>4 DEF Below
  <2> DEFINE c == Leave(ctx, Top)
  <2>2. /\ c \in Seq(Scope) /\ Below \in Seq(Frame) /\ StackRight(prog, c, Below)
        /\ Below[Len(Below)] = Caller /\ Caller.i <= MaxLen
    BY <2>1, AfterTop
  <2>3. /\ clock' = clock + 1 /\ ctx' = Set(c, <<Caller.b, Caller.i>>, clock)
        /\ frames' = [Below EXCEPT ![Len(Below)] = Done(Caller, clock)]
    BY <1>4, <2>2 DEF Return
  <2> HIDE DEF c
  <2>4. ctx' \in Seq(Scope) /\ frames' \in Seq(Frame) /\ StackRight(prog, ctx', frames')
    BY ONLY <1>1, <1>4, <2>2, <2>3, ResultSet
  <2>5. clock' \in Nat
    BY <1>1, <2>3
  <2> QED  BY ONLY <1>1, <2>4, <2>5, TopStep
<1> QED  BY <1>3, <1>4

LEMMA NextIterationStep ==
  ASSUME Inv, NextIteration
  PROVE  Inv'
<1>1. /\ prog \in Programs /\ Len(frames) > 1 /\ clock \in Nat
      /\ prog' = prog /\ clock' = clock + 1 /\ calls' \in Nat /\ failed' \in BOOLEAN
  BY DEF NextIteration, Inv, Typed
<1> DEFINE c == Leave(ctx, Top)
           t == Caller
           e == t.env
<1>2. /\ c \in Seq(Scope) /\ Below \in Seq(Frame) /\ StackRight(prog, c, Below) /\ Below # <<>>
      /\ Len(c) = Top.base /\ Below[Len(Below)] = t /\ t.i <= MaxLen
  BY <1>1, AfterTop
<1>3. PICK b \in Bodies :
        /\ prog.owner[b] = <<t.b, t.i>> /\ ctx' = EnterBlock(b, c, clock)
        /\ frames' = Append(Below, [NewFrame(b, t.env, clock) EXCEPT !.base = Top.base])
  BY DEF NextIteration
<1>4. Top.base \in Nat /\ e = t.env
  BY <1>2
<1> HIDE DEF c, t
<1>5. PICK f : /\ frames' = Append(Below, f)
               /\ f = [b |-> b, i |-> 1, scopes |-> 1, base |-> Top.base,
                       env |-> Bind(e, <<b, 0>>, clock)]
  <2>1. ASSUME NEW s, NEW m, NEW k
        PROVE  [[b |-> b, i |-> 1, scopes |-> 1, base |-> k, env |-> s] EXCEPT !.base = m]
                 = [b |-> b, i |-> 1, scopes |-> 1, base |-> m, env |-> s]
    OBVIOUS
  <2>2. [NewFrame(b, t.env, clock) EXCEPT !.base = Top.base]
          = [b |-> b, i |-> 1, scopes |-> 1, base |-> Top.base, env |-> Bind(e, <<b, 0>>, clock)]
    BY ONLY <1>4, <2>1 DEF NewFrame
  <2> QED  BY <1>3, <2>2
<1> HIDE DEF e
<1>6. /\ e \in Scope /\ \A v \in UsableAt(prog, <<t.b, t.i>>) :
                          v \in DOMAIN e /\ GetsUpTo(c, Len(c), v, e[v])
  BY ONLY <1>2, <1>4, TopRight
<1>7. b \in Blocks /\ prog.in[b] \subseteq UsableAt(prog, <<t.b, t.i>>)
  BY <1>1, <1>3, ProgramFacts, InterpInput
<1>8. \A v \in prog.in[b] : v \in DOMAIN e /\ GetsUpTo(c, Len(c), v, e[v])
  BY ONLY <1>6, <1>7
<1>9. /\ f \in Frame /\ f.b = b /\ f.i = 1 /\ f.scopes = 1 /\ f.base = Top.base
      /\ f.env = Bind(e, <<b, 0>>, clock)
  BY ONLY <1>1, <1>4, <1>5, <1>6, <1>7, NewFrameFacts
<1>10. /\ f.base = Len(c) /\ Below[Len(Below)].i <= MaxLen
  BY ONLY <1>2, <1>9
<1>11. \A d, gs : (d = EnterBlock(b, c, clock) /\ gs = Append(Below, f)) =>
                    d \in Seq(Scope) /\ gs \in Seq(Frame) /\ StackRight(prog, d, gs)
  BY ONLY <1>1, <1>2, <1>6, <1>7, <1>8, <1>9, <1>10, PushFrame
<1>12. ctx' \in Seq(Scope) /\ frames' \in Seq(Frame) /\ StackRight(prog, ctx', frames')
  BY ONLY <1>3, <1>5, <1>11
<1>13. clock' \in Nat
  BY <1>1
<1> QED  BY ONLY <1>1, <1>12, <1>13, TopStep

LEMMA RaiseStep ==
  ASSUME Inv, Raise
  PROVE  Inv'
<1>1. /\ prog \in Programs /\ ctx' \in Seq(Scope) /\ frames' = <<>> /\ prog' = prog
      /\ clock' \in Nat /\ calls' \in Nat /\ failed' = TRUE
  BY DEF Raise, Inv, Typed
<1>2. frames' \in Seq(Frame) /\ StackRight(prog, ctx', frames')
  BY <1>1 DEF StackRight, Stacked, Waiting
<1>3. failed' \in BOOLEAN
  BY <1>1
<1> QED  BY ONLY <1>1, <1>2, <1>3, TopStep

LEMMA InvInit == Init => Inv
<1> SUFFICES ASSUME Init PROVE Inv
  OBVIOUS
<1>1. /\ prog \in Programs /\ ctx = <<EmptyEnv>> /\ frames = <<>>
      /\ clock = 0 /\ calls = 0 /\ failed = FALSE
  BY DEF Init
<1>2. ctx \in Seq(Scope)
  BY <1>1, EmptyScope
<1>3. Typed
  <2>1. clock \in Nat /\ calls \in Nat /\ frames \in Seq(Frame)
    BY <1>1
  <2>2. failed \in BOOLEAN
    BY <1>1
  <2> QED  BY <1>1, <1>2, <2>1, <2>2 DEF Typed
<1>4. StackRight(prog, ctx, frames)
  BY <1>1 DEF StackRight, Stacked, Waiting
<1> QED  BY <1>3, <1>4 DEF Inv

LEMMA InvStep == Inv /\ [Next]_vars => Inv'
<1> SUFFICES ASSUME Inv, [Next]_vars PROVE Inv'
  OBVIOUS
<1>1. CASE CallFromOutside
  BY <1>1, CallSteps
<1>2. CASE Run
  BY <1>2, RunStep
<1>3. CASE Call
  BY <1>3, CallSteps
<1>4. CASE EnterRegion
  BY <1>4, EnterRegionStep
<1>5. CASE Branch
  BY <1>5, BranchStep
<1>6. CASE Return
  BY <1>6, ReturnStep
<1>7. CASE NextIteration
  BY <1>7, NextIterationStep
<1>8. CASE Raise
  BY <1>8, RaiseStep
<1>9. CASE UNCHANGED vars
  <2>1. /\ prog \in Programs /\ prog' = prog /\ clock' \in Nat /\ calls' \in Nat
        /\ failed' \in BOOLEAN /\ ctx' \in Seq(Scope) /\ frames' \in Seq(Frame)
        /\ StackRight(prog, ctx', frames')
    <3>1. /\ prog' = prog /\ ctx' = ctx /\ frames' = frames
          /\ clock' = clock /\ calls' = calls /\ failed' = failed
      BY <1>9 DEF vars
    <3> QED  BY <3>1 DEF Inv, Typed
  <2> QED  BY ONLY <2>1, TopStep
<1> QED  BY <1>1, <1>2, <1>3, <1>4, <1>5, <1>6, <1>7, <1>8, <1>9 DEF Next

----------------------------------------------------------------------------
(* The properties. *)

\* The invariant in the form that TLC checks.
LEMMA ScopeIsScope ==
  ASSUME NEW s \in Scope
  PROVE  IsScope(s)
<1>1. PICK D \in SUBSET Values : s \in [D -> Nat]
  BY DEF Scope
<1>2. DOMAIN s = D
  BY <1>1
<1> QED  BY <1>1, <1>2 DEF IsScope

LEMMA FrameIsFrame ==
  ASSUME NEW f \in Frame
  PROVE  IsFrame(f)
<1>1. f = [b |-> f.b, i |-> f.i, scopes |-> f.scopes, base |-> f.base, env |-> f.env]
  BY DEF Frame
<1>2. /\ f.b \in Blocks /\ f.i \in 1..(MaxLen + 1) /\ f.scopes \in Nat /\ f.base \in Nat
      /\ f.env \in Scope
  BY DEF Frame
<1> QED  BY <1>1, <1>2, ScopeIsScope DEF IsFrame

LEMMA InvIInv == Inv => IInv
<1> SUFFICES ASSUME Inv PROVE IInv
  OBVIOUS
<1>1. /\ prog \in Programs /\ ctx \in Seq(Scope) /\ frames \in Seq(Frame)
      /\ clock \in Nat /\ calls \in Nat /\ failed \in BOOLEAN /\ StackRight(prog, ctx, frames)
  BY DEF Inv, Typed
<1>2. \A k \in DOMAIN ctx : IsScope(ctx[k])
  <2>1. \A k \in DOMAIN ctx : ctx[k] \in Scope
    BY <1>1
  <2> QED  BY <2>1, ScopeIsScope
<1>3. \A k \in DOMAIN frames : IsFrame(frames[k])
  <2>1. \A k \in DOMAIN frames : frames[k] \in Frame
    BY <1>1
  <2> QED  BY <2>1, FrameIsFrame
<1> QED  BY <1>1, <1>2, <1>3 DEF IInv, TypeOK

LEMMA InvBalanced == Inv => Balanced
<1> SUFFICES ASSUME Inv PROVE Balanced
  OBVIOUS
<1> QED  BY DEF Inv, StackRight, Stacked, Balanced, Height, Depth

LEMMA InvSetsOnce == Inv => SetsOnce
<1> SUFFICES ASSUME Inv, NEW k \in DOMAIN frames
             PROVE  <<frames[k].b, frames[k].i>> \notin DOMAIN ctx[frames[k].base + frames[k].scopes]
  BY DEF SetsOnce
<1>1. frames[k] \in Frame /\ FrameOwns(ctx, frames[k])
  BY DEF Inv, Typed, StackRight
<1>2. ASSUME NEW f \in Frame PROVE <<f.b, f.i>> \notin {<<f.b, j>> : j \in 0..(f.i - 1)}
  <2>1. f.i \in Nat
    BY Bounds DEF Frame
  <2> QED  BY <2>1
<1>3. DOMAIN ctx[Height(frames[k])]
        \subseteq {<<frames[k].b, j>> : j \in 0..(frames[k].i - 1)}
  BY <1>1 DEF FrameOwns
<1> QED  BY <1>1, <1>2, <1>3 DEF Height

LEMMA InvReadsRight == Inv => ReadsRight
<1> SUFFICES ASSUME Inv, frames # <<>>, NEW v \in Avail(Top)
             PROVE  v \in DOMAIN Top.env /\ Gets(ctx, v, Top.env[v])
  BY DEF ReadsRight
<1>1. ctx \in Seq(Scope) /\ frames \in Seq(Frame) /\ StackRight(prog, ctx, frames)
  BY DEF Inv, Typed
<1>2. \A w \in UsableAt(prog, <<Top.b, Top.i>>) :
        w \in DOMAIN Top.env /\ GetsUpTo(ctx, Len(ctx), w, Top.env[w])
  BY <1>1, TopRight DEF Top
<1>3. v \in UsableAt(prog, <<Top.b, Top.i>>)
  BY DEF Avail
<1> QED  BY <1>1, <1>2, <1>3, GetsAll

\* The scopes stack up as the calls and regions nest, every frame finds its own
\* values from its own scopes and its last scope holds only what its block has
\* computed on this visit: call_op and run_ssacfg_region keep this, for every
\* program, also after calls that raised and left their scopes behind.
THEOREM ScopesRight == Spec => []IInv
<1>1. Spec => []Inv
  BY InvInit, InvStep, PTL DEF Spec
<1> QED  BY <1>1, InvIInv, PTL

\* The scopes and frames of the interpreter are always well formed.
THEOREM InterpTypes == Spec => []TypeOK
<1>1. IInv => TypeOK
  BY DEF IInv
<1> QED  BY <1>1, ScopesRight, PTL

\* get_values finds, for whatever an operation uses, what was computed last for it in
\* this activation, however deep the calls are and whatever earlier calls, those that
\* raised included, have left in outer scopes.
THEOREM ReadsAreRight == Spec => []ReadsRight
<1>1. Spec => []Inv
  BY InvInit, InvStep, PTL DEF Spec
<1> QED  BY <1>1, InvReadsRight, PTL

\* set_values never finds the value already set in the current scope, also when a
\* block is entered again or a function calls itself.
THEOREM ValuesAreSetOnce == Spec => []SetsOnce
<1>1. Spec => []Inv
  BY InvInit, InvStep, PTL DEF Spec
<1> QED  BY <1>1, InvSetsOnce, PTL

\* run_ssacfg_region pops exactly the scopes it has pushed, one per block it went
\* through: the scopes of a region lie directly on those of its caller.
THEOREM ScopesAreBalanced == Spec => []Balanced
<1>1. Spec => []Inv
  BY InvInit, InvStep, PTL DEF Spec
<1> QED  BY <1>1, InvBalanced, PTL
=============================================================================
