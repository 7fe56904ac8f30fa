------------------------- MODULE TaskExternalProofs -------------------------
(***************************************************************************)
(* Proofs about TaskExternal, for any number of threads, size of the       *)
(* matrices and values of "style".  All threads of a launch are in one     *)
(* phase g, but those that have not yet left the wait before it; the rows  *)
(* of the phase that are done hold the iterate Held(x, g + 1), and all the *)
(* others Held(x, g).                                                      *)
(***************************************************************************)
EXTENDS TaskExternal, FiniteSetTheorems, SequenceTheorems, TLAPS

Places == {"none", "run", "row", "arrive", "asleep", "woken", "exited"}

Typed ==
    /\ build \in Builds /\ style \in Styles \cup {1}
    /\ numThreads \in 1 .. Cardinality(Threads)
    /\ curTask \in Nat /\ atomic \in Nat
    /\ at \in [Threads -> Places]
    /\ phase \in [Threads -> Nat] /\ y \in [Threads -> Nat] /\ task \in [Threads -> Nat]
    /\ iterate \in [Computed -> [Rows -> Nat]]
    /\ host \in {"idle", "inputs", "outputs", "configure", "create", "join", "undefined"}
    /\ i \in Nat
    /\ locked \subseteq Matrices /\ before \subseteq Matrices

N == Len(Phases)

Live == {t \in Threads : at[t] # "none"}

\* The threads that waitForTask has counted and not let go.
Counted(t) == at[t] \in {"asleep", "woken"} /\ task[t] = curTask + 1
Waiting == {t \in Threads : Counted(t)}

\* The number that stands for row r.
Number(p, r) == IF p.kind = "once" THEN 0 ELSE r

Done(p, r) ==
    /\ Number(p, r) < atomic
    /\ Number(p, r) < p.n
    /\ \A t \in Threads : at[t] = "row" => y[t] # Number(p, r)

\* The iterate that field x holds when phase k begins.
HeldBuffer(x, last, newest) ==
    IF newest <= 0 THEN 0 ELSE IF x = Buffer(last) THEN newest ELSE newest - 1

Held(x, k) ==
    CASE build \in {"ADVECTION", "REPOS", "MCCORMACK", "BLEND"} ->
            IF x = "out" /\ k > 1 THEN 1 ELSE 0
      [] build = "GENREPOS" ->
            IF x = "out" THEN IF k > 3 THEN 2 ELSE 0 ELSE IF k > 2 THEN 1 ELSE 0
      [] build = "PRESSURE" ->
            IF x = "out" THEN IF k > style + 2 THEN style ELSE 0
            ELSE IF k <= style + 2 THEN HeldBuffer(x, k - 1, k - 2)
            ELSE HeldBuffer(x, style + 1, style)
      [] build = "VISCOCITY" ->
            IF x = "out" THEN IF k > style + 3 THEN Asked ELSE 0
            ELSE IF k <= style + 3 THEN HeldBuffer(x, k - 1, k - 2)
            ELSE HeldBuffer(x, style, style + 1)

PlaceOf(t, g) ==
    \/ at[t] = "none" /\ phase[t] = 1
    \/ at[t] \in {"run", "row", "arrive"} /\ phase[t] = g /\ g <= N
    \/ Counted(t) /\ phase[t] = g /\ g <= N
    \/ at[t] = "woken" /\ task[t] = curTask /\ phase[t] = g - 1 /\ g > 1
    \/ at[t] = "exited" /\ phase[t] = g /\ g = N + 1

RowOf(t, g) ==
    /\ at[t] = "row" =>
          /\ Phases[g].kind # "none" /\ y[t] < atomic /\ y[t] < Phases[g].n
          /\ \A s \in Threads : at[s] = "row" /\ s # t => y[s] # y[t]
    /\ at[t] = "arrive" \/ Counted(t) => atomic >= Phases[g].n

Iterates(g) ==
    \A x \in Computed, r \in Rows :
        iterate[x][r] = IF g <= N /\ x \in Phases[g].dst /\ Done(Phases[g], r)
                        THEN Held(x, g + 1) ELSE Held(x, g)

HostAt(g) ==
    /\ host \notin {"create", "join"} => Live = {} /\ g = 1
    /\ host = "create" => i <= numThreads /\ Cardinality(Live) = i /\ (i < numThreads => g = 1)
    /\ host = "join" => i <= numThreads /\ Cardinality(Live) = numThreads - i
                        /\ (i > 0 => g = N + 1)

InPhase(g) ==
    /\ \A t \in Threads : PlaceOf(t, g) /\ RowOf(t, g)
    /\ HostAt(g)
    /\ host \in {"create", "join"} /\ (g <= N \/ Width >= Height) => Iterates(g)

Barrier == numBlocked = Cardinality(Waiting) /\ numBlocked < numThreads

LockInv ==
    /\ host = "inputs" => i < Inputs /\ \A n \in 0 .. i - 1 : Input(n) \in locked
    /\ host = "outputs" =>
          /\ i < Outputs
          /\ \A n \in 0 .. Inputs - 1 : Input(n) \in locked
          /\ \A n \in 0 .. i - 1 : Output(n) \in locked
    /\ host = "configure" => i = 0
    /\ host \in {"configure", "create", "join"} => Matrices \subseteq locked
    /\ host # "idle" => before \subseteq locked

TInv == Typed /\ Barrier /\ LockInv /\ \E g \in 1 .. N + 1 : InPhase(g)
-----------------------------------------------------------------------------
(* Lemmas about the phases of a task. *)

LEMMA TaskConstants ==
    /\ Width \in Nat \ {0} /\ Height \in Nat \ {0} /\ FluidCount \in Nat \ {0}
    /\ Styles \subseteq Nat \ {0} /\ IsFiniteSet(Threads) /\ Threads # {}
    /\ Cardinality(Threads) \in Nat
  BY SizeAssumption, ThreadsAssumption, ExternalAssumption, FS_CardinalityType
     DEF SizeAssumption, ThreadsAssumption, ExternalAssumption

LEMMA Buffers ==
    ASSUME NEW k \in Int
    PROVE  /\ Buffer(k) \in {"buffer0", "buffer1"} /\ Buffer(k) # Buffer(k + 1)
           /\ Buffer(k) = Buffer(k - 2) /\ Buffer(k - 1) = Buffer(k + 1)
           /\ Buffer(k - 1) # Buffer(k)
  <1>1. /\ k % 2 \in {0, 1} /\ (k + 1) % 2 = 1 - (k % 2) /\ (k - 1) % 2 = 1 - (k % 2)
        /\ (k - 2) % 2 = k % 2
    OBVIOUS
  <1> QED
    BY <1>1 DEF Buffer

LEMMA Concat3 ==
    ASSUME NEW S, NEW a \in Seq(S), NEW b \in Seq(S), NEW c \in Seq(S)
    PROVE  /\ Len(a \o b \o c) = Len(a) + Len(b) + Len(c)
           /\ \A k \in 1 .. Len(a) : (a \o b \o c)[k] = a[k]
           /\ \A k \in 1 .. Len(b) : (a \o b \o c)[Len(a) + k] = b[k]
           /\ \A k \in 1 .. Len(c) : (a \o b \o c)[Len(a) + Len(b) + k] = c[k]
  <1> DEFINE ab == a \o b
  <1>0. Len(a) \in Nat /\ Len(b) \in Nat /\ Len(c) \in Nat
    BY LenProperties
  <1>1. /\ ab \in Seq(S) /\ Len(ab) = Len(a) + Len(b)
        /\ \A k \in 1 .. Len(a) + Len(b) : ab[k] = IF k <= Len(a) THEN a[k] ELSE b[k - Len(a)]
    BY ConcatProperties
  <1> HIDE DEF ab
  <1> DEFINE abc == ab \o c
  <1>2. /\ Len(abc) = Len(ab) + Len(c)
        /\ \A k \in 1 .. Len(ab) + Len(c) : abc[k] = IF k <= Len(ab) THEN ab[k] ELSE c[k - Len(ab)]
    <2>1. ab \in Seq(S)
      BY <1>1
    <2> QED
      BY <2>1, ConcatProperties
  <1> HIDE DEF abc
  <1>3. ASSUME NEW k \in 1 .. Len(a)  PROVE abc[k] = a[k]
    BY <1>0, <1>1, <1>2
  <1>4. ASSUME NEW k \in 1 .. Len(b)  PROVE abc[Len(a) + k] = b[k]
    <2>1. /\ Len(a) + k \in 1 .. Len(a) + Len(b) /\ Len(a) + k \in 1 .. Len(ab) + Len(c)
          /\ Len(a) + k <= Len(ab) /\ ~(Len(a) + k <= Len(a)) /\ (Len(a) + k) - Len(a) = k
      BY <1>0, <1>1
    <2> QED
      BY <1>1, <1>2, <2>1
  <1>5. ASSUME NEW k \in 1 .. Len(c)  PROVE abc[Len(a) + Len(b) + k] = c[k]
    <2>1. /\ Len(a) + Len(b) + k \in 1 .. Len(ab) + Len(c)
          /\ ~(Len(a) + Len(b) + k <= Len(ab)) /\ (Len(a) + Len(b) + k) - Len(ab) = k
      BY <1>0, <1>1
    <2> QED
      BY <1>2, <2>1
  <1> QED
    BY <1>0, <1>1, <1>2, <1>3, <1>4, <1>5 DEF abc, ab

\* A function on 1 .. n is a sequence.
LEMMA LoopIsSeq ==
    ASSUME NEW S, NEW n \in Nat, NEW f \in [1 .. n -> S]
    PROVE  f \in Seq(S) /\ Len(f) = n
  <1>1. f \in Seq(S)
    BY SeqDef
  <1>2. Len(f) \in Nat /\ DOMAIN f = 1 .. Len(f)
    BY <1>1, LenProperties
  <1> QED
    BY <1>1, <1>2

LEMMA PressurePhases ==
    ASSUME NEW n \in Nat \ {0}
    PROVE  /\ Len(PressureTask(n)) = n + 3
           /\ PressureTask(n)[1] = Prepare({"buffer0", "buffer1", "out"})
           /\ \A k \in 2 .. n + 1 : PressureTask(n)[k] = JacobiPressure(Buffer(k - 2), Buffer(k - 1))
           /\ PressureTask(n)[n + 2] = ApplyPressure(Buffer(n + 1))
           /\ PressureTask(n)[n + 3] = JustWait
  <1> DEFINE p1 == Prepare({"buffer0", "buffer1", "out"})
             p2 == ApplyPressure(Buffer(n + 1))
             loop == PressureLoop(n)
             S == {p1, p2, JustWait} \cup {JacobiPressure(Buffer(k - 1), Buffer(k)) : k \in 1 .. n}
  <1>1. loop \in Seq(S) /\ Len(loop) = n
    <2>1. loop \in [1 .. n -> S]
      BY DEF PressureLoop
    <2> HIDE DEF loop, S
    <2> QED
      BY <2>1, LoopIsSeq
  <1>2. \A k \in 1 .. n : loop[k] = JacobiPressure(Buffer(k - 1), Buffer(k))
    BY DEF PressureLoop
  <1>3. p1 \in S /\ p2 \in S /\ JustWait \in S
    OBVIOUS
  <1> HIDE DEF p1, p2, loop, S
  <1> DEFINE w == JustWait
  <1> HIDE DEF w
  <1>4. <<p1>> \in Seq(S) /\ <<p2, w>> \in Seq(S) /\ Len(<<p1>>) = 1 /\ Len(<<p2, w>>) = 2
    BY <1>3 DEF w
  <1>5. PressureTask(n) = <<p1>> \o loop \o <<p2, w>>
    BY DEF PressureTask, p1, p2, loop, w
  <1> DEFINE all == <<p1>> \o loop \o <<p2, w>>
  <1>6. /\ Len(all) = 1 + n + 2
        /\ \A k \in 1 .. 1 : all[k] = <<p1>>[k]
        /\ \A k \in 1 .. n : all[1 + k] = loop[k]
        /\ \A k \in 1 .. 2 : all[1 + n + k] = <<p2, w>>[k]
    BY <1>1, <1>4, Concat3
  <1> HIDE DEF all
  <1>7. all[1] = p1 /\ all[n + 2] = p2 /\ all[n + 3] = w
    <2>1. 1 + n + 1 = n + 2 /\ 1 + n + 2 = n + 3 /\ 1 \in 1 .. 2 /\ 2 \in 1 .. 2 /\ 1 \in 1 .. 1
      OBVIOUS
    <2> QED
      BY <1>6, <2>1
  <1>8. ASSUME NEW k \in 2 .. n + 1  PROVE all[k] = JacobiPressure(Buffer(k - 2), Buffer(k - 1))
    <2>1. k - 1 \in 1 .. n /\ 1 + (k - 1) = k /\ (k - 1) - 1 = k - 2
      OBVIOUS
    <2>2. all[k] = loop[k - 1] /\ loop[k - 1] = JacobiPressure(Buffer((k - 1) - 1), Buffer(k - 1))
      BY <1>2, <1>6, <2>1
    <2> QED
      BY <2>1, <2>2
  <1>9. Len(all) = n + 3
    BY <1>6
  <1> QED
    BY <1>5, <1>7, <1>8, <1>9 DEF all, p1, p2, w

LEMMA ViscosityPhases ==
    ASSUME NEW n \in Nat \ {0}
    PROVE  /\ Len(ViscosityTask(n)) = n + 4
           /\ ViscosityTask(n)[1] = Prepare({"buffer0", "buffer1"})
           /\ ViscosityTask(n)[2] = JacobiDiffusion("buffer0", "in")
           /\ \A k \in 3 .. n + 2 :
                 ViscosityTask(n)[k] = JacobiDiffusion(Buffer(k - 2), Buffer(k - 3))
           /\ ViscosityTask(n)[n + 3] = JacobiDiffusion("out", "buffer1")
           /\ ViscosityTask(n)[n + 4] = JustWait
  <1> DEFINE p1 == Prepare({"buffer0", "buffer1"})
             p2 == JacobiDiffusion("buffer0", "in")
             p3 == JacobiDiffusion("out", "buffer1")
             w == JustWait
             loop == DiffusionLoop(n)
             S == {p1, p2, p3, w} \cup {JacobiDiffusion(Buffer(k), Buffer(k - 1)) : k \in 1 .. n}
  <1>1. loop \in Seq(S) /\ Len(loop) = n
    <2>1. loop \in [1 .. n -> S]
      BY DEF DiffusionLoop
    <2> HIDE DEF loop, S
    <2> QED
      BY <2>1, LoopIsSeq
  <1>2. \A k \in 1 .. n : loop[k] = JacobiDiffusion(Buffer(k), Buffer(k - 1))
    BY DEF DiffusionLoop
  <1>3. p1 \in S /\ p2 \in S /\ p3 \in S /\ w \in S
    OBVIOUS
  <1> HIDE DEF p1, p2, p3, w, loop, S
  <1>4. <<p1, p2>> \in Seq(S) /\ <<p3, w>> \in Seq(S) /\ Len(<<p1, p2>>) = 2 /\ Len(<<p3, w>>) = 2
    BY <1>3
  <1>5. ViscosityTask(n) = <<p1, p2>> \o loop \o <<p3, w>>
    BY DEF ViscosityTask, p1, p2, p3, loop, w
  <1> DEFINE all == <<p1, p2>> \o loop \o <<p3, w>>
  <1>6. /\ Len(all) = 2 + n + 2
        /\ \A k \in 1 .. 2 : all[k] = <<p1, p2>>[k]
        /\ \A k \in 1 .. n : all[2 + k] = loop[k]
        /\ \A k \in 1 .. 2 : all[2 + n + k] = <<p3, w>>[k]
    BY <1>1, <1>4, Concat3
  <1> HIDE DEF all
  <1>7. all[1] = p1 /\ all[2] = p2 /\ all[n + 3] = p3 /\ all[n + 4] = w
    <2>1. 2 + n + 1 = n + 3 /\ 2 + n + 2 = n + 4 /\ 1 \in 1 .. 2 /\ 2 \in 1 .. 2
      OBVIOUS
    <2> QED
      BY <1>6, <2>1
  <1>8. ASSUME NEW k \in 3 .. n + 2  PROVE all[k] = JacobiDiffusion(Buffer(k - 2), Buffer(k - 3))
    <2>1. k - 2 \in 1 .. n /\ 2 + (k - 2) = k /\ (k - 2) - 1 = k - 3
      OBVIOUS
    <2>2. all[k] = loop[k - 2] /\ loop[k - 2] = JacobiDiffusion(Buffer(k - 2), Buffer((k - 2) - 1))
      BY <1>2, <1>6, <2>1
    <2> QED
      BY <2>1, <2>2
  <1>9. Len(all) = n + 4
    BY <1>6
  <1> QED
    BY <1>5, <1>7, <1>8, <1>9 DEF all, p1, p2, p3, w

\* What the phases read and write.
LEMMA PhaseFields ==
    /\ Advection.kind = "rows" /\ Advection.n = Height /\ Advection.near = {}
       /\ Advection.any = {"in"} /\ Advection.own = {"velocity", "collision"}
       /\ Advection.dst = {"out"} /\ Advection.from = "in"
    /\ MacCormack.kind = "rows" /\ MacCormack.n = Height /\ MacCormack.near = {}
       /\ MacCormack.any = {"in", "advected"} /\ MacCormack.own = {"velocity", "collision"}
       /\ MacCormack.dst = {"out"} /\ MacCormack.from = "in"
    /\ Repos.kind = "rows" /\ Repos.n = Width /\ Repos.near = {}
       /\ Repos.any = {"in", "collision"} /\ Repos.own = {"velocity"}
       /\ Repos.dst = {"out"} /\ Repos.from = "in"
    /\ StepBack.kind = "rows" /\ StepBack.n = Height /\ StepBack.near = {}
       /\ StepBack.any = {"velocity"} /\ StepBack.own = {}
       /\ StepBack.dst = {"buffer0", "buffer1"} /\ StepBack.from = "in"
    /\ StepForth.kind = "rows" /\ StepForth.n = Width /\ StepForth.near = {}
       /\ StepForth.any = {"buffer0", "buffer1"} /\ StepForth.own = {"velocity"}
       /\ StepForth.dst = {"out"} /\ StepForth.from = "buffer0"
    /\ Blend.kind = "rows" /\ Blend.n = Height /\ Blend.near = {}
       /\ Blend.any = {} /\ Blend.own = {"in", "collision"}
       /\ Blend.dst = {"out"} /\ Blend.from = "in"
    /\ JustWait.kind = "none" /\ JustWait.n = 0 /\ JustWait.dst = {}
    /\ \A f : Prepare(f).kind = "once" /\ Prepare(f).n = 1 /\ Prepare(f).dst = f
             /\ Prepare(f).own = {"in"}
    /\ \A p1, p2 :
          /\ JacobiPressure(p1, p2).kind = "rows" /\ JacobiPressure(p1, p2).n = Height
          /\ JacobiPressure(p1, p2).near = {p2, "out", "collision"}
          /\ JacobiPressure(p1, p2).any = {} /\ JacobiPressure(p1, p2).own = {}
          /\ JacobiPressure(p1, p2).dst = {p1} /\ JacobiPressure(p1, p2).from = p2
    /\ \A p1, p2 :
          /\ JacobiDiffusion(p1, p2).kind = "rows" /\ JacobiDiffusion(p1, p2).n = Height
          /\ JacobiDiffusion(p1, p2).near = {p2, "collision"}
          /\ JacobiDiffusion(p1, p2).any = {} /\ JacobiDiffusion(p1, p2).own = {}
          /\ JacobiDiffusion(p1, p2).dst = {p1} /\ JacobiDiffusion(p1, p2).from = p2
    /\ \A p2 :
          /\ ApplyPressure(p2).kind = "rows" /\ ApplyPressure(p2).n = Height
          /\ ApplyPressure(p2).near = {p2} /\ ApplyPressure(p2).any = {}
          /\ ApplyPressure(p2).own = {"out"}
          /\ ApplyPressure(p2).dst = {"out"} /\ ApplyPressure(p2).from = p2
  BY DEF Advection, MacCormack, Repos, StepBack, StepForth, Blend, JustWait, Prepare,
     JacobiPressure, JacobiDiffusion, ApplyPressure, Phase

\* What a phase does to the iterates that the fields hold.
From(p, k) == IF p.from \in Computed THEN Held(p.from, k) ELSE 0

Carries(p, k) ==
    /\ p.dst \subseteq Computed
    /\ \A x \in Computed \ p.dst : Held(x, k + 1) = Held(x, k)
    /\ \/ p.kind = "none" /\ p.n = 0 /\ p.dst = {}
       \/ p.kind = "once" /\ p.n = 1 /\ "out" \notin p.own /\ \A x \in p.dst : Held(x, k + 1) = 0
       \/ /\ p.kind = "rows" /\ (p.n = Height \/ (p.n = Width /\ k = N))
          /\ p.dst \cap (p.near \cup p.any) = {}
          /\ p.from \in Computed => p.from \in p.near \cup p.any /\ p.from \notin p.dst
          /\ "out" \in p.own => p.dst = {"out"}
          /\ \A x \in p.dst :
                Held(x, k + 1) = From(p, k) + (IF "out" \in p.own THEN Held("out", k) ELSE 1)

LEMMA OnePhase ==
    ASSUME build \in {"ADVECTION", "REPOS", "MCCORMACK", "BLEND"}
    PROVE  N = 1 /\ Carries(Phases[1], 1) /\ Held("out", N + 1) = Asked
  <1> DEFINE p == Phases[1]
  <1>1. N = 1 /\ p \in {Advection, Repos, MacCormack, Blend}
    BY DEF N, Phases, Task
  <1>2. /\ p.kind = "rows" /\ p.n \in {Width, Height} /\ p.near = {} /\ p.dst = {"out"} /\ p.from = "in"
        /\ "out" \notin p.any /\ "out" \notin p.own
    BY <1>1, PhaseFields
  <1> HIDE DEF p
  <1>3. \A x \in Computed : Held(x, 1) = 0 /\ Held(x, 2) = IF x = "out" THEN 1 ELSE 0
    BY DEF Held
  <1> QED
    BY <1>1, <1>2, <1>3 DEF Carries, From, Computed, Asked, p

LEMMA ThreePhases ==
    ASSUME build = "GENREPOS"
    PROVE  N = 3 /\ (\A k \in 1 .. 3 : Carries(Phases[k], k)) /\ Held("out", N + 1) = Asked
  <1>1. /\ N = 3 /\ Phases[1] = Prepare({"buffer0", "buffer1"})
        /\ Phases[2] = StepBack /\ Phases[3] = StepForth
    BY DEF N, Phases, Task
  <1>2. \A x \in Computed, k \in 1 .. 4 :
            Held(x, k) = IF x = "out" THEN IF k > 3 THEN 2 ELSE 0 ELSE IF k > 2 THEN 1 ELSE 0
    BY DEF Held
  <1>3. Carries(Phases[1], 1)
    BY <1>1, <1>2, PhaseFields DEF Carries, Computed
  <1>4. Carries(Phases[2], 2)
    BY <1>1, <1>2, PhaseFields DEF Carries, From, Computed
  <1>5. Carries(Phases[3], 3)
    BY <1>1, <1>2, PhaseFields DEF Carries, From, Computed
  <1>6. Held("out", 4) = Asked
    BY <1>2 DEF Asked, Computed
  <1> QED
    BY <1>1, <1>3, <1>4, <1>5, <1>6

LEMMA PressureCarries ==
    ASSUME build = "PRESSURE", style \in Nat \ {0}
    PROVE  /\ N = style + 3 /\ (\A k \in 1 .. N : Carries(Phases[k], k))
           /\ Held("out", N + 1) = Asked
  <1>1. Phases = PressureTask(style)
    BY DEF Phases, Task
  <1>2. /\ N = style + 3 /\ Phases[1] = Prepare({"buffer0", "buffer1", "out"})
        /\ \A k \in 2 .. style + 1 : Phases[k] = JacobiPressure(Buffer(k - 2), Buffer(k - 1))
        /\ Phases[style + 2] = ApplyPressure(Buffer(style + 1)) /\ Phases[style + 3] = JustWait
    BY <1>1, PressurePhases DEF N
  <1>3. \A x \in Computed, k \in 1 .. N + 1 :
            Held(x, k) = IF x = "out" THEN IF k > style + 2 THEN style ELSE 0
                         ELSE IF k <= style + 2 THEN HeldBuffer(x, k - 1, k - 2)
                         ELSE HeldBuffer(x, style + 1, style)
    BY DEF Held
  <1>4. ASSUME NEW k \in 1 .. N  PROVE Carries(Phases[k], k)
    <2>1. k \in 1 .. N + 1 /\ k + 1 \in 1 .. N + 1
      BY <1>2
    <2>2. CASE k = 1
      <3>1. \A x \in Computed : Held(x, 1) = 0 /\ Held(x, 2) = 0
        BY <1>3, <2>1, <2>2 DEF HeldBuffer
      <3> QED
        BY <1>2, <2>2, <3>1, PhaseFields DEF Carries, Computed
    <2>3. CASE k \in 2 .. style + 1
      <3> DEFINE b1 == Buffer(k - 2)
                 b2 == Buffer(k - 1)
      <3>1. Phases[k] = JacobiPressure(b1, b2)
        BY <1>2, <2>3
      <3>2. b1 # b2 /\ {b1, b2} = {"buffer0", "buffer1"} /\ Buffer(k) = b1
        BY <2>3, Buffers
      <3>3. Held("out", k) = 0 /\ Held("out", k + 1) = 0
        BY <1>3, <2>1, <2>3 DEF Computed
      <3>4. Held(b1, k + 1) = k - 1 /\ Held(b2, k + 1) = k - 2 /\ Held(b2, k) = k - 2
        <4>1. b1 \in Computed /\ b2 \in Computed /\ b1 # "out" /\ b2 # "out"
          BY <3>2 DEF Computed
        <4>2. /\ Held(b1, k + 1) = HeldBuffer(b1, k, k - 1) /\ Held(b2, k + 1) = HeldBuffer(b2, k, k - 1)
              /\ Held(b2, k) = HeldBuffer(b2, k - 1, k - 2)
          <5>1. (k + 1) - 1 = k /\ (k + 1) - 2 = k - 1 /\ k + 1 <= style + 2 /\ k <= style + 2
            BY <2>3
          <5> QED
            BY <1>3, <2>1, <4>1, <5>1
        <4> HIDE DEF b1
        <4>3. HeldBuffer(b1, k, k - 1) = k - 1 /\ HeldBuffer(b2, k, k - 1) = k - 2
          BY <2>3, <3>2 DEF HeldBuffer
        <4>4. HeldBuffer(b2, k - 1, k - 2) = k - 2
          BY <2>3, <3>2 DEF HeldBuffer
        <4> QED
          BY <4>2, <4>3, <4>4
      <3>5. \A x \in Computed \ {b1} : Held(x, k + 1) = Held(x, k)
        BY <3>2, <3>3, <3>4 DEF Computed
      <3> DEFINE p == Phases[k]
      <3>6. /\ p.kind = "rows" /\ p.n = Height /\ p.near = {b2, "out", "collision"}
            /\ p.any = {} /\ p.own = {} /\ p.dst = {b1} /\ p.from = b2
        BY <3>1, PhaseFields
      <3> HIDE DEF p, b1, b2
      <3>7. Carries(p, k)
        <4>1. Held(b1, k + 1) = Held(b2, k) + 1
          BY <2>3, <3>4
        <4> QED
          BY <3>2, <3>5, <3>6, <4>1 DEF Carries, From, Computed
      <3> QED
        BY <3>7 DEF p
    <2>4. CASE k = style + 2
      <3> DEFINE b == Buffer(style + 1)
      <3>1. /\ Held("out", k) = 0 /\ Held("out", k + 1) = style
            /\ \A x \in Computed \ {"out"} : /\ Held(x, k) = HeldBuffer(x, style + 1, style)
                                             /\ Held(x, k + 1) = HeldBuffer(x, style + 1, style)
        <4>1. k - 1 = style + 1 /\ k - 2 = style /\ k <= style + 2 /\ k + 1 > style + 2
          BY <2>4
        <4> QED
          BY <1>3, <2>1, <4>1 DEF Computed
      <3>2. b \in {"buffer0", "buffer1"}
        BY Buffers
      <3>3. Held(b, k) = style
        BY <3>1, <3>2 DEF HeldBuffer, Computed
      <3> DEFINE p == Phases[k]
      <3>4. /\ p.kind = "rows" /\ p.n = Height /\ p.near = {b}
            /\ p.any = {} /\ p.own = {"out"} /\ p.dst = {"out"} /\ p.from = b
        BY <1>2, <2>4, PhaseFields
      <3> HIDE DEF p, b
      <3>5. Carries(p, k)
        BY <3>1, <3>2, <3>3, <3>4 DEF Carries, From, Computed
      <3> QED
        BY <3>5 DEF p
    <2>5. CASE k = style + 3
      <3>1. \A x \in Computed : Held(x, k + 1) = Held(x, k)
        BY <1>3, <2>1, <2>5 DEF HeldBuffer
      <3> QED
        BY <1>2, <2>5, <3>1, PhaseFields DEF Carries, Computed
    <2> QED
      BY <1>2, <2>2, <2>3, <2>4, <2>5
  <1>5. Held("out", N + 1) = Asked
    BY <1>2, <1>3 DEF Asked, Computed
  <1> QED
    BY <1>2, <1>4, <1>5

LEMMA ViscosityCarries ==
    ASSUME build = "VISCOCITY", style \in Nat \ {0}
    PROVE  /\ N = style + 4 /\ (\A k \in 1 .. N : Carries(Phases[k], k))
           /\ Held("out", N + 1) = Asked
  <1>1. Phases = ViscosityTask(style)
    BY DEF Phases, Task
  <1>2. /\ N = style + 4 /\ Phases[1] = Prepare({"buffer0", "buffer1"})
        /\ Phases[2] = JacobiDiffusion("buffer0", "in")
        /\ \A k \in 3 .. style + 2 : Phases[k] = JacobiDiffusion(Buffer(k - 2), Buffer(k - 3))
        /\ Phases[style + 3] = JacobiDiffusion("out", "buffer1") /\ Phases[style + 4] = JustWait
    BY <1>1, ViscosityPhases DEF N
  <1>3. \A x \in Computed, k \in 1 .. N + 1 :
            Held(x, k) = IF x = "out" THEN IF k > style + 3 THEN Asked ELSE 0
                         ELSE IF k <= style + 3 THEN HeldBuffer(x, k - 1, k - 2)
                         ELSE HeldBuffer(x, style, style + 1)
    BY DEF Held
  <1>4. ASSUME NEW k \in 1 .. N  PROVE Carries(Phases[k], k)
    <2>1. k \in 1 .. N + 1 /\ k + 1 \in 1 .. N + 1
      BY <1>2
    <2>2. CASE k = 1
      <3>1. \A x \in Computed : Held(x, 1) = 0 /\ Held(x, 2) = 0
        BY <1>3, <2>1, <2>2 DEF HeldBuffer
      <3> QED
        BY <1>2, <2>2, <3>1, PhaseFields DEF Carries, Computed
    <2>3. CASE k = 2
      <3>1. \A x \in Computed : Held(x, 2) = 0 /\ Held(x, 3) = IF x = "buffer0" THEN 1 ELSE 0
        <4>1. Buffer(2) = "buffer0"
          BY DEF Buffer
        <4>2. \A x \in Computed \ {"out"} : Held(x, 2) = HeldBuffer(x, 1, 0) /\ Held(x, 3) = HeldBuffer(x, 2, 1)
          BY <1>2, <1>3, <2>1, <2>3
        <4>3. Held("out", 2) = 0 /\ Held("out", 3) = 0
          BY <1>2, <1>3, <2>1, <2>3 DEF Computed
        <4> QED
          BY <4>1, <4>2, <4>3 DEF HeldBuffer, Computed
      <3> QED
        BY <1>2, <2>3, <3>1, PhaseFields DEF Carries, From, Computed
    <2>4. CASE k \in 3 .. style + 2
      <3> DEFINE b1 == Buffer(k - 2)
                 b2 == Buffer(k - 3)
      <3>1. Phases[k] = JacobiDiffusion(b1, b2)
        BY <1>2, <2>4
      <3>2. b1 # b2 /\ {b1, b2} = {"buffer0", "buffer1"} /\ Buffer(k) = b1 /\ Buffer(k - 1) = b2
        <4>1. (k - 2) - 1 = k - 3 /\ (k - 2) + 1 = k - 1 /\ k - 2 \in Int
          BY <2>4
        <4>2. b1 \in {"buffer0", "buffer1"} /\ b2 \in {"buffer0", "buffer1"} /\ b1 # b2 /\ Buffer(k - 1) = b2
          BY <2>4, <4>1, Buffers
        <4>3. Buffer(k) = b1
          BY <2>4, Buffers
        <4> QED
          BY <4>2, <4>3
      <3>3. Held("out", k) = 0 /\ Held("out", k + 1) = 0
        BY <1>3, <2>1, <2>4 DEF Computed
      <3>4. Held(b1, k + 1) = k - 1 /\ Held(b2, k + 1) = k - 2 /\ Held(b2, k) = k - 2
        <4>1. b1 \in Computed /\ b2 \in Computed /\ b1 # "out" /\ b2 # "out"
          BY <3>2 DEF Computed
        <4>2. /\ Held(b1, k + 1) = HeldBuffer(b1, k, k - 1) /\ Held(b2, k + 1) = HeldBuffer(b2, k, k - 1)
              /\ Held(b2, k) = HeldBuffer(b2, k - 1, k - 2)
          <5>1. (k + 1) - 1 = k /\ (k + 1) - 2 = k - 1 /\ k + 1 <= style + 3 /\ k <= style + 3
            BY <2>4
          <5> QED
            BY <1>3, <2>1, <4>1, <5>1
        <4> HIDE DEF b1, b2
        <4>3. HeldBuffer(b1, k, k - 1) = k - 1 /\ HeldBuffer(b2, k, k - 1) = k - 2
          BY <2>4, <3>2 DEF HeldBuffer
        <4>4. HeldBuffer(b2, k - 1, k - 2) = k - 2
          BY <2>4, <3>2 DEF HeldBuffer
        <4> QED
          BY <4>2, <4>3, <4>4
      <3>5. \A x \in Computed \ {b1} : Held(x, k + 1) = Held(x, k)
        BY <3>2, <3>3, <3>4 DEF Computed
      <3> DEFINE p == Phases[k]
      <3>6. /\ p.kind = "rows" /\ p.n = Height /\ p.near = {b2, "collision"}
            /\ p.any = {} /\ p.own = {} /\ p.dst = {b1} /\ p.from = b2
        BY <3>1, PhaseFields
      <3> HIDE DEF p, b1, b2
      <3>7. Carries(p, k)
        <4>1. Held(b1, k + 1) = Held(b2, k) + 1
          BY <2>4, <3>4
        <4> QED
          BY <3>2, <3>5, <3>6, <4>1 DEF Carries, From, Computed
      <3> QED
        BY <3>7 DEF p
    <2>5. CASE k = style + 3
      <3>1. /\ Held("out", k) = 0 /\ Held("out", k + 1) = Asked
            /\ \A x \in Computed \ {"out"} : /\ Held(x, k) = HeldBuffer(x, style + 2, style + 1)
                                             /\ Held(x, k + 1) = HeldBuffer(x, style, style + 1)
        <4>1. k - 1 = style + 2 /\ k - 2 = style + 1 /\ k <= style + 3 /\ k + 1 > style + 3
          BY <2>5
        <4> QED
          BY <1>3, <2>1, <4>1 DEF Computed
      <3>2. Buffer(style + 2) = Buffer(style) /\ Buffer(style) \in {"buffer0", "buffer1"}
        <4>1. style \in Int /\ (style + 1) - 1 = style /\ (style + 1) + 1 = style + 2 /\ style + 1 \in Int
          OBVIOUS
        <4> QED
          BY <4>1, Buffers
      <3>3. \A x \in Computed \ {"out"} : Held(x, k + 1) = Held(x, k)
        BY <3>1, <3>2 DEF HeldBuffer
      <3>4. Held("buffer1", k) + 1 = Asked
        <4>1. Held("buffer1", k) = IF Buffer(style) = "buffer1" THEN style + 1 ELSE style
          BY <3>1, <3>2 DEF HeldBuffer, Computed
        <4>2. Buffer(style) = "buffer1" <=> style % 2 = 1
          BY DEF Buffer
        <4>3. Asked = IF style % 2 = 1 THEN style + 2 ELSE style + 1
          BY DEF Asked
        <4> QED
          BY <4>1, <4>2, <4>3
      <3> DEFINE p == Phases[k]
      <3>5. /\ p.kind = "rows" /\ p.n = Height /\ p.near = {"buffer1", "collision"}
            /\ p.any = {} /\ p.own = {} /\ p.dst = {"out"} /\ p.from = "buffer1"
        BY <1>2, <2>5, PhaseFields
      <3> HIDE DEF p
      <3>6. Carries(p, k)
        BY <3>1, <3>3, <3>4, <3>5 DEF Carries, From, Computed
      <3> QED
        BY <3>6 DEF p
    <2>6. CASE k = style + 4
      <3>1. \A x \in Computed : Held(x, k + 1) = Held(x, k)
        BY <1>3, <2>1, <2>6 DEF HeldBuffer
      <3> QED
        BY <1>2, <2>6, <3>1, PhaseFields DEF Carries, Computed
    <2> QED
      BY <1>2, <2>2, <2>3, <2>4, <2>5, <2>6
  <1>5. Held("out", N + 1) = Asked
    BY <1>2, <1>3 DEF Computed
  <1> QED
    BY <1>2, <1>4, <1>5

LEMMA AllCarry ==
    ASSUME build \in Builds, style \in Nat \ {0}
    PROVE  /\ N \in Nat \ {0}
           /\ \A k \in 1 .. N : Carries(Phases[k], k)
           /\ Held("out", N + 1) = Asked
           /\ \A x \in Computed : Held(x, 1) = 0
           /\ \A x \in Computed, k \in Nat : Held(x, k) \in Nat
  <1>1. CASE build \in {"ADVECTION", "REPOS", "MCCORMACK", "BLEND"}
    <2>1. \A k \in 1 .. 1 : k = 1
      OBVIOUS
    <2>2. /\ \A x \in Computed : Held(x, 1) = 0
          /\ \A x \in Computed, k \in Nat : Held(x, k) \in Nat
      BY <1>1 DEF Held
    <2> QED
      BY <1>1, <2>1, <2>2, OnePhase
  <1>2. CASE build = "GENREPOS"
    <2>2. /\ \A x \in Computed : Held(x, 1) = 0
          /\ \A x \in Computed, k \in Nat : Held(x, k) \in Nat
      BY <1>2 DEF Held
    <2> QED
      BY <1>2, <2>2, ThreePhases
  <1>3. \A x, b, k : k \in Int => HeldBuffer(x, b, k) \in Nat
    BY DEF HeldBuffer
  <1>4. CASE build = "PRESSURE"
    <2>1. \A x \in Computed, k \in Nat :
            Held(x, k) = IF x = "out" THEN IF k > style + 2 THEN style ELSE 0
                         ELSE IF k <= style + 2 THEN HeldBuffer(x, k - 1, k - 2)
                         ELSE HeldBuffer(x, style + 1, style)
      BY <1>4 DEF Held
    <2>2. \A x \in Computed, k \in Nat : Held(x, k) \in Nat
      BY <1>3, <2>1
    <2>3. \A x \in Computed : Held(x, 1) = 0
      BY <2>1 DEF HeldBuffer
    <2>4. N \in Nat \ {0}
      BY <1>4, PressureCarries
    <2> QED
      BY <1>4, <2>2, <2>3, <2>4, PressureCarries
  <1>5. CASE build = "VISCOCITY"
    <2>1. \A x \in Computed, k \in Nat :
            Held(x, k) = IF x = "out" THEN IF k > style + 3 THEN Asked ELSE 0
                         ELSE IF k <= style + 3 THEN HeldBuffer(x, k - 1, k - 2)
                         ELSE HeldBuffer(x, style, style + 1)
      BY <1>5 DEF Held
    <2>2. Asked \in Nat
      BY <1>5 DEF Asked
    <2>3. \A x \in Computed, k \in Nat : Held(x, k) \in Nat
      BY <1>3, <2>1, <2>2
    <2>4. \A x \in Computed : Held(x, 1) = 0
      BY <2>1 DEF HeldBuffer
    <2>5. N \in Nat \ {0}
      BY <1>5, ViscosityCarries
    <2> QED
      BY <1>5, <2>3, <2>4, <2>5, ViscosityCarries
  <1> QED
    BY <1>1, <1>2, <1>4, <1>5 DEF Builds
-----------------------------------------------------------------------------
(* What the steps of a thread have in common. *)

LEMMA SameTask ==
    ASSUME UNCHANGED <<build, style>>
    PROVE  Phases' = Phases /\ N' = N /\ \A x, k : Held(x, k)' = Held(x, k)
  BY DEF Phases, N, Held, Asked

LEMMA StyleType == ASSUME Typed  PROVE style \in Nat \ {0} /\ build \in Builds
  BY TaskConstants DEF Typed

LEMMA LockQuiet ==
    ASSUME LockInv, UNCHANGED <<build, hostVars>>  PROVE LockInv'
  BY DEF LockInv, hostVars, Inputs, Outputs, Matrices, Swirl, Input, Output

\* The locks of a launch are only looked at by its end.
LEMMA MatricesSame == ASSUME build' = build  PROVE Matrices' = Matrices
  BY DEF Matrices, Inputs, Outputs, Swirl, Input, Output

LEMMA HostQuiet ==
    ASSUME NEW g, HostAt(g), Live' = Live, UNCHANGED <<build, style, numThreads, host, i>>
    PROVE  HostAt(g)'
  BY SameTask DEF HostAt

LEMMA BarrierQuiet ==
    ASSUME Barrier, numBlocked' = numBlocked, numThreads' = numThreads,
           \A s \in Threads : Counted(s)' <=> Counted(s)
    PROVE  Barrier'
  <1>1. Waiting' = Waiting
    BY DEF Waiting
  <1> QED
    BY <1>1 DEF Barrier

\* A thread that runs is in phase g, and the host has launched it.
LEMMA Running ==
    ASSUME Typed, NEW g \in 1 .. N + 1, InPhase(g), NEW t \in Threads,
           at[t] \in {"run", "row", "arrive"}
    PROVE  /\ phase[t] = g /\ g \in 1 .. N /\ g \in Nat /\ N \in Nat
           /\ Carries(Phases[g], g) /\ Phases[g].n \in Nat
           /\ Phases[phase[t]] = Phases[g]
           /\ host \in {"create", "join"} /\ Iterates(g)
  <1>1. N \in Nat \ {0}
    BY StyleType, AllCarry
  <1>2. phase[t] = g /\ g <= N
    BY DEF InPhase, PlaceOf, Counted
  <1>3. g \in 1 .. N
    BY <1>1, <1>2
  <1>4. Carries(Phases[g], g)
    BY <1>3, StyleType, AllCarry
  <1>5. Phases[g].n \in Nat
    BY <1>4, TaskConstants DEF Carries
  <1>6. host \in {"create", "join"}
    BY DEF InPhase, HostAt, Live
  <1> QED
    BY <1>1, <1>2, <1>3, <1>4, <1>5, <1>6 DEF InPhase

\* The rows next to a row.
LEMMA NearRows == ASSUME NEW r \in Rows  PROVE r \in Near(r) /\ Near(r) \subseteq Rows
  <1>1. (r + 1) % Height \in Rows /\ (r + Height - 1) % Height \in Rows
    BY TaskConstants DEF Rows
  <1> QED
    BY <1>1 DEF Near

\* A row that is not done gets the iterate of the next phase.
LEMMA NewIterateIs ==
    ASSUME Typed, NEW g \in 1 .. N, Carries(Phases[g], g), Iterates(g),
           NEW x \in Phases[g].dst, NEW r \in Rows, ~Done(Phases[g], r)
    PROVE  NewIterate(Phases[g], r) = Held(x, g + 1)
  <1> DEFINE p == Phases[g]
  <1>0. /\ \A z \in Computed, s \in Rows :
              iterate[z][s] = IF z \in p.dst /\ Done(p, s) THEN Held(z, g + 1) ELSE Held(z, g)
        /\ Carries(p, g) /\ x \in p.dst /\ ~Done(p, r)
    <2>1. g <= N
      BY StyleType, AllCarry
    <2> QED
      BY <2>1 DEF Iterates
  <1> SUFFICES NewIterate(p, r) = Held(x, g + 1)
    OBVIOUS
  <1> HIDE DEF p
  <1>1. CASE p.kind = "once"
    <2>1. Held(x, g + 1) = 0 /\ "out" \notin p.own
      BY <1>0, <1>1 DEF Carries
    <2> QED
      BY <1>1, <2>1 DEF NewIterate
  <1>2. CASE p.kind = "rows"
    <2>1. Oldest(p, r) = From(p, g)
      <3>1. CASE p.from \in Computed
        <4> DEFINE cells == {c \in Reads(p, r) : c[1] = p.from}
                   S == {iterate[p.from][c[2]] : c \in cells}
                   v == Held(p.from, g)
        <4>1. p.from \in p.near \cup p.any /\ p.from \notin p.dst
          BY <1>0, <1>2, <3>1 DEF Carries
        <4>2. \A c \in cells : c[2] \in Rows
          BY NearRows DEF Reads
        <4>3. \A c \in cells : iterate[p.from][c[2]] = v
          BY <1>0, <3>1, <4>1, <4>2
        <4>4. \E c : c \in cells
          <5>1. <<p.from, r>> \in Reads(p, r)
            BY <4>1, NearRows DEF Reads
          <5> QED
            BY <5>1
        <4>5. v \in Nat
          <5>1. g \in Nat
            BY StyleType, AllCarry
          <5> QED
            BY <3>1, <5>1, StyleType, AllCarry
        <4>6. S = {v}
          BY <4>3, <4>4
        <4> HIDE DEF S, v
        <4>7. Min(S) = v
          <5>1. \A z \in S : z = v /\ v <= v
            BY <4>5, <4>6
          <5>2. v \in S
            BY <4>6
          <5> QED
            BY <5>1, <5>2 DEF Min
        <4> QED
          BY <3>1, <4>7 DEF Oldest, From, S, v
      <3>2. CASE p.from \notin Computed
        BY <3>2 DEF Oldest, From
      <3> QED
        BY <3>1, <3>2
    <2>2. CASE "out" \in p.own
      <3>1. p.dst = {"out"} /\ x = "out"
        BY <1>0, <1>2, <2>2 DEF Carries
      <3>2. iterate["out"][r] = Held("out", g)
        BY <1>0 DEF Computed
      <3>3. Held(x, g + 1) = From(p, g) + Held("out", g)
        BY <1>0, <1>2, <2>2, <3>1 DEF Carries
      <3>4. From(p, g) \in Int /\ Held("out", g) \in Int
        <4>1. g \in Nat /\ "out" \in Computed
          BY StyleType, AllCarry DEF Computed
        <4>2. \A z \in Computed : Held(z, g) \in Nat
          BY <4>1, StyleType, AllCarry
        <4> QED
          BY <4>1, <4>2 DEF From
      <3> QED
        BY <1>2, <2>1, <2>2, <3>1, <3>2, <3>3, <3>4 DEF NewIterate
    <2>3. CASE "out" \notin p.own
      <3>1. Held(x, g + 1) = From(p, g) + 1
        BY <1>0, <1>2, <2>3 DEF Carries
      <3>2. From(p, g) \in Int
        <4>1. g \in Nat
          BY StyleType, AllCarry
        <4>2. \A z \in Computed : Held(z, g) \in Nat
          BY <4>1, StyleType, AllCarry
        <4> QED
          BY <4>2 DEF From
      <3> QED
        BY <1>2, <2>1, <2>3, <3>1, <3>2 DEF NewIterate
    <2> QED
      BY <2>2, <2>3
  <1>3. p.kind \in {"once", "rows"}
    BY <1>0 DEF Carries
  <1> QED
    BY <1>1, <1>2, <1>3
-----------------------------------------------------------------------------
(* The steps of a thread. *)

LEMMA TakeRowKeeps ==
    ASSUME TInv, NEW t \in Threads, TakeRow(t), UNCHANGED hostVars  PROVE TInv'
  <1>0. PICK g \in 1 .. N + 1 : InPhase(g)
    BY DEF TInv
  <1> DEFINE p == Phases[g]
  <1>1. Typed /\ Barrier /\ LockInv
    BY DEF TInv
  <1>2. /\ at[t] = "run" /\ Phases[phase[t]] = p /\ p.n \in Nat /\ g <= N /\ Carries(p, g) /\ Iterates(g)
        /\ host \in {"create", "join"}
    BY <1>0, <1>1, Running DEF TakeRow
  <1>3. /\ p.kind # "none" /\ atomic \in Nat /\ atomic' = atomic + 1
        /\ y' = [y EXCEPT ![t] = IF atomic < p.n THEN atomic ELSE NoRow]
        /\ at' = [at EXCEPT ![t] = IF atomic < p.n THEN "row" ELSE "arrive"]
        /\ UNCHANGED <<build, style, numThreads, curTask, numBlocked, phase, task, iterate>>
        /\ UNCHANGED <<host, i, locked, before>>
    BY <1>1, <1>2 DEF TakeRow, progress, hostVars, Typed
  <1>4. Phases' = Phases /\ N' = N /\ \A x, k : Held(x, k)' = Held(x, k)
    BY <1>3, SameTask
  <1> HIDE DEF p
  <1>5. Typed'
    <2>1. /\ at' \in [Threads -> Places] /\ y' \in [Threads -> Nat]
      BY <1>1, <1>3 DEF Typed, Places, NoRow
    <2>2. Matrices' = Matrices
      BY <1>3, MatricesSame
    <2> QED
      BY <1>1, <1>3, <2>1, <2>2 DEF Typed
  <1>6. /\ \A s \in Threads \ {t} : at'[s] = at[s] /\ y'[s] = y[s]
        /\ IF atomic < p.n THEN at'[t] = "row" /\ y'[t] = atomic ELSE at'[t] = "arrive"
    BY <1>1, <1>3 DEF Typed
  <1>7. Barrier'
    <2>1. \A s \in Threads : Counted(s)' <=> Counted(s)
      BY <1>2, <1>3, <1>6 DEF Counted
    <2> QED
      BY <1>1, <1>3, <2>1, BarrierQuiet
  <1>8. LockInv'
    BY <1>1, <1>3, LockQuiet
  <1>9. InPhase(g)'
    <2>1. ASSUME NEW s \in Threads  PROVE PlaceOf(s, g)'
      <3>1. PlaceOf(s, g) /\ phase[t] = g
        BY <1>0, <1>1, <1>2, Running DEF InPhase
      <3> QED
        BY <1>2, <1>3, <1>4, <1>6, <3>1 DEF PlaceOf, Counted
    <2>2. ASSUME NEW s \in Threads  PROVE RowOf(s, g)'
      <3>1. /\ at'[s] = "row" =>
                  /\ p.kind # "none" /\ y'[s] < atomic' /\ y'[s] < p.n
                  /\ \A u \in Threads : at'[u] = "row" /\ u # s => y'[u] # y'[s]
        <4>1. \A u \in Threads : at[u] = "row" =>
                  /\ y[u] \in Nat /\ y[u] < atomic /\ y[u] < p.n
                  /\ \A v \in Threads : at[v] = "row" /\ v # u => y[v] # y[u]
          BY <1>0, <1>1 DEF InPhase, RowOf, Typed, p
        <4> QED
          BY <1>2, <1>3, <1>6, <4>1
      <3>2. at'[s] = "arrive" \/ Counted(s)' => atomic' >= p.n
        <4>1. at[s] = "arrive" \/ Counted(s) => atomic >= p.n
          BY <1>0 DEF InPhase, RowOf, p
        <4> QED
          BY <1>2, <1>3, <1>6, <4>1 DEF Counted
      <3> QED
        BY <1>4, <3>1, <3>2 DEF RowOf, p
    <2>3. HostAt(g)'
      <3>1. Live' = Live
        BY <1>2, <1>6 DEF Live
      <3> QED
        BY <1>0, <1>3, <3>1, HostQuiet DEF InPhase
    <2>4. Iterates(g)'
      <3>1. ASSUME NEW r \in Rows  PROVE Done(p, r)' <=> Done(p, r)
        <4> DEFINE m == Number(p, r)
        <4>1. Number(p, r)' = m /\ p' = p
          BY <1>4 DEF Number, p
        <4>2. m \in Nat
          BY TaskConstants DEF Number, Rows
        <4> HIDE DEF m
        <4>3. \A s \in Threads : at[s] = "row" => y[s] < atomic
          BY <1>0 DEF InPhase, RowOf
        <4>4. (/\ m < atomic' /\ m < p.n /\ \A s \in Threads : at'[s] = "row" => y'[s] # m)
               <=> (/\ m < atomic /\ m < p.n /\ \A s \in Threads : at[s] = "row" => y[s] # m)
          BY <1>2, <1>3, <1>6, <4>2, <4>3
        <4> QED
          BY <4>1, <4>4 DEF Done, m
      <3> QED
        BY <1>2, <1>3, <1>4, <3>1 DEF Iterates, p
    <2> QED
      BY <2>1, <2>2, <2>3, <2>4 DEF InPhase
  <1> QED
    BY <1>0, <1>4, <1>5, <1>7, <1>8, <1>9 DEF TInv

LEMMA EndRowKeeps ==
    ASSUME TInv, NEW t \in Threads, EndRow(t), UNCHANGED hostVars  PROVE TInv'
  <1>0. PICK g \in 1 .. N + 1 : InPhase(g)
    BY DEF TInv
  <1> DEFINE p == Phases[g]
             m == y[t]
  <1>1. Typed /\ Barrier /\ LockInv
    BY DEF TInv
  <1>2. /\ at[t] = "row" /\ Phases[phase[t]] = p /\ p.n \in Nat /\ g \in 1 .. N /\ g <= N
        /\ phase[t] = g /\ g \in Nat /\ Carries(p, g) /\ Iterates(g) /\ host \in {"create", "join"}
    <2>1. at[t] = "row"
      BY DEF EndRow
    <2> QED
      BY <1>0, <1>1, <2>1, Running
  <1>3. /\ iterate' = [x \in Computed |->
                         IF x \in p.dst
                         THEN [r \in Rows |-> IF <<x, r>> \in Writes(p, m)
                                             THEN NewIterate(p, r) ELSE iterate[x][r]]
                         ELSE iterate[x]]
        /\ at' = [at EXCEPT ![t] = IF p.kind = "once" THEN "arrive" ELSE "run"]
        /\ y' = [y EXCEPT ![t] = NoRow]
        /\ UNCHANGED <<build, style, numThreads, curTask, numBlocked, atomic, phase, task>>
        /\ UNCHANGED <<host, i, locked, before>>
    BY <1>2 DEF EndRow, progress, hostVars
  <1>4. Phases' = Phases /\ N' = N /\ \A x, k : Held(x, k)' = Held(x, k)
    BY <1>3, SameTask
  <1>5. /\ \A s \in Threads \ {t} : at'[s] = at[s] /\ y'[s] = y[s]
        /\ at'[t] = IF p.kind = "once" THEN "arrive" ELSE "run"
    BY <1>1, <1>3 DEF Typed
  <1>6. /\ p.kind # "none" /\ m \in Nat /\ m < atomic /\ m < p.n
        /\ \A s \in Threads : at[s] = "row" /\ s # t => y[s] # m
    BY <1>0, <1>1, <1>2 DEF InPhase, RowOf, Typed
  <1>7. ASSUME NEW r \in Rows
        PROVE  /\ Number(p, r) \in Nat
               /\ \A x \in p.dst : <<x, r>> \in Writes(p, m) <=> Number(p, r) = m
    <2>1. p.kind = "once" => m = 0
      BY <1>2, <1>6 DEF Carries
    <2> QED
      BY <2>1, TaskConstants DEF Writes, Number, Rows
  <1>8. ASSUME NEW r \in Rows, Number(p, r) = m  PROVE ~Done(p, r)
    BY <1>2, <1>8 DEF Done
  <1>9. ASSUME NEW r \in Rows  PROVE Done(p, r)' <=> Done(p, r) \/ Number(p, r) = m
    <2> DEFINE q == Number(p, r)
    <2>1. Number(p, r)' = q /\ p' = p
      BY <1>4 DEF Number
    <2> HIDE DEF q, m, p
    <2>2. (/\ q < atomic /\ q < p.n /\ \A s \in Threads : at'[s] = "row" => y'[s] # q)
           <=> (/\ q < atomic /\ q < p.n /\ \A s \in Threads : at[s] = "row" => y[s] # q) \/ q = m
      <3>1. y[t] = m
        BY DEF m
      <3> QED
        BY <1>2, <1>5, <1>6, <3>1
    <2> QED
      BY <1>3, <2>1, <2>2 DEF Done, q
  <1>10. ASSUME NEW x \in Computed, NEW r \in Rows
         PROVE  iterate'[x][r] = IF x \in p.dst /\ (Done(p, r) \/ Number(p, r) = m)
                                 THEN Held(x, g + 1) ELSE Held(x, g)
    <2>1. iterate[x][r] = IF x \in p.dst /\ Done(p, r) THEN Held(x, g + 1) ELSE Held(x, g)
      BY <1>2 DEF Iterates
    <2>2. CASE x \in p.dst /\ Number(p, r) = m
      <3>1. iterate'[x][r] = NewIterate(p, r)
        <4>1. <<x, r>> \in Writes(p, m)
          BY <1>7, <2>2
        <4> HIDE DEF p, m
        <4> QED
          BY <1>3, <2>2, <4>1
      <3>2. NewIterate(p, r) = Held(x, g + 1)
        BY <1>1, <1>2, <1>8, <2>2, NewIterateIs
      <3> QED
        BY <2>2, <3>1, <3>2
    <2>3. CASE ~(x \in p.dst /\ Number(p, r) = m)
      <3>1. x \in p.dst => <<x, r>> \notin Writes(p, m)
        BY <1>7, <2>3
      <3> HIDE DEF p, m
      <3>2. iterate'[x][r] = iterate[x][r]
        BY <1>3, <3>1
      <3> QED
        BY <2>1, <2>3, <3>2
    <2> QED
      BY <2>2, <2>3
  <1> HIDE DEF p, m
  <1>11. Typed'
    <2>1. /\ at' \in [Threads -> Places] /\ y' \in [Threads -> Nat]
      BY <1>1, <1>3 DEF Typed, Places, NoRow
    <2>2. Matrices' = Matrices
      BY <1>3, MatricesSame
    <2>3. iterate' \in [Computed -> [Rows -> Nat]]
      <3>1. \A x \in Computed, r \in Rows : iterate'[x][r] \in Nat
        <4>1. \A x \in Computed : Held(x, g) \in Nat /\ Held(x, g + 1) \in Nat
          <5>1. g + 1 \in Nat
            BY <1>2
          <5> QED
            BY <1>1, <1>2, <5>1, StyleType, AllCarry
        <4> QED
          BY <1>10, <4>1
      <3>2. iterate' = [x \in Computed |-> [r \in Rows |-> iterate'[x][r]]]
        <4>1. \A x \in Computed : iterate[x] \in [Rows -> Nat]
          BY <1>1 DEF Typed
        <4>2. DOMAIN iterate' = Computed
          BY <1>3
        <4>3. \A x \in Computed : iterate'[x] = [r \in Rows |-> iterate'[x][r]]
          BY <1>3, <4>1
        <4>4. iterate' = [x \in Computed |-> iterate'[x]]
          BY <1>3
        <4> QED
          BY <4>3, <4>4
      <3> QED
        BY <3>1, <3>2
    <2> QED
      BY <1>1, <1>3, <2>1, <2>2, <2>3 DEF Typed
  <1>12. Barrier'
    <2>1. \A s \in Threads : Counted(s)' <=> Counted(s)
      BY <1>2, <1>3, <1>5 DEF Counted
    <2> QED
      BY <1>1, <1>3, <2>1, BarrierQuiet
  <1>13. LockInv'
    BY <1>1, <1>3, LockQuiet DEF hostVars
  <1>14. InPhase(g)'
    <2>1. ASSUME NEW s \in Threads  PROVE PlaceOf(s, g)'
      <3>1. PlaceOf(s, g)
        BY <1>0 DEF InPhase
      <3> QED
        BY <1>2, <1>3, <1>4, <1>5, <3>1 DEF PlaceOf, Counted
    <2>2. ASSUME NEW s \in Threads  PROVE RowOf(s, g)'
      <3>1. /\ at'[s] = "row" =>
                  /\ p.kind # "none" /\ y'[s] < atomic /\ y'[s] < p.n
                  /\ \A u \in Threads : at'[u] = "row" /\ u # s => y'[u] # y'[s]
        <4>1. \A u \in Threads : at[u] = "row" =>
                  /\ y[u] < atomic /\ y[u] < p.n
                  /\ \A v \in Threads : at[v] = "row" /\ v # u => y[v] # y[u]
          BY <1>0 DEF InPhase, RowOf, p
        <4> QED
          BY <1>5, <1>6, <4>1
      <3>2. at'[s] = "arrive" \/ Counted(s)' => atomic >= p.n
        <4>1. at[s] = "arrive" \/ Counted(s) => atomic >= p.n
          BY <1>0 DEF InPhase, RowOf, p
        <4>2. p.kind = "once" => atomic >= p.n
          BY <1>1, <1>2, <1>6 DEF Carries, Typed
        <4> QED
          BY <1>2, <1>3, <1>5, <4>1, <4>2 DEF Counted
      <3> QED
        BY <1>3, <1>4, <3>1, <3>2 DEF RowOf, p
    <2>3. HostAt(g)'
      <3>1. Live' = Live
        BY <1>2, <1>5 DEF Live
      <3> QED
        BY <1>0, <1>3, <3>1, HostQuiet DEF InPhase
    <2>4. Iterates(g)'
      BY <1>2, <1>4, <1>9, <1>10 DEF Iterates, p
    <2> QED
      BY <2>1, <2>2, <2>3, <2>4 DEF InPhase
  <1> QED
    BY <1>0, <1>4, <1>11, <1>12, <1>13, <1>14 DEF TInv

\* A thread that arrives has no row left to take.
LEMMA NoRowLeft ==
    ASSUME Typed, NEW g \in 1 .. N + 1, InPhase(g), NEW t \in Threads, Arriving(t)
    PROVE  atomic >= Phases[g].n
  <1>1. CASE at[t] = "arrive"
    BY <1>1 DEF InPhase, RowOf
  <1>2. CASE at[t] = "run" /\ Phases[phase[t]].kind = "none"
    <2>1. Carries(Phases[g], g) /\ Phases[g].kind = "none"
      BY <1>2, Running
    <2>2. Phases[g].n = 0
      BY <2>1 DEF Carries
    <2> QED
      BY <2>2 DEF Typed
  <1> QED
    BY <1>1, <1>2 DEF Arriving

\* The same rows are under way, and they are done as before.
LEMMA IteratesQuiet ==
    ASSUME NEW g, Iterates(g), UNCHANGED <<build, style, atomic, iterate, y>>,
           \A s \in Threads : at'[s] = "row" <=> at[s] = "row"
    PROVE  Iterates(g)'
  <1>1. Phases' = Phases /\ N' = N /\ \A x, k : Held(x, k)' = Held(x, k)
    BY SameTask
  <1>2. \A r \in Rows : Done(Phases[g], r)' <=> Done(Phases[g], r)
    BY <1>1 DEF Done, Number
  <1> QED
    BY <1>1, <1>2 DEF Iterates

LEMMA SleepKeeps ==
    ASSUME TInv, NEW t \in Threads, WaitForTask(t), ~LastOne, UNCHANGED hostVars  PROVE TInv'
  <1>0. PICK g \in 1 .. N + 1 : InPhase(g)
    BY DEF TInv
  <1>1. Typed /\ Barrier /\ LockInv
    BY DEF TInv
  <1>2. /\ at[t] \in {"run", "arrive"} /\ phase[t] = g /\ g <= N /\ Iterates(g)
        /\ host \in {"create", "join"} /\ atomic >= Phases[g].n
    <2>1. at[t] \in {"run", "arrive"} /\ Arriving(t)
      BY DEF WaitForTask, Arriving
    <2> QED
      BY <1>0, <1>1, <2>1, Running, NoRowLeft
  <1>3. /\ numBlocked' = numBlocked + 1
        /\ task' = [task EXCEPT ![t] = curTask + 1]
        /\ at' = [at EXCEPT ![t] = "asleep"]
        /\ UNCHANGED <<build, style, numThreads, curTask, atomic, phase, y, iterate>>
        /\ UNCHANGED <<host, i, locked, before>>
    BY DEF WaitForTask, progress, hostVars
  <1>4. Phases' = Phases /\ N' = N
    BY <1>3, SameTask
  <1>5. /\ \A s \in Threads \ {t} : at'[s] = at[s] /\ task'[s] = task[s]
        /\ at'[t] = "asleep" /\ task'[t] = curTask + 1
    BY <1>1, <1>3 DEF Typed
  <1>6. Typed'
    <2>1. /\ at' \in [Threads -> Places] /\ task' \in [Threads -> Nat]
      BY <1>1, <1>3 DEF Typed, Places
    <2>2. Matrices' = Matrices
      BY <1>3, MatricesSame
    <2> QED
      BY <1>1, <1>3, <2>1, <2>2 DEF Typed
  <1>7. \A s \in Threads : Counted(s)' <=> Counted(s) \/ s = t
    BY <1>3, <1>5 DEF Counted
  <1>8. Barrier'
    <2>1. Waiting' = Waiting \cup {t}
      BY <1>7 DEF Waiting
    <2>2. t \notin Waiting
      BY <1>2 DEF Waiting, Counted
    <2>3. IsFiniteSet(Waiting)
      <3>1. Waiting \subseteq Threads
        BY DEF Waiting
      <3> QED
        BY <3>1, TaskConstants, FS_Subset
    <2>4. /\ Cardinality(Waiting \cup {t}) = Cardinality(Waiting) + 1
          /\ Cardinality(Waiting) \in Nat
      BY <2>2, <2>3, FS_AddElement, FS_CardinalityType
    <2>5. numBlocked + 1 # numThreads /\ numThreads \in Nat
      BY <1>1, TaskConstants DEF Typed, WaitForTask, Opens, LastOne
    <2> QED
      BY <1>1, <1>3, <2>1, <2>4, <2>5 DEF Barrier
  <1>9. LockInv'
    BY <1>1, <1>3, LockQuiet DEF hostVars
  <1>10. InPhase(g)'
    <2>1. ASSUME NEW s \in Threads  PROVE PlaceOf(s, g)'
      <3>1. PlaceOf(s, g)
        BY <1>0 DEF InPhase
      <3> QED
        BY <1>2, <1>3, <1>4, <1>5, <3>1 DEF PlaceOf, Counted
    <2>2. ASSUME NEW s \in Threads  PROVE RowOf(s, g)'
      <3>1. RowOf(s, g)
        BY <1>0 DEF InPhase
      <3>2. at'[s] = "row" => s # t
        BY <1>5
      <3> QED
        BY <1>2, <1>3, <1>4, <1>5, <1>7, <3>1, <3>2 DEF RowOf
    <2>3. HostAt(g)'
      <3>1. Live' = Live
        BY <1>2, <1>5 DEF Live
      <3> QED
        BY <1>0, <1>3, <3>1, HostQuiet DEF InPhase
    <2>4. Iterates(g)'
      <3>1. \A s \in Threads : at'[s] = "row" <=> at[s] = "row"
        BY <1>2, <1>5
      <3> QED
        BY <1>2, <1>3, <3>1, IteratesQuiet
    <2> QED
      BY <2>1, <2>2, <2>3, <2>4 DEF InPhase
  <1> QED
    BY <1>0, <1>4, <1>6, <1>8, <1>9, <1>10 DEF TInv

\* The last to arrive finds all other threads of the launch in waitForTask.
LEMMA AllArrived ==
    ASSUME Typed, Barrier, NEW g \in 1 .. N + 1, InPhase(g), NEW t \in Threads, Arriving(t), LastOne
    PROVE  /\ Live = Waiting \cup {t}
           /\ host = "create" => i = numThreads
           /\ host = "join" => i = 0
  <1>1. Waiting \subseteq Live /\ t \in Live /\ t \notin Waiting /\ Live \subseteq Threads
    BY DEF Waiting, Live, Counted, Arriving
  <1>2. IsFiniteSet(Live) /\ IsFiniteSet(Waiting)
    BY <1>1, TaskConstants, FS_Subset
  <1>3. Cardinality(Waiting \cup {t}) = numThreads
    <2>1. Cardinality(Waiting \cup {t}) = Cardinality(Waiting) + 1
      BY <1>1, <1>2, FS_AddElement
    <2> QED
      BY <2>1 DEF Barrier, LastOne
  <1>4. Waiting \cup {t} \subseteq Live
    BY <1>1
  <1>5. /\ Cardinality(Waiting \cup {t}) <= Cardinality(Live)
        /\ Cardinality(Waiting \cup {t}) = Cardinality(Live) => Waiting \cup {t} = Live
    BY <1>2, <1>4, FS_Subset
  <1>6. /\ host = "create" => i <= numThreads /\ Cardinality(Live) = i
        /\ host = "join" => i <= numThreads /\ Cardinality(Live) = numThreads - i
        /\ host \in {"create", "join"}
    BY <1>1 DEF InPhase, HostAt
  <1>7. numThreads \in Nat /\ i \in Nat
    BY TaskConstants DEF Typed
  <1>8. Cardinality(Live) \in Nat
    BY <1>2, FS_CardinalityType
  <1>9. /\ Cardinality(Live) = numThreads
        /\ host = "create" => i = numThreads
        /\ host = "join" => i = 0
    BY <1>3, <1>5, <1>6, <1>7, <1>8
  <1> QED
    BY <1>3, <1>5, <1>9

LEMMA OpenKeeps ==
    ASSUME TInv, NEW t \in Threads, WaitForTask(t), LastOne, UNCHANGED hostVars  PROVE TInv'
  <1>0. PICK g \in 1 .. N + 1 : InPhase(g)
    BY DEF TInv
  <1>1. Typed /\ Barrier /\ LockInv
    BY DEF TInv
  <1>2. /\ at[t] \in {"run", "arrive"} /\ Arriving(t) /\ phase[t] = g /\ g \in 1 .. N /\ g \in Nat
        /\ N \in Nat /\ Carries(Phases[g], g) /\ Iterates(g)
        /\ host \in {"create", "join"} /\ atomic >= Phases[g].n
    <2>1. at[t] \in {"run", "arrive"} /\ Arriving(t)
      BY DEF WaitForTask, Arriving
    <2> QED
      BY <1>0, <1>1, <2>1, Running, NoRowLeft
  <1>3. /\ curTask' = curTask + 1 /\ numBlocked' = 0 /\ atomic' = 0
        /\ at' = [s \in Threads |-> IF s = t THEN NextPhase(t)
                                    ELSE IF at[s] = "asleep" THEN "woken" ELSE at[s]]
        /\ phase' = [phase EXCEPT ![t] = phase[t] + 1]
        /\ UNCHANGED <<build, style, numThreads, y, task, iterate>>
        /\ UNCHANGED <<host, i, locked, before>>
    BY DEF WaitForTask, Opens, progress, hostVars
  <1>4. Phases' = Phases /\ N' = N /\ \A x, k : Held(x, k)' = Held(x, k)
    BY <1>3, SameTask
  <1>5. /\ Live = Waiting \cup {t}
        /\ host = "create" => i = numThreads
        /\ host = "join" => i = 0
    BY <1>0, <1>1, <1>2, AllArrived
  <1>6. /\ at'[t] = IF g < N THEN "run" ELSE "exited"
        /\ phase'[t] = g + 1
        /\ \A s \in Threads \ {t} : phase'[s] = phase[s]
        /\ \A s \in Waiting : s # t /\ at'[s] = "woken" /\ task[s] = curTask + 1 /\ phase[s] = g
        /\ \A s \in Threads : s # t /\ s \notin Waiting => at[s] = "none" /\ at'[s] = "none" /\ phase[s] = 1
    <2>1. at'[t] = IF g < N THEN "run" ELSE "exited"
      BY <1>2, <1>3 DEF NextPhase, N
    <2>2. phase'[t] = g + 1 /\ \A s \in Threads \ {t} : phase'[s] = phase[s]
      BY <1>1, <1>2, <1>3 DEF Typed
    <2>3. \A s \in Threads : PlaceOf(s, g)
      BY <1>0 DEF InPhase
    <2>4. ASSUME NEW s \in Waiting
          PROVE  s # t /\ at'[s] = "woken" /\ task[s] = curTask + 1 /\ phase[s] = g
      <3>1. /\ s \in Threads /\ at[s] \in {"asleep", "woken"} /\ task[s] = curTask + 1
        BY DEF Waiting, Counted
      <3>2. curTask + 1 # curTask
        BY <1>1 DEF Typed
      <3>3. phase[s] = g
        BY <2>3, <3>1, <3>2 DEF PlaceOf
      <3> QED
        BY <1>2, <1>3, <3>1, <3>3
    <2>5. ASSUME NEW s \in Threads, s # t, s \notin Waiting
          PROVE  at[s] = "none" /\ at'[s] = "none" /\ phase[s] = 1
      <3>1. at[s] = "none"
        BY <1>5, <2>5 DEF Live
      <3> QED
        BY <1>3, <2>3, <2>5, <3>1 DEF PlaceOf, Counted
    <2> QED
      BY <2>1, <2>2, <2>4, <2>5
  <1>7. Typed'
    <2>1. /\ at' \in [Threads -> Places] /\ phase' \in [Threads -> Nat]
      BY <1>1, <1>3 DEF Typed, Places, NextPhase
    <2>2. Matrices' = Matrices
      BY <1>3, MatricesSame
    <2> QED
      BY <1>1, <1>3, <2>1, <2>2 DEF Typed
  <1>8. \A s \in Threads : ~Counted(s)' /\ at'[s] \notin {"row", "arrive"}
    <2> TAKE s \in Threads
    <2>1. curTask \in Nat
      BY <1>1 DEF Typed
    <2>2. CASE s = t
      BY <1>6, <2>2 DEF Counted
    <2>3. CASE s \in Waiting
      BY <1>3, <1>6, <2>1, <2>3 DEF Counted
    <2>4. CASE s # t /\ s \notin Waiting
      BY <1>6, <2>4 DEF Counted
    <2> QED
      BY <2>2, <2>3, <2>4
  <1>9. Barrier'
    <2>1. Waiting' = {}
      BY <1>8 DEF Waiting
    <2> QED
      BY <1>1, <1>3, <2>1, TaskConstants, FS_EmptySet DEF Barrier, Typed
  <1>10. LockInv'
    BY <1>1, <1>3, LockQuiet DEF hostVars
  <1>11. InPhase(g + 1)'
    <2>1. ASSUME NEW s \in Threads  PROVE PlaceOf(s, g + 1)'
      <3>1. CASE s = t
        <4>1. g < N => g + 1 <= N
          BY <1>2
        <4>2. ~(g < N) => g + 1 = N + 1
          BY <1>2
        <4> QED
          BY <1>4, <1>6, <3>1, <4>1, <4>2 DEF PlaceOf
      <3>2. CASE s \in Waiting
        <4>1. (g + 1) - 1 = g /\ g + 1 > 1
          BY <1>2
        <4> QED
          BY <1>3, <1>6, <3>2, <4>1 DEF PlaceOf
      <3>3. CASE s # t /\ s \notin Waiting
        BY <1>6, <3>3 DEF PlaceOf
      <3> QED
        BY <3>1, <3>2, <3>3
    <2>2. ASSUME NEW s \in Threads  PROVE RowOf(s, g + 1)'
      BY <1>8 DEF RowOf
    <2>3. HostAt(g + 1)'
      <3>1. Live' = Live
        BY <1>2, <1>3 DEF Live, NextPhase
      <3>2. /\ host = "create" => i <= numThreads /\ Cardinality(Live) = i
            /\ host = "join" => i <= numThreads /\ Cardinality(Live) = numThreads - i
        BY <1>0 DEF InPhase, HostAt
      <3>3. numThreads \in Nat /\ i \in Nat
        BY <1>1, TaskConstants DEF Typed
      <3> QED
        BY <1>2, <1>3, <1>5, <3>1, <3>2, <3>3 DEF HostAt
    <2>4. ASSUME g + 1 <= N \/ Width >= Height  PROVE Iterates(g + 1)'
      <3> DEFINE p == Phases[g]
      <3>1. \A x \in p.dst, r \in Rows : Done(p, r)
        <4> TAKE x \in p.dst, r \in Rows
        <4>1. Number(p, r) \in Nat /\ Number(p, r) < p.n
          <5>1. p.kind = "once" \/ (p.kind = "rows" /\ (p.n = Height \/ (p.n = Width /\ g = N)))
            BY <1>2 DEF Carries
          <5>2. p.kind = "once" => p.n = 1
            BY <1>2 DEF Carries
          <5> QED
            BY <1>2, <2>4, <5>1, <5>2, TaskConstants DEF Number, Rows
        <4>2. \A s \in Threads : at[s] # "row"
          BY <1>2, <1>5 DEF Live, Waiting, Counted
        <4>3. p.n \in Nat /\ atomic \in Nat
          BY <1>0, <1>1, <1>2, Running DEF Typed
        <4> QED
          BY <1>2, <4>1, <4>2, <4>3 DEF Done
      <3>2. ASSUME NEW x \in Computed, NEW r \in Rows  PROVE iterate[x][r] = Held(x, g + 1)
        <4>1. iterate[x][r] = IF g <= N /\ x \in p.dst /\ Done(p, r) THEN Held(x, g + 1) ELSE Held(x, g)
          BY <1>2 DEF Iterates
        <4>2. CASE x \in p.dst
          BY <1>2, <3>1, <4>1, <4>2
        <4>3. CASE x \notin p.dst
          BY <1>2, <4>1, <4>3 DEF Carries
        <4> QED
          BY <4>2, <4>3
      <3>3. ASSUME NEW r \in Rows  PROVE ~Done(Phases[g + 1], r)'
        <4>1. Number(Phases[g + 1], r)' \in Nat
          BY TaskConstants DEF Number, Rows
        <4> QED
          BY <1>3, <4>1 DEF Done
      <3> QED
        BY <1>3, <1>4, <3>2, <3>3 DEF Iterates
    <2> QED
      BY <1>4, <2>1, <2>2, <2>3, <2>4 DEF InPhase
  <1>12. g + 1 \in 1 .. N' + 1
    BY <1>2, <1>4
  <1> QED
    BY <1>7, <1>9, <1>10, <1>11, <1>12 DEF TInv

LEMMA WakeKeeps ==
    ASSUME TInv, NEW t \in Threads, Wake(t), UNCHANGED hostVars  PROVE TInv'
  <1>0. PICK g \in 1 .. N + 1 : InPhase(g)
    BY DEF TInv
  <1>1. Typed /\ Barrier /\ LockInv
    BY DEF TInv
  <1>2. /\ at[t] = "asleep" /\ at' = [at EXCEPT ![t] = "woken"]
        /\ UNCHANGED <<build, style, numThreads, curTask, numBlocked, atomic, phase, y, task, iterate>>
        /\ UNCHANGED <<host, i, locked, before>>
    BY DEF Wake, progress, hostVars
  <1>3. Phases' = Phases /\ N' = N
    BY <1>2, SameTask
  <1>4. at'[t] = "woken" /\ \A s \in Threads \ {t} : at'[s] = at[s]
    BY <1>1, <1>2 DEF Typed
  <1>5. \A s \in Threads : /\ Counted(s)' <=> Counted(s)
                           /\ at'[s] = "row" <=> at[s] = "row"
                           /\ at'[s] = "arrive" <=> at[s] = "arrive"
    BY <1>2, <1>4 DEF Counted
  <1>6. Typed'
    <2>1. at' \in [Threads -> Places]
      BY <1>1, <1>2 DEF Typed, Places
    <2>2. Matrices' = Matrices
      BY <1>2, MatricesSame
    <2> QED
      BY <1>1, <1>2, <2>1, <2>2 DEF Typed
  <1>7. Barrier'
    BY <1>1, <1>2, <1>5, BarrierQuiet
  <1>8. LockInv'
    BY <1>1, <1>2, LockQuiet DEF hostVars
  <1>9. InPhase(g)'
    <2>1. ASSUME NEW s \in Threads  PROVE PlaceOf(s, g)'
      <3>1. PlaceOf(s, g)
        BY <1>0 DEF InPhase
      <3> QED
        BY <1>2, <1>3, <1>4, <1>5, <3>1 DEF PlaceOf
    <2>2. ASSUME NEW s \in Threads  PROVE RowOf(s, g)'
      <3>1. RowOf(s, g)
        BY <1>0 DEF InPhase
      <3> QED
        BY <1>2, <1>3, <1>5, <3>1 DEF RowOf
    <2>3. HostAt(g)'
      <3>1. Live' = Live
        BY <1>2, <1>4 DEF Live
      <3> QED
        BY <1>0, <1>2, <3>1, HostQuiet DEF InPhase
    <2>4. Iterates(g) => Iterates(g)'
      BY <1>2, <1>5, IteratesQuiet
    <2> QED
      BY <1>0, <1>2, <1>3, <2>1, <2>2, <2>3, <2>4 DEF InPhase
  <1> QED
    BY <1>0, <1>3, <1>6, <1>7, <1>8, <1>9 DEF TInv

LEMMA LeaveWaitKeeps ==
    ASSUME TInv, NEW t \in Threads, LeaveWait(t), UNCHANGED hostVars  PROVE TInv'
  <1>0. PICK g \in 1 .. N + 1 : InPhase(g)
    BY DEF TInv
  <1>1. Typed /\ Barrier /\ LockInv /\ N \in Nat \ {0}
    BY StyleType, AllCarry DEF TInv
  <1>2. /\ at[t] = "woken"
        /\ UNCHANGED <<build, style, numThreads, curTask, numBlocked, atomic, y, iterate>>
        /\ UNCHANGED <<host, i, locked, before>>
    BY DEF LeaveWait, progress, hostVars
  <1>3. Phases' = Phases /\ N' = N
    BY <1>2, SameTask
  <1>4. /\ at' \in [Threads -> Places] /\ phase' \in [Threads -> Nat] /\ task' \in [Threads -> Nat]
        /\ at'[t] \in {"asleep", "run", "exited"}
        /\ \A s \in Threads \ {t} : at'[s] = at[s] /\ phase'[s] = phase[s] /\ task'[s] = task[s]
    <2>1. CASE task[t] # curTask
      BY <1>1, <2>1 DEF LeaveWait, Typed, Places
    <2>2. CASE task[t] = curTask
      <3>1. /\ at' = [at EXCEPT ![t] = NextPhase(t)] /\ NextPhase(t) \in {"run", "exited"}
            /\ phase' = [phase EXCEPT ![t] = phase[t] + 1] /\ phase[t] + 1 \in Nat
            /\ task' = [task EXCEPT ![t] = 0]
        BY <1>1, <2>2 DEF LeaveWait, NextPhase, Typed
      <3>2. at \in [Threads -> Places] /\ phase \in [Threads -> Nat] /\ task \in [Threads -> Nat]
        BY <1>1 DEF Typed
      <3>3. at' \in [Threads -> Places]
        BY <3>1, <3>2 DEF Places
      <3> QED
        BY <3>1, <3>2, <3>3
    <2> QED
      BY <2>1, <2>2
  <1>5. PlaceOf(t, g)' /\ (Counted(t)' <=> Counted(t))
    <2>1. PlaceOf(t, g)
      BY <1>0 DEF InPhase
    <2>2. CASE task[t] # curTask
      <3>1. at'[t] = "asleep" /\ phase'[t] = phase[t] /\ task'[t] = task[t]
        BY <1>1, <2>2 DEF LeaveWait, Typed
      <3>2. Counted(t) /\ phase[t] = g /\ g <= N
        BY <1>2, <2>1, <2>2 DEF PlaceOf
      <3> QED
        BY <1>2, <1>3, <3>1, <3>2 DEF PlaceOf, Counted
    <2>3. CASE task[t] = curTask
      <3>1. /\ at'[t] = (IF phase[t] < N THEN "run" ELSE "exited")
            /\ phase'[t] = phase[t] + 1
        BY <1>1, <2>3 DEF LeaveWait, NextPhase, Typed, N
      <3>2. curTask + 1 # curTask
        BY <1>1 DEF Typed
      <3>3. ~Counted(t) /\ phase[t] = g - 1 /\ g > 1
        BY <1>2, <2>1, <2>3, <3>2 DEF PlaceOf, Counted
      <3>4. /\ phase[t] + 1 = g /\ phase[t] < N => g <= N
            /\ ~(phase[t] < N) => g = N + 1
        BY <1>0, <1>1, <3>3
      <3> QED
        BY <1>1, <1>3, <3>1, <3>3, <3>4 DEF PlaceOf, Counted
    <2> QED
      BY <2>2, <2>3
  <1>6. \A s \in Threads : /\ Counted(s)' <=> Counted(s)
                           /\ at'[s] = "row" <=> at[s] = "row"
                           /\ at'[s] = "arrive" <=> at[s] = "arrive"
    BY <1>2, <1>4, <1>5 DEF Counted
  <1>7. Typed'
    <2>1. Matrices' = Matrices
      BY <1>2, MatricesSame
    <2> QED
      BY <1>1, <1>2, <1>4, <2>1 DEF Typed
  <1>8. Barrier'
    BY <1>1, <1>2, <1>6, BarrierQuiet
  <1>9. LockInv'
    BY <1>1, <1>2, LockQuiet DEF hostVars
  <1>10. InPhase(g)'
    <2>1. ASSUME NEW s \in Threads  PROVE PlaceOf(s, g)'
      <3>1. PlaceOf(s, g)
        BY <1>0 DEF InPhase
      <3>2. CASE s # t
        BY <1>2, <1>3, <1>4, <1>6, <3>1, <3>2 DEF PlaceOf
      <3> QED
        BY <1>5, <3>2
    <2>2. ASSUME NEW s \in Threads  PROVE RowOf(s, g)'
      <3>1. RowOf(s, g)
        BY <1>0 DEF InPhase
      <3> QED
        BY <1>2, <1>3, <1>6, <3>1 DEF RowOf
    <2>3. HostAt(g)'
      <3>1. Live' = Live
        BY <1>2, <1>4 DEF Live
      <3> QED
        BY <1>0, <1>2, <3>1, HostQuiet DEF InPhase
    <2>4. Iterates(g) => Iterates(g)'
      BY <1>2, <1>6, IteratesQuiet
    <2> QED
      BY <1>0, <1>2, <1>3, <2>1, <2>2, <2>3, <2>4 DEF InPhase
  <1> QED
    BY <1>0, <1>3, <1>7, <1>8, <1>9, <1>10 DEF TInv

LEMMA ThreadKeeps ==
    ASSUME TInv, NEW t \in Threads, ThreadGoesOn(t) \/ Wake(t), UNCHANGED hostVars  PROVE TInv'
  BY TakeRowKeeps, EndRowKeeps, SleepKeeps, OpenKeeps, WakeKeeps, LeaveWaitKeeps DEF ThreadGoesOn
-----------------------------------------------------------------------------
(* The steps of the host. *)

\* Before the launch and after it nothing runs.
LEMMA NoLaunch ==
    ASSUME TInv, host \notin {"create", "join"} \/ Live = {}, UNCHANGED seqVars,
           host' \notin {"create", "join"}
    PROVE  Barrier' /\ \E g \in 1 .. N' + 1 : InPhase(g)'
  <1>1. Typed /\ Barrier
    BY DEF TInv
  <1>2. Phases' = Phases /\ N' = N
    BY SameTask DEF seqVars
  <1>3. N \in Nat \ {0}
    BY <1>1, StyleType, AllCarry
  <1>4. Live = {}
    BY DEF TInv, InPhase, HostAt
  <1>5. Barrier'
    BY <1>1, BarrierQuiet DEF seqVars, Counted
  <1>6. InPhase(1)'
    <2>1. ASSUME NEW s \in Threads  PROVE at'[s] = "none" /\ phase'[s] = 1
      <3>1. at[s] = "none"
        BY <1>4 DEF Live
      <3>2. \E g \in 1 .. N + 1 : PlaceOf(s, g)
        BY DEF TInv, InPhase
      <3>3. phase[s] = 1
        BY <3>1, <3>2 DEF PlaceOf, Counted
      <3> QED
        BY <3>1, <3>3 DEF seqVars
    <2>2. \A s \in Threads : PlaceOf(s, 1)' /\ RowOf(s, 1)'
      BY <2>1 DEF PlaceOf, RowOf, Counted
    <2>3. HostAt(1)'
      <3>1. Live' = {}
        BY <2>1 DEF Live
      <3> QED
        BY <3>1 DEF HostAt
    <2> QED
      BY <2>2, <2>3 DEF InPhase
  <1>7. 1 \in 1 .. N' + 1
    BY <1>2, <1>3
  <1> QED
    BY <1>5, <1>6, <1>7

LEMMA Counts ==
    ASSUME Typed
    PROVE  Inputs \in Nat \ {0} /\ Outputs \in Nat \ {0}
  <1>1. Inputs \in {2 * FluidCount + 3, FluidCount + 2, 1, 2}
    BY DEF Inputs
  <1>2. Outputs \in {FluidCount, 1}
    BY DEF Outputs
  <1> QED
    BY <1>1, <1>2, TaskConstants

\* The list of the matrices is locked in its order.
LEMMA LockStep ==
    ASSUME TInv, Begin \/ LockInput \/ LockOutput  PROVE Typed' /\ LockInv'
  <1>1. Typed /\ LockInv /\ Inputs \in Nat \ {0} /\ Outputs \in Nat \ {0} /\ i \in Nat
    BY Counts DEF TInv, Typed
  <1>2. UNCHANGED seqVars
    BY DEF Begin, LockInput, LockOutput
  <1>3. Matrices' = Matrices /\ Inputs' = Inputs /\ Outputs' = Outputs
    BY <1>2 DEF seqVars, Matrices, Inputs, Outputs, Swirl, Input, Output
  <1>4. CASE Begin
    <2>1. Typed'
      BY <1>1, <1>2, <1>3, <1>4 DEF Typed, Begin, seqVars
    <2>2. LockInv'
      BY <1>1, <1>3, <1>4 DEF LockInv, Begin
    <2> QED
      BY <2>1, <2>2
  <1>5. CASE LockInput
    <2>1. /\ i < Inputs /\ host = "inputs" /\ before' = before
          /\ locked' = locked \cup {Input(i)}
          /\ i' = IF i + 1 = Inputs THEN 0 ELSE i + 1
          /\ host' = IF i + 1 = Inputs THEN "outputs" ELSE "inputs"
      BY <1>5 DEF LockInput
    <2>2. Input(i) \in Matrices
      BY <1>1, <2>1 DEF Matrices
    <2>3. Typed'
      BY <1>1, <1>2, <1>3, <2>1, <2>2 DEF Typed, seqVars
    <2>4. \A n \in 0 .. i : Input(n) \in locked'
      BY <1>1, <2>1 DEF LockInv
    <2>5. LockInv'
      <3>1. CASE i + 1 = Inputs
        <4>1. i' = 0 /\ host' = "outputs" /\ Inputs - 1 = i
          BY <1>1, <2>1, <3>1
        <4> QED
          BY <1>1, <1>3, <2>1, <2>4, <4>1 DEF LockInv
      <3>2. CASE i + 1 # Inputs
        <4>1. i' = i + 1 /\ host' = "inputs" /\ i + 1 < Inputs /\ (i + 1) - 1 = i
          BY <1>1, <2>1, <3>2
        <4> QED
          BY <1>1, <1>3, <2>1, <2>4, <4>1 DEF LockInv
      <3> QED
        BY <3>1, <3>2
    <2> QED
      BY <2>3, <2>5
  <1>6. CASE LockOutput
    <2>1. /\ i < Outputs /\ host = "outputs" /\ before' = before
          /\ locked' = locked \cup {Output(i)}
          /\ i' = IF i + 1 = Outputs THEN 0 ELSE i + 1
          /\ host' = IF i + 1 = Outputs THEN "configure" ELSE "outputs"
      BY <1>6 DEF LockOutput
    <2>2. Output(i) \in Matrices
      BY <1>1, <2>1 DEF Matrices
    <2>3. Typed'
      BY <1>1, <1>2, <1>3, <2>1, <2>2 DEF Typed, seqVars
    <2>4. /\ \A n \in 0 .. Inputs - 1 : Input(n) \in locked'
          /\ \A n \in 0 .. i : Output(n) \in locked'
      BY <1>1, <2>1 DEF LockInv
    <2>5. LockInv'
      <3>1. CASE i + 1 = Outputs
        <4>1. i' = 0 /\ host' = "configure" /\ Outputs - 1 = i
          BY <1>1, <2>1, <3>1
        <4>2. Matrices \subseteq locked'
          BY <2>4, <4>1 DEF Matrices
        <4> QED
          BY <1>1, <1>3, <2>1, <4>1, <4>2 DEF LockInv
      <3>2. CASE i + 1 # Outputs
        <4>1. i' = i + 1 /\ host' = "outputs" /\ i + 1 < Outputs /\ (i + 1) - 1 = i
          BY <1>1, <2>1, <3>2
        <4> QED
          BY <1>1, <1>3, <2>1, <2>4, <4>1 DEF LockInv
      <3> QED
        BY <3>1, <3>2
    <2> QED
      BY <2>3, <2>5
  <1> QED
    BY <1>4, <1>5, <1>6

\* A call that refuses a matrix, or ends, puts locks back.
LEMMA UnlockStep ==
    ASSUME TInv, RefuseInput \/ RefuseOutput \/ RefuseFetched \/ UnlockAll
    PROVE  Typed' /\ LockInv'
  <1>1. Typed /\ i \in Nat /\ Inputs \in Nat \ {0} /\ Outputs \in Nat \ {0}
    BY Counts DEF TInv, Typed
  <1>2. UNCHANGED <<seqVars, before>> /\ host' = "idle" /\ i' = 0
    BY DEF RefuseInput, RefuseOutput, RefuseFetched, UnlockAll
  <1>3. Matrices' = Matrices
    BY <1>2, MatricesSame DEF seqVars
  <1>4. locked' \subseteq Matrices
    <2>1. CASE RefuseInput
      <3>1. Input(i) \in Matrices
        BY <1>1, <2>1 DEF TInv, LockInv, RefuseInput, Matrices
      <3>2. PICK lock \in {{}, {Input(i)}} : locked' \subseteq locked \cup lock
        BY <2>1 DEF RefuseInput
      <3> QED
        BY <1>1, <3>1, <3>2 DEF Typed
    <2>2. CASE RefuseOutput
      <3>1. Output(i) \in Matrices
        BY <1>1, <2>2 DEF TInv, LockInv, RefuseOutput, Matrices
      <3>2. PICK lock \in {{}, {Output(i)}} : locked' \subseteq locked \cup lock
        BY <2>2 DEF RefuseOutput
      <3> QED
        BY <1>1, <3>1, <3>2 DEF Typed
    <2>3. CASE UnlockAll
      BY <1>1, <2>3 DEF UnlockAll, Typed
    <2>4. CASE RefuseFetched
      <3>1. /\ host = "inputs" => Input(i) \in Matrices
            /\ host = "outputs" => Output(i) \in Matrices
        BY <1>1, <2>4 DEF TInv, LockInv, RefuseFetched, Matrices
      <3> QED
        BY <1>1, <2>4, <3>1 DEF RefuseFetched, Typed
    <2> QED
      BY <2>1, <2>2, <2>3, <2>4
  <1>5. Typed'
    BY <1>1, <1>2, <1>3, <1>4 DEF Typed, seqVars
  <1>6. LockInv'
    BY <1>2 DEF LockInv
  <1> QED
    BY <1>5, <1>6

LEMMA LaunchKeeps == ASSUME TInv, Launch  PROVE TInv'
  <1>1. Typed /\ Barrier /\ LockInv
    BY DEF TInv
  <1>2. PICK n \in 1 .. Cardinality(Threads), s \in Styles : Configure(n, s)
    BY DEF Launch
  <1>3. /\ host = "configure" /\ host' = "create" /\ UNCHANGED <<i, locked, before>>
        /\ numThreads' = n /\ style' = s /\ atomic' = 0 /\ iterate' = NotComputed
        /\ UNCHANGED <<build, curTask, numBlocked, at, phase, y, task>>
    BY <1>2 DEF Launch, Configure
  <1>4. Live = {} /\ \A t \in Threads : at[t] = "none" /\ phase[t] = 1
    <2>1. Live = {}
      BY <1>3 DEF TInv, InPhase, HostAt
    <2>2. \A t \in Threads : at[t] = "none"
      BY <2>1 DEF Live
    <2>3. PICK g \in 1 .. N + 1 : \A t \in Threads : PlaceOf(t, g)
      BY DEF TInv, InPhase
    <2> QED
      BY <2>1, <2>2, <2>3 DEF PlaceOf, Counted
  <1>5. Matrices' = Matrices
    BY <1>3, MatricesSame
  <1>6. Typed'
    <2>1. iterate' \in [Computed -> [Rows -> Nat]]
      BY <1>3 DEF NotComputed
    <2> QED
      BY <1>1, <1>3, <1>5, <2>1 DEF Typed
  <1>7. Barrier'
    <2>1. Waiting = {} /\ Waiting' = {}
      BY <1>3, <1>4 DEF Waiting, Counted
    <2>2. numBlocked = 0
      BY <1>1, <2>1, FS_EmptySet DEF Barrier
    <2> QED
      BY <1>3, <2>1, <2>2, FS_EmptySet DEF Barrier
  <1>8. LockInv'
    BY <1>1, <1>3, <1>5 DEF LockInv
  <1>9. N' \in Nat \ {0} /\ \A x \in Computed : Held(x, 1)' = 0
    <2>1. style' \in Nat \ {0} /\ build' \in Builds
      BY <1>1, <1>3, TaskConstants DEF Typed
    <2>2. (build \in Builds /\ style \in Nat \ {0} =>
              N \in Nat \ {0} /\ \A x \in Computed : Held(x, 1) = 0)'
      BY AllCarry, PTL
    <2> QED
      BY <2>1, <2>2
  <1>10. InPhase(1)'
    <2>1. \A t \in Threads : PlaceOf(t, 1)' /\ RowOf(t, 1)'
      BY <1>3, <1>4 DEF PlaceOf, RowOf, Counted
    <2>2. HostAt(1)'
      <3>1. Live' = {} /\ Cardinality({}) = 0
        BY <1>3, <1>4, FS_EmptySet DEF Live
      <3>2. i' = 0 /\ numThreads' \in Nat
        BY <1>1, <1>3, TaskConstants DEF LockInv
      <3> QED
        BY <1>3, <3>1, <3>2 DEF HostAt
    <2>3. Iterates(1)'
      <3>1. ASSUME NEW x \in Computed, NEW r \in Rows
            PROVE  iterate'[x][r] = Held(x, 1)' /\ ~Done(Phases[1], r)'
        <4>1. iterate'[x][r] = 0
          BY <1>3 DEF NotComputed
        <4>2. Number(Phases[1], r)' \in Nat
          BY TaskConstants DEF Number, Rows
        <4> QED
          BY <1>3, <1>9, <4>1, <4>2 DEF Done
      <3> QED
        BY <3>1 DEF Iterates
    <2> QED
      BY <2>1, <2>2, <2>3 DEF InPhase
  <1>11. 1 \in 1 .. N' + 1
    <2> DEFINE m == N'
    <2>1. m \in Nat \ {0}
      BY <1>9
    <2> HIDE DEF m
    <2>2. 1 \in 1 .. m + 1
      BY <2>1
    <2> QED
      BY <2>2 DEF m
  <1> QED
    BY <1>6, <1>7, <1>8, <1>10, <1>11 DEF TInv

LEMMA CreateKeeps == ASSUME TInv, CreateThread  PROVE TInv'
  <1>0. PICK g \in 1 .. N + 1 : InPhase(g)
    BY DEF TInv
  <1>1. Typed /\ Barrier /\ LockInv /\ N \in Nat \ {0}
    BY StyleType, AllCarry DEF TInv
  <1>2. PICK t \in Threads : at[t] = "none" /\ Create(t)
    BY DEF CreateThread
  <1>3. /\ host = "create" /\ i < numThreads /\ i' = i + 1 /\ UNCHANGED <<host, locked, before>>
        /\ at' = [at EXCEPT ![t] = "run"]
        /\ UNCHANGED <<build, style, numThreads, curTask, numBlocked, atomic, phase, y, task, iterate>>
    BY <1>2 DEF CreateThread, Create, progress
  <1>4. Phases' = Phases /\ N' = N
    BY <1>3, SameTask
  <1>5. at'[t] = "run" /\ \A s \in Threads \ {t} : at'[s] = at[s]
    BY <1>1, <1>3 DEF Typed
  <1>6. \A s \in Threads : /\ Counted(s)' <=> Counted(s)
                           /\ at'[s] = "row" <=> at[s] = "row"
                           /\ at'[s] = "arrive" <=> at[s] = "arrive"
    BY <1>2, <1>3, <1>5 DEF Counted
  <1>7. g = 1 /\ i \in Nat /\ numThreads \in Nat
    BY <1>0, <1>1, <1>3, TaskConstants DEF InPhase, HostAt, Typed
  <1>8. Typed'
    <2>1. at' \in [Threads -> Places]
      BY <1>1, <1>3 DEF Typed, Places
    <2>2. Matrices' = Matrices
      BY <1>3, MatricesSame
    <2> QED
      BY <1>1, <1>3, <1>7, <2>1, <2>2 DEF Typed
  <1>9. Barrier'
    BY <1>1, <1>3, <1>6, BarrierQuiet
  <1>10. LockInv'
    <2>1. Matrices' = Matrices
      BY <1>3, MatricesSame
    <2> QED
      BY <1>1, <1>3, <2>1 DEF LockInv
  <1>11. InPhase(g)'
    <2>1. ASSUME NEW s \in Threads  PROVE PlaceOf(s, g)'
      <3>1. PlaceOf(s, g)
        BY <1>0 DEF InPhase
      <3>2. CASE s # t
        BY <1>3, <1>4, <1>5, <1>6, <3>1, <3>2 DEF PlaceOf
      <3>3. CASE s = t
        <4>1. phase[t] = 1
          BY <1>2, <3>1, <3>3 DEF PlaceOf, Counted
        <4>2. g <= N
          BY <1>1, <1>7
        <4> QED
          BY <1>3, <1>4, <1>5, <1>7, <3>3, <4>1, <4>2 DEF PlaceOf
      <3> QED
        BY <3>2, <3>3
    <2>2. ASSUME NEW s \in Threads  PROVE RowOf(s, g)'
      <3>1. RowOf(s, g)
        BY <1>0 DEF InPhase
      <3> QED
        BY <1>3, <1>4, <1>6, <3>1 DEF RowOf
    <2>3. HostAt(g)'
      <3>1. Live' = Live \cup {t} /\ t \notin Live
        BY <1>2, <1>5 DEF Live
      <3>2. IsFiniteSet(Live)
        <4>1. Live \subseteq Threads
          BY DEF Live
        <4> QED
          BY <4>1, TaskConstants, FS_Subset
      <3>3. Cardinality(Live') = Cardinality(Live) + 1 /\ Cardinality(Live) = i
        BY <1>0, <1>3, <3>1, <3>2, FS_AddElement DEF InPhase, HostAt
      <3> QED
        BY <1>3, <1>4, <1>7, <3>3 DEF HostAt
    <2>4. Iterates(g) => Iterates(g)'
      BY <1>3, <1>6, IteratesQuiet
    <2> QED
      BY <1>0, <1>3, <1>4, <2>1, <2>2, <2>3, <2>4 DEF InPhase
  <1> QED
    BY <1>0, <1>4, <1>8, <1>9, <1>10, <1>11 DEF TInv

LEMMA AllCreatedKeeps == ASSUME TInv, AllCreated  PROVE TInv'
  <1>0. PICK g \in 1 .. N + 1 : InPhase(g)
    BY DEF TInv
  <1>1. Typed /\ Barrier /\ LockInv
    BY DEF TInv
  <1>2. /\ host = "create" /\ i = numThreads /\ host' = "join" /\ i' = 0
        /\ UNCHANGED <<locked, before>>
        /\ UNCHANGED <<build, style, numThreads, curTask, numBlocked, atomic, at, phase, y, task, iterate>>
    BY DEF AllCreated, seqVars
  <1>3. Phases' = Phases /\ N' = N /\ Matrices' = Matrices
    BY <1>2, SameTask, MatricesSame
  <1>4. Typed'
    BY <1>1, <1>2, <1>3 DEF Typed
  <1>5. Barrier'
    BY <1>1, <1>2, BarrierQuiet DEF Counted
  <1>6. LockInv'
    BY <1>1, <1>2, <1>3 DEF LockInv
  <1>7. InPhase(g)'
    <2>1. \A s \in Threads : PlaceOf(s, g)' /\ RowOf(s, g)'
      BY <1>0, <1>2, <1>3 DEF InPhase, PlaceOf, RowOf, Counted
    <2>2. HostAt(g)'
      <3>1. Live' = Live /\ Cardinality(Live) = numThreads /\ numThreads \in Nat
        BY <1>0, <1>1, <1>2, TaskConstants DEF Live, InPhase, HostAt, Typed
      <3> QED
        BY <1>2, <3>1 DEF HostAt
    <2>3. Iterates(g) => Iterates(g)'
      BY <1>2, IteratesQuiet
    <2> QED
      BY <1>0, <1>2, <1>3, <2>1, <2>2, <2>3 DEF InPhase
  <1> QED
    BY <1>0, <1>3, <1>4, <1>5, <1>6, <1>7 DEF TInv

LEMMA JoinKeeps == ASSUME TInv, JoinThread  PROVE TInv'
  <1>0. PICK g \in 1 .. N + 1 : InPhase(g)
    BY DEF TInv
  <1>1. Typed /\ Barrier /\ LockInv
    BY DEF TInv
  <1>2. PICK t \in Threads : Join(t)
    BY DEF JoinThread
  <1>3. /\ host = "join" /\ i < numThreads /\ i' = i + 1 /\ UNCHANGED <<host, locked, before>>
        /\ at[t] = "exited"
        /\ at' = [at EXCEPT ![t] = "none"] /\ phase' = [phase EXCEPT ![t] = 1]
        /\ UNCHANGED <<build, style, numThreads, curTask, numBlocked, atomic, y, task, iterate>>
    BY <1>2 DEF JoinThread, Join, progress
  <1>4. Phases' = Phases /\ N' = N
    BY <1>3, SameTask
  <1>5. /\ at'[t] = "none" /\ phase'[t] = 1
        /\ \A s \in Threads \ {t} : at'[s] = at[s] /\ phase'[s] = phase[s]
    BY <1>1, <1>3 DEF Typed
  <1>6. \A s \in Threads : /\ Counted(s)' <=> Counted(s)
                           /\ at'[s] = "row" <=> at[s] = "row"
                           /\ at'[s] = "arrive" <=> at[s] = "arrive"
    BY <1>3, <1>5 DEF Counted
  <1>7. g = N + 1 /\ i \in Nat /\ numThreads \in Nat
    <2>1. PlaceOf(t, g)
      BY <1>0 DEF InPhase
    <2> QED
      BY <1>1, <1>3, <2>1, TaskConstants DEF PlaceOf, Counted, Typed
  <1>8. Typed'
    <2>1. at' \in [Threads -> Places] /\ phase' \in [Threads -> Nat]
      BY <1>1, <1>3 DEF Typed, Places
    <2>2. Matrices' = Matrices
      BY <1>3, MatricesSame
    <2> QED
      BY <1>1, <1>3, <1>7, <2>1, <2>2 DEF Typed
  <1>9. Barrier'
    BY <1>1, <1>3, <1>6, BarrierQuiet
  <1>10. LockInv'
    <2>1. Matrices' = Matrices
      BY <1>3, MatricesSame
    <2> QED
      BY <1>1, <1>3, <2>1 DEF LockInv
  <1>11. InPhase(g)'
    <2>1. ASSUME NEW s \in Threads  PROVE PlaceOf(s, g)'
      <3>1. PlaceOf(s, g)
        BY <1>0 DEF InPhase
      <3>2. CASE s # t
        BY <1>3, <1>4, <1>5, <1>6, <3>1, <3>2 DEF PlaceOf
      <3>3. CASE s = t
        BY <1>5, <3>3 DEF PlaceOf
      <3> QED
        BY <3>2, <3>3
    <2>2. ASSUME NEW s \in Threads  PROVE RowOf(s, g)'
      <3>1. RowOf(s, g)
        BY <1>0 DEF InPhase
      <3> QED
        BY <1>3, <1>4, <1>6, <3>1 DEF RowOf
    <2>3. HostAt(g)'
      <3>1. Live' = Live \ {t} /\ t \in Live
        BY <1>3, <1>5 DEF Live
      <3>2. IsFiniteSet(Live)
        <4>1. Live \subseteq Threads
          BY DEF Live
        <4> QED
          BY <4>1, TaskConstants, FS_Subset
      <3>3. Cardinality(Live') = Cardinality(Live) - 1 /\ Cardinality(Live) = numThreads - i
        BY <1>0, <1>3, <3>1, <3>2, FS_RemoveElement DEF InPhase, HostAt
      <3> QED
        BY <1>3, <1>4, <1>7, <3>3 DEF HostAt
    <2>4. Iterates(g) => Iterates(g)'
      BY <1>3, <1>6, IteratesQuiet
    <2> QED
      BY <1>0, <1>3, <1>4, <2>1, <2>2, <2>3, <2>4 DEF InPhase
  <1> QED
    BY <1>0, <1>4, <1>8, <1>9, <1>10, <1>11 DEF TInv

LEMMA AllLeft == ASSUME TInv, host = "join", AllJoined  PROVE Live = {}
  <1>1. Cardinality(Live) = numThreads - i /\ numThreads \in Nat /\ i = numThreads
    BY TaskConstants DEF TInv, InPhase, HostAt, Typed, AllJoined
  <1>2. IsFiniteSet(Live)
    <2>1. Live \subseteq Threads
      BY DEF Live
    <2> QED
      BY <2>1, TaskConstants, FS_Subset
  <1> QED
    BY <1>1, <1>2, FS_EmptySet

LEMMA NextKeeps == ASSUME TInv, [Next]_vars  PROVE TInv'
  <1>1. CASE Begin \/ LockInput \/ LockOutput
    <2>1. host \notin {"create", "join"} /\ host' \notin {"create", "join"} /\ UNCHANGED seqVars
      BY <1>1 DEF Begin, LockInput, LockOutput
    <2> QED
      BY <1>1, <2>1, LockStep, NoLaunch DEF TInv
  <1>2. CASE RefuseInput \/ RefuseOutput \/ RefuseFetched \/ UnlockAll
    <2>1. /\ host \notin {"create", "join"} \/ Live = {}
          /\ host' \notin {"create", "join"} /\ UNCHANGED seqVars
      BY <1>2, AllLeft DEF RefuseInput, RefuseOutput, RefuseFetched, UnlockAll
    <2> QED
      BY <1>2, <2>1, UnlockStep, NoLaunch DEF TInv
  <1>3. CASE UnlockUnset
    <2>1. /\ host \in {"inputs", "outputs"} /\ host' = "undefined"
          /\ UNCHANGED seqVars /\ UNCHANGED <<i, locked, before>>
      BY <1>3 DEF UnlockUnset
    <2>2. Matrices' = Matrices
      BY <2>1, MatricesSame DEF seqVars
    <2>3. Typed'
      BY <2>1, <2>2 DEF TInv, Typed, seqVars
    <2>4. LockInv'
      BY <2>1 DEF TInv, LockInv
    <2> QED
      BY <2>1, <2>3, <2>4, NoLaunch DEF TInv
  <1>4. CASE Launch \/ CreateThread \/ AllCreated \/ JoinThread
    BY <1>4, LaunchKeeps, CreateKeeps, AllCreatedKeeps, JoinKeeps
  <1>5. CASE \E t \in Threads : (ThreadGoesOn(t) \/ Wake(t)) /\ UNCHANGED hostVars
    BY <1>5, ThreadKeeps
  <1>6. CASE UNCHANGED vars
    <2>1. UNCHANGED seqVars /\ UNCHANGED hostVars
      BY <1>6 DEF vars
    <2>2. Phases' = Phases /\ N' = N /\ Matrices' = Matrices
      BY <2>1, SameTask, MatricesSame DEF seqVars
    <2>3. Typed' /\ Barrier' /\ LockInv'
      BY <2>1, <2>2, BarrierQuiet, LockQuiet DEF TInv, Typed, seqVars, hostVars, Counted
    <2>4. ASSUME NEW g, InPhase(g)  PROVE InPhase(g)'
      <3>1. \A s \in Threads : PlaceOf(s, g)' /\ RowOf(s, g)'
        BY <2>1, <2>2, <2>4 DEF InPhase, PlaceOf, RowOf, Counted, seqVars
      <3>2. HostAt(g)'
        BY <2>1, <2>4, HostQuiet DEF InPhase, Live, seqVars, hostVars
      <3>3. Iterates(g) => Iterates(g)'
        BY <2>1, IteratesQuiet DEF seqVars
      <3> QED
        BY <2>1, <2>2, <2>4, <3>1, <3>2, <3>3 DEF InPhase, hostVars
    <2> QED
      BY <2>2, <2>3, <2>4 DEF TInv
  <1> QED
    BY <1>1, <1>2, <1>3, <1>4, <1>5, <1>6 DEF Next, Return
-----------------------------------------------------------------------------
(* The theorems. *)

LEMMA InitHolds == Init => TInv
  <1> SUFFICES ASSUME Init  PROVE TInv
    OBVIOUS
  <1>1. Cardinality(Threads) \in Nat /\ 1 \in 1 .. Cardinality(Threads)
    <2>1. Cardinality(Threads) # 0
      BY TaskConstants, FS_EmptySet
    <2> QED
      BY <2>1, TaskConstants
  <1>2. /\ build \in Builds /\ style = 1 /\ numThreads = 1 /\ curTask = 0 /\ numBlocked = 0
        /\ atomic = 0 /\ at = [t \in Threads |-> "none"] /\ phase = [t \in Threads |-> 1]
        /\ y = [t \in Threads |-> NoRow] /\ task = [t \in Threads |-> 0]
        /\ iterate = NotComputed
        /\ host = "idle" /\ i = 0 /\ locked = {} /\ before = {}
    BY DEF Init, SeqInit
  <1>3. Typed
    <2>1. iterate \in [Computed -> [Rows -> Nat]]
      BY <1>2 DEF NotComputed
    <2>2. /\ at \in [Threads -> Places] /\ phase \in [Threads -> Nat]
          /\ y \in [Threads -> Nat] /\ task \in [Threads -> Nat]
      BY <1>2 DEF Places, NoRow
    <2> QED
      BY <1>1, <1>2, <2>1, <2>2 DEF Typed
  <1>4. Barrier
    <2>1. Waiting = {}
      BY <1>2 DEF Waiting, Counted
    <2> QED
      BY <1>2, <2>1, FS_EmptySet DEF Barrier
  <1>5. LockInv
    BY <1>2 DEF LockInv
  <1>6. N \in Nat \ {0}
    BY <1>3, StyleType, AllCarry
  <1>7. InPhase(1)
    <2>1. \A t \in Threads : PlaceOf(t, 1) /\ RowOf(t, 1)
      BY <1>2 DEF PlaceOf, RowOf, Counted
    <2>2. HostAt(1)
      BY <1>2 DEF HostAt, Live
    <2> QED
      BY <1>2, <2>1, <2>2 DEF InPhase
  <1>8. 1 \in 1 .. N + 1
    BY <1>6
  <1> QED
    BY <1>3, <1>4, <1>5, <1>7, <1>8 DEF TInv

\* TInv holds in every state that the host and the threads of its task can be in.
THEOREM TaskInvariant == Spec => []TInv
  BY InitHolds, NextKeeps, PTL DEF Spec

\* The counters of waitForTask and of launch stay in their ranges.
THEOREM TaskTyping == Spec => []TypeOK
  <1>1. TInv => TypeOK
    <2> SUFFICES ASSUME TInv  PROVE TypeOK
      OBVIOUS
    <2>1. Typed /\ Barrier /\ N \in Nat \ {0}
      BY StyleType, AllCarry DEF TInv
    <2>2. PICK g \in 1 .. N + 1 : InPhase(g)
      BY DEF TInv
    <2>3. phase \in [Threads -> 1 .. Len(Phases) + 1]
      <3>1. ASSUME NEW t \in Threads  PROVE phase[t] \in 1 .. N + 1
        <4>1. PlaceOf(t, g)
          BY <2>2 DEF InPhase
        <4>2. phase[t] \in {1, g} \/ (phase[t] = g - 1 /\ g > 1)
          BY <4>1 DEF PlaceOf
        <4> QED
          BY <2>1, <2>2, <4>2
      <3> QED
        BY <2>1, <3>1 DEF Typed, N
    <2>4. numBlocked \in 0 .. numThreads - 1
      <3>1. IsFiniteSet(Waiting)
        <4>1. Waiting \subseteq Threads
          BY DEF Waiting
        <4> QED
          BY <4>1, TaskConstants, FS_Subset
      <3>2. Cardinality(Waiting) \in Nat
        BY <3>1, FS_CardinalityType
      <3> QED
        BY <2>1, <3>2, TaskConstants DEF Barrier, Typed
    <2> QED
      BY <2>1, <2>3, <2>4 DEF Typed, TypeOK, Places
  <1> QED
    BY TaskInvariant, <1>1, PTL

\* No row is computed while another thread writes what it reads or writes.
THEOREM NoRowRaces == Spec => []NoRace
  <1>1. TInv => NoRace
    <2> SUFFICES ASSUME TInv, NEW s \in Working, NEW t \in Working, s # t
                 PROVE  Writes(Phases[phase[s]], y[s])
                          \cap (Writes(Phases[phase[t]], y[t]) \cup Reads(Phases[phase[t]], y[t])) = {}
      BY DEF NoRace
    <2>1. PICK g \in 1 .. N + 1 : InPhase(g)
      BY DEF TInv
    <2> DEFINE p == Phases[g]
    <2>2. /\ s \in Threads /\ t \in Threads /\ at[s] = "row" /\ at[t] = "row"
      BY DEF Working
    <2>3. Phases[phase[s]] = p /\ Phases[phase[t]] = p /\ Carries(p, g)
      BY <2>1, <2>2, Running DEF TInv
    <2>4. /\ y[s] # y[t] /\ p.kind # "none" /\ y[s] < p.n /\ y[t] < p.n
          /\ y[s] \in Nat /\ y[t] \in Nat
      BY <2>1, <2>2 DEF InPhase, RowOf, TInv, Typed
    <2> HIDE DEF p
    <2>5. p.kind = "rows"
      BY <2>3, <2>4 DEF Carries
    <2>6. p.dst \cap (p.near \cup p.any) = {}
      BY <2>3, <2>5 DEF Carries
    <2>7. Writes(p, y[s]) \cap (Writes(p, y[t]) \cup Reads(p, y[t])) = {}
      BY <2>4, <2>5, <2>6 DEF Writes, Reads
    <2> QED
      BY <2>3, <2>7
  <1> QED
    BY TaskInvariant, <1>1, PTL

\* When all threads are joined every row of the output comes from the iterate that was asked
\* for, computed once: with matrices at least as wide as high, whose rows the phases that
\* count them with the width (FSCPUQuickAdvection.m:103, 272) reach all.
THEOREM AllRowsComputed ==
    ASSUME Width >= Height
    PROVE  Spec => []OutputComplete
  <1>1. TInv => OutputComplete
    <2> SUFFICES ASSUME TInv, host = "join", AllJoined, NEW r \in Rows
                 PROVE  iterate["out"][r] = Asked
      BY DEF OutputComplete
    <2>1. PICK g \in 1 .. N + 1 : InPhase(g)
      BY DEF TInv
    <2>2. i > 0 /\ g = N + 1 /\ N \in Nat
      BY <2>1, TaskConstants, StyleType, AllCarry DEF TInv, Typed, InPhase, HostAt, AllJoined
    <2>3. iterate["out"][r] = Held("out", g)
      <3>1. Iterates(g) /\ ~(g <= N)
        BY <2>1, <2>2 DEF InPhase
      <3> QED
        BY <3>1 DEF Iterates, Computed
    <2> QED
      BY <2>2, <2>3, StyleType, AllCarry DEF TInv
  <1> QED
    BY TaskInvariant, <1>1, PTL

\* The threads run only while the matrices they were given are locked.
THEOREM LocksCoverThreads == Spec => []LockedWhileRunning
  <1>1. TInv => LockedWhileRunning
    <2> SUFFICES ASSUME TInv, NEW t \in Threads, at[t] # "none"
                 PROVE  host \in {"create", "join"} /\ Matrices \subseteq locked
      BY DEF LockedWhileRunning
    <2>1. host \in {"create", "join"}
      BY DEF TInv, InPhase, HostAt, Live
    <2> QED
      BY <2>1 DEF TInv, LockInv
  <1> QED
    BY TaskInvariant, <1>1, PTL

\* A call that goes through leaves the locks as it found them, except in the build that
\* unlocks fewer inputs than it locks.
THEOREM LocksPutBack == Spec => LocksRestored
  <1>1. TInv /\ [Next]_vars =>
          [(host = "join" /\ host' = "idle" /\ build # "MCCORMACK") => locked' = before]_vars
    <2> SUFFICES ASSUME TInv, [Next]_vars, host = "join", host' = "idle", build # "MCCORMACK"
                 PROVE  locked' = before
      OBVIOUS
    <2>1. UnlockAll
      BY DEF Next, Return, Begin, LockInput, LockOutput, Launch, CreateThread, AllCreated, JoinThread,
         RefuseInput, RefuseOutput, RefuseFetched, UnlockUnset, UnlockAll, vars, hostVars
    <2>2. Unlocks \cup {Output(n) : n \in 0 .. Outputs - 1} = Matrices
      BY DEF Unlocks, Matrices
    <2>3. locked \subseteq Matrices /\ before \subseteq locked
      BY DEF TInv, Typed, LockInv
    <2>4. locked' = {x \in locked : x \in before \/ x \notin Matrices}
      BY <2>1, <2>2 DEF UnlockAll
    <2> QED
      BY <2>3, <2>4
  <1> QED
    BY TaskInvariant, <1>1, PTL DEF Spec, LocksRestored
=============================================================================
