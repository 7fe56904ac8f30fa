----------------------------- MODULE TaskPhases -----------------------------
(***************************************************************************)
(* What the threads of one JITTask do, by build: JITTask.m is compiled     *)
(* once for each of the externals of jit.tml.fluid.  A task is a sequence  *)
(* of phases that end in waitForTask.  In a phase every thread takes rows  *)
(* from the shared counter until none is left ("rows"), or the first to    *)
(* take a number does it all ("once"), or nothing is done ("none").        *)
(*                                                                         *)
(* A phase names the fields whose rows next to row y it reads (near), the  *)
(* ones it reads anywhere (any) or at y only (own), the ones it writes     *)
(* (dst), and the one whose iterate it carries on (from).  A pixel of a    *)
(* row is next to the first and the last of it, all in the same row, so    *)
(* columns play no part.                                                   *)
(***************************************************************************)
EXTENDS Integers, Sequences

CONSTANTS Width, Height     \* of the matrices

ASSUME SizeAssumption == Width \in Nat \ {0} /\ Height \in Nat \ {0}

Rows == 0 .. Height - 1
Builds == {"ADVECTION", "REPOS", "GENREPOS", "MCCORMACK", "PRESSURE", "VISCOCITY", "BLEND"}

\* The matrices a task gets (sInputs, sOutputs), and its own buffers.
Fields == {"velocity", "collision", "in", "advected", "out", "buffer0", "buffer1"}

\* The ones a task writes.
Computed == {"out", "buffer0", "buffer1"}

\* Rows that wrap around the edges: (y+1)%height and (y+height-1)%height.
Near(y) == {y, (y + 1) % Height, (y + Height - 1) % Height}

Reads(p, y) == (p.near \X Near(y)) \cup (p.any \X Rows) \cup (p.own \X {y})

Writes(p, y) == p.dst \X (IF p.kind = "once" THEN Rows ELSE {y})

Phase(kind, n) ==
    [kind |-> kind, n |-> n, near |-> {}, any |-> {}, own |-> {}, dst |-> {}, from |-> "in"]

\* A waitForTask with nothing before it.
JustWait == Phase("none", 0)
-----------------------------------------------------------------------------
\* FSCPU_Advection_Backward and its variants, which differ in how they wrap.
Advection ==
    [Phase("rows", Height) EXCEPT !.own = {"velocity", "collision"}, !.any = {"in"}, !.dst = {"out"}]

\* FSCPU_Advection_MacCormack.
MacCormack ==
    [Phase("rows", Height) EXCEPT
        !.own = {"velocity", "collision"}, !.any = {"in", "advected"}, !.dst = {"out"}]

\* FSCPUQuickAdvection_Repos counts its rows with the width of the matrix.
Repos ==
    [Phase("rows", Width) EXCEPT !.own = {"velocity"}, !.any = {"in", "collision"}, !.dst = {"out"}]

\* FSCPUQuickAdvection_GenRepos: the velocities and positions one step back ...
StepBack ==
    [Phase("rows", Height) EXCEPT !.any = {"velocity"}, !.dst = {"buffer0", "buffer1"}]

\* ... and, rows counted with the width, the correction.
StepForth ==
    [Phase("rows", Width) EXCEPT
        !.own = {"velocity"}, !.any = {"buffer0", "buffer1"}, !.dst = {"out"}, !.from = "buffer0"]

\* One iteration of FSCPU_JacobiPressure: p1 from p2.
JacobiPressure(p1, p2) ==
    [Phase("rows", Height) EXCEPT !.near = {p2, "out", "collision"}, !.dst = {p1}, !.from = p2]

\* Its last loop, which takes the gradient of p2 off the velocity.
ApplyPressure(p2) ==
    [Phase("rows", Height) EXCEPT !.near = {p2}, !.own = {"out"}, !.dst = {"out"}, !.from = p2]

\* One iteration of FSCPU_JacobiDiffusion: v1 from v2.
JacobiDiffusion(v1, v2) ==
    [Phase("rows", Height) EXCEPT !.near = {v2, "collision"}, !.dst = {v1}, !.from = v2]

Blend == [Phase("rows", Height) EXCEPT !.own = {"in", "collision"}, !.dst = {"out"}]

\* The first thread (re)allocates and clears the buffers; "out" is a copy of the input.
Prepare(fields) == [Phase("once", 1) EXCEPT !.own = {"in"}, !.dst = fields]

\* The two buffers change roles after every iteration.
Buffer(k) == IF k % 2 = 0 THEN "buffer0" ELSE "buffer1"

PressureLoop(n) == [k \in 1 .. n |-> JacobiPressure(Buffer(k - 1), Buffer(k))]

DiffusionLoop(n) == [k \in 1 .. n |-> JacobiDiffusion(Buffer(k), Buffer(k - 1))]

PressureTask(n) ==
    <<Prepare({"buffer0", "buffer1", "out"})>> \o PressureLoop(n)
        \o <<ApplyPressure(Buffer(n + 1)), JustWait>>

\* The last diffusion always starts from the second buffer.
ViscosityTask(n) ==
    <<Prepare({"buffer0", "buffer1"}), JacobiDiffusion("buffer0", "in")>> \o DiffusionLoop(n)
        \o <<JacobiDiffusion("out", "buffer1"), JustWait>>

\* runTaskAsSequence.
Task(build, style) ==
    CASE build = "ADVECTION" -> <<Advection>>
      [] build = "MCCORMACK" -> <<MacCormack>>
      [] build = "REPOS" -> <<Repos>>
      [] build = "GENREPOS" -> <<Prepare({"buffer0", "buffer1"}), StepBack, StepForth>>
      [] build = "PRESSURE" -> PressureTask(style)
      [] build = "VISCOCITY" -> ViscosityTask(style)
      [] build = "BLEND" -> <<Blend>>
=============================================================================
