---------------------------- MODULE FluidSweeps ----------------------------
(***************************************************************************)
(* How the row functions of fluid/ walk along their row.  Each function    *)
(* is written up to three times (AltiVec, SSE3, plain C), each time with   *)
(* its own loops: a first unit apart, a loop up to an aligned column, an   *)
(* unrolled loop, a loop for what is left, a last unit apart.  A unit is a *)
(* vector of four cells or one cell.  A pass is one such walk; the numbers *)
(* in it are those of the loops' tests and increments.  What is computed   *)
(* from the units is left out (FluidKernels has the rows a function        *)
(* reads).                                                                 *)
(***************************************************************************)
EXTENDS Integers

CONSTANT Widths         \* widths of the fluid, in cells

\* matrix_calc refuses a width that is not a multiple of 32.
ASSUME WidthsAssumption ==
    \A w \in Widths : w \in Nat /\ w >= 32 /\ w % 32 = 0

Vector == 4
Cell == 1

-----------------------------------------------------------------------------
(* Shapes of passes.  reach: units read beside the one stored; edge: units *)
(* at each end the loops leave alone; ends: whether those are swept apart; *)
(* align: a loop to a multiple of four; left, step: test and increment of  *)
(* the unrolled loop (step 0: there is none); tailLeft, tailStep: those of *)
(* the loop after it; far: what the last unit is computed from, beside its *)
(* neighbours.                                                             *)

Walk(unit, reach, align, left, step, far) ==
    [unit |-> unit, reach |-> reach, edge |-> 1, ends |-> TRUE,
     align |-> align, left |-> left, step |-> step,
     tailLeft |-> 1, tailStep |-> 1, far |-> far]

Fringed(unit, reach, align, left, step) ==
    Walk(unit, reach, align, left, step, {})

Simple(unit, reach) == Fringed(unit, reach, FALSE, 0, 0)

\* The ends are not stored at all.
InnerWalk(unit, reach, align, left, step) ==
    [unit |-> unit, reach |-> reach, edge |-> 1, ends |-> FALSE,
     align |-> align, left |-> left, step |-> step,
     tailLeft |-> 1, tailStep |-> 1, far |-> {}]

SimpleInner(unit, reach) == InnerWalk(unit, reach, FALSE, 0, 0)

\* for (x = 1; x < n - left; x += 2), with both neighbours
Pairs(unit, left) ==
    [unit |-> unit, reach |-> 1, edge |-> 1, ends |-> FALSE,
     align |-> FALSE, left |-> 0, step |-> 0,
     tailLeft |-> left, tailStep |-> 2, far |-> {}]

\* Every unit, without its neighbours, tailStep at a time.
Whole(unit, left, step, tailStep) ==
    [unit |-> unit, reach |-> 0, edge |-> 0, ends |-> FALSE,
     align |-> FALSE, left |-> left, step |-> step,
     tailLeft |-> 0, tailStep |-> tailStep, far |-> {}]

Each(unit) == Whole(unit, 0, 0, 1)

-----------------------------------------------------------------------------
(* fluid_pressure.c *)

genPressure_edge == {Each(Vector), Each(Cell)}
genPressure_AltiVec == {Fringed(Vector, 1, FALSE, 5, 4)}
genPressure_SSE3 == {Fringed(Vector, 1, FALSE, 9, 3)}
genPressure_plain == {Simple(Cell, 1)}
genPressure_dens == {Each(Cell), Simple(Cell, 1)}
genPressure_densfix == {Each(Cell)}
applyPressure_AltiVec == {Simple(Vector, 1), Simple(Vector, 0)}
applyPressure_SSE3 == {Fringed(Vector, 1, FALSE, 5, 4), Simple(Vector, 0)}
applyPressure_plain == {SimpleInner(Cell, 1), SimpleInner(Cell, 0)}

(* fluid_pressure_rb.c *)

genPressure_red_edge == {Each(Vector), Each(Cell)}
genPressure_red_AltiVec == {Fringed(Vector, 1, FALSE, 5, 4)}
genPressure_red_SSE3 == {Fringed(Vector, 1, FALSE, 9, 3)}
genPressure_red_plain == {Simple(Cell, 1)}
genPressure_black_edge == {Each(Vector), Each(Cell)}
genPressure_black_AltiVec == {Fringed(Vector, 1, FALSE, 5, 4)}
genPressure_black_SSE3 == {Fringed(Vector, 1, FALSE, 9, 3)}
genPressure_black_plain == {Simple(Cell, 1)}

(* fluid_viscosity.c: velX, then velY.  The AltiVec builds align the       *)
(* column first; for the last vector of velX they take the middle cells    *)
(* from vVelX[0].                                                          *)

viscosity_edge == {Each(Vector), Each(Cell)}
viscosity_AltiVec_X == {Walk(Vector, 1, TRUE, 5, 4, {0})}
viscosity_AltiVec_Y == {Fringed(Vector, 1, TRUE, 5, 4)}
\* (mutant: the unrolled loop goes on to the last but two)
viscosity_SSE3_X_Near == {Fringed(Vector, 1, FALSE, 2, 3)}
viscosity_SSE3_X == {Fringed(Vector, 1, FALSE, 4, 3)}
viscosity_SSE3_Y == {Fringed(Vector, 1, FALSE, 4, 3)}
viscosity_plain == {Simple(Cell, 1)}

(* fluid_viscosity_rb.c *)

viscosity_rb_edge == {Each(Vector), Each(Cell)}
viscosity_rb_AltiVec_X == {Walk(Vector, 1, TRUE, 5, 4, {0})}
viscosity_rb_AltiVec_Y == {Fringed(Vector, 1, TRUE, 5, 4)}
viscosity_rb_SSE3_X == {Fringed(Vector, 1, FALSE, 4, 3)}
viscosity_rb_SSE3_Y == {Fringed(Vector, 1, FALSE, 4, 3)}
viscosity_rb_plain == {Simple(Cell, 1)}

(* fluid_vorticity.c *)

vorticity_curl_edge == {Simple(Vector, 1), Simple(Cell, 1)}
vorticity_curl_AltiVec == {Simple(Vector, 1)}
vorticity_curl_SSE3 == {Fringed(Vector, 1, FALSE, 13, 4)}
vorticity_curl_plain == {Simple(Cell, 1)}
vorticity_apply_AltiVec == {Simple(Vector, 1)}
vorticity_apply_SSE3 == {Fringed(Vector, 1, TRUE, 9, 8)}
vorticity_apply_plain == {SimpleInner(Cell, 1)}

(* fluid_heat.c, fluid_dampen.c: eight vectors or one cell at a time *)

force_heat == {Whole(Vector, 0, 0, 8)}
dampen == {Each(Cell)}

(* fluid_input.c, fluid_visual.c *)

input_char2dens == {Each(Cell)}
input_float2vel == {Each(Cell)}
video_temp2char == {Each(Cell)}
video_dens2char_x == {Each(Vector), Each(Cell)}
video_dens2char == {Each(Vector), Each(Cell)}
input_vel2float == {Each(Cell)}

(* fluid_repos.c, fluid_advection_repos.c *)

gatherVel == {Each(Cell)}
scatterVel == {Each(Cell)}
repos == {Each(Vector)}
reposVel == {Whole(Vector, 0, 0, 8)}
advection_stam_repos == {Each(Vector)}
advection_mccormack_repos == {Each(Vector)}

(* fluid_advection_fwd.c, fluid_advection_fwd2.c, fluid_advection_stam.c *)

fwd_velocity_AltiVec == {InnerWalk(Vector, 1, TRUE, 4, 4)}
\* (mutant: the loop ends one pair too early)
fwd_velocity_SSE3_Short == {Pairs(Vector, 3)}
fwd_velocity_SSE3 == {Pairs(Vector, 2)}
fwd_velocity_plain == {SimpleInner(Cell, 1)}
fwd_dens == {Pairs(Cell, 2), SimpleInner(Cell, 1)}
fwd_generate_repos_simd == {Whole(Vector, 3, 4, 1)}
fwd_generate_repos_plain == {Each(Cell)}
fwd_repos_edge == {Simple(Cell, 1), SimpleInner(Cell, 1)}
fwd_repos_simd_clamp == {Fringed(Vector, 1, FALSE, 4, 4)}
fwd_repos_simd == {Fringed(Vector, 1, FALSE, 4, 4)}
fwd_repos_plain == {Simple(Cell, 1), SimpleInner(Cell, 1)}
stam_velocity == {Whole(Cell, 3, 3, 1)}
stam_velocity_npt == {Each(Cell)}

-----------------------------------------------------------------------------

Called ==       \* by a frame of the fluid
    UNION {genPressure_edge, genPressure_AltiVec, genPressure_SSE3,
           genPressure_plain, genPressure_dens, genPressure_densfix,
           applyPressure_AltiVec, applyPressure_SSE3, applyPressure_plain,
           viscosity_edge, viscosity_AltiVec_X, viscosity_AltiVec_Y,
           viscosity_SSE3_X, viscosity_SSE3_Y, viscosity_plain,
           vorticity_curl_edge, vorticity_curl_AltiVec, vorticity_curl_SSE3,
           vorticity_curl_plain, vorticity_apply_AltiVec,
           vorticity_apply_SSE3, vorticity_apply_plain, force_heat, dampen,
           input_char2dens, input_float2vel, video_temp2char,
           video_dens2char_x, input_vel2float, repos, reposVel,
           advection_stam_repos, advection_mccormack_repos}

Spare ==        \* compiled, and left out of the frames
    UNION {genPressure_red_edge, genPressure_red_AltiVec,
           genPressure_red_SSE3, genPressure_red_plain,
           genPressure_black_edge, genPressure_black_AltiVec,
           genPressure_black_SSE3, genPressure_black_plain,
           viscosity_rb_edge, viscosity_rb_AltiVec_X, viscosity_rb_AltiVec_Y,
           viscosity_rb_SSE3_X, viscosity_rb_SSE3_Y, viscosity_rb_plain,
           video_dens2char, gatherVel, scatterVel, fwd_velocity_AltiVec,
           fwd_velocity_SSE3, fwd_velocity_plain, fwd_dens,
           fwd_generate_repos_simd, fwd_generate_repos_plain, fwd_repos_edge,
           fwd_repos_simd_clamp, fwd_repos_simd, fwd_repos_plain,
           stam_velocity, stam_velocity_npt}

Passes == Called \cup Spare

-----------------------------------------------------------------------------

VARIABLES pass,         \* the pass under way
          width,        \* of its field
          pc,           \* "first", the loop it is in, "last" or "swept"
          x,            \* the column variable of the loops
          loads,        \* units of the row the last iteration reads ...
          stores,       \* ... and writes
          swept         \* units written before the last iteration

vars == <<pass, width, pc, x, loads, stores, swept>>

Loops == {"align", "unrolled", "tail"}

n == width \div pass.unit

Init ==
    /\ pass \in Passes
    /\ width \in Widths
    /\ pc = IF pass.ends THEN "first" ELSE "align"
    /\ x = pass.edge
    /\ loads = {}
    /\ stores = {}
    /\ swept = {}

\* An iteration stores units from .. from + size - 1.
Sweep(read, written) ==
    /\ loads' = read
    /\ stores' = written
    /\ swept' = swept \cup stores
    /\ UNCHANGED <<pass, width>>

\* (mutant: the loops begin at the unit that was swept apart)
FirstAgain ==
    /\ pc = "first"
    /\ pc' = "align"
    /\ x' = 0
    /\ Sweep(0 .. pass.reach, {0})

First ==
    /\ pc = "first"
    /\ pc' = "align"
    /\ x' = 1
    /\ Sweep(0 .. pass.reach, {0})

Continues(loop) ==
    \/ /\ loop = "align"
       /\ pass.align
       /\ x < n - 1
       /\ x % 4 # 0
    \/ /\ loop = "unrolled"
       /\ pass.step > 0
       /\ x < n - pass.left
    \/ /\ loop = "tail"
       /\ x < n - pass.tailLeft

Increment(loop) ==
    CASE loop = "align" -> 1
      [] loop = "unrolled" -> pass.step
      [] loop = "tail" -> pass.tailStep

Iterate(loop) ==
    /\ pc = loop
    /\ Continues(loop)
    /\ Sweep(x - pass.reach .. x + Increment(loop) - 1 + pass.reach,
             x .. x + Increment(loop) - 1)
    /\ x' = x + Increment(loop)
    /\ UNCHANGED pc

Leave(loop) ==
    /\ pc = loop
    /\ ~Continues(loop)
    /\ pc' = CASE loop = "align" -> "unrolled"
               [] loop = "unrolled" -> "tail"
               [] loop = "tail" -> IF pass.ends THEN "last" ELSE "swept"
    /\ UNCHANGED <<pass, width, x, loads, stores, swept>>

\* The last unit is stored at x, where the loops ended.
Last ==
    /\ pc = "last"
    /\ pc' = "swept"
    /\ Sweep((x - pass.reach .. x) \cup pass.far, {x})
    /\ UNCHANGED x

\* Rows are independent of each other here: the next row, of any pass.
NextRow ==
    /\ pc = "swept"
    /\ pass' \in Passes
    /\ width' \in Widths
    /\ pc' = IF pass'.ends THEN "first" ELSE "align"
    /\ x' = pass'.edge
    /\ loads' = {}
    /\ stores' = {}
    /\ swept' = {}

Next ==
    \/ First
    \/ \E loop \in Loops : Iterate(loop) \/ Leave(loop)
    \/ Last
    \/ NextRow

Spec == Init /\ [][Next]_vars

-----------------------------------------------------------------------------

TypeOK ==
    /\ pass \in Passes
    /\ width \in Widths
    /\ pc \in Loops \cup {"first", "last", "swept"}
    /\ x \in Nat
    /\ loads \subseteq Int
    /\ stores \subseteq Int
    /\ swept \subseteq Int

\* No load and no store leaves the row: the unrolled loops stop early enough
\* for their last body and its right neighbour, the first iterations have a
\* left neighbour, and widths are such that the loops of eight end with the
\* row.
InRow == loads \cup stores \subseteq 0 .. n - 1

\* No unit is computed twice: pressure and velocity are updated in place, so
\* a loop that starts where another has been would apply its step again.
SweptOnce == stores \cap swept = {}

\* A pass that is over has left out no unit, apart from the two ends in the
\* functions that keep them.
RowSwept ==
    pc = "swept" =>
        swept \cup stores = IF pass.ends THEN 0 .. n - 1
                                        ELSE pass.edge .. n - 1 - pass.edge
=============================================================================
