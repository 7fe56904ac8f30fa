----------------------------- MODULE FluidTasks -----------------------------
(***************************************************************************)
(* The task list of a frame, as fluid_cpu.c builds it.  A frame under      *)
(* construction is a record                                                *)
(*    fns    the table m_fns: fns[i + 1] is entry i, the footprint of its  *)
(*           function on the fields bound when it was set; m_usedFunctions *)
(*           is its length                                                 *)
(*    tasks  the calls of mpCTaskAdd so far, each [fn, dep]                *)
(*    windows  what the same calls store in a build without Grand Central,  *)
(*           each [fn, bottom, any]                                        *)
(*    bound  which field each pointer r_... of the fluid points to; the    *)
(*           advection tasks swap pointers after adding themselves         *)
(* and fluidTask... are functions on such records.  A configuration c says *)
(* which of the tests in the code succeed.                                 *)
(***************************************************************************)
EXTENDS FluidKernels, Sequences

CONSTANTS PressureAccuracy, ViscosityAccuracy   \* iterations (4 and 4 in fluidCreate)

ASSUME AccuracyAssumption ==
    /\ PressureAccuracy \in Nat
    /\ ViscosityAccuracy \in Nat

\* What a frame depends on.
Configuration ==
    [vidBlend  : BOOLEAN,      \* in_s < 0.9999 in fluidVideoBlendIn
     velIn     : {"same", "scaled"},   \* size of the velocity input
     velOut    : {"none", "same", "scaled"},
     vorticity : BOOLEAN,      \* m_vorticity >= 0.001
     fadeDens  : BOOLEAN,      \* m_fadeDens, m_fadeVel: neither 0 nor 1
     fadeVel   : BOOLEAN,
     heat      : BOOLEAN,      \* gravity or heat speed is not 0
     viscosity : BOOLEAN,      \* m_viscosity >= 0.001
     density   : BOOLEAN,      \* FLUID_DENSITY
     simpleFree: BOOLEAN,      \* FLUID_SIMPLEFREE
     tempOut   : BOOLEAN]      \* FLUID_OUT_TEMPERATURE

\* After fluidCreate, and after fluidAdvanceSync.  (A frame leaves the two
\* pointers of a swapped pair exchanged; the next one starts from a renaming.)
NewFrame ==
    [fns |-> <<>>, tasks |-> <<>>, windows |-> <<>>,
     bound |-> [density |-> "density", density_swap |-> "density_swap",
                velX |-> "velX", velY |-> "velY",
                tmpVelX |-> "tmpVelX", tmpVelY |-> "tmpVelY",
                pressure |-> "pressure", reposX |-> "reposX", reposY |-> "reposY"]]

Used(s) == Len(s.fns)

\* m_fns[m_usedFunctions++] = footprint.
SetFn(s, footprint) == [s EXCEPT !.fns = Append(@, footprint)]

\* (mutant: the test of "dep" the wrong way round)
WindowTurned(fn, right, dep) ==
    [fn |-> fn, bottom |-> IF right < 0 THEN 0 ELSE right, any |-> dep # 0]

\* A build with Grand Central Dispatch keeps the argument "left" of a task; the others
\* keep "right", and whether "dep" is 0.
Window(fn, right, dep) ==
    [fn |-> fn, bottom |-> IF right < 0 THEN 0 ELSE right, any |-> dep = 0]

fluidAddTask(s, fn, left, right, dep) ==
    [s EXCEPT !.tasks = Append(@, [fn |-> fn, dep |-> left]),
              !.windows = Append(@, Window(fn, right, dep))]

\* One table entry and one task that uses it.
AddOne(s, footprint, left, right, dep) ==
    fluidAddTask(SetFn(s, footprint), Used(s), left, right, dep)

\* The tasks with functions fns[1], fns[2] ..., each after the row around it.
AddRelaxations(s, fns) ==
    [s EXCEPT !.tasks = @ \o [i \in DOMAIN fns |-> [fn |-> fns[i], dep |-> -1]],
              !.windows = @ \o [i \in DOMAIN fns |-> Window(fns[i], 1, 1)]]

\* Two equal table entries used in turn: curFn - i % 2 for i = 0 .. n - 1,
\* where curFn is the second.
AddAlternating(s, footprint, n) ==
    AddRelaxations(SetFn(SetFn(s, footprint), footprint),
                   [i \in 1 .. n |-> (Used(s) + 1) - ((i - 1) % 2)])

fluidSwap(s, p, q) ==
    [s EXCEPT !.bound = [@ EXCEPT ![p] = s.bound[q], ![q] = s.bound[p]]]
-----------------------------------------------------------------------------
fluidVideoBlendIn(s, c) ==
    IF ~c.vidBlend THEN s
    ELSE AddOne(s, fluid_input_char2dens(s.bound.density, "vidIn"), 0, 0, 0)

fluidVelocityBlendIn(s, c) ==
    LET b == s.bound IN
    IF c.velIn = "same"
    THEN AddOne(s, fluid_input_float2vel(b.velX, b.velY, "velIn"), 0, 0, 0)
    ELSE AddOne(s, fluid_input_float2vel_scale(b.velX, b.velY, "velIn"), 0, 0, 0)

fluidVideoVelocityOut(s, c) ==
    LET b == s.bound IN
    IF c.velOut = "same"
    THEN AddOne(s, fluid_input_vel2float(b.velX, b.velY, "velOut"), 0, 0, 0)
    ELSE AddOne(s, fluid_input_vel2float_scale(b.velX, b.velY, "velOut"), 0, 0, 0)

\* The scratch field z of the two tasks is r_tmpVelX.
fluidTaskVorticity(s, c) ==
    LET b == s.bound
        curl == AddOne(s, fluid_vorticity_curl(b.velX, b.velY, b.tmpVelX), -1, 1, 0)
    IN IF ~c.vorticity THEN s
       ELSE AddOne(curl, fluid_vorticity_apply(b.velX, b.velY, b.tmpVelX), -1, 1, 0)

\* p: the pointer to the field.
fluidTaskDampen(s, fades, p) ==
    IF ~fades THEN s ELSE AddOne(s, fluid_dampen(s.bound[p]), 0, 0, 0)

fluidTaskTemperature(s, c) ==
    LET b == s.bound IN
    IF ~c.density \/ ~c.heat THEN s
    ELSE AddOne(s, fluid_force_heat(b.density, b.velX, b.velY), 0, 0, 0)

fluidTaskViscosity(s, c) ==
    IF ~c.viscosity THEN s
    ELSE AddAlternating(s, fluid_viscosity(s.bound.velX, s.bound.velY), ViscosityAccuracy)

\* withDensity: in_density is not NULL.
fluidTaskPressure(s, c, withDensity) ==
    LET b == s.bound
        fixed == AddOne(s, fluid_genPressure_densfix(b.density), -1, 1, 1)
        dens == SetFn(fixed, fluid_genPressure_dens(b.velX, b.velY, b.pressure, b.density))
        relaxed ==
           IF withDensity /\ c.density
           THEN AddRelaxations(dens, [i \in 1 .. PressureAccuracy |-> Used(fixed)])
           ELSE AddAlternating(s, fluid_genPressure(b.velX, b.velY, b.pressure),
                               PressureAccuracy)
    IN AddOne(relaxed, fluid_applyPressure(b.velX, b.velY, b.pressure), -1, 1, 1)

\* (mutant: the distance of the relaxations)
fluidTaskCorrectorReposNear(s) ==
    LET b == s.bound IN
    AddOne(s, fluid_advection_mccormack_repos(b.velX, b.velY, b.reposX, b.reposY),
           -1, AdvectDist + 1, 0)

fluidTaskCorrectorRepos(s) ==
    LET b == s.bound IN
    AddOne(s, fluid_advection_mccormack_repos(b.velX, b.velY, b.reposX, b.reposY),
           -AdvectDist - 1, AdvectDist + 1, 0)

fluidTaskAdvectDensity(s, c) ==
    LET b == s.bound IN
    IF ~c.density THEN s
    ELSE fluidSwap(AddOne(s, fluid_repos(b.reposX, b.reposY, b.density, b.density_swap),
                          -AdvectDist - 1, AdvectDist + 1, 0),
                   "density", "density_swap")

fluidTaskAdvectVelocity(s) ==
    LET b == s.bound IN
    fluidSwap(
       fluidSwap(AddOne(s, fluid_reposVel(b.reposX, b.reposY, b.velX, b.velY,
                                          b.tmpVelX, b.tmpVelY),
                        -AdvectDist - 1, AdvectDist + 1, 0),
                 "velX", "tmpVelX"),
       "velY", "tmpVelY")

fluidTaskVideoDensity2Char(s, c) ==
    LET b == s.bound IN
    IF ~c.density THEN s
    ELSE IF c.tempOut THEN AddOne(s, fluid_video_temp2char(b.density, "vidOut"), 0, 0, 0)
    ELSE AddOne(s, fluid_video_dens2char_x(b.density, b.pressure, b.velX, b.velY, "vidOut"),
                0, 0, 0)
-----------------------------------------------------------------------------
\* What the host adds before the simulation: addData, then paramMess.
addData(s, c) == fluidVelocityBlendIn(fluidVideoBlendIn(s, c), c)

paramMess(s, c) == IF c.velOut = "none" THEN s ELSE fluidVideoVelocityOut(s, c)

\* The tasks fluidAdvanceASync adds, in its order.
fluidAdvanceASync(s, c) ==
    LET vort == fluidTaskVorticity(s, c)
        damp1 == fluidTaskDampen(vort, c.fadeDens, "density")
        damp2 == fluidTaskDampen(damp1, c.fadeVel, "velX")
        damp3 == fluidTaskDampen(damp2, c.fadeVel, "velY")
        heat == fluidTaskTemperature(damp3, c)
        visc == fluidTaskViscosity(heat, c)
        press == fluidTaskPressure(visc, c, c.simpleFree)
        repos == fluidTaskCorrectorRepos(press)
        dens == fluidTaskAdvectDensity(repos, c)
        vel == fluidTaskAdvectVelocity(dens)
    IN fluidTaskVideoDensity2Char(vel, c)

Frame(c) == fluidAdvanceASync(paramMess(addData(NewFrame, c), c), c)
=============================================================================
