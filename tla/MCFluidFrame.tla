---------------------------- MODULE MCFluidFrame ----------------------------
(* Small instances of FluidFrame. *)
EXTENDS FluidFrame, FiniteSets

MCFns == 0 .. 31
MCDeps == {0, -1, -AdvectDist - 1}

\* Every task but those of the vorticity.
Base ==
    [vidBlend |-> TRUE, velIn |-> "same", velOut |-> "same", vorticity |-> FALSE,
     fadeDens |-> TRUE, fadeVel |-> TRUE, heat |-> TRUE, viscosity |-> TRUE,
     density |-> TRUE, simpleFree |-> FALSE, tempOut |-> FALSE]

\* The vorticity, and no task after it that writes row 0 of the velocity.
Swirl ==
    [Base EXCEPT !.vorticity = TRUE, !.fadeVel = FALSE, !.heat = FALSE,
                 !.viscosity = FALSE]

\* The configurations whose schedules are followed: each switch both ways.
Scheduled ==
    {Base, Swirl,
     [Swirl EXCEPT !.velOut = "none", !.fadeDens = FALSE, !.simpleFree = TRUE],
     [Base EXCEPT !.simpleFree = TRUE, !.heat = FALSE, !.tempOut = TRUE],
     [Base EXCEPT !.velIn = "scaled", !.vidBlend = FALSE, !.density = FALSE,
                  !.viscosity = FALSE]}

\* The vorticity with the viscosity, which writes row 0 of the velocity.
VorticityConfigs ==
    {[Base EXCEPT !.vorticity = TRUE, !.fadeVel = FALSE, !.heat = FALSE]}

\* A velocity output of fewer rows than the field.
ScaledConfigs == {[Base EXCEPT !.velOut = "scaled"]}

\* Some task after the vorticity and before the pressure writes the velocity.
VelocityTouched(c) == c.fadeVel \/ c.viscosity \/ (c.density /\ c.heat)

\* The inputs and outputs of a frame: at most one is not as in Base.
Ends(c) == <<c.vidBlend, c.velIn, c.velOut, c.tempOut>>
EndsNearBase(c) == Cardinality({i \in 1 .. 4 : Ends(c)[i] # Ends(Base)[i]}) <= 1

\* Every configuration of the simulation's tasks, but for a vorticity whose last row reads
\* a row that a later task writes, and a velocity output of fewer rows than the field.
OrderedConfigs ==
    Scheduled \cup
    {c \in Configuration :
       /\ EndsNearBase(c)
       /\ c.velOut # "scaled"
       /\ ~(c.vorticity /\ VelocityTouched(c))}

\* The schedules of some configurations; of the others, frames that are given up before a
\* task is added.
FollowFrame == config \in Scheduled /\ (AddNextTask \/ LaunchFrame \/ RunRows)

MCSpec == FInit /\ [][FollowFrame \/ NextFrame]_frameVars
=============================================================================
