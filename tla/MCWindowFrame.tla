--------------------------- MODULE MCWindowFrame ---------------------------
(* A small instance of WindowFrame: the two frames that add the most tasks. *)
EXTENDS WindowFrame

MCKinds == [bottom : 0 .. AdvectDist + 2, any : BOOLEAN]

\* Every task but those of the vorticity.
Base ==
    [vidBlend |-> TRUE, velIn |-> "same", velOut |-> "same", vorticity |-> FALSE,
     fadeDens |-> TRUE, fadeVel |-> TRUE, heat |-> TRUE, viscosity |-> TRUE,
     density |-> TRUE, simpleFree |-> FALSE, tempOut |-> FALSE]

\* The vorticity, and no task after it that writes row 0 of the velocity.
Swirl ==
    [Base EXCEPT !.vorticity = TRUE, !.fadeVel = FALSE, !.heat = FALSE,
                 !.viscosity = FALSE]

MCConfigs == {Base, Swirl}
=============================================================================
