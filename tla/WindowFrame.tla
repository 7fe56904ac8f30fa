---------------------------- MODULE WindowFrame ----------------------------
(***************************************************************************)
(* The frames of FluidFrame on the scheduler of the builds without Grand   *)
(* Central Dispatch, as RowWindows promises to run them: it waits for the  *)
(* rows below, not around, and hands out the rows of some tasks side by    *)
(* side.                                                                   *)
(***************************************************************************)
EXTENDS RowWindows, FluidConflicts

VARIABLE config         \* the configuration of this frame

wframeVars == <<windowVars, config>>

Todo == Frames[config].windows

WFInit == WInit /\ config \in Configs

AddNextTask ==
    LET next == Todo[Len(tasks) + 1] IN
    /\ Len(tasks) < Len(Todo)
    /\ Add([bottom |-> next.bottom, any |-> next.any])
    /\ UNCHANGED config

LaunchFrame ==
    /\ Len(tasks) = Len(Todo)
    /\ Launch
    /\ UNCHANGED config

RunRows ==
    /\ \E t \in TaskIds : Start(t) \/ Finish(t)
    /\ UNCHANGED config

NextFrame == Collect /\ config' \in Configs

WFNext == AddNextTask \/ LaunchFrame \/ RunRows \/ NextFrame

WFSpec == WFInit /\ [][WFNext]_wframeVars
-----------------------------------------------------------------------------
Running(t) == {y \in RowSet : done[t] <= y /\ y < started[t]}

\* While a row runs, the rows of earlier tasks that conflict with it are finished, and no
\* other row of its own task that runs conflicts with it.
WindowsOrdered ==
    \A u \in Added : \A z \in Running(u) :
       LET conflicts(t) == Conflicts[config][Todo[t + 1].fn][Todo[u + 1].fn][z] IN
       /\ \A t \in 0 .. u - 1 : \A y \in conflicts(t) : y < done[t]
       /\ conflicts(u) \cap Running(u) \subseteq {z}
=============================================================================
