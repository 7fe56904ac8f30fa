----------------------------- MODULE FluidFrame -----------------------------
(***************************************************************************)
(* The frames of a fluid: the host adds the tasks of a frame (addData,     *)
(* paramMess and fluidAdvanceASync), the scheduler runs them as            *)
(* RowPipeline promises, the host collects the frame and starts over, with *)
(* whatever configuration the attributes then have.  FluidTasks says which *)
(* rows of which fields a task touches.  Rows of different tasks run in    *)
(* parallel, and nothing but the distances declared with mpCTaskAdd keeps  *)
(* a row function from reading a row too early or overwriting it too soon. *)
(***************************************************************************)
EXTENDS RowPipeline, FluidConflicts

VARIABLE config         \* the configuration of this frame

frameVars == <<pipeVars, config>>

-----------------------------------------------------------------------------
FInit == PInit /\ config \in Configs

AddNextTask ==
    LET todo == Frames[config].tasks IN
    /\ Len(tasks) < Len(todo)
    /\ Add(todo[Len(tasks) + 1].fn, todo[Len(tasks) + 1].dep)
    /\ UNCHANGED config

LaunchFrame ==
    /\ Len(tasks) = Len(Frames[config].tasks)
    /\ Launch
    /\ UNCHANGED config

RunRows ==
    /\ \E t \in TaskIds : Start(t) \/ Finish(t)
    /\ UNCHANGED config

\* (mutant: the attributes change while the frame is in the scheduler)
NextFrameEarly == config' \in Configs /\ UNCHANGED pipeVars

\* fluidAdvanceSync, of a frame that was launched or of one that matrix_calc
\* gave up; the attributes may change before the next frame.
NextFrame == (Collect \/ Drop) /\ config' \in Configs

FNext == AddNextTask \/ LaunchFrame \/ RunRows \/ NextFrame

FSpec == FInit /\ [][FNext]_frameVars
-----------------------------------------------------------------------------
\* The tasks in the scheduler are a prefix of the configuration's, and all of
\* them once the frame is launched.
FTypeOK ==
    /\ config \in Configs
    /\ stage \in {"add", "run"}
    /\ done \in [TaskIds -> 0 .. Rows]
    /\ running \in [TaskIds -> BOOLEAN]
    /\ LET todo == Frames[config].tasks IN
       /\ Len(tasks) <= Len(todo)
       /\ \A i \in 1 .. Len(tasks) : tasks[i] = todo[i]
       /\ stage = "run" => Len(tasks) = Len(todo)

\* A row function runs only when every earlier task has finished the rows that
\* conflict with it.  So on every schedule it reads what it would read if the
\* tasks ran one after the other, and no two row functions that run at the
\* same time touch the same row of a field.
ConflictsOrdered ==
    LET conflicts == Conflicts[config] IN
    \A u \in Added : running[u] =>
       \A t \in 0 .. u - 1 :
          \A y \in conflicts[tasks[t + 1].fn][tasks[u + 1].fn][done[u]] :
             y < done[t]
-----------------------------------------------------------------------------
\* The tasks of a frame fit in the scheduler, and name functions of the table.
FitsScheduler(c) ==
    /\ Frames[c].tasks \in Seq([fn : Fns, dep : Deps])
    /\ Len(Frames[c].tasks) <= MaxTasks
    /\ \A i \in 1 .. Len(Frames[c].tasks) :
          Frames[c].tasks[i].fn \in 0 .. Len(Frames[c].fns) - 1

\* The distances declared in the calls of mpCTaskAdd cover the conflicts of the
\* row functions: row z of task j conflicts with no row of an earlier task that
\* is farther ahead than z + |dep| + 1, the last row the scheduler waits for.
DistancesSuffice(c) ==
    LET todo == Frames[c].tasks IN
    \A j \in 1 .. Len(todo) : \A i \in 1 .. j - 1 : \A y, z \in RowSet :
       y > z + Abs(todo[j].dep) + 1
          => ~Conflict(Footprint(c, todo[i].fn, y), Footprint(c, todo[j].fn, z))

\* Every frame fluid_cpu.c builds fits, and its distances cover its conflicts: what the
\* schedules cannot break, whatever their interleaving.  (It is about the configuration
\* alone, and looked at when a frame begins.)
DistancesDeclared ==
    tasks = <<>> => FitsScheduler(config) /\ DistancesSuffice(config)

\* The same for the builds without Grand Central Dispatch, whose scheduler waits for the
\* rows below and runs the rows of some tasks side by side.
WindowsDeclared ==
    tasks = <<>> =>
       /\ WindowsTyped(config) /\ OffsetsAdd(config)
       /\ WindowsSuffice(config) /\ RowsApart(config)
=============================================================================
