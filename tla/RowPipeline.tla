---------------------------- MODULE RowPipeline ----------------------------
(***************************************************************************)
(* What the task scheduler promises the fluid (mpx.h:105-177): the tasks   *)
(* of a frame run once on every row of the field, each task on one row     *)
(* after the other, and a task keeps behind the task added before it by    *)
(* the distance declared with mpCTaskAdd.  How the scheduler does it, with *)
(* queues, groups and counters, is the business of the modules that        *)
(* implement this one.                                                     *)
(***************************************************************************)
EXTENDS FluidField, Sequences

CONSTANTS MaxTasks,     \* bound: tasks in a frame (in_tasks of mpCCreate)
          Fns,          \* the functions a task can name
          Deps          \* the values in_depStart takes

ASSUME PipelineAssumption ==
    /\ MaxTasks \in Nat
    /\ Deps \subseteq Int

VARIABLES tasks,        \* the tasks of the frame, [fn, dep], in order
          done,         \* done[t]: task t has finished its rows below this one
          running,      \* is task t working on row done[t]?
          stage         \* "add": no task runs; "run": the frame is launched

pipeVars == <<tasks, done, running, stage>>

TaskIds == 0 .. MaxTasks - 1
Added == 0 .. Len(tasks) - 1

Abs(d) == IF d < 0 THEN -d ELSE d
Least(a, b) == IF a < b THEN a ELSE b

\* Task t may start a row when its predecessor has finished the row, and the
\* |dep| + 1 rows after it, as far as the field has them.
Ahead(t) ==
    t > 0 => done[t - 1] >= Least(Rows, done[t] + Abs(tasks[t + 1].dep) + 2)

PInit ==
    /\ tasks = <<>>
    /\ done = [t \in TaskIds |-> 0]
    /\ running = [t \in TaskIds |-> FALSE]
    /\ stage = "add"

Add(f, d) ==
    /\ stage = "add"
    /\ Len(tasks) < MaxTasks
    /\ tasks' = Append(tasks, [fn |-> f, dep |-> d])
    /\ UNCHANGED <<done, running, stage>>

Launch ==
    /\ stage = "add"
    /\ tasks # <<>>
    /\ stage' = "run"
    /\ UNCHANGED <<tasks, done, running>>

Start(t) ==
    /\ stage = "run"
    /\ t \in Added
    /\ ~running[t]
    /\ done[t] < Rows
    /\ Ahead(t)
    /\ running' = [running EXCEPT ![t] = TRUE]
    /\ UNCHANGED <<tasks, done, stage>>

Finish(t) ==
    /\ running[t]
    /\ running' = [running EXCEPT ![t] = FALSE]
    /\ done' = [done EXCEPT ![t] = @ + 1]
    /\ UNCHANGED <<tasks, stage>>

\* The frame is collected: every task has run on every row.
Collect ==
    /\ stage = "run"
    /\ \A t \in Added : done[t] = Rows
    /\ stage' = "add"
    /\ tasks' = <<>>
    /\ done' = [t \in TaskIds |-> 0]
    /\ UNCHANGED running

\* A frame that was not launched is dropped.
Drop ==
    /\ stage = "add"
    /\ tasks' = <<>>
    /\ UNCHANGED <<done, running, stage>>

PNext ==
    \/ \E f \in Fns, d \in Deps : Add(f, d)
    \/ Launch
    \/ \E t \in TaskIds : Start(t) \/ Finish(t)
    \/ Collect
    \/ Drop

PSpec == PInit /\ [][PNext]_pipeVars
=============================================================================
