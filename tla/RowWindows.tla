----------------------------- MODULE RowWindows -----------------------------
(***************************************************************************)
(* What the scheduler of a build without Grand Central Dispatch promises   *)
(* (mpx.h:124-177).  As in RowPipeline, every task of a frame runs once on *)
(* every row; but the rows of a task that was added with depLeft = 0 are   *)
(* handed out without waiting for the row before, so that a task has a     *)
(* window of rows that are running: from done[t] up to started[t] - 1.     *)
(***************************************************************************)
EXTENDS FluidField, Sequences

CONSTANTS MaxTasks,     \* bound: tasks in a frame (in_tasks of mpCCreate)
          Kinds         \* the dependencies a task can have, [bottom, any]

ASSUME WindowsAssumption ==
    /\ MaxTasks \in Nat
    /\ Kinds \subseteq [bottom : Nat, any : BOOLEAN]

VARIABLES tasks,        \* the tasks of the frame, in order
          done,         \* done[t]: the rows of task t below this one are finished
          started,      \* started[t]: the rows of task t below this one were begun
          stage         \* "add": no task runs; "run": the frame is launched

windowVars == <<tasks, done, started, stage>>

TaskIds == 0 .. MaxTasks - 1
Added == 0 .. Len(tasks) - 1

Least(a, b) == IF a < b THEN a ELSE b

\* Row started[t] of task t may begin: its predecessor has finished the row and
\* the "bottom" rows after it, as far as the field has them.
Ahead(t) ==
    t > 0 => done[t - 1] > Least(started[t] + tasks[t + 1].bottom, Rows - 1)

WInit ==
    /\ tasks = <<>>
    /\ done = [t \in TaskIds |-> 0]
    /\ started = [t \in TaskIds |-> 0]
    /\ stage = "add"

Add(k) ==
    /\ stage = "add"
    /\ Len(tasks) < MaxTasks
    /\ tasks' = Append(tasks, k)
    /\ UNCHANGED <<done, started, stage>>

Launch ==
    /\ stage = "add"
    /\ tasks # <<>>
    /\ stage' = "run"
    /\ UNCHANGED <<tasks, done, started>>

Start(t) ==
    /\ stage = "run"
    /\ t \in Added
    /\ started[t] < Rows
    /\ tasks[t + 1].any \/ started[t] = done[t]
    /\ Ahead(t)
    /\ started' = [started EXCEPT ![t] = @ + 1]
    /\ UNCHANGED <<tasks, done, stage>>

Finish(t) ==
    /\ done[t] < started[t]
    /\ done' = [done EXCEPT ![t] = @ + 1]
    /\ UNCHANGED <<tasks, started, stage>>

\* The frame is collected: every task has run on every row.
Collect ==
    /\ stage = "run"
    /\ \A t \in Added : done[t] = Rows
    /\ tasks' = <<>>
    /\ done' = [t \in TaskIds |-> 0]
    /\ started' = [t \in TaskIds |-> 0]
    /\ stage' = "add"

WNext ==
    \/ \E k \in Kinds : Add(k)
    \/ Launch
    \/ \E t \in TaskIds : Start(t) \/ Finish(t)
    \/ Collect

WSpec == WInit /\ [][WNext]_windowVars
=============================================================================
