-------------------------- MODULE FluidFrameProofs --------------------------
(***************************************************************************)
(* Proofs about the frames of a fluid and the row functions they consist   *)
(* of.  The first two parts are for any number of rows, any distances and  *)
(* accuracies, and any set of configurations.  They split the order of     *)
(* conflicting rows in two: DistancesSuffice, which is about the task      *)
(* lists and footprints and has no schedule in it, and Spacing, which is   *)
(* about schedules and has no footprint in it.  FluidTasksProofs has the   *)
(* proof that the frames of fluid_cpu.c satisfy the former, for sound      *)
(* configurations; the third part puts the two together.  The last is      *)
(* about the walks of the row functions, for any set of widths that are    *)
(* multiples of 32: a walk stays in its row and sweeps all of it because   *)
(* of what its numbers have in common, WellShaped; that every pass of the  *)
(* row functions is well shaped is a lemma.                                *)
(***************************************************************************)
EXTENDS FluidFrame, FluidSweeps, FluidTasksProofs, SequenceTheorems, TLAPS

(***************************************************************************)
(* What RowPipeline guarantees to the row functions.  The rule for         *)
(* starting a row only looks at the task just before; Spacing says how far *)
(* ahead every earlier task then is, in every state and not only when the  *)
(* row starts.                                                             *)
(***************************************************************************)

Task == [fn : Fns, dep : Deps]

\* The rows of task t that have started.
Started(t) == done[t] + (IF running[t] THEN 1 ELSE 0)

\* The distance task t declared.
Dist(t) == Abs(tasks[t + 1].dep)

PTypeOK ==
    /\ tasks \in Seq(Task)
    /\ Len(tasks) <= MaxTasks
    /\ done \in [TaskIds -> 0 .. Rows]
    /\ running \in [TaskIds -> BOOLEAN]
    /\ stage \in {"add", "run"}

\* Rows run only in a launched frame, and only tasks and rows that exist.
Launched ==
    \A t \in TaskIds :
       /\ running[t] => stage = "run" /\ t \in Added /\ done[t] < Rows
       /\ stage = "add" => done[t] = 0

\* A task that has started n rows has every earlier task n + |dep| + 1 rows
\* ahead, or finished.
Spacing ==
    \A t, u \in TaskIds :
       t < u /\ u \in Added /\ Started(u) > 0
          => done[t] >= Least(Rows, Started(u) + Dist(u) + 1)

PInv == PTypeOK /\ Launched /\ Spacing
-----------------------------------------------------------------------------
\* What the proofs use of the constants and of the types.
LEMMA PipeTypes ==
    ASSUME PTypeOK
    PROVE  /\ Rows \in Nat \ {0} /\ MaxTasks \in Nat
           /\ Len(tasks) \in Nat
           /\ \A t \in TaskIds : t \in Nat /\ (t > 0 => t - 1 \in TaskIds)
           /\ \A t \in Added : t \in TaskIds /\ (t > 0 => t - 1 \in Added)
           /\ \A t \in Added : Dist(t) \in Nat
           /\ \A t \in TaskIds : /\ done[t] \in Nat /\ done[t] <= Rows
                                 /\ Started(t) \in Nat /\ Started(t) >= done[t]
  <1>1. Rows \in Nat \ {0} /\ MaxTasks \in Nat /\ Len(tasks) \in Nat
    BY FieldAssumption, PipelineAssumption, LenProperties
      DEF FieldAssumption, PipelineAssumption, PTypeOK
  <1>2. ASSUME NEW t \in Added PROVE Dist(t) \in Nat
    <2>1. t + 1 \in 1 .. Len(tasks)
      BY <1>1, <1>2 DEF Added
    <2>2. tasks[t + 1] \in Task
      BY <2>1, ElementOfSeq DEF PTypeOK
    <2>3. tasks[t + 1].dep \in Int
      BY <2>2, PipelineAssumption DEF Task, PipelineAssumption
    <2> QED
      BY <2>3 DEF Dist, Abs
  <1>3. ASSUME NEW t \in TaskIds
        PROVE  /\ done[t] \in Nat /\ done[t] <= Rows
               /\ Started(t) \in Nat /\ Started(t) >= done[t]
    BY <1>1 DEF PTypeOK, Started
  <1> QED
    BY <1>1, <1>2, <1>3 DEF TaskIds, Added, PTypeOK

\* Adding a task.
LEMMA AddKeeps ==
    ASSUME PInv, NEW f \in Fns, NEW d \in Deps, Add(f, d)
    PROVE  PInv'
  <1> DEFINE task == [fn |-> f, dep |-> d]
  <1>1. /\ stage = "add" /\ Len(tasks) < MaxTasks /\ tasks' = Append(tasks, task)
        /\ UNCHANGED <<done, running, stage>>
    BY DEF Add
  <1>2. PTypeOK'
    <2>1. task \in Task
      BY DEF Task
    <2>2. tasks' \in Seq(Task) /\ Len(tasks') = Len(tasks) + 1
      BY <1>1, <2>1, AppendProperties DEF PInv, PTypeOK
    <2> QED
      BY <1>1, <2>2, PipeTypes DEF PInv, PTypeOK
  <1>3. \A t \in TaskIds : ~running[t] /\ done[t] = 0
    BY <1>1 DEF PInv, Launched
  <1>4. \A t \in TaskIds : Started(t)' = 0
    BY <1>1, <1>3 DEF Started
  <1> QED
    BY <1>1, <1>2, <1>3, <1>4 DEF PInv, Launched, Spacing

\* Starting a row: the task before is far enough ahead, and the earlier ones
\* are ahead of it.
LEMMA StartKeeps ==
    ASSUME PInv, NEW v \in TaskIds, Start(v)
    PROVE  PInv'
  <1>1. /\ stage = "run" /\ v \in Added /\ ~running[v] /\ done[v] < Rows /\ Ahead(v)
        /\ running' = [running EXCEPT ![v] = TRUE]
        /\ UNCHANGED <<tasks, done, stage>>
    BY DEF Start
  <1>2. PTypeOK'
    BY <1>1 DEF PInv, PTypeOK
  <1>3. \A t \in TaskIds : t # v => (running'[t] <=> running[t])
    BY <1>1 DEF PInv, PTypeOK
  <1>4. running'[v]
    BY <1>1 DEF PInv, PTypeOK
  <1>5. Launched'
    BY <1>1, <1>3 DEF PInv, Launched, Added
  <1>6. /\ \A t \in TaskIds : t # v => Started(t)' = Started(t)
        /\ Started(v)' = done[v] + 1
    BY <1>1, <1>3, <1>4 DEF Started
  <1>7. Spacing'
    <2> SUFFICES ASSUME NEW t \in TaskIds, NEW u \in TaskIds, t < u, u \in Added,
                        Started(u)' > 0
                 PROVE  done[t] >= Least(Rows, Started(u)' + Dist(u) + 1)
      BY <1>1 DEF Spacing, Dist, Added
    <2>1. CASE u # v
      BY <1>6, <2>1 DEF PInv, Spacing
    <2>2. CASE u = v
      <3>1. /\ v \in Nat /\ t \in Nat /\ v > 0 /\ v - 1 \in TaskIds /\ v - 1 \in Added
            /\ Dist(v) \in Nat /\ Dist(v - 1) \in Nat /\ Rows \in Nat /\ done[v] \in Nat
            /\ done[t] \in Nat /\ done[v - 1] \in Nat
            /\ Started(v - 1) \in Nat /\ Started(v - 1) >= done[v - 1]
        BY <1>1, <2>2, PipeTypes DEF PInv
      <3>2. done[v - 1] >= Least(Rows, done[v] + Dist(v) + 2)
        BY <1>1, <3>1 DEF Ahead, Dist
      <3>3. CASE t = v - 1
        BY <1>6, <2>2, <3>1, <3>2, <3>3 DEF Least
      <3>4. CASE t < v - 1
        <4>1. Started(v - 1) > 0
          BY <1>1, <3>1, <3>2 DEF Least
        <4>2. done[t] >= Least(Rows, Started(v - 1) + Dist(v - 1) + 1)
          BY <3>1, <3>4, <4>1 DEF PInv, Spacing
        <4> QED
          BY <1>6, <2>2, <3>1, <3>2, <4>2 DEF Least
      <3> QED
        BY <2>2, <3>1, <3>3, <3>4
    <2> QED
      BY <2>1, <2>2
  <1> QED
    BY <1>2, <1>5, <1>7 DEF PInv

\* Finishing a row: as many rows have started, more are done.
LEMMA FinishKeeps ==
    ASSUME PInv, NEW v \in TaskIds, Finish(v)
    PROVE  PInv'
  <1>1. /\ running[v] /\ running' = [running EXCEPT ![v] = FALSE]
        /\ done' = [done EXCEPT ![v] = @ + 1]
        /\ UNCHANGED <<tasks, stage>>
    BY DEF Finish
  <1>2. done[v] < Rows /\ v \in Added /\ stage = "run"
    BY <1>1 DEF PInv, Launched
  <1>3. /\ \A t \in TaskIds : t # v => done'[t] = done[t]
        /\ done'[v] = done[v] + 1
    BY <1>1 DEF PInv, PTypeOK
  <1>4. /\ \A t \in TaskIds : t # v => (running'[t] <=> running[t])
        /\ ~running'[v]
    BY <1>1 DEF PInv, PTypeOK
  <1>5. PTypeOK'
    <2>1. done' \in [TaskIds -> 0 .. Rows]
      BY <1>1, <1>2, <1>3, PipeTypes DEF PInv, PTypeOK
    <2>2. running' \in [TaskIds -> BOOLEAN]
      BY <1>1 DEF PInv, PTypeOK
    <2> QED
      BY <1>1, <2>1, <2>2 DEF PInv, PTypeOK
  <1>6. Launched'
    BY <1>1, <1>2, <1>3, <1>4 DEF PInv, Launched, Added
  <1>7. \A t \in TaskIds : Started(t)' = Started(t) /\ done'[t] >= done[t]
    BY <1>1, <1>3, <1>4, PipeTypes DEF PInv, Started
  <1>8. Spacing'
    <2> SUFFICES ASSUME NEW t \in TaskIds, NEW u \in TaskIds, t < u, u \in Added,
                        Started(u) > 0
                 PROVE  done'[t] >= Least(Rows, Started(u) + Dist(u) + 1)
      BY <1>1, <1>7 DEF Spacing, Dist, Added
    <2>1. done[t] >= Least(Rows, Started(u) + Dist(u) + 1)
      BY DEF PInv, Spacing
    <2>2. /\ Started(u) \in Nat /\ Dist(u) \in Nat /\ Rows \in Nat
          /\ done[t] \in Nat /\ done'[t] \in Nat
      BY <1>3, PipeTypes DEF PInv
    <2> QED
      BY <1>7, <2>1, <2>2 DEF Least
  <1> QED
    BY <1>5, <1>6, <1>8 DEF PInv

\* The invariant holds at first.
LEMMA PipelineInit ==
    ASSUME PInit
    PROVE  PInv
  <1>1. Rows \in Nat \ {0} /\ MaxTasks \in Nat
    BY FieldAssumption, PipelineAssumption DEF FieldAssumption, PipelineAssumption
  <1>2. tasks \in Seq(Task) /\ Len(tasks) = 0
    BY EmptySeq DEF PInit
  <1>3. \A t \in TaskIds : done[t] = 0 /\ ~running[t]
    BY DEF PInit
  <1>4. done \in [TaskIds -> 0 .. Rows] /\ running \in [TaskIds -> BOOLEAN]
    BY <1>1 DEF PInit
  <1>5. PTypeOK
    BY <1>1, <1>2, <1>4 DEF PInit, PTypeOK
  <1>6. \A t \in TaskIds : Started(t) = 0
    BY <1>3 DEF Started
  <1> QED
    BY <1>3, <1>5, <1>6 DEF PInv, Launched, Spacing

\* Every step keeps the invariant.
LEMMA PipelineStep ==
    ASSUME PInv, [PNext]_pipeVars
    PROVE  PInv'
  <1>1. CASE UNCHANGED pipeVars
    BY <1>1 DEF pipeVars, PInv, PTypeOK, Launched, Spacing, Started, Dist, Added
  <1>2. ASSUME NEW f \in Fns, NEW d \in Deps, Add(f, d) PROVE PInv'
    BY <1>2, AddKeeps
  <1>3. CASE Launch
    BY <1>3 DEF Launch, PInv, PTypeOK, Launched, Spacing, Started, Dist, Added
  <1>4. ASSUME NEW t \in TaskIds, Start(t) \/ Finish(t) PROVE PInv'
    BY <1>4, StartKeeps, FinishKeeps
  <1>5. CASE Collect \/ Drop
    <2>1. /\ tasks' = <<>> /\ stage' = "add" /\ UNCHANGED running
          /\ \A t \in TaskIds : ~running[t]
      BY <1>5, PipeTypes DEF Collect, Drop, PInv, Launched
    <2>2. done' = [t \in TaskIds |-> 0]
      <3>1. CASE Collect
        BY <3>1 DEF Collect
      <3>2. CASE Drop
        BY <3>2 DEF Drop, PInv, PTypeOK, Launched
      <3> QED
        BY <1>5, <3>1, <3>2
    <2>3. tasks' \in Seq(Task) /\ Len(tasks') = 0 /\ Rows \in Nat /\ MaxTasks \in Nat
      BY <2>1, EmptySeq, PipeTypes DEF PInv
    <2>4. done' \in [TaskIds -> 0 .. Rows]
      BY <2>2, <2>3
    <2>5. PTypeOK'
      BY <2>1, <2>3, <2>4 DEF PInv, PTypeOK
    <2>6. \A t \in TaskIds : Started(t)' = 0
      BY <2>1, <2>2 DEF Started
    <2> QED
      BY <2>1, <2>2, <2>5, <2>6 DEF PInv, Launched, Spacing
  <1> QED
    BY <1>1, <1>2, <1>3, <1>4, <1>5 DEF PNext

\* Every task keeps its distance from every earlier one, in every reachable
\* state.
THEOREM PipelineSpacing == PSpec => []PInv
  <1>1. PInit => PInv
    BY PipelineInit
  <1>2. PInv /\ [PNext]_pipeVars => PInv'
    BY PipelineStep
  <1> QED
    BY <1>1, <1>2, PTL DEF PSpec
-----------------------------------------------------------------------------
(* The frames. *)

FramesFit == \A c \in Configs : FitsScheduler(c)
FramesSuffice == \A c \in Configs : DistancesSuffice(c)

\* The scheduler only holds tasks of the configuration's frame.
Prefix ==
    /\ config \in Configs
    /\ Len(tasks) <= Len(Frames[config].tasks)
    /\ \A i \in 1 .. Len(tasks) : tasks[i] = Frames[config].tasks[i]
    /\ stage = "run" => Len(tasks) = Len(Frames[config].tasks)

\* A frame's task list is a sequence of tasks.
LEMMA FrameTasks ==
    ASSUME FramesFit, NEW c \in Configs
    PROVE  /\ Frames[c].tasks \in Seq(Task)
           /\ Len(Frames[c].tasks) \in Nat
           /\ \A i \in 1 .. Len(Frames[c].tasks) :
                 Frames[c].tasks[i].fn \in Fns /\ Frames[c].tasks[i].dep \in Deps
  <1> DEFINE todo == Frames[c].tasks
  <1>1. todo \in Seq(Task)
    BY DEF FramesFit, FitsScheduler, Task
  <1> HIDE DEF todo
  <1>2. \A i \in 1 .. Len(todo) : todo[i] \in Task
    BY <1>1, ElementOfSeq
  <1>3. \A i \in 1 .. Len(todo) : todo[i].fn \in Fns /\ todo[i].dep \in Deps
    BY <1>2 DEF Task
  <1> QED
    BY <1>1, <1>3, LenProperties DEF todo

\* A step of a frame is a step of the scheduler.
LEMMA FrameSteps ==
    ASSUME FramesFit, Prefix, PTypeOK, [FNext]_frameVars
    PROVE  [PNext]_pipeVars
  <1>1. CASE AddNextTask
    <2> DEFINE todo == Frames[config].tasks
               f == todo[Len(tasks) + 1].fn
               d == todo[Len(tasks) + 1].dep
    <2>1. Len(tasks) < Len(todo) /\ Add(f, d)
      BY <1>1 DEF AddNextTask
    <2>2. Len(tasks) + 1 \in 1 .. Len(todo)
      BY <2>1, FrameTasks, PipeTypes DEF Prefix
    <2>3. f \in Fns /\ d \in Deps
      BY <2>2, FrameTasks DEF Prefix
    <2> QED
      BY <2>1, <2>3 DEF PNext
  <1>2. CASE LaunchFrame \/ RunRows \/ NextFrame
    BY <1>2 DEF LaunchFrame, RunRows, NextFrame, PNext
  <1>3. CASE UNCHANGED frameVars
    BY <1>3 DEF frameVars, pipeVars
  <1> QED
    BY <1>1, <1>2, <1>3 DEF FNext

\* The scheduler keeps holding a prefix of the frame.
LEMMA PrefixKept ==
    ASSUME FramesFit, Prefix, PTypeOK, [FNext]_frameVars
    PROVE  Prefix'
  <1>1. CASE AddNextTask
    <2> DEFINE todo == Frames[config].tasks
               task == [fn |-> todo[Len(tasks) + 1].fn, dep |-> todo[Len(tasks) + 1].dep]
    <2>1. /\ Len(tasks) < Len(todo) /\ stage = "add"
          /\ tasks' = Append(tasks, task) /\ config' = config /\ stage' = stage
      BY <1>1 DEF AddNextTask, Add
    <2>2. Len(tasks) + 1 \in 1 .. Len(todo)
      BY <2>1, FrameTasks, PipeTypes DEF Prefix
    <2>3. task = todo[Len(tasks) + 1] /\ task \in Task
      <3>1. todo[Len(tasks) + 1] \in Task
        BY <2>2, FrameTasks, ElementOfSeq DEF Prefix
      <3> QED
        BY <3>1 DEF Task
    <2>4. /\ Len(tasks') = Len(tasks) + 1
          /\ \A i \in 1 .. Len(tasks) : tasks'[i] = tasks[i]
          /\ tasks'[Len(tasks) + 1] = task
      BY <2>1, <2>3, AppendProperties DEF PTypeOK
    <2>5. \A i \in 1 .. Len(tasks') : i \in 1 .. Len(tasks) \/ i = Len(tasks) + 1
      BY <2>4, PipeTypes
    <2>6. Len(tasks') <= Len(todo)
      BY <2>2, <2>4
    <2> HIDE DEF todo, task
    <2>7. \A i \in 1 .. Len(tasks') : tasks'[i] = todo[i]
      BY <2>3, <2>4, <2>5 DEF Prefix, todo
    <2> QED
      BY <2>1, <2>6, <2>7 DEF Prefix, todo
  <1>2. CASE LaunchFrame
    BY <1>2 DEF LaunchFrame, Launch, Prefix
  <1>3. CASE RunRows
    BY <1>3 DEF RunRows, Start, Finish, Prefix
  <1>4. CASE NextFrame
    <2>1. config' \in Configs /\ stage' = "add" /\ tasks' = <<>>
      BY <1>4 DEF NextFrame, Collect, Drop
    <2>2. Len(tasks') = 0
      BY <2>1, EmptySeq
    <2>3. Len(Frames[config'].tasks) \in Nat
      BY <2>1, FrameTasks
    <2> QED
      BY <2>1, <2>2, <2>3 DEF Prefix
  <1>5. CASE UNCHANGED frameVars
    BY <1>5 DEF frameVars, pipeVars, Prefix
  <1> QED
    BY <1>1, <1>2, <1>3, <1>4, <1>5 DEF FNext

FInv == Prefix /\ PInv

\* The scheduler and its contents are as they should be in every reachable
\* state.
LEMMA FrameInvariance ==
    ASSUME FramesFit
    PROVE  FSpec => []FInv
  <1>1. FInit => FInv
    <2> SUFFICES ASSUME FInit PROVE Prefix /\ PInv
      BY DEF FInv
    <2>1. PInv
      BY PipelineInit DEF FInit
    <2>2. config \in Configs /\ tasks = <<>> /\ stage = "add"
      BY DEF FInit, PInit
    <2>3. Len(tasks) = 0 /\ Len(Frames[config].tasks) \in Nat
      BY <2>2, EmptySeq, FrameTasks
    <2> QED
      BY <2>1, <2>2, <2>3 DEF Prefix
  <1>2. FInv /\ [FNext]_frameVars => FInv'
    BY PrefixKept, FrameSteps, PipelineStep DEF FInv, PInv
  <1> QED
    BY <1>1, <1>2, PTL DEF FSpec

\* Frames that fit use the scheduler as RowPipeline allows.
LEMMA FittingFrameIsPipeline ==
    ASSUME FramesFit
    PROVE  FSpec => PSpec
  <1>1. FInit => PInit
    BY DEF FInit
  <1>2. FInv /\ [FNext]_frameVars => [PNext]_pipeVars
    BY FrameSteps DEF FInv, PInv
  <1> QED
    BY <1>1, <1>2, FrameInvariance, PTL DEF FSpec, PSpec

\* With frames that fit, the scheduler holds a prefix of the configuration's.
LEMMA FittingFrameTyping ==
    ASSUME FramesFit
    PROVE  FSpec => []FTypeOK
  <1>1. FInv => FTypeOK
    BY DEF FInv, Prefix, PInv, PTypeOK, FTypeOK
  <1> QED
    BY <1>1, FrameInvariance, PTL

\* If the distances a frame declares cover the conflicts of its row functions,
\* then on every schedule a row function runs only when every earlier task has
\* finished the rows that conflict with it.
LEMMA DeclaredRowsOrdered ==
    ASSUME FramesFit, FramesSuffice
    PROVE  FSpec => []ConflictsOrdered
  <1>1. FInv => ConflictsOrdered
    <2> SUFFICES ASSUME FInv, NEW u \in Added, running[u], NEW t \in 0 .. u - 1,
                        NEW y \in Conflicts[config][tasks[t + 1].fn][tasks[u + 1].fn][done[u]]
                 PROVE  y < done[t]
      BY DEF ConflictsOrdered
    <2> DEFINE todo == Frames[config].tasks
               f == todo[t + 1].fn
               g == todo[u + 1].fn
    <2>1. /\ config \in Configs
          /\ u \in TaskIds /\ t \in TaskIds /\ t < u /\ t \in Nat /\ u \in Nat
          /\ u + 1 \in 1 .. Len(tasks) /\ t + 1 \in 1 .. Len(tasks)
          /\ u + 1 \in 1 .. Len(todo) /\ t + 1 \in 1 .. (u + 1) - 1
      <3>1. PTypeOK /\ Prefix
        BY DEF FInv, PInv
      <3>2. Len(tasks) \in Nat /\ Len(todo) \in Nat /\ Len(tasks) <= Len(todo)
        BY <3>1, PipeTypes, FrameTasks DEF Prefix
      <3>3. u \in Nat /\ u < Len(tasks) /\ t \in Nat /\ t < u
        BY <3>2 DEF Added
      <3>4. t \in Added
        BY <3>2, <3>3 DEF Added
      <3>5. u \in TaskIds /\ t \in TaskIds
        BY <3>1, <3>4, PipeTypes
      <3> HIDE DEF todo
      <3> QED
        BY <3>1, <3>2, <3>3, <3>5 DEF Prefix
    <2>2. tasks[t + 1] = todo[t + 1] /\ tasks[u + 1] = todo[u + 1]
      BY <2>1 DEF FInv, Prefix
    <2>3. done[u] \in RowSet /\ done[u] \in Nat
      <3>1. PTypeOK /\ Launched
        BY DEF FInv, PInv
      <3>2. done[u] \in Nat /\ done[u] < Rows /\ Rows \in Nat
        BY <2>1, <3>1, PipeTypes DEF Launched
      <3> QED
        BY <3>2 DEF RowSet
    <2>4. f \in 0 .. Len(Frames[config].fns) - 1 /\ g \in 0 .. Len(Frames[config].fns) - 1
      <3>1. t + 1 \in 1 .. Len(todo)
        BY <2>1, FrameTasks
      <3> QED
        BY <2>1, <3>1 DEF FramesFit, FitsScheduler
    <2>5. y \in RowSet /\ Conflict(Footprint(config, f, y), Footprint(config, g, done[u]))
      <3> HIDE DEF f, g
      <3>1. Conflicts[config][f][g][done[u]] =
               {r \in RowSet : Conflict(Footprint(config, f, r), Footprint(config, g, done[u]))}
        BY <2>1, <2>3, <2>4 DEF Conflicts
      <3> QED
        BY <2>2, <3>1 DEF f, g
    <2>6. ~(y > done[u] + Abs(todo[u + 1].dep) + 1)
      <3>1. DistancesSuffice(config)
        BY <2>1 DEF FramesSuffice
      <3> QED
        BY <2>1, <2>3, <2>5, <3>1 DEF DistancesSuffice
    <2>7. Dist(u) = Abs(todo[u + 1].dep) /\ Dist(u) \in Nat
      BY <2>2, PipeTypes DEF Dist, FInv, PInv
    <2>8. done[t] >= Least(Rows, done[u] + 1 + Dist(u) + 1)
      <3>1. Started(u) = done[u] + 1
        BY DEF Started
      <3> QED
        BY <2>1, <2>3, <3>1 DEF FInv, PInv, Spacing
    <2>9. y \in Nat /\ y < Rows /\ Rows \in Nat /\ done[t] \in Nat
      <3>1. PTypeOK
        BY DEF FInv, PInv
      <3>2. Rows \in Nat /\ done[t] \in Nat
        BY <2>1, <3>1, PipeTypes
      <3> QED
        BY <2>5, <3>2 DEF RowSet
    <2> QED
      BY <2>3, <2>6, <2>7, <2>8, <2>9 DEF Least
  <1> QED
    BY <1>1, FrameInvariance, PTL

-----------------------------------------------------------------------------
(* The frames that fluid_cpu.c builds do fit, and declare enough. *)

\* The scheduler was created large enough for a frame: the tasks, function numbers and
\* distances of frames are among those it handles.
SchedulerHoldsFrames ==
    /\ FrameTaskLimit <= MaxTasks
    /\ 0 .. FrameFnLimit - 1 \subseteq Fns
    /\ {0, -1, -Far} \subseteq Deps

SoundConfigs == \A c \in Configs : Sound(c)

\* The frame of a sound configuration fits in the scheduler.
LEMMA SoundFramesFit ==
    ASSUME SchedulerHoldsFrames, SoundConfigs
    PROVE  FramesFit
  <1> SUFFICES ASSUME NEW c \in Configs PROVE FitsScheduler(c)
    BY DEF FramesFit
  <1> DEFINE s == Frames[c]
             l == Len(s.tasks)
  <1>1. /\ Formed(s) /\ Len(s.fns) \in Nat /\ l \in Nat /\ Len(s.windows) = l
        /\ \A i \in 1 .. l : s.windows[i].fn \in 0 .. Len(s.fns) - 1
    BY FrameFacts DEF SoundConfigs
  <1>2. Len(s.fns) <= FrameFnLimit /\ l <= FrameTaskLimit
    BY FrameFacts DEF SoundConfigs, Good
  <1> HIDE DEF s
  <1>3. FrameTaskLimit \in Int /\ MaxTasks \in Nat /\ Far \in Nat
    BY AccuracyAssumption, PipelineAssumption, FarInNat
      DEF AccuracyAssumption, PipelineAssumption, FrameTaskLimit
  <1>4. /\ s.tasks \in Seq(TaskArgs)
        /\ \A i \in 1 .. l : /\ s.tasks[i] \in TaskArgs
                             /\ s.tasks[i].fn = s.windows[i].fn
                             /\ s.tasks[i].dep = -s.windows[i].bottom
                             /\ s.windows[i].bottom \in {0, 1, Far}
    BY <1>1, FormedFacts DEF Formed, Far
  <1>5. \A i \in 1 .. l : s.tasks[i].fn \in 0 .. Len(s.fns) - 1
    BY <1>1, <1>4
  <1>6. ASSUME NEW i \in 1 .. l PROVE s.tasks[i] \in Task
    <2>1. s.tasks[i].fn \in Fns
      <3> DEFINE f == s.tasks[i].fn
                 m == Len(s.fns)
      <3>1. f \in 0 .. m - 1 /\ m \in Nat /\ m <= FrameFnLimit
        BY <1>1, <1>2, <1>5
      <3> HIDE DEF f, m
      <3>2. f \in 0 .. FrameFnLimit - 1
        BY <3>1 DEF FrameFnLimit
      <3> QED
        BY <3>2 DEF SchedulerHoldsFrames, f
    <2>2. s.tasks[i].dep \in {0, -1, -Far}
      BY <1>3, <1>4
    <2>3. s.tasks[i].dep \in Deps
      BY <2>2 DEF SchedulerHoldsFrames
    <2> QED
      BY <1>4, <2>1, <2>3 DEF TaskArgs, Task
  <1>7. s.tasks \in Seq(Task)
    <2>1. s.tasks = [i \in 1 .. l |-> s.tasks[i]]
      BY <1>4, LenProperties
    <2>2. s.tasks \in [1 .. l -> Task]
      BY <1>6, <2>1
    <2> QED
      BY <1>1, <2>2, FunctionSeq
  <1>8. l <= MaxTasks
    BY <1>1, <1>2, <1>3 DEF SchedulerHoldsFrames
  <1> QED
    BY <1>5, <1>7, <1>8 DEF FitsScheduler, Task, s

\* The distances it declares cover the conflicts of its row functions.
LEMMA SoundFramesSuffice ==
    ASSUME SoundConfigs
    PROVE  FramesSuffice
  <1> SUFFICES ASSUME NEW c \in Configs PROVE DistancesSuffice(c)
    BY DEF FramesSuffice
  <1> DEFINE s == Frames[c]
             l == Len(s.tasks)
  <1>1. /\ Formed(s) /\ AllClear(s) /\ l \in Nat /\ Len(s.windows) = l
        /\ \A i \in 1 .. l : /\ s.windows[i].bottom \in Nat
                             /\ \A y : Footprint(c, s.windows[i].fn, y) = Fn(s, i)[y]
    BY FrameFacts DEF SoundConfigs
  <1> HIDE DEF s
  <1>2. \A i \in 1 .. l : /\ s.tasks[i].fn = s.windows[i].fn
                          /\ s.tasks[i].dep = -s.windows[i].bottom
    BY <1>1 DEF Formed
  <1>3. ASSUME NEW j \in 1 .. l, NEW i \in 1 .. j - 1, NEW y \in RowSet, NEW z \in RowSet,
               y > z + Abs(s.tasks[j].dep) + 1
        PROVE  ~Conflict(Footprint(c, s.tasks[i].fn, y), Footprint(c, s.tasks[j].fn, z))
    <2>1. i \in 1 .. l /\ i < j /\ j \in 1 .. l
      BY <1>1
    <2>2. Abs(s.tasks[j].dep) = Bottom(s, j)
      <3> DEFINE b == s.windows[j].bottom
      <3>1. b \in Nat /\ s.tasks[j].dep = -b
        BY <1>1, <1>2
      <3> HIDE DEF b
      <3>2. Abs(-b) = b
        BY <3>1, \A k \in Int : k <= 0 /\ 0 <= k => 0 = -k DEF Abs
      <3> QED
        BY <3>1, <3>2 DEF Bottom, b
    <2>3. Clear(s, i, j, y, z)
      BY <1>1, <2>1 DEF AllClear
    <2>4. ~Conflict(Fn(s, i)[y], Fn(s, j)[z])
      BY <1>3, <2>2, <2>3 DEF Clear
    <2> QED
      BY <1>1, <1>2, <2>1, <2>4
  <1> QED
    BY <1>3 DEF DistancesSuffice, s

\* A frame is of one of the configurations.
LEMMA Configured == FSpec => [](config \in Configs)
  <1>1. FInit => config \in Configs
    BY DEF FInit
  <1>2. config \in Configs /\ [FNext]_frameVars => (config \in Configs)'
    BY DEF FNext, AddNextTask, LaunchFrame, RunRows, NextFrame, frameVars
  <1> QED
    BY <1>1, <1>2, PTL DEF FSpec

\* What the calls of mpCTaskAdd declare is enough for the row functions of every frame
\* fluid_cpu.c builds, whatever the size of the field, the reach of the advection and the
\* accuracies: the tasks fit in the scheduler, and no row conflicts with one that an
\* earlier task may not have finished (FSpec => []DistancesDeclared).
THEOREM DistancesCover ==
    ASSUME SchedulerHoldsFrames, SoundConfigs
    PROVE  FSpec => []DistancesDeclared
  <1>1. config \in Configs => DistancesDeclared
    BY SoundFramesFit, SoundFramesSuffice DEF FramesFit, FramesSuffice, DistancesDeclared
  <1> QED
    BY <1>1, Configured, PTL

\* The same of the arguments for the scheduler without Grand Central Dispatch, whose
\* distances add up along the frame, and of the tasks whose rows it runs side by side
\* (FSpec => []WindowsDeclared).
THEOREM WindowsCover ==
    ASSUME SoundConfigs
    PROVE  FSpec => []WindowsDeclared
  <1>1. config \in Configs => WindowsDeclared
    BY FrameWindowsTyped, FrameOffsets, FrameWindowsSuffice, FrameRowsApart
      DEF SoundConfigs, WindowsDeclared
  <1> QED
    BY <1>1, Configured, PTL

\* The frames of a fluid use the scheduler as RowPipeline allows.
THEOREM FrameIsPipeline ==
    ASSUME SchedulerHoldsFrames, SoundConfigs
    PROVE  FSpec => PSpec
  BY SoundFramesFit, FittingFrameIsPipeline

\* The scheduler holds a prefix of the configuration's frame, and all of it once
\* it is launched (FSpec => []FTypeOK).
THEOREM FrameTyping ==
    ASSUME SchedulerHoldsFrames, SoundConfigs
    PROVE  FSpec => []FTypeOK
  BY SoundFramesFit, FittingFrameTyping

\* On every schedule a row function runs only when every earlier task has finished the
\* rows that conflict with it, in the frames of every set of sound configurations
\* (FSpec => []ConflictsOrdered).
THEOREM RowsOrdered ==
    ASSUME SchedulerHoldsFrames, SoundConfigs
    PROVE  FSpec => []ConflictsOrdered
  BY SoundFramesFit, SoundFramesSuffice, DeclaredRowsOrdered
-----------------------------------------------------------------------------
(***************************************************************************)
(* The walks of the row functions along their rows.                        *)
(***************************************************************************)
\* An unrolled loop ends early enough for its last body, and the loop after
\* it where the loops end.  A loop that stays in steps of more than one is
\* the only one, over a number of units that it divides.
WellShaped(p) ==
    /\ p.unit \in {Vector, Cell}
    /\ p.reach \in 0 .. p.edge
    /\ p.edge \in {0, 1}
    /\ p.ends \in BOOLEAN
    /\ p.align \in BOOLEAN
    /\ p.left \in Nat
    /\ p.step \in Nat
    /\ p.far \subseteq {0}
    /\ p.ends => p.edge = 1
    /\ p.align => p.edge = 1
    /\ p.step > 0 => p.left >= p.edge + p.step - 1
    /\ \/ p.tailStep = 1 /\ p.tailLeft = p.edge
       \/ /\ p.tailStep = 2 /\ p.tailLeft = 2 /\ p.edge = 1
          /\ ~p.align /\ p.step = 0
       \/ /\ p.tailStep = 8 /\ p.tailLeft = 0 /\ p.edge = 0
          /\ ~p.align /\ p.step = 0

Origin == IF pass.ends THEN 0 ELSE pass.edge

\* Where the walk is, and what it has stored so far.
Position ==
    /\ x >= pass.edge
    /\ x <= n - pass.edge
    /\ pass.tailStep = 2 => x % 2 = 1
    /\ pass.tailStep = 8 => x % 8 = 0

Stored ==
    /\ pc = "first" => pass.ends /\ swept = {} /\ stores = {}
    /\ pc \in Loops \cup {"last"} => swept \cup stores = Origin .. x - 1
    /\ pc = "last" => pass.ends /\ x = n - pass.edge

SInv == TypeOK /\ Position /\ Stored /\ InRow /\ SweptOnce /\ RowSwept

-----------------------------------------------------------------------------
\* The numbers of the loops fit together.
LEMMA FringedShaped ==
    /\ WellShaped(Fringed(Vector, 1, FALSE, 5, 4))
    /\ WellShaped(Fringed(Vector, 1, FALSE, 9, 3))
    /\ WellShaped(Fringed(Vector, 1, FALSE, 4, 3))
    /\ WellShaped(Fringed(Vector, 1, FALSE, 4, 4))
    /\ WellShaped(Fringed(Vector, 1, FALSE, 13, 4))
    /\ WellShaped(Fringed(Vector, 1, TRUE, 5, 4))
    /\ WellShaped(Fringed(Vector, 1, TRUE, 9, 8))
    /\ WellShaped(Walk(Vector, 1, TRUE, 5, 4, {0}))
  BY DEF WellShaped, Fringed, Walk, Vector, Cell

LEMMA SimpleShaped ==
    /\ WellShaped(Simple(Vector, 0))
    /\ WellShaped(Simple(Vector, 1))
    /\ WellShaped(Simple(Cell, 1))
  BY DEF WellShaped, Simple, Fringed, Walk, Vector, Cell

LEMMA InnerShaped ==
    /\ WellShaped(SimpleInner(Cell, 0))
    /\ WellShaped(SimpleInner(Cell, 1))
    /\ WellShaped(InnerWalk(Vector, 1, TRUE, 4, 4))
    /\ WellShaped(Pairs(Vector, 2))
    /\ WellShaped(Pairs(Cell, 2))
  BY DEF WellShaped, SimpleInner, InnerWalk, Pairs, Vector, Cell

LEMMA WholeShaped ==
    /\ WellShaped(Each(Vector))
    /\ WellShaped(Each(Cell))
    /\ WellShaped(Whole(Vector, 0, 0, 8))
    /\ WellShaped(Whole(Vector, 3, 4, 1))
    /\ WellShaped(Whole(Cell, 3, 3, 1))
  BY DEF WellShaped, Whole, Each, Vector, Cell

\* The row functions of the frames, in each of their builds.
LEMMA CalledShaped == \A p \in Called : WellShaped(p)
<1>2. \A p \in UNION {genPressure_edge, genPressure_AltiVec, genPressure_SSE3,
           genPressure_plain, genPressure_dens, genPressure_densfix,
           applyPressure_AltiVec, applyPressure_SSE3, applyPressure_plain} :
         WellShaped(p)
  BY FringedShaped, SimpleShaped, InnerShaped, WholeShaped
     DEF genPressure_edge, genPressure_AltiVec, genPressure_SSE3,
         genPressure_plain, genPressure_dens, genPressure_densfix,
         applyPressure_AltiVec, applyPressure_SSE3, applyPressure_plain
<1>3. \A p \in UNION {viscosity_edge, viscosity_AltiVec_X, viscosity_AltiVec_Y,
           viscosity_SSE3_X, viscosity_SSE3_Y, viscosity_plain} :
         WellShaped(p)
  BY FringedShaped, SimpleShaped, InnerShaped, WholeShaped
     DEF viscosity_edge, viscosity_AltiVec_X, viscosity_AltiVec_Y,
         viscosity_SSE3_X, viscosity_SSE3_Y, viscosity_plain
<1>4. \A p \in UNION {vorticity_curl_edge, vorticity_curl_AltiVec, vorticity_curl_SSE3,
           vorticity_curl_plain, vorticity_apply_AltiVec,
           vorticity_apply_SSE3, vorticity_apply_plain} :
         WellShaped(p)
  BY FringedShaped, SimpleShaped, InnerShaped
     DEF vorticity_curl_edge, vorticity_curl_AltiVec, vorticity_curl_SSE3,
         vorticity_curl_plain, vorticity_apply_AltiVec,
         vorticity_apply_SSE3, vorticity_apply_plain
<1>5. \A p \in UNION {force_heat, dampen, input_char2dens, input_float2vel,
           video_temp2char, video_dens2char_x, input_vel2float, repos, reposVel,
           advection_stam_repos, advection_mccormack_repos} :
         WellShaped(p)
  BY WholeShaped
     DEF force_heat, dampen, input_char2dens, input_float2vel,
         video_temp2char, video_dens2char_x, input_vel2float, repos, reposVel,
         advection_stam_repos, advection_mccormack_repos
<1> QED  BY <1>2, <1>3, <1>4, <1>5 DEF Called

\* The row functions no frame calls.
LEMMA SpareShaped == \A p \in Spare : WellShaped(p)
<1>2. \A p \in UNION {genPressure_red_edge, genPressure_red_AltiVec,
           genPressure_red_SSE3, genPressure_red_plain,
           genPressure_black_edge, genPressure_black_AltiVec,
           genPressure_black_SSE3, genPressure_black_plain} :
         WellShaped(p)
  BY FringedShaped, SimpleShaped, InnerShaped, WholeShaped
     DEF genPressure_red_edge, genPressure_red_AltiVec,
         genPressure_red_SSE3, genPressure_red_plain,
         genPressure_black_edge, genPressure_black_AltiVec,
         genPressure_black_SSE3, genPressure_black_plain
<1>3. \A p \in UNION {viscosity_rb_edge, viscosity_rb_AltiVec_X, viscosity_rb_AltiVec_Y,
           viscosity_rb_SSE3_X, viscosity_rb_SSE3_Y, viscosity_rb_plain} :
         WellShaped(p)
  BY FringedShaped, SimpleShaped, InnerShaped, WholeShaped
     DEF viscosity_rb_edge, viscosity_rb_AltiVec_X, viscosity_rb_AltiVec_Y,
         viscosity_rb_SSE3_X, viscosity_rb_SSE3_Y, viscosity_rb_plain
<1>4. \A p \in UNION {video_dens2char, gatherVel, scatterVel, stam_velocity,
           stam_velocity_npt} :
         WellShaped(p)
  BY WholeShaped
     DEF video_dens2char, gatherVel, scatterVel, stam_velocity, stam_velocity_npt
<1>5. \A p \in UNION {fwd_velocity_AltiVec, fwd_velocity_SSE3, fwd_velocity_plain, fwd_dens} :
         WellShaped(p)
  BY FringedShaped, SimpleShaped, InnerShaped
     DEF fwd_velocity_AltiVec, fwd_velocity_SSE3, fwd_velocity_plain, fwd_dens
<1>6. \A p \in UNION {fwd_generate_repos_simd, fwd_generate_repos_plain, fwd_repos_edge,
           fwd_repos_simd_clamp, fwd_repos_simd, fwd_repos_plain} :
         WellShaped(p)
  BY FringedShaped, SimpleShaped, InnerShaped, WholeShaped
     DEF fwd_generate_repos_simd, fwd_generate_repos_plain, fwd_repos_edge,
         fwd_repos_simd_clamp, fwd_repos_simd, fwd_repos_plain
<1> QED  BY <1>2, <1>3, <1>4, <1>5, <1>6 DEF Spare

\* Every pass of a row function is well shaped.
LEMMA PassesShaped == \A p \in Passes : WellShaped(p)
  BY CalledShaped, SpareShaped DEF Passes

-----------------------------------------------------------------------------
\* A row of a width that matrix_calc accepts has a multiple of eight units.
LEMMA UnitsOfRow ==
    ASSUME NEW w \in Widths, NEW unit \in {Vector, Cell}
    PROVE  /\ w \div unit \in Nat
           /\ w \div unit >= 8
           /\ (w \div unit) % 8 = 0
           /\ (w \div unit) % 2 = 0
<1>1. w \in Nat /\ w >= 32 /\ w % 32 = 0
  BY WidthsAssumption
<1>2. CASE unit = Vector
  BY <1>1, <1>2 DEF Vector
<1>3. CASE unit = Cell
  BY <1>1, <1>3 DEF Cell
<1> QED  BY <1>2, <1>3

\* What an iteration and the tests of the loops do to the column.
LEMMA IterationFits ==
    ASSUME NEW units \in Nat, NEW col \in Nat, NEW p, WellShaped(p),
           units % 8 = 0, units % 2 = 0,
           col >= p.edge, col <= units - p.edge,
           p.tailStep = 2 => col % 2 = 1,
           p.tailStep = 8 => col % 8 = 0
    PROVE  /\ p.align /\ col < units - 1 => col + 1 <= units - p.edge
           /\ p.step > 0 /\ col < units - p.left => col + p.step <= units - p.edge
           /\ col < units - p.tailLeft =>
                 /\ col + p.tailStep <= units - p.edge
                 /\ p.tailStep = 2 => (col + p.tailStep) % 2 = 1
                 /\ p.tailStep = 8 => (col + p.tailStep) % 8 = 0
           /\ ~(col < units - p.tailLeft) => col = units - p.edge
<1>1. CASE p.tailStep = 1
  BY <1>1 DEF WellShaped
<1>2. CASE p.tailStep = 2
  BY <1>2 DEF WellShaped
<1>3. CASE p.tailStep = 8
  BY <1>3 DEF WellShaped
<1> QED  BY <1>1, <1>2, <1>3 DEF WellShaped

-----------------------------------------------------------------------------
\* What the proofs use of the pass and its width.
LEMMA PassFacts ==
    ASSUME TypeOK
    PROVE  /\ WellShaped(pass)
           /\ n \in Nat /\ n >= 8 /\ n % 8 = 0 /\ n % 2 = 0
           /\ pass.edge \in {0, 1} /\ pass.reach \in {0, 1}
           /\ pass.reach <= pass.edge
           /\ pass.ends => pass.edge = 1
<1>1. WellShaped(pass)
  BY PassesShaped DEF TypeOK
<1>2. pass.unit \in {Vector, Cell}
  BY <1>1 DEF WellShaped
<1>3. n \in Nat /\ n >= 8 /\ n % 8 = 0 /\ n % 2 = 0
  BY <1>2, UnitsOfRow DEF TypeOK, n
<1>4. pass.edge \in {0, 1} /\ pass.reach \in 0 .. pass.edge
  BY <1>1 DEF WellShaped
<1>5. pass.ends => pass.edge = 1
  BY <1>1 DEF WellShaped
<1>6. pass.reach \in {0, 1} /\ pass.reach <= pass.edge
  BY <1>4
<1> QED  BY <1>1, <1>3, <1>4, <1>5, <1>6

\* A row begins with nothing swept.
LEMMA InitInv == Init => SInv
<1> SUFFICES ASSUME Init PROVE SInv
  OBVIOUS
<1>1. WellShaped(pass)
  BY PassesShaped DEF Init
<1>2. pass.edge \in {0, 1}
  BY <1>1 DEF WellShaped
<1>3. TypeOK
  BY <1>2 DEF Init, TypeOK, Loops
<1>4. n \in Nat /\ n >= 8
  BY <1>3, PassFacts
<1>5. Position
  <2>1. pass.tailStep = 2 => pass.edge = 1
    BY <1>1 DEF WellShaped
  <2>2. pass.tailStep = 8 => pass.edge = 0
    BY <1>1 DEF WellShaped
  <2> QED  BY <1>2, <1>4, <2>1, <2>2 DEF Position, Init
<1>6. Stored
  <2>1. CASE pass.ends
    <3>1. pc = "first" /\ stores = {} /\ swept = {}
      BY <2>1 DEF Init
    <3> QED  BY <3>1, <2>1 DEF Stored, Loops
  <2>2. CASE ~pass.ends
    <3>1. pc = "align" /\ stores = {} /\ swept = {} /\ x = pass.edge
      BY <2>2 DEF Init
    <3>2. Origin .. x - 1 = {}
      BY <3>1, <2>2, <1>2 DEF Origin
    <3> QED  BY <3>1, <3>2 DEF Stored
  <2> QED  BY <2>1, <2>2
<1>7. InRow /\ SweptOnce
  BY DEF Init, InRow, SweptOnce
<1>8. RowSwept
  BY DEF Init, RowSwept
<1> QED  BY <1>3, <1>5, <1>6, <1>7, <1>8 DEF SInv

\* An iteration that stores the next units, and reads no further than the
\* ends of the row, keeps what has been swept in one piece.
LEMMA SweepUnits ==
    ASSUME SInv, pc \in Loops \cup {"last"},
           NEW size \in Nat, size > 0,
           x + size <= n, x >= pass.reach,
           NEW high \in Nat, high <= n - 1, NEW far, far \subseteq {0},
           Sweep((x - pass.reach .. high) \cup far, x .. x + size - 1)
    PROVE  /\ loads' \cup stores' \subseteq 0 .. n - 1
           /\ stores' \cap swept' = {}
           /\ swept' \cup stores' = Origin .. x + size - 1
           /\ loads' \subseteq Int /\ stores' \subseteq Int /\ swept' \subseteq Int
<1>1. TypeOK
  BY DEF SInv
<1>2. x \in Nat /\ n \in Nat /\ pass.reach \in {0, 1} /\ pass.edge \in {0, 1}
  BY <1>1, PassFacts DEF TypeOK
<1>3. swept \cup stores = Origin .. x - 1
  BY DEF SInv, Stored
<1>4. Origin \in {0, 1} /\ Origin <= x
  BY <1>2 DEF Origin, SInv, Position
<1>5. /\ loads' = (x - pass.reach .. high) \cup far
      /\ stores' = x .. x + size - 1
      /\ swept' = Origin .. x - 1
  BY <1>3 DEF Sweep
<1>6. loads' \cup stores' \subseteq 0 .. n - 1
  <2>1. x - pass.reach .. high \subseteq 0 .. n - 1
    BY <1>2
  <2>2. x .. x + size - 1 \subseteq 0 .. n - 1
    BY <1>2
  <2>3. far \subseteq 0 .. n - 1
    <3>1. 0 \in 0 .. n - 1
      BY <1>2
    <3> QED  BY <3>1
  <2> QED  BY <1>5, <2>1, <2>2, <2>3, Zenon
<1>7. stores' \cap swept' = {}
  BY <1>2, <1>4, <1>5
<1>8. swept' \cup stores' = Origin .. x + size - 1
  BY <1>2, <1>4, <1>5
<1>9. loads' \subseteq Int /\ stores' \subseteq Int /\ swept' \subseteq Int
  <2>1. 0 .. n - 1 \subseteq Int
    OBVIOUS
  <2>2. Origin .. x - 1 \subseteq Int
    OBVIOUS
  <2> QED  BY <1>5, <1>6, <2>1, <2>2, Zenon
<1> QED  BY <1>6, <1>7, <1>8, <1>9

LEMMA FirstInv == SInv /\ First => SInv'
<1> SUFFICES ASSUME SInv, First PROVE SInv'
  OBVIOUS
<1>1. TypeOK /\ pass.ends
  BY DEF SInv, Stored, First
<1>2. /\ WellShaped(pass) /\ n \in Nat /\ n >= 8 /\ pass.reach \in {0, 1}
      /\ pass.edge = 1
  BY <1>1, PassFacts
<1>3. /\ pc' = "align" /\ x' = 1 /\ pass' = pass /\ width' = width /\ n' = n
      /\ loads' = 0 .. pass.reach /\ stores' = {0} /\ swept' = {}
  BY DEF First, Sweep, SInv, Stored, n
<1>4. TypeOK'
  BY <1>1, <1>2, <1>3 DEF TypeOK, Loops
<1>5. Position'
  <2>1. pass.tailStep # 8
    BY <1>2 DEF WellShaped
  <2> QED  BY <1>2, <1>3, <2>1 DEF Position
<1>6. Stored'
  <2>1. Origin' = 0
    BY <1>1, <1>3 DEF Origin
  <2>2. swept' \cup stores' = Origin' .. x' - 1
    BY <2>1, <1>3
  <2> QED  BY <1>3, <2>2 DEF Stored
<1>7. InRow' /\ SweptOnce'
  BY <1>2, <1>3 DEF InRow, SweptOnce
<1>8. RowSwept'
  BY <1>3 DEF RowSwept
<1> QED  BY <1>4, <1>5, <1>6, <1>7, <1>8 DEF SInv

LEMMA IterateInv ==
    ASSUME SInv, NEW loop \in Loops, Iterate(loop)
    PROVE  SInv'
<1>1. TypeOK /\ Position /\ pc = loop
  BY DEF SInv, Iterate
<1>2. /\ WellShaped(pass) /\ n \in Nat /\ n >= 8 /\ n % 8 = 0 /\ n % 2 = 0
      /\ pass.reach \in {0, 1} /\ pass.edge \in {0, 1} /\ pass.reach <= pass.edge
  BY <1>1, PassFacts
<1>3. /\ x \in Nat /\ x >= pass.edge /\ x <= n - pass.edge
      /\ pass.tailStep = 2 => x % 2 = 1
      /\ pass.tailStep = 8 => x % 8 = 0
  BY <1>1 DEF TypeOK, Position
<1> DEFINE size == Increment(loop)
<1>4. /\ size \in Nat /\ size > 0
      /\ x + size <= n - pass.edge
      /\ pass.tailStep = 2 => (x + size) % 2 = 1
      /\ pass.tailStep = 8 => (x + size) % 8 = 0
  <2>1. CASE loop = "align"
    <3>1. pass.align /\ x < n - 1 /\ size = 1
      BY <2>1 DEF Iterate, Continues, Increment
    <3>2. pass.tailStep # 2 /\ pass.tailStep # 8
      BY <3>1, <1>2 DEF WellShaped
    <3> HIDE DEF size
    <3>3. x + 1 <= n - pass.edge
      BY <3>1, <1>2, <1>3, IterationFits
    <3> QED  BY <3>1, <3>2, <3>3
  <2>2. CASE loop = "unrolled"
    <3>1. pass.step > 0 /\ x < n - pass.left /\ size = pass.step
      BY <2>2 DEF Iterate, Continues, Increment
    <3>2. pass.step \in Nat
      BY <1>2 DEF WellShaped
    <3>3. pass.tailStep # 2 /\ pass.tailStep # 8
      BY <3>1, <3>2, <1>2 DEF WellShaped
    <3> HIDE DEF size
    <3>4. x + pass.step <= n - pass.edge
      BY <3>1, <1>2, <1>3, IterationFits
    <3> QED  BY <3>1, <3>2, <3>3, <3>4
  <2>3. CASE loop = "tail"
    <3>1. x < n - pass.tailLeft /\ size = pass.tailStep
      BY <2>3 DEF Iterate, Continues, Increment
    <3>2. pass.tailStep \in {1, 2, 8}
      BY <1>2 DEF WellShaped
    <3> HIDE DEF size
    <3>3. /\ x + pass.tailStep <= n - pass.edge
          /\ pass.tailStep = 2 => (x + pass.tailStep) % 2 = 1
          /\ pass.tailStep = 8 => (x + pass.tailStep) % 8 = 0
      BY <3>1, <1>2, <1>3, IterationFits
    <3> QED  BY <3>1, <3>2, <3>3
  <2> QED  BY <2>1, <2>2, <2>3 DEF Loops
<1> DEFINE high == x + size - 1 + pass.reach
<1> DEFINE extra == {}
<1>5. Sweep((x - pass.reach .. high) \cup extra, x .. x + size - 1)
  <2>1. Sweep(x - pass.reach .. high, x .. x + size - 1)
    BY DEF Iterate
  <2>2. (x - pass.reach .. high) \cup {} = x - pass.reach .. high
    OBVIOUS
  <2> QED  BY <2>1, <2>2
<1>6. x' = x + size /\ pc' = pc
  BY DEF Iterate
<1> HIDE DEF size
<1>7. high \in Nat /\ high <= n - 1 /\ x + size <= n /\ x >= pass.reach
  BY <1>2, <1>3, <1>4
<1> HIDE DEF high
<1>8. pc \in Loops \cup {"last"}
  BY <1>1
<1>9. /\ loads' \cup stores' \subseteq 0 .. n - 1
      /\ stores' \cap swept' = {}
      /\ swept' \cup stores' = Origin .. x + size - 1
      /\ loads' \subseteq Int /\ stores' \subseteq Int /\ swept' \subseteq Int
  <2>1. extra \subseteq {0}
    OBVIOUS
  <2> HIDE DEF extra
  <2> QED  BY <1>4, <1>5, <1>7, <1>8, <2>1, SweepUnits
<1>10. pass' = pass /\ width' = width /\ n' = n /\ Origin' = Origin
  BY <1>5 DEF Sweep, n, Origin
<1>11. TypeOK'
  BY <1>1, <1>3, <1>4, <1>6, <1>9, <1>10 DEF TypeOK
<1>12. Position'
  BY <1>2, <1>3, <1>4, <1>6, <1>10 DEF Position
<1>13. Stored'
  <2>1. pc # "first" /\ pc # "last"
    BY <1>1 DEF Loops
  <2>2. swept' \cup stores' = Origin' .. x' - 1
    <3>1. x + size - 1 = x' - 1
      BY <1>3, <1>4, <1>6
    <3> QED  BY <3>1, <1>9, <1>10, Zenon
  <2>3. pc' # "first" /\ pc' # "last"
    BY <2>1, <1>6
  <2> QED  BY <2>2, <2>3 DEF Stored
<1>14. InRow' /\ SweptOnce'
  BY <1>9, <1>10 DEF InRow, SweptOnce
<1>15. RowSwept'
  BY <1>1, <1>6 DEF RowSwept, Loops
<1> QED  BY <1>11, <1>12, <1>13, <1>14, <1>15 DEF SInv

\* The loop after the unrolled one ends at the last unit, or behind it.
LEMMA LeaveInv ==
    ASSUME SInv, NEW loop \in Loops, Leave(loop)
    PROVE  SInv'
<1>1. TypeOK /\ Position /\ Stored /\ InRow /\ SweptOnce /\ pc = loop
  BY DEF SInv, Leave
<1>2. /\ WellShaped(pass) /\ n \in Nat /\ n >= 8 /\ n % 8 = 0 /\ n % 2 = 0
      /\ pass.edge \in {0, 1} /\ (pass.ends => pass.edge = 1)
  BY <1>1, PassFacts
<1>3. /\ x \in Nat /\ x >= pass.edge /\ x <= n - pass.edge
      /\ pass.tailStep = 2 => x % 2 = 1
      /\ pass.tailStep = 8 => x % 8 = 0
  BY <1>1 DEF TypeOK, Position
<1>4. /\ pass' = pass /\ width' = width /\ n' = n /\ Origin' = Origin
      /\ x' = x /\ loads' = loads /\ stores' = stores /\ swept' = swept
  BY DEF Leave, n, Origin
<1>5. pc' \in {"unrolled", "tail", "last", "swept"}
  BY DEF Leave, Loops
<1>6. pc' \in {"last", "swept"} => x = n - pass.edge
  <2>1. CASE loop = "tail"
    <3>1. ~(x < n - pass.tailLeft)
      BY <2>1 DEF Leave, Continues
    <3> QED  BY <3>1, <1>2, <1>3, IterationFits
  <2>2. CASE loop # "tail"
    BY <2>2 DEF Leave, Loops
  <2> QED  BY <2>1, <2>2
<1>7. (pc' = "last" => pass.ends) /\ (pc' = "swept" => ~pass.ends)
  BY DEF Leave, Loops
<1>8. swept \cup stores = Origin .. x - 1
  BY <1>1 DEF Stored
<1>9. TypeOK'
  BY <1>1, <1>4, <1>5 DEF TypeOK, Loops
<1>10. Position'
  BY <1>3, <1>4 DEF Position
<1>11. Stored'
  <2>1. pc' # "first"
    BY <1>5
  <2>2. pc' = "last" => pass'.ends
    BY <1>4, <1>7
  <2>3. pc' = "last" => x' = n' - pass'.edge
    BY <1>4, <1>6
  <2>4. swept' \cup stores' = Origin' .. x' - 1
    BY <1>4, <1>8
  <2> QED  BY <2>1, <2>2, <2>3, <2>4 DEF Stored
<1>12. InRow' /\ SweptOnce'
  BY <1>1, <1>4 DEF InRow, SweptOnce
<1>13. RowSwept'
  <2>1. ASSUME pc' = "swept"
        PROVE  swept' \cup stores' = pass'.edge .. n' - 1 - pass'.edge
    <3>1. Origin = pass.edge /\ x = n - pass.edge
      BY <2>1, <1>6, <1>7 DEF Origin
    <3>2. x - 1 = n - 1 - pass.edge
      BY <3>1, <1>2
    <3> QED  BY <3>1, <3>2, <1>4, <1>8
  <2>2. pc' = "swept" => ~pass'.ends
    BY <1>4, <1>7
  <2> QED  BY <2>1, <2>2 DEF RowSwept
<1> QED  BY <1>9, <1>10, <1>11, <1>12, <1>13 DEF SInv

\* The unit stored after the loops is the last of the row.
LEMMA LastInv == SInv /\ Last => SInv'
<1> SUFFICES ASSUME SInv, Last PROVE SInv'
  OBVIOUS
<1>1. TypeOK /\ Position /\ pass.ends /\ pc = "last"
  BY DEF SInv, Stored, Last
<1>2. /\ WellShaped(pass) /\ n \in Nat /\ n >= 8 /\ pass.reach \in {0, 1}
      /\ pass.edge = 1
  BY <1>1, PassFacts
<1>3. x \in Nat /\ x = n - 1
  BY <1>1, <1>2 DEF SInv, Stored, TypeOK
<1>4. pc' = "swept" /\ x' = x
  BY DEF Last
<1>5. Sweep((x - pass.reach .. x) \cup pass.far, x .. x + 1 - 1)
  <2>1. {x} = x .. x + 1 - 1
    BY <1>3
  <2> QED  BY <2>1 DEF Last
<1>6. /\ loads' \cup stores' \subseteq 0 .. n - 1
      /\ stores' \cap swept' = {}
      /\ swept' \cup stores' = Origin .. x + 1 - 1
      /\ loads' \subseteq Int /\ stores' \subseteq Int /\ swept' \subseteq Int
  <2> DEFINE high == x
  <2>1. /\ 1 \in Nat /\ 1 > 0 /\ x + 1 <= n /\ x >= pass.reach
        /\ high \in Nat /\ high <= n - 1
    BY <1>2, <1>3
  <2>2. pass.far \subseteq {0}
    BY <1>2 DEF WellShaped
  <2> QED  BY <1>1, <1>5, <2>1, <2>2, SweepUnits
<1>7. pass' = pass /\ width' = width /\ n' = n
  BY <1>5 DEF Sweep, n
<1>8. TypeOK'
  BY <1>1, <1>3, <1>4, <1>6, <1>7 DEF TypeOK
<1>9. Position'
  BY <1>1, <1>4, <1>7 DEF Position
<1>10. Stored'
  BY <1>4 DEF Stored, Loops
<1>11. InRow' /\ SweptOnce'
  BY <1>6, <1>7 DEF InRow, SweptOnce
<1>12. RowSwept'
  <2>1. Origin = 0
    BY <1>1 DEF Origin
  <2>2. x + 1 - 1 = n - 1
    BY <1>2, <1>3
  <2>3. swept' \cup stores' = 0 .. n' - 1
    BY <2>1, <2>2, <1>6, <1>7
  <2>4. pass'.ends
    BY <1>1, <1>7
  <2> QED  BY <2>3, <2>4 DEF RowSwept
<1> QED  BY <1>8, <1>9, <1>10, <1>11, <1>12 DEF SInv

\* The next row begins as the first one did.
LEMMA NextRowInv == NextRow => SInv'
<1> SUFFICES ASSUME NextRow PROVE SInv'
  OBVIOUS
<1>1. /\ pass' \in Passes /\ width' \in Widths /\ x' = pass'.edge
      /\ loads' = {} /\ stores' = {} /\ swept' = {}
      /\ pc' = IF pass'.ends THEN "first" ELSE "align"
  BY DEF NextRow
<1>2. WellShaped(pass')
  BY <1>1, PassesShaped
<1>3. pass'.edge \in {0, 1} /\ pass'.unit \in {Vector, Cell}
  BY <1>2 DEF WellShaped
<1>4. TypeOK'
  BY <1>1, <1>3 DEF TypeOK, Loops
<1>5. n' \in Nat /\ n' >= 8
  BY <1>1, <1>3, UnitsOfRow DEF n
<1>6. Position'
  <2>1. pass'.tailStep = 2 => pass'.edge = 1
    BY <1>2 DEF WellShaped
  <2>2. pass'.tailStep = 8 => pass'.edge = 0
    BY <1>2 DEF WellShaped
  <2> QED  BY <1>1, <1>3, <1>5, <2>1, <2>2 DEF Position
<1>7. Stored'
  <2>1. CASE pass'.ends
    <3>1. pc' = "first"
      BY <2>1, <1>1
    <3> QED  BY <3>1, <2>1, <1>1 DEF Stored, Loops
  <2>2. CASE ~pass'.ends
    <3>1. pc' = "align"
      BY <2>2, <1>1
    <3>2. Origin' .. x' - 1 = {}
      BY <2>2, <1>1, <1>3 DEF Origin
    <3> QED  BY <3>1, <3>2, <1>1 DEF Stored
  <2> QED  BY <2>1, <2>2
<1>8. InRow' /\ SweptOnce'
  BY <1>1 DEF InRow, SweptOnce
<1>9. RowSwept'
  BY <1>1 DEF RowSwept
<1> QED  BY <1>4, <1>6, <1>7, <1>8, <1>9 DEF SInv

LEMMA StutterInv == SInv /\ UNCHANGED vars => SInv'
  BY DEF SInv, TypeOK, Position, Stored, InRow, SweptOnce, RowSwept, Origin,
         n, vars

LEMMA SweepInvariant == Spec => []SInv
<1>1. Init => SInv
  BY InitInv
<1>2. SInv /\ [Next]_vars => SInv'
  <2> SUFFICES ASSUME SInv, [Next]_vars PROVE SInv'
    OBVIOUS
  <2>1. CASE First
    BY <2>1, FirstInv
  <2>2. ASSUME NEW loop \in Loops, Iterate(loop) PROVE SInv'
    BY <2>2, IterateInv
  <2>3. ASSUME NEW loop \in Loops, Leave(loop) PROVE SInv'
    BY <2>3, LeaveInv
  <2>4. CASE Last
    BY <2>4, LastInv
  <2>5. CASE NextRow
    BY <2>5, NextRowInv
  <2>6. CASE UNCHANGED vars
    BY <2>6, StutterInv
  <2> QED  BY <2>1, <2>2, <2>3, <2>4, <2>5, <2>6 DEF Next
<1> QED  BY <1>1, <1>2, PTL DEF Spec

\* For every width that matrix_calc accepts, no row function reads or writes
\* outside its row of the fields.
THEOREM SweepInRow == Spec => []InRow
<1>1. SInv => InRow
  BY DEF SInv
<1> QED  BY <1>1, SweepInvariant, PTL

\* For every such width no unit of the row is stored twice.
THEOREM SweepOnceAll == Spec => []SweptOnce
<1>1. SInv => SweptOnce
  BY DEF SInv
<1> QED  BY <1>1, SweepInvariant, PTL

\* For every such width a function that has returned has left no unit of its row out.
THEOREM SweepAll == Spec => []RowSwept
<1>1. SInv => RowSwept
  BY DEF SInv
<1> QED  BY <1>1, SweepInvariant, PTL
=============================================================================
