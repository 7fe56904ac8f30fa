------------------------- MODULE CoherenceGcdProofs -------------------------
(***************************************************************************)
(* Proofs about CoherenceGcd, for any number of rows, tasks and distances. *)
(* Two hypotheses, which GcdLateAdd.cfg and GcdSmallField.cfg show to be   *)
(* necessary: tasks are added before the launch, and the field has at      *)
(* least |dep| + 2 rows for every distance declared.                       *)
(*                                                                         *)
(* The inductive invariant counts blocks.  Entered(t) blocks of task t     *)
(* were queued in this frame; Passed(t) of them know how many blocks of    *)
(* task t+1 they queue, and left[t] of those are still to be queued.  Then *)
(* Entered(t+1) + left[t] is a function of Passed(t) alone,                *)
(* Dispatched(Passed(t), |dep|), between any two steps of any two tasks.   *)
(***************************************************************************)
EXTENDS CoherenceGcd, SequenceTheorems, TLAPS

LargeField == \A d \in Deps : Abs(d) + 2 <= Rows

\* The blocks of the next task, at distance a, that the first k blocks of a
\* task queue.
Dispatched(k, a) ==
    IF k >= Rows THEN Rows
    ELSE IF k > a + 1 THEN k - a - 1 ELSE 0

Entered(t) == cur[t] + queued[t] + (IF block[t] = "none" THEN 0 ELSE 1)
Passed(t) == cur[t] + (IF block[t] = "queue" THEN 1 ELSE 0)

\* The table of tasks: what was added, then free entries.
TableInv ==
    \A t \in Entries :
       IF t < num_tasks THEN fn[t] \in Fns /\ dep[t] \in Deps ELSE fn[t] = Free

\* Where the host is in the life of a frame.
HostInv ==
    /\ host = "add" => ~launched
    /\ host \in {"launch", "away"} => launched
    /\ launched => num_tasks > 0
    /\ host = "launch" => x <= Rows
    /\ host \in {"wait", "waited"} => x <= num_tasks
    /\ host = "waited" => x = num_tasks

\* Nothing is queued of a task that was not added or not launched.
IdleInv ==
    \A t \in Queues :
       /\ t >= num_tasks => GroupEmpty(t)
       /\ t < num_tasks /\ ~launched => GroupEmpty(t) /\ cur[t] = 0

\* Blocks are left to queue only of a task that was added, in the step of a block
\* that queues them.
LeftInv ==
    \A t \in Queues :
       /\ block[t] # "queue" => left[t] = 0
       /\ left[t] > 0 => t + 1 < num_tasks

\* How many blocks of each task have been queued.
FirstInv == launched => Entered(0) = (IF host = "launch" THEN x ELSE Rows)
NextInv ==
    launched =>
       \A t \in Queues : t > 0 /\ t < num_tasks =>
          Entered(t) + left[t - 1] = Dispatched(Passed(t - 1), Amt(t))

\* The tasks the host has waited for are finished, and stay so.
WaitInv ==
    host \in {"wait", "waited"} =>
       \A t \in Queues : t < x => GroupEmpty(t) /\ (launched => cur[t] = Rows)

IInv ==
    /\ TypeOK
    /\ TableInv
    /\ HostInv
    /\ IdleInv
    /\ LeftInv
    /\ FirstInv
    /\ NextInv
    /\ WaitInv
-----------------------------------------------------------------------------
\* What the proofs use of the constants.
LEMMA Constants ==
    /\ Rows \in Nat \ {0}
    /\ NumQueues \in Nat \ {0}
    /\ 0 \in Queues
    /\ Queues \subseteq Entries
    /\ \A t \in Queues : t \in Nat /\ t + 1 \in Entries /\ (t > 0 => t - 1 \in Queues)
    /\ \A t \in Entries : t \in Nat
    /\ \A d \in Deps \cup {-1} : Abs(d) \in Nat
    /\ Free \notin Fns
  <1>1. \A d \in Deps \cup {-1} : Abs(d) \in Nat
    BY GcdAssumption DEF GcdAssumption, Abs
  <1> QED
    BY <1>1, GcdAssumption, FieldAssumption
      DEF GcdAssumption, FieldAssumption, Queues, Entries, Free

\* Dispatched counts what BlocksToQueue gives row after row.
LEMMA DispatchedStep ==
    ASSUME NEW a \in Nat, a + 2 <= Rows, NEW k \in Nat
    PROVE  /\ Dispatched(k, a) \in 0 .. Rows
           /\ Dispatched(0, a) = 0
           /\ Dispatched(Rows, a) = Rows
           /\ k < Rows => Dispatched(k + 1, a) = Dispatched(k, a) +
                             (IF k = Rows - 1 THEN a + 2 ELSE IF k > a THEN 1 ELSE 0)
           /\ Dispatched(k, a) > 0 =>
                 k >= Rows \/ (k < Rows /\ Dispatched(k, a) = k - a - 1)
  BY Constants DEF Dispatched
-----------------------------------------------------------------------------
(* Type correctness. *)

\* The types hold in every reachable state, whatever the constants: queued
\* never becomes negative.
THEOREM GcdTyping == Spec => []TypeOK
  <1>1. Init => TypeOK
    <2> SUFFICES ASSUME Init PROVE TypeOK
      OBVIOUS
    <2>1. num_tasks \in 0 .. NumQueues /\ x \in Nat
      BY Constants DEF Init
    <2>2. fn \in [Entries -> Fns \cup {Free}] /\ dep \in [Entries -> Deps \cup {-1}]
      BY DEF Init
    <2>3. /\ cur \in [Entries -> Nat]
          /\ queued \in [Queues -> Nat]
          /\ block \in [Queues -> BlockStates]
          /\ left \in [Queues -> Nat]
      BY DEF Init, BlockStates
    <2> QED
      BY <2>1, <2>2, <2>3 DEF Init, TypeOK
  <1>2. TypeOK /\ [Next]_vars => TypeOK'
    <2> SUFFICES ASSUME TypeOK, [Next]_vars PROVE TypeOK'
      OBVIOUS
    <2>1. CASE UNCHANGED vars
      BY <2>1 DEF vars, TypeOK
    <2>2. ASSUME NEW f \in Fns, NEW d \in Deps, mpCTaskAdd(f, d) PROVE TypeOK'
      <3>1. /\ fn' \in [Entries -> Fns \cup {Free}]
            /\ dep' \in [Entries -> Deps \cup {-1}]
            /\ cur' \in [Entries -> Nat]
        BY <2>2 DEF mpCTaskAdd, TypeOK
      <3>2. num_tasks' \in 0 .. NumQueues
        BY <2>2, Constants DEF mpCTaskAdd, RoomForTask, TypeOK
      <3> QED
        BY <2>2, <3>1, <3>2 DEF mpCTaskAdd, hostVars, TypeOK
    <2>3. CASE HostLaunch
      <3>1. CASE BeginLaunch \/ EndLaunch
        <4>1. x' \in Nat
          BY <3>1 DEF BeginLaunch, EndLaunch, TypeOK
        <4>2. launched' \in BOOLEAN
          <5>1. launched' = TRUE \/ launched' = launched
            BY <3>1 DEF BeginLaunch, EndLaunch
          <5> QED
            BY <5>1, Zenon DEF TypeOK
        <4>3. host' \in {"add", "launch", "away", "wait", "waited"}
          BY <3>1 DEF BeginLaunch, EndLaunch
        <4> QED
          BY <3>1, <4>1, <4>2, <4>3 DEF BeginLaunch, EndLaunch, taskVars, TypeOK
      <3>2. CASE LaunchRow
        <4>1. queued' \in [Queues -> Nat] /\ x' \in Nat
          BY <3>2, Constants DEF LaunchRow, TypeOK
        <4> QED
          BY <3>2, <4>1 DEF LaunchRow, taskVars, TypeOK
      <3> QED
        BY <2>3, <3>1, <3>2 DEF HostLaunch
    <2>4. CASE HostWait
      <3>1. CASE BeginWait \/ WaitGroup \/ EndWait
        BY <3>1 DEF BeginWait, WaitGroup, EndWait, taskVars, TypeOK
      <3>2. CASE mpCReset
        <4>1. /\ fn' \in [Entries -> Fns \cup {Free}]
              /\ dep' \in [Entries -> Deps \cup {-1}]
              /\ num_tasks' \in 0 .. NumQueues
          BY <3>2, Constants DEF mpCReset
        <4> QED
          BY <3>2, <4>1 DEF mpCReset, TypeOK
      <3> QED
        BY <2>4, <3>1, <3>2 DEF HostWait
    <2>5. ASSUME NEW t \in Queues, StartBlock(t) PROVE TypeOK'
      BY <2>5 DEF StartBlock, taskVars, hostVars, TypeOK, BlockStates
    <2>6. ASSUME NEW t \in Queues, RunRow(t) PROVE TypeOK'
      BY <2>6 DEF RunRow, taskVars, hostVars, TypeOK, BlockStates
    <2>7. ASSUME NEW t \in Queues, DispatchNext(t) PROVE TypeOK'
      <3>1. BlocksToQueue(t) \in Nat
        <4>1. dep[t + 1] \in Deps \cup {-1}
          BY <2>7, Constants DEF TypeOK
        <4>2. Amt(t + 1) \in Nat
          BY <4>1, Constants DEF Amt
        <4> QED
          BY <4>2 DEF BlocksToQueue
      <3>2. left' \in [Queues -> Nat]
        BY <2>7, <3>1 DEF DispatchNext, TypeOK
      <3> QED
        BY <2>7, <3>2 DEF DispatchNext, taskVars, hostVars, TypeOK, BlockStates
    <2>8. ASSUME NEW t \in Queues, QueueBlock(t) PROVE TypeOK'
      <3>1. queued' \in [Queues -> Nat] /\ left' \in [Queues -> Nat]
        BY <2>8 DEF QueueBlock, TypeOK
      <3> QED
        BY <2>8, <3>1 DEF QueueBlock, taskVars, hostVars, TypeOK
    <2>9. ASSUME NEW t \in Queues, EndBlock(t) PROVE TypeOK'
      BY <2>9, Constants DEF EndBlock, taskVars, hostVars, TypeOK, BlockStates
    <2> QED
      BY <2>1, <2>2, <2>3, <2>4, <2>5, <2>6, <2>7, <2>8, <2>9 DEF Next, mpCDispatchFn
  <1> QED
    BY <1>1, <1>2, PTL DEF Spec
-----------------------------------------------------------------------------
(* The inductive invariant, action by action. *)

\* The numbers the invariant is about.
LEMMA Counts ==
    ASSUME TypeOK
    PROVE  /\ \A t \in Queues : Entered(t) \in Nat /\ Passed(t) \in Nat
           /\ \A t \in Queues : Passed(t) <= Entered(t)
           /\ \A t \in Queues : GroupEmpty(t) => Entered(t) = cur[t] /\ Passed(t) = cur[t]
           /\ \A t \in Entries : Amt(t) \in Nat
           /\ \A t \in Queues : left[t] \in Nat
           /\ num_tasks \in Nat /\ x \in Nat
  <1>1. \A t \in Entries : Amt(t) \in Nat
    BY Constants DEF TypeOK, Amt
  <1> QED
    BY <1>1, Constants DEF TypeOK, Entered, Passed, GroupEmpty

\* No task is ever queued on more rows than the field has.
LEMMA WithinField ==
    ASSUME LargeField, IInv, NEW t \in Queues, t < num_tasks
    PROVE  /\ Entered(t) <= Rows
           /\ Amt(t) \in Nat
           /\ Amt(t) + 2 <= Rows
  <1>1. dep[t] \in Deps
    BY Constants DEF IInv, TableInv
  <1>2. Amt(t) \in Nat /\ Amt(t) + 2 <= Rows
    BY <1>1, Constants DEF LargeField, Amt
  <1>3. CASE ~launched
    <2>1. Entered(t) = 0
      BY <1>3, Counts DEF IInv, IdleInv
    <2> QED
      BY <1>2, <2>1, Constants
  <1>4. CASE launched /\ t = 0
    BY <1>2, <1>4, Constants DEF IInv, FirstInv, HostInv
  <1>5. CASE launched /\ t > 0
    <2>1. Entered(t) + left[t - 1] = Dispatched(Passed(t - 1), Amt(t))
      BY <1>5 DEF IInv, NextInv
    <2>2. Passed(t - 1) \in Nat /\ left[t - 1] \in Nat /\ Entered(t) \in Nat
      BY <1>5, Counts, Constants DEF IInv
    <2> QED
      BY <1>2, <2>1, <2>2, DispatchedStep, Constants
  <1> QED
    BY <1>3, <1>4, <1>5, Constants

\* Adding a task to a frame that is not launched.
LEMMA AddInv ==
    ASSUME ~AddWhileRunning, IInv, TypeOK', NEW f \in Fns, NEW d \in Deps, mpCTaskAdd(f, d)
    PROVE  IInv'
  <1>1. host = "add" /\ ~launched /\ num_tasks < NumQueues /\ num_tasks \in Nat
    BY DEF mpCTaskAdd, RoomForTask, IInv, HostInv, TypeOK
  <1>2. TableInv'
    BY <1>1, Constants DEF mpCTaskAdd, IInv, TypeOK, TableInv
  <1>3. HostInv'
    BY <1>1 DEF mpCTaskAdd, hostVars, HostInv
  <1>4. IdleInv'
    BY <1>1, Constants DEF mpCTaskAdd, hostVars, IInv, TypeOK, IdleInv, GroupEmpty
  <1>5. FirstInv' /\ NextInv' /\ WaitInv'
    BY <1>1 DEF mpCTaskAdd, hostVars, FirstInv, NextInv, WaitInv
  <1>6. LeftInv'
    BY <1>1, Counts, Constants DEF mpCTaskAdd, IInv, LeftInv
  <1> QED
    BY <1>2, <1>3, <1>4, <1>5, <1>6 DEF IInv

\* Queueing the blocks of the first task.
LEMMA LaunchInv ==
    ASSUME LargeField, IInv, TypeOK', HostLaunch
    PROVE  IInv'
  <1>1. CASE BeginLaunch
    <2>1. /\ host = "add" /\ host' = "launch" /\ num_tasks > 0
          /\ x' = 0 /\ ~launched /\ launched'
          /\ UNCHANGED <<fn, dep, num_tasks, cur, queued, block, left>>
      BY <1>1 DEF BeginLaunch, taskVars, IInv, HostInv
    <2>2. TableInv' /\ HostInv' /\ WaitInv' /\ LeftInv'
      BY <2>1, Constants DEF IInv, TableInv, HostInv, WaitInv, LeftInv
    <2>3. \A t \in Queues : /\ GroupEmpty(t) /\ left[t] = 0
                            /\ t < num_tasks => cur[t] = 0
      BY <2>1, Counts, Constants DEF IInv, IdleInv, LeftInv, GroupEmpty
    <2>4. IdleInv'
      BY <2>1, <2>3 DEF IdleInv, GroupEmpty
    <2>5. \A t \in Queues : t < num_tasks => Entered(t)' = 0 /\ Passed(t)' = 0
      BY <2>1, <2>3 DEF Entered, Passed, GroupEmpty
    <2>6. FirstInv'
      BY <2>1, <2>5, Constants DEF FirstInv
    <2>7. NextInv'
      <3> SUFFICES ASSUME NEW t \in Queues, t > 0, t < num_tasks
                   PROVE  0 = Dispatched(0, Amt(t)')
        BY <2>1, <2>3, <2>5, Counts, Constants DEF NextInv, IInv
      <3>1. Amt(t)' \in Nat /\ Amt(t)' = Amt(t)
        BY <2>1, Counts, Constants DEF Amt, IInv
      <3> QED
        BY <3>1, WithinField, DispatchedStep
    <2> QED
      BY <2>2, <2>4, <2>6, <2>7 DEF IInv
  <1>2. CASE LaunchRow
    <2>1. /\ host = "launch" /\ host' = "launch" /\ x < Rows /\ x' = x + 1
          /\ launched /\ launched' /\ num_tasks > 0
          /\ UNCHANGED <<fn, dep, num_tasks, cur, block, left>>
          /\ queued' = [queued EXCEPT ![0] = @ + 1]
      BY <1>2 DEF LaunchRow, taskVars, IInv, HostInv
    <2>2. TableInv' /\ HostInv' /\ WaitInv' /\ LeftInv'
      BY <2>1, Constants, Counts DEF IInv, TableInv, HostInv, WaitInv, LeftInv
    <2>3. \A t \in Queues : /\ t # 0 => queued'[t] = queued[t]
                            /\ queued'[0] = queued[0] + 1
      BY <2>1, Constants DEF IInv, TypeOK
    <2>4. IdleInv'
      BY <2>1, <2>3, Constants, Counts DEF IInv, IdleInv, GroupEmpty
    <2>5. FirstInv'
      BY <2>1, <2>3, Constants DEF IInv, FirstInv, Entered, TypeOK
    <2>6. NextInv'
      BY <2>1, <2>3 DEF IInv, NextInv, Entered, Passed, Amt
    <2> QED
      BY <2>2, <2>4, <2>5, <2>6 DEF IInv
  <1>3. CASE EndLaunch
    BY <1>3, Constants
      DEF EndLaunch, taskVars, IInv, TableInv, HostInv, IdleInv, LeftInv, FirstInv, NextInv,
          WaitInv, GroupEmpty, Entered, Passed, Amt
  <1> QED
    BY <1>1, <1>2, <1>3 DEF HostLaunch

\* Waiting: a group that is empty when its turn comes has run every row, because
\* the task before it has.
LEMMA HostWaitInv ==
    ASSUME LargeField, IInv, TypeOK', HostWait
    PROVE  IInv'
  <1>1. CASE BeginWait
    BY <1>1, Constants, Counts
      DEF BeginWait, taskVars, IInv, TableInv, HostInv, IdleInv, LeftInv, FirstInv, NextInv,
          WaitInv, GroupEmpty, Entered, Passed, Amt
  <1>2. CASE WaitGroup
    <2>1. /\ host = "wait" /\ host' = "wait" /\ x < num_tasks /\ GroupEmpty(x) /\ x' = x + 1
          /\ UNCHANGED <<fn, dep, num_tasks, cur, queued, block, left, launched>>
      BY <1>2 DEF WaitGroup, taskVars
    <2>2. x \in Queues /\ num_tasks \in Nat
      BY <2>1, Constants DEF IInv, TypeOK, Queues
    <2>3. launched => cur[x] = Rows
      <3> SUFFICES ASSUME launched PROVE cur[x] = Rows
        OBVIOUS
      <3>1. Entered(x) = cur[x]
        BY <2>1, <2>2, Counts DEF IInv
      <3>2. CASE x = 0
        BY <2>1, <3>1, <3>2 DEF IInv, FirstInv
      <3>3. CASE x > 0
        <4>1. x - 1 \in Queues /\ x - 1 < x
          BY <2>2, <3>3, Constants
        <4>2. GroupEmpty(x - 1) /\ cur[x - 1] = Rows
          BY <2>1, <4>1 DEF IInv, WaitInv
        <4>3. Passed(x - 1) = Rows
          BY <4>1, <4>2, Counts DEF IInv
        <4>4. left[x - 1] = 0
          BY <4>1, <4>2 DEF IInv, LeftInv, GroupEmpty
        <4>5. Entered(x) = Dispatched(Rows, Amt(x))
          BY <2>1, <2>2, <3>1, <3>3, <4>3, <4>4, Counts DEF IInv, NextInv
        <4>6. Dispatched(Rows, Amt(x)) = Rows
          BY <2>1, <2>2, WithinField, DispatchedStep, Constants
        <4> QED
          BY <3>1, <4>5, <4>6
      <3> QED
        BY <2>2, <3>2, <3>3, Constants
    <2>4. WaitInv'
      BY <2>1, <2>2, <2>3, Constants DEF IInv, WaitInv, GroupEmpty
    <2>5. HostInv'
      BY <2>1, <2>2, Constants DEF IInv, HostInv
    <2>6. TableInv' /\ IdleInv' /\ LeftInv' /\ FirstInv' /\ NextInv'
      BY <2>1
        DEF IInv, TableInv, IdleInv, LeftInv, FirstInv, NextInv, GroupEmpty, Entered, Passed, Amt
    <2> QED
      BY <2>4, <2>5, <2>6 DEF IInv
  <1>3. CASE EndWait
    BY <1>3, Constants
      DEF EndWait, taskVars, IInv, TableInv, HostInv, IdleInv, LeftInv, FirstInv, NextInv,
          WaitInv, GroupEmpty, Entered, Passed, Amt
  <1>4. CASE mpCReset
    <2>1. /\ host = "waited" /\ host' = "add" /\ num_tasks' = 0 /\ ~launched'
          /\ fn' = [t \in Entries |-> Free]
          /\ UNCHANGED <<cur, queued, block, left>>
      BY <1>4 DEF mpCReset
    <2>2. \A t \in Queues : GroupEmpty(t)
      BY <2>1, Counts, Constants DEF IInv, HostInv, IdleInv, WaitInv
    <2>3. TableInv'
      BY <2>1, Constants DEF TableInv
    <2>4. IdleInv'
      BY <2>1, <2>2, Constants DEF IdleInv, GroupEmpty
    <2>5. LeftInv'
      BY <2>1, <2>2, Constants DEF IInv, LeftInv, GroupEmpty
    <2> QED
      BY <2>1, <2>3, <2>4, <2>5 DEF IInv, HostInv, FirstInv, NextInv, WaitInv
  <1> QED
    BY <1>1, <1>2, <1>3, <1>4 DEF HostWait

\* A step of a block that queues nothing changes no count.
LEMMA BlockInv ==
    ASSUME IInv, TypeOK', NEW t \in Queues, StartBlock(t) \/ RunRow(t) \/ EndBlock(t)
    PROVE  IInv'
  <1>1. ~GroupEmpty(t)
    BY DEF StartBlock, RunRow, EndBlock, GroupEmpty, IInv, TypeOK
  <1>2. UNCHANGED <<fn, dep, num_tasks, left, host, x, launched>>
    BY DEF StartBlock, RunRow, EndBlock, taskVars, hostVars
  <1>3. \A u \in Queues : u # t => cur'[u] = cur[u] /\ queued'[u] = queued[u]
                                   /\ block'[u] = block[u]
    BY Constants DEF StartBlock, RunRow, EndBlock, IInv, TypeOK
  <1>4. \A u \in Queues : Entered(u)' = Entered(u) /\ Passed(u)' = Passed(u)
    <2>1. Entered(t)' = Entered(t) /\ Passed(t)' = Passed(t)
      BY Constants DEF StartBlock, RunRow, EndBlock, Entered, Passed, IInv, TypeOK
    <2> QED
      BY <1>3, <2>1 DEF Entered, Passed
  <1>5. t < num_tasks /\ launched
    BY <1>1, Counts, Constants DEF IInv, IdleInv
  <1>6. TableInv' /\ HostInv'
    BY <1>2 DEF IInv, TableInv, HostInv
  <1>7. IdleInv'
    BY <1>2, <1>3, <1>5, Constants, Counts DEF IInv, IdleInv, GroupEmpty
  <1>8. FirstInv' /\ NextInv'
    BY <1>2, <1>4, Constants DEF IInv, FirstInv, NextInv, Amt
  <1>9. WaitInv'
    BY <1>1, <1>2, <1>3 DEF IInv, WaitInv, GroupEmpty
  <1>10. LeftInv'
    <2>1. left[t] = 0
      BY DEF StartBlock, RunRow, EndBlock, IInv, LeftInv
    <2> QED
      BY <1>2, <1>3, <2>1, Constants DEF IInv, LeftInv
  <1> QED
    BY <1>6, <1>7, <1>8, <1>9, <1>10 DEF IInv

\* A block that looks at the next task owes it the blocks its row is worth.
LEMMA DispatchInv ==
    ASSUME LargeField, IInv, TypeOK', NEW t \in Queues, DispatchNext(t)
    PROVE  IInv'
  <1>1. ~GroupEmpty(t) /\ left[t] = 0
    BY DEF DispatchNext, GroupEmpty, IInv, LeftInv
  <1>2. UNCHANGED <<fn, dep, num_tasks, host, x, launched, cur, queued>>
    BY DEF DispatchNext, taskVars, hostVars
  <1>3. t < num_tasks /\ launched /\ num_tasks \in Nat /\ num_tasks <= NumQueues /\ t \in Nat
    BY <1>1, Counts, Constants DEF IInv, IdleInv, TypeOK
  <1>4. block[t] = "dispatch" /\ block'[t] = "queue"
        /\ \A u \in Queues : u # t => block'[u] = block[u] /\ left'[u] = left[u]
    BY DEF DispatchNext, IInv, TypeOK
  <1>5. cur[t] \in Nat /\ cur[t] < Rows
    <2>1. cur[t] \in Nat /\ queued[t] \in Nat
      BY Constants DEF IInv, TypeOK
    <2>2. Entered(t) <= Rows
      BY <1>3, WithinField
    <2> QED
      BY <1>4, <2>1, <2>2, Constants DEF Entered
  <1>6. fn[t + 1] # Free <=> t + 1 < num_tasks
    BY <1>3, Constants DEF IInv, TableInv
  <1>7. left'[t] = IF t + 1 < num_tasks THEN BlocksToQueue(t) ELSE 0
    <2> HIDE DEF BlocksToQueue
    <2>1. CASE t + 1 < num_tasks
      BY <1>6, <2>1 DEF DispatchNext, IInv, TypeOK
    <2>2. CASE ~(t + 1 < num_tasks)
      BY <1>1, <1>6, <2>2 DEF DispatchNext
    <2> QED
      BY <2>1, <2>2
  <1>8. /\ Passed(t) = cur[t] /\ Passed(t)' = cur[t] + 1
        /\ \A u \in Queues : u # t => Passed(u)' = Passed(u)
        /\ \A u \in Queues : Entered(u)' = Entered(u)
    BY <1>2, <1>4, <1>5 DEF Passed, Entered
  <1>9. ASSUME t + 1 < num_tasks
        PROVE  Entered(t + 1)' + left'[t] = Dispatched(Passed(t)', Amt(t + 1))
    <2>1. t + 1 \in Queues /\ t + 1 > 0 /\ (t + 1) - 1 = t
      BY <1>3, <1>9, Constants DEF Queues
    <2>2. Amt(t + 1) \in Nat /\ Amt(t + 1) + 2 <= Rows
      BY <1>9, <2>1, WithinField
    <2>3. Entered(t + 1) + left[t] = Dispatched(Passed(t), Amt(t + 1))
      BY <1>3, <1>9, <2>1 DEF IInv, NextInv
    <2>4. Entered(t + 1) = Dispatched(cur[t], Amt(t + 1))
      BY <1>1, <1>8, <2>1, <2>3, Counts DEF IInv
    <2>5. Dispatched(cur[t] + 1, Amt(t + 1)) = Dispatched(cur[t], Amt(t + 1)) + BlocksToQueue(t)
      BY <1>5, <2>2, DispatchedStep DEF BlocksToQueue
    <2> QED
      BY <1>7, <1>8, <1>9, <2>1, <2>4, <2>5
  <1>10. TableInv' /\ HostInv' /\ FirstInv'
    BY <1>2, <1>8, Constants DEF IInv, TableInv, HostInv, FirstInv
  <1>11. IdleInv' /\ WaitInv'
    BY <1>1, <1>2, <1>3, <1>4, Constants, Counts DEF IInv, IdleInv, WaitInv, GroupEmpty
  <1>12. LeftInv'
    <2> HIDE DEF BlocksToQueue
    <2> QED
      BY <1>2, <1>3, <1>4, <1>7 DEF IInv, LeftInv
  <1>13. NextInv'
    <2> SUFFICES ASSUME NEW u \in Queues, u > 0, u < num_tasks
                 PROVE  Entered(u)' + left'[u - 1] = Dispatched(Passed(u - 1)', Amt(u))
      BY <1>2, <1>3 DEF NextInv, Amt
    <2>1. CASE u = t + 1
      BY <1>3, <1>9, <2>1
    <2>2. CASE u # t + 1
      <3>1. u - 1 \in Queues /\ u - 1 # t
        BY <1>3, <2>2, Constants
      <3>2. Entered(u)' = Entered(u) /\ Passed(u - 1)' = Passed(u - 1) /\ left'[u - 1] = left[u - 1]
        BY <1>4, <1>8, <3>1
      <3> QED
        BY <1>3, <3>2 DEF IInv, NextInv
    <2> QED
      BY <2>1, <2>2
  <1> QED
    BY <1>10, <1>11, <1>12, <1>13 DEF IInv

\* A block that is queued was owed, and its task is not one the host has waited
\* for: the task before it still runs.
LEMMA QueueInv ==
    ASSUME LargeField, IInv, TypeOK', NEW t \in Queues, QueueBlock(t)
    PROVE  IInv'
  <1>1. ~GroupEmpty(t) /\ block[t] = "queue" /\ left[t] > 0 /\ t + 1 \in Queues
    BY DEF QueueBlock, GroupEmpty
  <1>2. UNCHANGED <<fn, dep, num_tasks, host, x, launched, cur, block>>
    BY DEF QueueBlock, taskVars, hostVars
  <1>3. launched /\ t + 1 < num_tasks /\ num_tasks \in Nat /\ t \in Nat
    BY <1>1, Counts, Constants DEF IInv, IdleInv, LeftInv
  <1>4. /\ queued'[t + 1] = queued[t + 1] + 1
        /\ left'[t] = left[t] - 1
        /\ \A u \in Queues : /\ u # t + 1 => queued'[u] = queued[u]
                             /\ u # t => left'[u] = left[u]
    BY <1>1 DEF QueueBlock, IInv, TypeOK
  <1>5. /\ \A u \in Queues : Passed(u)' = Passed(u)
        /\ \A u \in Queues : u # t + 1 => Entered(u)' = Entered(u)
        /\ Entered(t + 1)' = Entered(t + 1) + 1
    <2>1. \A u \in Queues : queued[u] \in Nat /\ cur[u] \in Nat
      BY Constants DEF IInv, TypeOK
    <2> QED
      BY <1>1, <1>2, <1>4, <2>1 DEF Entered, Passed
  <1>6. TableInv' /\ HostInv' /\ FirstInv'
    BY <1>2, <1>3, <1>5, Constants DEF IInv, TableInv, HostInv, FirstInv
  <1>7. IdleInv' /\ LeftInv'
    BY <1>1, <1>2, <1>3, <1>4, Constants, Counts DEF IInv, IdleInv, LeftInv, GroupEmpty
  <1>8. NextInv'
    <2> SUFFICES ASSUME NEW u \in Queues, u > 0, u < num_tasks
                 PROVE  Entered(u)' + left'[u - 1] = Dispatched(Passed(u - 1), Amt(u))
      BY <1>2, <1>3, <1>5, Constants DEF NextInv, Amt
    <2>1. u - 1 \in Queues /\ u \in Nat
      BY Constants
    <2>2. Entered(u) + left[u - 1] = Dispatched(Passed(u - 1), Amt(u))
      BY <1>3 DEF IInv, NextInv
    <2>3. Entered(u)' + left'[u - 1] = Entered(u) + left[u - 1]
      <3>1. Entered(u) \in Nat /\ left[u - 1] \in Nat /\ left[t] \in Nat
        BY <2>1, Counts DEF IInv
      <3>2. CASE u = t + 1
        BY <1>3, <1>4, <1>5, <3>1, <3>2
      <3>3. CASE u # t + 1
        BY <1>3, <1>4, <1>5, <2>1, <3>3
      <3> QED
        BY <3>2, <3>3
    <2> QED
      BY <2>2, <2>3
  <1>9. WaitInv'
    <2> SUFFICES ASSUME host \in {"wait", "waited"}, NEW u \in Queues, u < x
                 PROVE  GroupEmpty(u)' /\ (launched => cur[u] = Rows)
      BY <1>2 DEF WaitInv
    <2>1. GroupEmpty(u) /\ cur[u] = Rows
      BY <1>3 DEF IInv, WaitInv
    <2>2. ~(t < x)
      BY <1>1 DEF IInv, WaitInv
    <2>3. u # t + 1
      BY <1>3, <2>2, Counts DEF IInv
    <2> QED
      BY <1>2, <1>4, <2>1, <2>3 DEF GroupEmpty
  <1> QED
    BY <1>6, <1>7, <1>8, <1>9 DEF IInv

\* The invariant holds in every reachable state.
LEMMA GcdInvariance ==
    ASSUME LargeField, ~AddWhileRunning
    PROVE  Spec => []IInv
  <1>1. Init /\ TypeOK => IInv
    BY Constants
      DEF Init, IInv, TableInv, HostInv, IdleInv, LeftInv, FirstInv, NextInv, WaitInv, GroupEmpty
  <1>2. TypeOK' /\ IInv /\ [Next]_vars => IInv'
    <2> SUFFICES ASSUME TypeOK', IInv, [Next]_vars PROVE IInv'
      OBVIOUS
    <2>1. CASE UNCHANGED vars
      BY <2>1
        DEF vars, IInv, TableInv, HostInv, IdleInv, LeftInv, FirstInv, NextInv, WaitInv,
            GroupEmpty, Entered, Passed, Amt
    <2>2. ASSUME NEW f \in Fns, NEW d \in Deps, mpCTaskAdd(f, d) PROVE IInv'
      BY <2>2, AddInv
    <2>3. CASE HostLaunch
      BY <2>3, LaunchInv
    <2>4. CASE HostWait
      BY <2>4, HostWaitInv
    <2>5. ASSUME NEW t \in Queues, StartBlock(t) \/ mpCDispatchFn(t) PROVE IInv'
      BY <2>5, BlockInv, DispatchInv, QueueInv DEF mpCDispatchFn
    <2> QED
      BY <2>1, <2>2, <2>3, <2>4, <2>5 DEF Next
  <1> QED
    BY <1>1, <1>2, GcdTyping, PTL DEF Spec
-----------------------------------------------------------------------------
(* The safety properties. *)

\* A row function is only called on rows of the field
\* (Spec => []RunsOnlyRows).
THEOREM RowsOnly ==
    ASSUME LargeField, ~AddWhileRunning
    PROVE  Spec => []RunsOnlyRows
  <1>1. IInv => RunsOnlyRows
    <2> SUFFICES ASSUME IInv, NEW t \in Queues, block[t] = "run" PROVE cur[t] < Rows
      BY DEF RunsOnlyRows
    <2>1. t < num_tasks
      BY Counts, Constants DEF IInv, IdleInv, GroupEmpty
    <2>2. Entered(t) <= Rows
      BY <2>1, WithinField
    <2> QED
      BY <2>2, Constants DEF Entered, IInv, TypeOK
  <1> QED
    BY <1>1, GcdInvariance, PTL

\* When the host has waited, every task of a launched frame has run on every
\* row, and nothing is left to run (Spec => []WaitCoversFrame).
THEOREM WaitCovers ==
    ASSUME LargeField, ~AddWhileRunning
    PROVE  Spec => []WaitCoversFrame
  <1>1. IInv => WaitCoversFrame
    BY Counts, Constants DEF IInv, HostInv, IdleInv, WaitInv, WaitCoversFrame
  <1> QED
    BY <1>1, GcdInvariance, PTL

\* Only tasks of this frame are queued or run (Spec => []OnlyAddedTasksRun).
THEOREM OnlyAdded ==
    ASSUME LargeField, ~AddWhileRunning
    PROVE  Spec => []OnlyAddedTasksRun
  <1>1. IInv => OnlyAddedTasksRun
    BY Counts, Constants DEF IInv, TableInv, IdleInv, OnlyAddedTasksRun
  <1> QED
    BY <1>1, GcdInvariance, PTL
-----------------------------------------------------------------------------
(***************************************************************************)
(* The scheduler of CoherenceGcd implements RowPipeline: a task starts a   *)
(* row only when its predecessor has finished the rows it depends on,      *)
(* every row is run once, and a frame is collected only when all of it is  *)
(* done, under the two hypotheses above.                                   *)
(***************************************************************************)

\* The variables of RowPipeline (tasks is TaskList).
PDone == [t \in Queues |-> IF t < num_tasks THEN Done(t) ELSE 0]
PRunning == [t \in Queues |-> block[t] = "run"]
PStage == IF launched THEN "run" ELSE "add"
PVars == <<TaskList, PDone, PRunning, PStage>>

Task == [fn : Fns, dep : Deps]

\* The task list is a sequence as long as num_tasks says.
LEMMA TaskListSeq ==
    ASSUME IInv
    PROVE  /\ TaskList \in Seq(Task)
           /\ Len(TaskList) = num_tasks
           /\ num_tasks \in Nat /\ num_tasks <= NumQueues
           /\ \A i \in 1 .. num_tasks : TaskList[i] = [fn |-> fn[i - 1], dep |-> dep[i - 1]]
  <1>1. num_tasks \in Nat /\ num_tasks <= NumQueues
    BY Constants DEF IInv, TypeOK
  <1>2. \A i \in 1 .. num_tasks : fn[i - 1] \in Fns /\ dep[i - 1] \in Deps
    <2> SUFFICES ASSUME NEW i \in 1 .. num_tasks PROVE fn[i - 1] \in Fns /\ dep[i - 1] \in Deps
      OBVIOUS
    <2>1. i - 1 \in Entries /\ i - 1 < num_tasks
      BY <1>1, Constants DEF Entries
    <2> QED
      BY <2>1 DEF IInv, TableInv
  <1>3. TaskList \in [1 .. num_tasks -> Task]
    BY <1>2 DEF TaskList, Task
  <1>4. TaskList \in Seq(Task)
    BY <1>1, <1>3, SeqDef
  <1> QED
    BY <1>1, <1>3, <1>4, LenProperties DEF TaskList

\* A step that leaves the list of tasks, the rows done and the stage alone, and
\* starts or ends no row, is a stuttering step.
LEMMA Stutter ==
    ASSUME IInv, UNCHANGED <<fn, dep, num_tasks, launched>>,
           \A t \in Queues : Done(t)' = Done(t) /\ (block'[t] = "run" <=> block[t] = "run")
    PROVE  UNCHANGED PVars
  <1>1. TaskList' = TaskList
    BY DEF TaskList
  <1>2. PDone' = PDone
    BY DEF PDone
  <1>3. PRunning' = PRunning
    BY DEF PRunning
  <1> QED
    BY <1>1, <1>2, <1>3 DEF PVars, PStage

\* mpCTaskAdd adds a task to the frame.
LEMMA AddIsAdd ==
    ASSUME ~AddWhileRunning, IInv, IInv', NEW f \in Fns, NEW d \in Deps, mpCTaskAdd(f, d)
    PROVE  Pipeline!Add(f, d)
  <1>1. host = "add" /\ ~launched /\ num_tasks < NumQueues /\ num_tasks \in Nat
        /\ num_tasks' = num_tasks + 1
    BY DEF mpCTaskAdd, RoomForTask, IInv, HostInv, TypeOK
  <1>2. TaskList' = Append(TaskList, [fn |-> f, dep |-> d])
    <2> DEFINE task == [fn |-> f, dep |-> d]
    <2>1. task \in Task
      BY DEF Task
    <2>2. /\ TaskList \in Seq(Task)
          /\ Len(TaskList) = num_tasks
          /\ \A i \in 1 .. num_tasks : TaskList[i] = [fn |-> fn[i - 1], dep |-> dep[i - 1]]
      BY TaskListSeq
    <2>3. \A i \in 1 .. num_tasks' : /\ i - 1 \in Entries
                                     /\ i - 1 = num_tasks <=> i = num_tasks + 1
      BY <1>1, Constants DEF Entries
    <2>4. \A i \in 1 .. num_tasks + 1 :
             [fn |-> fn'[i - 1], dep |-> dep'[i - 1]] =
                IF i = num_tasks + 1 THEN task ELSE [fn |-> fn[i - 1], dep |-> dep[i - 1]]
      BY <1>1, <2>3 DEF mpCTaskAdd, IInv, TypeOK
    <2>5. TaskList' = [i \in 1 .. num_tasks + 1 |-> [fn |-> fn'[i - 1], dep |-> dep'[i - 1]]]
      BY <1>1 DEF TaskList
    <2>6. \A i \in 1 .. num_tasks + 1 :
             TaskList'[i] = IF i = num_tasks + 1 THEN task ELSE TaskList[i]
      <3> SUFFICES ASSUME NEW i \in 1 .. num_tasks + 1
                   PROVE  TaskList'[i] = IF i = num_tasks + 1 THEN task ELSE TaskList[i]
        OBVIOUS
      <3>1. i # num_tasks + 1 => i \in 1 .. num_tasks
        BY <1>1
      <3> QED
        BY <2>2, <2>4, <2>5, <3>1
    <2>7. TaskList' \in Seq(Task) /\ Len(TaskList') = num_tasks + 1
      <3>1. TaskList' \in [1 .. num_tasks + 1 -> Task]
        <4>1. \A i \in 1 .. num_tasks : TaskList[i] \in Task
          BY <2>2, ElementOfSeq
        <4>2. \A i \in 1 .. num_tasks + 1 : TaskList'[i] \in Task
          BY <1>1, <2>1, <2>6, <4>1
        <4> QED
          BY <2>5, <4>2
      <3>2. num_tasks + 1 \in Nat
        BY <1>1
      <3>3. TaskList' \in Seq(Task)
        BY <3>1, <3>2, SeqDef
      <3> QED
        BY <3>1, <3>2, <3>3, LenProperties
    <2>8. /\ Append(TaskList, task) \in Seq(Task)
          /\ Len(Append(TaskList, task)) = num_tasks + 1
          /\ \A i \in 1 .. num_tasks : Append(TaskList, task)[i] = TaskList[i]
          /\ Append(TaskList, task)[num_tasks + 1] = task
      BY <2>1, <2>2, AppendProperties
    <2> HIDE DEF task
    <2>9. \A i \in 1 .. num_tasks + 1 : TaskList'[i] = Append(TaskList, task)[i]
      BY <1>1, <2>6, <2>8
    <2> QED
      BY <2>7, <2>8, <2>9, SeqEqual DEF task
  <1>3. PDone' = PDone
    <2>1. \A t \in Queues : (IF t < num_tasks THEN Done(t) ELSE 0)' = 0
                            /\ (IF t < num_tasks THEN Done(t) ELSE 0) = 0
      BY <1>1, Constants
        DEF mpCTaskAdd, hostVars, IInv, IdleInv, TypeOK, Done, GroupEmpty
    <2> QED
      BY <2>1 DEF PDone
  <1>4. PRunning' = PRunning /\ PStage' = PStage /\ PStage = "add"
    BY <1>1 DEF mpCTaskAdd, hostVars, PRunning, PStage
  <1>5. Len(TaskList) < NumQueues
    BY <1>1, TaskListSeq
  <1> QED
    BY <1>2, <1>3, <1>4, <1>5 DEF Pipeline!Add, PDone, PRunning, PStage
\* mpCTaskLaunch launches the frame with its first step.
LEMMA BeginIsLaunch ==
    ASSUME IInv, BeginLaunch
    PROVE  Pipeline!Launch
  <1>1. /\ ~launched /\ launched' /\ num_tasks > 0
        /\ UNCHANGED <<fn, dep, num_tasks, cur, queued, block>>
    BY DEF BeginLaunch, taskVars, IInv, HostInv
  <1>2. PStage = "add" /\ PStage' = "run"
    BY <1>1 DEF PStage
  <1>3. TaskList # <<>>
    <2>1. Len(TaskList) # 0
      BY <1>1, TaskListSeq
    <2> QED
      BY <2>1, EmptySeq
  <1>4. TaskList' = TaskList /\ PDone' = PDone /\ PRunning' = PRunning
    BY <1>1 DEF TaskList, PDone, PRunning, Done
  <1> QED
    BY <1>2, <1>3, <1>4 DEF Pipeline!Launch, PDone, PRunning, PStage

\* mpCReset collects a launched frame and drops another.
LEMMA ResetIsCollect ==
    ASSUME IInv, IInv', mpCReset
    PROVE  Pipeline!Collect \/ Pipeline!Drop
  <1>1. /\ host = "waited" /\ num_tasks' = 0 /\ ~launched'
        /\ UNCHANGED <<cur, queued, block>>
    BY DEF mpCReset
  <1>2. \A t \in Queues : /\ GroupEmpty(t)
                          /\ t < num_tasks => cur[t] = IF launched THEN Rows ELSE 0
    BY <1>1, Counts, Constants DEF IInv, HostInv, IdleInv, WaitInv
  <1>3. \A t \in Queues : PDone[t] = IF t < num_tasks /\ launched THEN Rows ELSE 0
    BY <1>2, Constants DEF PDone, Done, GroupEmpty, IInv, TypeOK
  <1>4. TaskList' = <<>>
    <2>1. TaskList' \in Seq(Task) /\ Len(TaskList') = 0
      <3>1. TaskList' = [i \in 1 .. 0 |-> [fn |-> fn'[i - 1], dep |-> dep'[i - 1]]]
        BY <1>1 DEF TaskList
      <3>2. TaskList' \in [1 .. 0 -> Task]
        BY <3>1
      <3>3. 0 \in Nat
        OBVIOUS
      <3>4. TaskList' \in Seq(Task)
        BY <3>2, <3>3, SeqDef
      <3> QED
        BY <3>2, <3>4, LenProperties
    <2> QED
      BY <2>1, EmptySeq
  <1>5. PDone' = [t \in Queues |-> 0]
    <2>1. \A t \in Queues : ~(t < num_tasks')
      BY <1>1, Constants
    <2> QED
      BY <2>1 DEF PDone
  <1>6. PRunning' = PRunning /\ PStage' = "add"
    BY <1>1 DEF PRunning, PStage
  <1>7. CASE launched
    <2>1. PStage = "run"
      BY <1>7 DEF PStage
    <2>2. \A t \in 0 .. Len(TaskList) - 1 : PDone[t] = Rows
      <3> SUFFICES ASSUME NEW t \in 0 .. Len(TaskList) - 1 PROVE PDone[t] = Rows
        OBVIOUS
      <3>1. t \in Queues /\ t < num_tasks
        BY TaskListSeq, Constants DEF Queues
      <3> QED
        BY <1>3, <1>7, <3>1
    <2> QED
      BY <1>4, <1>5, <1>6, <2>1, <2>2
        DEF Pipeline!Collect, Pipeline!Added, Pipeline!TaskIds, Queues, PDone, PRunning, PStage
  <1>8. CASE ~launched
    <2>1. PStage = "add"
      BY <1>8 DEF PStage
    <2>2. PDone' = PDone
      <3>1. \A t \in Queues : PDone[t] = 0
        BY <1>3, <1>8
      <3>2. PDone = [t \in Queues |-> PDone[t]]
        BY DEF PDone
      <3> QED
        BY <1>5, <3>1, <3>2
    <2> QED
      BY <1>4, <1>6, <2>1, <2>2 DEF Pipeline!Drop, PDone, PRunning, PStage
  <1> QED
    BY <1>7, <1>8

\* A block starts on a row only when the task before it is far enough ahead.
LEMMA StartIsStart ==
    ASSUME LargeField, IInv, NEW t \in Queues, StartBlock(t)
    PROVE  Pipeline!Start(t)
  <1>1. /\ block[t] = "none" /\ block' = [block EXCEPT ![t] = "run"] /\ queued[t] > 0
        /\ UNCHANGED <<fn, dep, num_tasks, cur, launched>>
    BY DEF StartBlock, taskVars, hostVars
  <1>2. t < num_tasks /\ launched /\ t \in Nat /\ num_tasks \in Nat /\ cur[t] \in Nat
    BY <1>1, Counts, Constants DEF IInv, IdleInv, GroupEmpty, TypeOK
  <1>3. PStage = "run"
    BY <1>2 DEF PStage
  <1>4. t \in 0 .. Len(TaskList) - 1
    BY <1>2, TaskListSeq
  <1>5. ~PRunning[t] /\ PDone[t] = cur[t]
    <2>1. ~PRunning[t]
      <3>1. ~(block[t] = "run")
        BY <1>1
      <3> QED
        BY <3>1, Zenon DEF PRunning
    <2>2. PDone[t] = cur[t]
      BY <1>1, <1>2 DEF PDone, Done
    <2> QED
      BY <2>1, <2>2
  <1>6. Entered(t) >= cur[t] + 1 /\ Entered(t) \in Nat
    BY <1>1, <1>2, Counts DEF Entered, IInv, TypeOK
  <1>7. Entered(t) <= Rows /\ Amt(t) \in Nat /\ Amt(t) + 2 <= Rows
    BY <1>2, WithinField
  <1>8. t > 0 => PDone[t - 1] >= Rows \/ PDone[t - 1] >= cur[t] + Amt(t) + 2
    <2> SUFFICES ASSUME t > 0
                 PROVE  PDone[t - 1] >= Rows \/ PDone[t - 1] >= cur[t] + Amt(t) + 2
      OBVIOUS
    <2>1. t - 1 \in Queues /\ t - 1 < num_tasks
      BY <1>2, Constants
    <2>2. Entered(t) + left[t - 1] = Dispatched(Passed(t - 1), Amt(t))
      BY <1>2 DEF IInv, NextInv
    <2>3. Passed(t - 1) \in Nat /\ left[t - 1] \in Nat
      BY <2>1, Counts DEF IInv
    <2>4. Passed(t - 1) >= Rows \/ Passed(t - 1) >= cur[t] + Amt(t) + 2
      <3>1. \/ Passed(t - 1) >= Rows
            \/ Dispatched(Passed(t - 1), Amt(t)) = Passed(t - 1) - Amt(t) - 1
        BY <1>2, <1>6, <1>7, <2>2, <2>3, DispatchedStep
      <3> QED
        BY <1>2, <1>6, <1>7, <2>2, <2>3, <3>1, Constants
    <2>5. PDone[t - 1] \in Nat /\ PDone[t - 1] >= Passed(t - 1)
      BY <2>1, Constants DEF PDone, Done, Passed, IInv, TypeOK
    <2> QED
      BY <1>2, <1>7, <2>3, <2>4, <2>5, Constants
  <1>9. Pipeline!Ahead(t)
    <2> SUFFICES ASSUME t > 0
                 PROVE  PDone[t - 1] >= Pipeline!Least(Rows, PDone[t] + Pipeline!Abs(TaskList[t + 1].dep) + 2)
      BY DEF Pipeline!Ahead, PDone
    <2>1. TaskList[t + 1].dep = dep[t]
      <3>1. t + 1 \in 1 .. num_tasks /\ (t + 1) - 1 = t
        BY <1>2
      <3> QED
        BY <3>1, TaskListSeq
    <2>2. Pipeline!Abs(TaskList[t + 1].dep) = Amt(t)
      BY <2>1 DEF Pipeline!Abs, Amt, Abs
    <2>3. PDone[t - 1] \in Nat
      BY <1>2, Constants DEF PDone, Done, IInv, TypeOK
    <2> QED
      BY <1>2, <1>5, <1>7, <1>8, <2>2, <2>3, Constants DEF Pipeline!Least
  <1>10. /\ PRunning' = [PRunning EXCEPT ![t] = TRUE]
         /\ TaskList' = TaskList /\ PDone' = PDone /\ PStage' = PStage
    <2>1. \A u \in Queues : (block'[u] = "run") <=> (u = t \/ block[u] = "run")
      BY <1>1 DEF IInv, TypeOK
    <2>2. PRunning' = [PRunning EXCEPT ![t] = TRUE]
      BY <2>1, Zenon DEF PRunning
    <2>3. \A u \in Queues : Done(u)' = Done(u)
      BY <1>1 DEF Done, IInv, TypeOK
    <2> QED
      BY <1>1, <2>2, <2>3 DEF TaskList, PDone, PStage
  <1>11. PDone[t] < Rows
    BY <1>2, <1>5, <1>6, <1>7, Constants
  <1> QED
    BY <1>3, <1>4, <1>5, <1>9, <1>10, <1>11
      DEF Pipeline!Start, Pipeline!Added, PDone, PRunning, PStage

\* The return of the row function finishes the row.
LEMMA RunIsFinish ==
    ASSUME IInv, NEW t \in Queues, RunRow(t)
    PROVE  Pipeline!Finish(t)
  <1>1. /\ block[t] = "run" /\ block' = [block EXCEPT ![t] = "dispatch"]
        /\ UNCHANGED <<fn, dep, num_tasks, cur, launched>>
    BY DEF RunRow, taskVars, hostVars
  <1>2. t < num_tasks
    BY <1>1, Counts, Constants DEF IInv, IdleInv, GroupEmpty
  <1>3. PRunning[t]
    BY <1>1 DEF PRunning
  <1>4. PRunning' = [PRunning EXCEPT ![t] = FALSE]
    <2>1. \A u \in Queues : (block'[u] = "run") <=> (u # t /\ block[u] = "run")
      BY <1>1 DEF IInv, TypeOK
    <2> QED
      BY <2>1, Zenon DEF PRunning
  <1>5. PDone' = [PDone EXCEPT ![t] = @ + 1]
    <2>1. \A u \in Queues : (IF u < num_tasks THEN Done(u) ELSE 0)' =
                               IF u = t THEN (IF u < num_tasks THEN Done(u) ELSE 0) + 1
                               ELSE IF u < num_tasks THEN Done(u) ELSE 0
      BY <1>1, <1>2, Constants DEF Done, IInv, TypeOK
    <2> QED
      BY <2>1 DEF PDone
  <1>6. TaskList' = TaskList /\ PStage' = PStage
    BY <1>1 DEF TaskList, PStage
  <1> QED
    BY <1>3, <1>4, <1>5, <1>6 DEF Pipeline!Finish, PDone, PRunning, PStage

\* Counting blocks keeps the distances declared with mpCTaskAdd
\* (Spec => ImplementsPipeline).
THEOREM GcdIsPipeline ==
    ASSUME LargeField, ~AddWhileRunning
    PROVE  Spec => ImplementsPipeline
  <1>1. Init /\ IInv => Pipeline!PInit
    <2> SUFFICES ASSUME Init, IInv PROVE Pipeline!PInit
      OBVIOUS
    <2>1. TaskList = <<>>
      <3>1. TaskList \in Seq(Task) /\ Len(TaskList) = 0
        BY TaskListSeq DEF Init
      <3> QED
        BY <3>1, EmptySeq
    <2>2. PDone = [t \in Queues |-> 0]
      BY Constants DEF Init, PDone
    <2>3. PRunning = [t \in Queues |-> FALSE]
      <3>1. \A t \in Queues : (block[t] = "run") <=> FALSE
        BY DEF Init
      <3> QED
        BY <3>1, Zenon DEF PRunning
    <2>4. PStage = "add"
      BY DEF Init, PStage
    <2> QED
      BY <2>1, <2>2, <2>3, <2>4
        DEF Pipeline!PInit, Pipeline!TaskIds, Queues, PDone, PRunning, PStage
  <1>2. IInv /\ IInv' /\ [Next]_vars => [Pipeline!PNext]_PVars
    <2> SUFFICES ASSUME IInv, IInv', [Next]_vars
                 PROVE  Pipeline!PNext \/ UNCHANGED PVars
      OBVIOUS
    <2>1. CASE UNCHANGED vars
      BY <2>1, Stutter DEF vars, Done
    <2>2. ASSUME NEW f \in Fns, NEW d \in Deps, mpCTaskAdd(f, d) PROVE Pipeline!PNext
      BY <2>2, AddIsAdd DEF Pipeline!PNext
    <2>3. CASE HostLaunch
      <3>1. CASE BeginLaunch
        BY <3>1, BeginIsLaunch DEF Pipeline!PNext
      <3>2. CASE LaunchRow \/ EndLaunch
        BY <3>2, Stutter DEF LaunchRow, EndLaunch, taskVars, Done
      <3> QED
        BY <2>3, <3>1, <3>2 DEF HostLaunch
    <2>4. CASE HostWait
      <3>1. CASE BeginWait \/ WaitGroup \/ EndWait
        BY <3>1, Stutter DEF BeginWait, WaitGroup, EndWait, taskVars, Done
      <3>2. CASE mpCReset
        BY <3>2, ResetIsCollect DEF Pipeline!PNext
      <3> QED
        BY <2>4, <3>1, <3>2 DEF HostWait
    <2>5. ASSUME NEW t \in Queues, StartBlock(t) PROVE Pipeline!PNext
      BY <2>5, StartIsStart DEF Pipeline!PNext, Pipeline!TaskIds, Queues
    <2>6. ASSUME NEW t \in Queues, RunRow(t) PROVE Pipeline!PNext
      BY <2>6, RunIsFinish DEF Pipeline!PNext, Pipeline!TaskIds, Queues
    <2>7. ASSUME NEW t \in Queues, DispatchNext(t) \/ QueueBlock(t) \/ EndBlock(t)
          PROVE  UNCHANGED PVars
      <3>1. UNCHANGED <<fn, dep, num_tasks, launched>>
        BY <2>7 DEF DispatchNext, QueueBlock, EndBlock, taskVars, hostVars
      <3>2. \A u \in Queues : Done(u)' = Done(u) /\ (block'[u] = "run" <=> block[u] = "run")
        BY <2>7, Constants DEF DispatchNext, QueueBlock, EndBlock, Done, IInv, TypeOK
      <3> QED
        BY <3>1, <3>2, Stutter
    <2> QED
      BY <2>1, <2>2, <2>3, <2>4, <2>5, <2>6, <2>7 DEF Next, mpCDispatchFn
  <1>3. PVars = Pipeline!pipeVars
    BY DEF PVars, PDone, PRunning, PStage, Pipeline!pipeVars
  <1> QED
    BY <1>1, <1>2, <1>3, GcdInvariance, PTL
      DEF Spec, ImplementsPipeline, Pipeline!PSpec, Pipeline!pipeVars, PVars, PDone, PRunning, PStage
=============================================================================
