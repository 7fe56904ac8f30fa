---------------------------- MODULE CoherenceGcd ----------------------------
(***************************************************************************)
(* The task scheduler of mp_coherence_gcd.c.  A frame is a list of tasks;  *)
(* each task is a function to run once on every row 0 .. Rows-1 of the     *)
(* field.  Task t has a serial dispatch queue and a dispatch group; all    *)
(* blocks queued for t are the same (mpCDispatchFn on m_data[t]), and the  *)
(* block that runs takes the row m_data[t].cur.  A block of task t that    *)
(* has run a row queues blocks of task t+1, so that task t+1 stays behind  *)
(* task t by the distance it declared in mpCTaskAdd; the block of the last *)
(* row queues the rest.  The host thread adds tasks, launches the first    *)
(* one, and later waits for every group in turn and resets.                *)
(*                                                                         *)
(* External: libdispatch.  A serial queue runs one block at a time, in the *)
(* order queued; a group is empty when every block queued with it has      *)
(* returned.                                                               *)
(***************************************************************************)
EXTENDS FluidField, Sequences

CONSTANTS NumQueues,        \* in_tasks of mpCCreate
          Fns,              \* the functions a task can name (indices of m_fns)
          Deps,             \* the values in_depStart takes
          AddWhileRunning   \* may the host call mpCTaskAdd after the launch?

ASSUME GcdAssumption ==
    /\ NumQueues \in Nat \ {0}
    /\ Fns \subseteq Nat
    /\ Deps \subseteq Int
    /\ AddWhileRunning \in BOOLEAN

VARIABLES fn, dep, cur,     \* the fields of m_data[t] (t = NumQueues: sentinel)
          num_tasks,
          queued,           \* blocks in m_data[t].m_queue that have not started
          block,            \* what the started block of the queue is doing
          left,             \* blocks of task t+1 it still has to queue
          host,             \* what the host thread is doing
          x,                \* its loop counter in mpCTaskLaunch and mpCTaskWait
          launched          \* has this frame been launched?  (history variable)

vars == <<fn, dep, cur, num_tasks, queued, block, left, host, x, launched>>
taskVars == <<fn, dep, num_tasks>>
hostVars == <<host, x, launched>>

Free == -1                  \* m_data[t].fn of a task that was not added
Queues == 0 .. NumQueues - 1
Entries == 0 .. NumQueues

Abs(d) == IF d < 0 THEN -d ELSE d
Amt(t) == Abs(dep[t])

\* A block calls the function ("run"), looks at the next task ("dispatch"), queues
\* blocks of it one by one ("queue"), then advances cur and leaves its group.
BlockStates == {"none", "run", "dispatch", "queue"}

\* dispatch_group_wait(m_data[t].m_group) would return at once.
GroupEmpty(t) == queued[t] = 0 /\ block[t] = "none"
-----------------------------------------------------------------------------
\* mpCCreate, which ends in mpCReset.  calloc'ed entries: cur = 0.
Init ==
    /\ fn = [t \in Entries |-> Free]
    /\ dep = [t \in Entries |-> -1]
    /\ cur = [t \in Entries |-> 0]
    /\ num_tasks = 0
    /\ queued = [t \in Queues |-> 0]
    /\ block = [t \in Queues |-> "none"]
    /\ left = [t \in Queues |-> 0]
    /\ host = "add"
    /\ x = 0
    /\ launched = FALSE

\* (mutant: one task more than there are queues)
RoomForSentinel == num_tasks <= NumQueues

\* m_data has an entry for each of in_tasks tasks and one for the sentinel.  The
\* code does not test it: this bounds what a host adds (FluidFrame has what the
\* program adds).
RoomForTask == num_tasks < NumQueues

mpCTaskAdd(f, d) ==
    /\ host = "add" \/ (AddWhileRunning /\ host = "away")
    /\ RoomForTask
    /\ num_tasks' = num_tasks + 1
    /\ fn' = [fn EXCEPT ![num_tasks] = f]
    /\ dep' = [dep EXCEPT ![num_tasks] = d]
    /\ cur' = [cur EXCEPT ![num_tasks] = 0]
    /\ UNCHANGED <<queued, block, left, hostVars>>

\* mpCTaskLaunch, one step per iteration: the first block may run before the
\* last one is queued.
BeginLaunch ==
    /\ host = "add"
    /\ num_tasks > 0
    /\ host' = "launch"
    /\ x' = 0
    /\ launched' = TRUE
    /\ UNCHANGED <<taskVars, cur, queued, block, left>>

LaunchRow ==
    /\ host = "launch"
    /\ x < Rows
    /\ queued' = [queued EXCEPT ![0] = @ + 1]
    /\ x' = x + 1
    /\ UNCHANGED <<taskVars, cur, block, left, host, launched>>

EndLaunch ==
    /\ host = "launch"
    /\ x = Rows
    /\ host' = "away"
    /\ UNCHANGED <<taskVars, cur, queued, block, left, x, launched>>

\* mpCTaskWait, one step per dispatch_group_wait.  The host also comes here
\* with tasks it added and never launched (matrix_calc leaves through "out"
\* after addData, and the next matrix_calc begins with fluidFrameEnd).
BeginWait ==
    /\ host \in {"add", "away"}
    /\ host' = "wait"
    /\ x' = 0
    /\ UNCHANGED <<taskVars, cur, queued, block, left, launched>>

\* (mutant: it waits for the rows to be done instead of for the group)
WaitRows ==
    /\ host = "wait"
    /\ x < num_tasks
    /\ cur[x] = Rows
    /\ x' = x + 1
    /\ UNCHANGED <<taskVars, cur, queued, block, left, host, launched>>

WaitGroup ==
    /\ host = "wait"
    /\ x < num_tasks
    /\ GroupEmpty(x)
    /\ x' = x + 1
    /\ UNCHANGED <<taskVars, cur, queued, block, left, host, launched>>

EndWait ==
    /\ host = "wait"
    /\ x = num_tasks
    /\ host' = "waited"
    /\ UNCHANGED <<taskVars, cur, queued, block, left, x, launched>>

\* (mutant: the functions of the last frame stay in the table)
mpCResetKeepsFns ==
    /\ host = "waited"
    /\ num_tasks' = 0
    /\ host' = "add"
    /\ launched' = FALSE
    /\ UNCHANGED <<fn, dep, cur, queued, block, left, x>>

mpCReset ==
    /\ host = "waited"
    /\ fn' = [t \in Entries |-> Free]
    /\ dep' = [t \in Entries |-> -1]
    /\ num_tasks' = 0
    /\ host' = "add"
    /\ launched' = FALSE
    /\ UNCHANGED <<cur, queued, block, left, x>>
-----------------------------------------------------------------------------
\* libdispatch starts the next block of the serial queue: mpCDispatchFn calls
\* onExecuteTask on row cur[t].
StartBlock(t) ==
    /\ block[t] = "none"
    /\ queued[t] > 0
    /\ queued' = [queued EXCEPT ![t] = @ - 1]
    /\ block' = [block EXCEPT ![t] = "run"]
    /\ UNCHANGED <<taskVars, cur, left, hostVars>>

\* onExecuteTask returns.
RunRow(t) ==
    /\ block[t] = "run"
    /\ block' = [block EXCEPT ![t] = "dispatch"]
    /\ UNCHANGED <<taskVars, cur, queued, left, hostVars>>

\* (mutants: "i <= amt + 2", "i <= amt", "cur >= abs(dep)")
BlocksOneMore(t) ==
    IF cur[t] = Rows - 1 THEN Amt(t + 1) + 3
    ELSE IF cur[t] > Amt(t + 1) THEN 1 ELSE 0
BlocksOneFewer(t) ==
    IF cur[t] = Rows - 1 THEN Amt(t + 1) + 1
    ELSE IF cur[t] > Amt(t + 1) THEN 1 ELSE 0
BlocksTooSoon(t) ==
    IF cur[t] = Rows - 1 THEN Amt(t + 1) + 1
    ELSE IF cur[t] >= Amt(t + 1) THEN 1 ELSE 0

\* How many blocks of task t+1 the block of task t queues.
BlocksToQueue(t) ==
    IF cur[t] = Rows - 1 THEN Amt(t + 1) + 2
    ELSE IF cur[t] > Amt(t + 1) THEN 1 ELSE 0

\* The test of the next entry, and of the row.
DispatchNext(t) ==
    /\ block[t] = "dispatch"
    /\ block' = [block EXCEPT ![t] = "queue"]
    /\ \/ /\ fn[t + 1] # Free
          /\ left' = [left EXCEPT ![t] = BlocksToQueue(t)]
       \/ /\ fn[t + 1] = Free
          /\ UNCHANGED left
    /\ UNCHANGED <<taskVars, cur, queued, hostVars>>

\* One dispatch_group_async_f; the queue may start the block at once.
QueueBlock(t) ==
    /\ block[t] = "queue"
    /\ left[t] > 0
    /\ t + 1 \in Queues
    /\ queued' = [queued EXCEPT ![t + 1] = @ + 1]
    /\ left' = [left EXCEPT ![t] = @ - 1]
    /\ UNCHANGED <<taskVars, cur, block, hostVars>>

\* cur++, and the block returns.
EndBlock(t) ==
    /\ block[t] = "queue"
    /\ left[t] = 0
    /\ cur' = [cur EXCEPT ![t] = @ + 1]
    /\ block' = [block EXCEPT ![t] = "none"]
    /\ UNCHANGED <<taskVars, queued, left, hostVars>>

mpCDispatchFn(t) == RunRow(t) \/ DispatchNext(t) \/ QueueBlock(t) \/ EndBlock(t)

HostWait == BeginWait \/ WaitGroup \/ EndWait \/ mpCReset
HostLaunch == BeginLaunch \/ LaunchRow \/ EndLaunch

Next ==
    \/ \E f \in Fns, d \in Deps : mpCTaskAdd(f, d)
    \/ HostLaunch
    \/ HostWait
    \/ \E t \in Queues : StartBlock(t) \/ mpCDispatchFn(t)

\* libdispatch keeps running queued blocks, a block that runs goes on, and
\* the host goes on in mpCTaskLaunch and in mpCTaskWait.  Whether and when
\* the host starts a frame, and when it comes back for it, is up to it.
Fairness ==
    /\ WF_vars(LaunchRow \/ EndLaunch)
    /\ WF_vars(WaitGroup \/ EndWait \/ mpCReset)
    /\ \A t \in Queues : WF_vars(StartBlock(t) \/ mpCDispatchFn(t))

Spec == Init /\ [][Next]_vars /\ Fairness
-----------------------------------------------------------------------------
TypeOK ==
    /\ fn \in [Entries -> Fns \cup {Free}]
    /\ dep \in [Entries -> Deps \cup {-1}]
    /\ cur \in [Entries -> Nat]
    /\ num_tasks \in 0 .. NumQueues
    /\ queued \in [Queues -> Nat]
    /\ block \in [Queues -> BlockStates]
    /\ left \in [Queues -> Nat]
    /\ host \in {"add", "launch", "away", "wait", "waited"}
    /\ x \in Nat
    /\ launched \in BOOLEAN

\* The rows whose function has returned: the rows below Done(t).
Done(t) == cur[t] + (IF block[t] \in {"dispatch", "queue"} THEN 1 ELSE 0)

\* A task is only ever run on the rows of the field (once each: the queue is
\* serial and every block takes the next row).
RunsOnlyRows ==
    \A t \in Queues : block[t] = "run" => cur[t] < Rows

\* When mpCTaskWait has returned, every task of a launched frame has run on
\* every row and nothing is left to run, although the groups are waited for one
\* after the other and a group that is empty too early would be taken for a
\* finished one.  A frame that was not launched has run nothing.
WaitCoversFrame ==
    host = "waited" =>
       \A t \in Queues :
          /\ GroupEmpty(t)
          /\ t < num_tasks => cur[t] = (IF launched THEN Rows ELSE 0)

\* No block of a task that this frame did not add is ever queued or running,
\* even after a frame that had more tasks.
OnlyAddedTasksRun ==
    \A t \in Queues : ~GroupEmpty(t) => t < num_tasks /\ fn[t] # Free

\* Every frame the host waits for completes.
FrameCompletes == host = "wait" ~> host = "add"
-----------------------------------------------------------------------------
\* The frame as its user sees it.
TaskList == [i \in 1 .. num_tasks |-> [fn |-> fn[i - 1], dep |-> dep[i - 1]]]

Pipeline == INSTANCE RowPipeline WITH
    MaxTasks <- NumQueues,
    tasks <- TaskList,
    done <- [t \in Queues |-> IF t < num_tasks THEN Done(t) ELSE 0],
    running <- [t \in Queues |-> block[t] = "run"],
    stage <- IF launched THEN "run" ELSE "add"

\* Counting blocks alone keeps the distances declared with mpCTaskAdd: a task
\* starts a row only after its predecessor has finished the rows it depends
\* on, every row is run once, and a frame is collected only when all is done.
ImplementsPipeline == Pipeline!PSpec
=============================================================================
