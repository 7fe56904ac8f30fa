-------------------------- MODULE CoherenceAtomic --------------------------
(***************************************************************************)
(* The task scheduler of mp_coherence.c, used by the builds without Grand  *)
(* Central Dispatch (the default branch of its #ifdefs: neither            *)
(* COHERENCE_TQ nor SEQUENTIAL).  The worker threads share the list of     *)
(* tasks and reserve rows with compare-and-swaps on the progress word of   *)
(* a task, <<completed, working>>; m_mutex only guards the count of the    *)
(* workers that wait at the queue r_q for a row to be forwarded to them.   *)
(* Every worker runs fluidMP: mpCTaskObtain, then the function of the row  *)
(* and mpCTaskComplete (which obtains the next row) until the task is -1.  *)
(*                                                                         *)
(* A step is one access to shared memory.  r_q is the bounded queue that   *)
(* MpQueue implements (BoundedFifo).                                       *)
(***************************************************************************)
EXTENDS FluidField, FiniteSets, Sequences

CONSTANTS MaxTasks,   \* bound: tasks in a frame (in_tasks of mpCCreate)
          CacheSize,  \* in_cache of mpCCreate
          QSize,      \* the size of r_q
          Kinds,      \* what mpCTaskAdd stores: [bottom, any]
          Workers     \* the threads that run fluidMP (mpTaskFlood)

ASSUME AtomicAssumption ==
    /\ {MaxTasks, CacheSize, QSize} \subseteq Nat \ {0}
    /\ Kinds \subseteq [bottom : Nat, any : BOOLEAN]
    /\ Workers # {}

VARIABLES tasks,                \* the descriptions in r_tasks
          completed, working,   \* the progress word of every task
          m_min, m_max,         \* the tasks that may have rows to hand out
          m_nBlocking,
          m_nCacheStart,
          m_mutex,              \* who holds it
          r_q,
          pc, row, loc,         \* of a worker: its place in the code, the row it
                                \* holds and its local variables
          host                  \* "add" or "run"

vars == <<tasks, completed, working, m_min, m_max, m_nBlocking, m_nCacheStart,
          m_mutex, r_q, pc, row, loc, host>>
progress == <<completed, working>>
bounds == <<m_min, m_max>>
waiting == <<m_nBlocking, m_mutex, r_q>>

NoWorker == "none"
NoRow == [tid |-> -1, tsk |-> -1]
END == [tid |-> -2, tsk |-> -2]     \* the message 0xFFFFFFFF

TaskIds == 0 .. MaxTasks - 1
AnyOrder(t) == tasks[t + 1].any          \* DEPEND_ANY_0, else DEPEND_INORDER
Bottom(t) == tasks[t + 1].bottom
Last == Len(tasks) - 1
Least(a, b) == IF a < b THEN a ELSE b

\* min, max: locals of mpCTaskComplete.  x, lim: a scan over tasks and its end.
\* tc, tw: the progress word read.  cs: cacheStart.  v: m_nBlocking.
\* from: whose call of mpCTaskObtainPvt this is.  ret: where mpCTaskObtain returns.
NoLocals == [min |-> 0, max |-> 0, x |-> 0, lim |-> 0, tc |-> 0, tw |-> 0,
             cs |-> 0, v |-> 0, from |-> "scan", ret |-> "loop"]

\* The locals that outlive a call of mpCTaskObtainPvt, and those that outlive a scan.
AfterPvt(l) == [l EXCEPT !.tc = 0, !.tw = 0, !.cs = 0]
AfterScan(l) == [AfterPvt(l) EXCEPT !.x = 0, !.lim = 0, !.v = 0]

At(w, p) == pc[w] = p
Go(w, p) == pc' = [pc EXCEPT ![w] = p]
Hold(w, r) == row' = [row EXCEPT ![w] = r]
Locals(w, l) == loc' = [loc EXCEPT ![w] = l]
-----------------------------------------------------------------------------
\* mpCReset, and mpCCreate.
mpCReset ==
    /\ tasks' = <<>>
    /\ completed' = [t \in TaskIds |-> 0]
    /\ working' = [t \in TaskIds |-> 0]
    /\ m_min' = 0
    /\ m_max' = 0
    /\ m_nBlocking' = 0
    /\ m_nCacheStart' = 0
    /\ r_q' = <<>>

Init ==
    /\ tasks = <<>>
    /\ completed = [t \in TaskIds |-> 0]
    /\ working = [t \in TaskIds |-> 0]
    /\ m_min = 0
    /\ m_max = 0
    /\ m_nBlocking = 0
    /\ m_nCacheStart = 0
    /\ m_mutex = NoWorker
    /\ r_q = <<>>
    /\ pc = [w \in Workers |-> "idle"]
    /\ row = [w \in Workers |-> NoRow]
    /\ loc = [w \in Workers |-> NoLocals]
    /\ host = "add"

mpCTaskAdd(k) ==
    /\ host = "add"
    /\ Len(tasks) < MaxTasks
    /\ tasks' = Append(tasks, k)
    /\ UNCHANGED <<progress, bounds, waiting, m_nCacheStart, pc, row, loc, host>>

\* fluidAdvanceASync: every thread of the task world runs fluidMP once.
Flood ==
    /\ host = "add"
    /\ tasks # <<>>
    /\ pc' = [w \in Workers |-> "obtain"]
    /\ host' = "run"
    /\ UNCHANGED <<tasks, progress, bounds, waiting, m_nCacheStart, row, loc>>

\* fluidAdvanceSync: every thread has left fluidMP.
Collect ==
    /\ host = "run"
    /\ \A w \in Workers : At(w, "done")
    /\ pc' = [w \in Workers |-> "idle"]
    /\ host' = "add"
    /\ mpCReset
    /\ UNCHANGED <<m_mutex, row, loc>>
-----------------------------------------------------------------------------
\* mpCTaskObtain returns: to fluidMP with a row or with -1, or to mpCTaskComplete.
Return(w) ==
    IF loc[w].ret = "signal"
    THEN Go(w, "signal") /\ Locals(w, [AfterScan(loc[w]) EXCEPT !.ret = "loop"])
    ELSE Go(w, IF row'[w] = NoRow THEN "done" ELSE "run") /\ Locals(w, NoLocals)

\* mpCTaskObtainPvt on task x, called from "scan" (mpCTaskObtain), "near" or
\* "forward" (mpCTaskComplete).  With a row it returns to its caller ...
PvtFound(w) ==
    CASE loc[w].from = "scan" -> Return(w)
      [] loc[w].from = "near" -> Go(w, "signal") /\ Locals(w, AfterScan(loc[w]))
      [] loc[w].from = "forward" -> Go(w, "found_forward") /\ Locals(w, AfterPvt(loc[w]))

\* ... and without, the caller goes on to its next task; after the last one,
\* mpCTaskObtain tests the end of the frame and mpCTaskComplete calls it or unlocks.
NextTask(w) ==
    LET l == AfterPvt(loc[w]) IN
    \/ /\ l.from = "scan"
       /\ Go(w, IF l.x < l.lim THEN "pvt" ELSE "none_scan")
       /\ Locals(w, IF l.x < l.lim THEN [l EXCEPT !.x = @ + 1] ELSE AfterScan(l))
    \/ /\ l.from = "near"
       /\ Go(w, IF l.x > l.lim THEN "pvt" ELSE "obtain")
       /\ Locals(w, IF l.x > l.lim THEN [l EXCEPT !.x = @ - 1]
                    ELSE [AfterScan(l) EXCEPT !.ret = "signal"])
    \/ /\ l.from = "forward"
       /\ Go(w, IF l.x > l.lim THEN "forward" ELSE "none_forward")
       /\ Locals(w, IF l.x > l.lim THEN [l EXCEPT !.x = @ - 1] ELSE NoLocals)

\* (mutant: a row in order is handed out while another one runs)
HasRowUnordered(t) == working[t] # Rows

HasRow(t) ==
    \/ completed[t] = working[t] /\ completed[t] # Rows
    \/ AnyOrder(t) /\ working[t] # Rows

PvtProgress(w) ==
    LET t == loc[w].x IN
    /\ At(w, "pvt")
    /\ \/ /\ HasRow(t)
          /\ Go(w, "pvt_cache")
          /\ Locals(w, [loc[w] EXCEPT !.tc = completed[t], !.tw = working[t]])
       \/ /\ ~HasRow(t)
          /\ NextTask(w)
    /\ UNCHANGED <<tasks, progress, bounds, waiting, m_nCacheStart, row, host>>

\* The window of rows that are thought to be in the cache.
OutsideCache(tw, cs) ==
    tw + 1 < cs /\ tw + 1 >= cs - Rows + CacheSize

PvtCache(w) ==
    /\ At(w, "pvt_cache")
    /\ \/ /\ OutsideCache(loc[w].tw, m_nCacheStart)
          /\ NextTask(w)
       \/ /\ ~OutsideCache(loc[w].tw, m_nCacheStart)
          /\ Go(w, IF loc[w].x = 0 THEN "pvt_take" ELSE "pvt_prev")
          /\ Locals(w, [loc[w] EXCEPT !.cs = m_nCacheStart])
    /\ UNCHANGED <<tasks, progress, bounds, waiting, m_nCacheStart, row, host>>

\* (mutant: the rows below are not waited for)
PrevFinishedRow(t, tw) == completed[t - 1] > tw

PrevFinished(t, tw) == completed[t - 1] > Least(tw + Bottom(t), Rows - 1)

PvtPrev(w) ==
    /\ At(w, "pvt_prev")
    /\ \/ /\ PrevFinished(loc[w].x, loc[w].tw)
          /\ Go(w, "pvt_take")
          /\ UNCHANGED loc
       \/ /\ ~PrevFinished(loc[w].x, loc[w].tw)
          /\ NextTask(w)
    /\ UNCHANGED <<tasks, progress, bounds, waiting, m_nCacheStart, row, host>>

\* (mutant: the half of the word with the rows handed out is not compared)
UnchangedCompleted(w) == completed[loc[w].x] = loc[w].tc

\* The progress word is still the one that was read.
WordUnchanged(w) ==
    /\ completed[loc[w].x] = loc[w].tc
    /\ working[loc[w].x] = loc[w].tw

PvtTake(w) ==
    LET l == loc[w] IN
    /\ At(w, "pvt_take")
    /\ \/ /\ WordUnchanged(w)
          /\ working' = [working EXCEPT ![l.x] = l.tw + 1]
          /\ completed' = [completed EXCEPT ![l.x] = l.tc]
          /\ Hold(w, [tid |-> l.x, tsk |-> l.tw])
          /\ IF l.tw + 1 > l.cs + CacheSize
             THEN Go(w, "pvt_window") /\ UNCHANGED loc
             ELSE PvtFound(w)
       \/ /\ ~WordUnchanged(w)
          /\ NextTask(w)
          /\ UNCHANGED <<progress, row>>
    /\ UNCHANGED <<tasks, bounds, waiting, m_nCacheStart, host>>

PvtWindow(w) ==
    /\ At(w, "pvt_window")
    /\ m_nCacheStart' = IF m_nCacheStart = loc[w].cs THEN m_nCacheStart + 1
                                                     ELSE m_nCacheStart
    /\ UNCHANGED row
    /\ PvtFound(w)
    /\ UNCHANGED <<tasks, progress, bounds, waiting, host>>

mpCTaskObtainPvt(w) ==
    PvtProgress(w) \/ PvtCache(w) \/ PvtPrev(w) \/ PvtTake(w) \/ PvtWindow(w)
-----------------------------------------------------------------------------
\* mpCTaskObtain scans the tasks m_min .. m_max + 1.
ObtainMin(w) ==
    /\ At(w, "obtain")
    /\ Locals(w, [loc[w] EXCEPT !.x = m_min, !.from = "scan"])
    /\ Go(w, "obtain_max")
    /\ UNCHANGED <<tasks, progress, bounds, waiting, m_nCacheStart, row, host>>

\* The scan of mpCTaskObtain ends one task after m_max.
ScanEnd == Least(m_max + 1, Last)

ObtainMax(w) ==
    /\ At(w, "obtain_max")
    /\ IF loc[w].x <= ScanEnd
       THEN Go(w, "pvt") /\ Locals(w, [loc[w] EXCEPT !.lim = ScanEnd])
       ELSE Go(w, "none_scan") /\ Locals(w, AfterScan(loc[w]))
    /\ UNCHANGED <<tasks, progress, bounds, waiting, m_nCacheStart, row, host>>

\* The last task of the frame has run on every row.
LastTaskDone == completed[Last] = Rows

ObtainNone(w) ==
    /\ At(w, "none_scan")
    /\ Go(w, IF LastTaskDone THEN "end" ELSE "count")
    /\ UNCHANGED <<tasks, progress, bounds, waiting, m_nCacheStart, row, loc, host>>

\* The frame is over: m_nBlocking becomes -100; the first one to see the end
\* pushes END, which every waiting worker passes on.
EndRead(w) ==
    /\ At(w, "end")
    /\ Locals(w, [loc[w] EXCEPT !.v = m_nBlocking])
    /\ Go(w, "end_set")
    /\ UNCHANGED <<tasks, progress, bounds, waiting, m_nCacheStart, row, host>>

EndSet(w) ==
    /\ At(w, "end_set")
    /\ \/ /\ m_nBlocking = loc[w].v
          /\ m_nBlocking' = -100
          /\ IF loc[w].v >= 0 THEN Go(w, "push_end") /\ UNCHANGED <<loc, row>>
                              ELSE UNCHANGED row /\ Return(w)
       \/ /\ m_nBlocking # loc[w].v
          /\ Go(w, "end")
          /\ UNCHANGED <<m_nBlocking, loc, row>>
    /\ UNCHANGED <<tasks, progress, bounds, m_mutex, r_q, m_nCacheStart, host>>

\* mpQueuePushInt, which waits while the queue is full.
PushEnd(w) ==
    /\ At(w, "push_end")
    /\ Len(r_q) < QSize
    /\ r_q' = Append(r_q, END)
    /\ UNCHANGED row
    /\ Return(w)
    /\ UNCHANGED <<tasks, progress, bounds, m_nBlocking, m_mutex, m_nCacheStart, host>>

\* Lock, count this worker as blocking, unlock.
Count(w) ==
    /\ At(w, "count")
    /\ m_mutex = NoWorker
    /\ m_nBlocking' = m_nBlocking + 1
    /\ Go(w, "pop")
    /\ UNCHANGED <<tasks, progress, bounds, m_mutex, r_q, m_nCacheStart, row, loc, host>>

\* mpQueuePopInt, which waits while the queue is empty.
Pop(w) ==
    /\ At(w, "pop")
    /\ r_q # <<>>
    /\ r_q' = Tail(r_q)
    /\ \/ /\ Head(r_q) = END
          /\ Go(w, "push_end")
          /\ UNCHANGED <<row, loc>>
       \/ /\ Head(r_q) # END
          /\ Hold(w, Head(r_q))
          /\ Return(w)
    /\ UNCHANGED <<tasks, progress, bounds, m_nBlocking, m_mutex, m_nCacheStart, host>>

mpCTaskObtain(w) ==
    \/ ObtainMin(w) \/ ObtainMax(w) \/ ObtainNone(w)
    \/ EndRead(w) \/ EndSet(w) \/ PushEnd(w) \/ Count(w) \/ Pop(w)
-----------------------------------------------------------------------------
\* The function has run on the row; mpCTaskComplete reads the progress word,
\* m_min and m_max.
ReadProgress(w) ==
    LET t == row[w].tid IN
    /\ At(w, "run")
    /\ Locals(w, [NoLocals EXCEPT !.tc = completed[t], !.tw = working[t]])
    /\ Go(w, "read_min")
    /\ UNCHANGED <<tasks, progress, bounds, waiting, m_nCacheStart, row, host>>

ReadMin(w) ==
    /\ At(w, "read_min")
    /\ Locals(w, [loc[w] EXCEPT !.min = m_min])
    /\ Go(w, "read_max")
    /\ UNCHANGED <<tasks, progress, bounds, waiting, m_nCacheStart, row, host>>

\* The rows of a task without order are completed in order.
InTurn(w, tc) == AnyOrder(row[w].tid) => tc = row[w].tsk

\* (mutant: min is raised when the first row is completed)
AfterTurnEarly(w, tw) ==
    Go(w, IF loc[w].min = row[w].tid THEN "min_up" ELSE "max_up")

\* After the progress word: min is raised when all rows of the task are handed out.
AfterTurn(w, tw) ==
    Go(w, IF tw = Rows /\ loc[w].min = row[w].tid THEN "min_up" ELSE "max_up")

MinPassed(l, tid, tw) == IF tw = Rows /\ l.min # tid THEN l.min + 1 ELSE l.min

ReadMax(w) ==
    LET l == [loc[w] EXCEPT !.max = m_max] IN
    /\ At(w, "read_max")
    /\ \/ /\ InTurn(w, l.tc)
          /\ AfterTurn(w, l.tw)
          /\ Locals(w, [l EXCEPT !.min = MinPassed(l, row[w].tid, l.tw)])
       \/ /\ ~InTurn(w, l.tc)
          /\ Go(w, "spin")
          /\ Locals(w, l)
    /\ UNCHANGED <<tasks, progress, bounds, waiting, m_nCacheStart, row, host>>

\* The rows of a task are completed in order: the loop that reads the progress word
\* ends when it is this row's turn.
Spin(w) ==
    LET t == row[w].tid
        l == [loc[w] EXCEPT !.tc = completed[t], !.tw = working[t]] IN
    /\ At(w, "spin")
    /\ InTurn(w, completed[t])
    /\ AfterTurn(w, l.tw)
    /\ Locals(w, [l EXCEPT !.min = MinPassed(l, t, l.tw)])
    /\ UNCHANGED <<tasks, progress, bounds, waiting, m_nCacheStart, row, host>>

\* A compare-and-swap that fails is an error for a task in order, since one thread
\* at a time runs such a task, and is ignored for the others.
MinUp(w) ==
    /\ At(w, "min_up")
    /\ Locals(w, [loc[w] EXCEPT !.min = @ + 1])
    /\ \/ /\ m_min = loc[w].min
          /\ m_min' = m_min + 1
          /\ Go(w, "window_reset")
       \/ /\ m_min # loc[w].min
          /\ Go(w, IF AnyOrder(row[w].tid) THEN "max_up" ELSE "error")
          /\ UNCHANGED m_min
    /\ UNCHANGED <<tasks, progress, m_max, waiting, m_nCacheStart, row, host>>

\* (mutant: the window is left where the task before had moved it)
WindowKept(w) ==
    /\ At(w, "window_reset")
    /\ Go(w, "max_up")
    /\ UNCHANGED <<tasks, progress, bounds, waiting, m_nCacheStart, row, loc, host>>

\* A loop of compare-and-swaps.
WindowReset(w) ==
    /\ At(w, "window_reset")
    /\ m_nCacheStart' = 0
    /\ Go(w, "max_up")
    /\ UNCHANGED <<tasks, progress, bounds, waiting, row, loc, host>>

MaxUp(w) ==
    LET t == row[w].tid IN
    /\ At(w, "max_up")
    /\ m_max' = IF t = loc[w].max /\ m_max = t THEN m_max + 1 ELSE m_max
    /\ Go(w, IF \/ AnyOrder(t)
                \/ /\ t = loc[w].max => m_max = t
                   /\ loc[w].tc + 1 = loc[w].tw
             THEN "complete" ELSE "error")
    /\ UNCHANGED <<tasks, progress, m_min, waiting, m_nCacheStart, row, loc, host>>

\* completed + 1, tried again for a task without order.  Then rows near this one are
\* looked for, from the next task back to this one.
CompleteRow(w) ==
    LET t == row[w].tid
        max == Least(loc[w].max + 1, Last)
        s == Least(IF t < loc[w].min THEN loc[w].min ELSE t, max)
        e == Least(s + 1, max)
        unchanged == completed[t] = loc[w].tc /\ working[t] = loc[w].tw IN
    /\ At(w, "complete")
    /\ IF unchanged \/ AnyOrder(t)
       THEN /\ completed' = [completed EXCEPT ![t] = @ + 1]
            /\ Go(w, "pvt")
            /\ Locals(w, [AfterPvt(loc[w]) EXCEPT !.max = max, !.x = e, !.lim = s,
                                                  !.from = "near"])
            /\ Hold(w, NoRow)
       ELSE /\ Go(w, "error")
            /\ UNCHANGED <<completed, row, loc>>
    /\ UNCHANGED <<tasks, working, bounds, waiting, m_nCacheStart, host>>

\* mpCTaskComplete returns with the row it obtained.
Keep(w) ==
    /\ Go(w, IF row[w] = NoRow THEN "done" ELSE "run")
    /\ Locals(w, NoLocals)

\* Is a worker waiting?
Signal(w) ==
    /\ At(w, "signal")
    /\ IF m_nBlocking > 0 THEN Go(w, "signal_lock") /\ UNCHANGED loc ELSE Keep(w)
    /\ UNCHANGED <<tasks, progress, bounds, waiting, m_nCacheStart, row, host>>

SignalLock(w) ==
    /\ At(w, "signal_lock")
    /\ m_mutex = NoWorker
    /\ IF m_nBlocking = 0
       THEN Keep(w) /\ UNCHANGED m_mutex
       ELSE /\ m_mutex' = w
            /\ Locals(w, [loc[w] EXCEPT !.v = m_nBlocking])
            /\ Go(w, "give")
    /\ UNCHANGED <<tasks, progress, bounds, m_nBlocking, r_q, m_nCacheStart, row, host>>

\* This worker's row goes to a waiting one.
Give(w) ==
    /\ At(w, "give")
    /\ Len(r_q) < QSize
    /\ r_q' = Append(r_q, row[w])
    /\ Hold(w, NoRow)
    /\ Go(w, "given")
    /\ UNCHANGED <<tasks, progress, bounds, m_nBlocking, m_mutex, m_nCacheStart, loc, host>>

\* The compare-and-swap of m_nBlocking with v - 1.
UncountBlocked(w) ==
    m_nBlocking' = IF m_nBlocking = loc[w].v THEN m_nBlocking - 1 ELSE m_nBlocking

Given(w) ==
    /\ At(w, "given")
    /\ UncountBlocked(w)
    /\ IF loc[w].max >= loc[w].min
       THEN /\ Go(w, "forward")
            /\ Locals(w, [NoLocals EXCEPT !.x = loc[w].max, !.lim = loc[w].min,
                                          !.from = "forward"])
       ELSE Go(w, "none_forward") /\ Locals(w, NoLocals)
    /\ UNCHANGED <<tasks, progress, bounds, m_mutex, r_q, m_nCacheStart, row, host>>

\* More rows, as long as workers wait.
Forward(w) ==
    /\ At(w, "forward")
    /\ IF m_nBlocking = 0
       THEN Go(w, "none_forward") /\ Locals(w, NoLocals)
       ELSE Go(w, "pvt") /\ Locals(w, [loc[w] EXCEPT !.v = m_nBlocking])
    /\ UNCHANGED <<tasks, progress, bounds, waiting, m_nCacheStart, row, host>>

ForwardFound(w) ==
    /\ At(w, "found_forward")
    /\ UncountBlocked(w)
    /\ Go(w, "forward_push")
    /\ Locals(w, [loc[w] EXCEPT !.v = 0])
    /\ UNCHANGED <<tasks, progress, bounds, m_mutex, r_q, m_nCacheStart, row, host>>

ForwardPush(w) ==
    /\ At(w, "forward_push")
    /\ Len(r_q) < QSize
    /\ r_q' = Append(r_q, row[w])
    /\ Hold(w, NoRow)
    /\ NextTask(w)
    /\ UNCHANGED <<tasks, progress, bounds, m_nBlocking, m_mutex, m_nCacheStart, host>>

\* Unlock; this worker, which gave its row away, obtains another one.
ForwardNone(w) ==
    /\ At(w, "none_forward")
    /\ m_mutex' = NoWorker
    /\ Go(w, "obtain")
    /\ UNCHANGED <<tasks, progress, bounds, m_nBlocking, r_q, m_nCacheStart, row, loc,
                   host>>

mpCTaskComplete(w) ==
    \/ ReadProgress(w) \/ ReadMin(w) \/ ReadMax(w) \/ Spin(w) \/ MinUp(w)
    \/ WindowReset(w) \/ MaxUp(w) \/ CompleteRow(w)
    \/ Signal(w) \/ SignalLock(w) \/ Give(w) \/ Given(w) \/ Forward(w)
    \/ ForwardFound(w) \/ ForwardPush(w) \/ ForwardNone(w)

Worker(w) == mpCTaskObtainPvt(w) \/ mpCTaskObtain(w) \/ mpCTaskComplete(w)

Next ==
    \/ \E k \in Kinds : mpCTaskAdd(k)
    \/ Flood
    \/ Collect
    \/ \E w \in Workers : Worker(w)

\* The threads run, and the host comes back for the frame it has started.
Fairness == WF_vars(Collect) /\ \A w \in Workers : WF_vars(Worker(w))

Spec == Init /\ [][Next]_vars /\ Fairness
-----------------------------------------------------------------------------
PcStates ==
    {"idle", "obtain", "obtain_max", "pvt", "pvt_cache", "pvt_prev", "pvt_take",
     "pvt_window", "found_forward", "none_scan", "none_forward", "end", "end_set", "push_end", "count", "pop", "run", "read_min",
     "read_max", "spin", "min_up", "window_reset", "max_up", "complete", "signal",
     "signal_lock", "give", "given", "forward", "forward_push", "done", "error"}

TypeOK ==
    /\ tasks \in Seq(Kinds) /\ Len(tasks) <= MaxTasks
    /\ completed \in [TaskIds -> 0 .. Rows]
    /\ working \in [TaskIds -> 0 .. Rows]
    /\ m_min \in 0 .. MaxTasks
    /\ m_max \in 0 .. MaxTasks
    /\ m_nBlocking \in Int
    /\ m_nCacheStart \in 0 .. Rows
    /\ m_mutex \in Workers \cup {NoWorker}
    /\ Len(r_q) <= QSize
    /\ pc \in [Workers -> PcStates]
    /\ host \in {"add", "run"}

\* No errorAssert of mpCTaskComplete fails: a task in order is run by one thread at a
\* time although any thread can reserve its next row, and only that thread moves
\* m_min and m_max past it.
AssertionsHold == \A w \in Workers : ~At(w, "error")

\* The rows that somebody has to run: a worker, or one that will pop the message.
\* A worker that has put its row in the queue has let go of it.
Holders(r) ==
    Cardinality({w \in Workers : row[w] = r})
        + Cardinality({i \in 1 .. Len(r_q) : r_q[i] = r})

\* Every row that was reserved and is not completed is held exactly once, by a
\* worker or by a message of the queue, and no other row is: no row is lost or run
\* twice when it changes hands.
RowHeldOnce ==
    \A t \in TaskIds, y \in RowSet :
        Holders([tid |-> t, tsk |-> y]) =
            IF completed[t] <= y /\ y < working[t] THEN 1 ELSE 0

\* The tasks outside m_min .. m_max + 1 have no row to hand out: the scan of
\* mpCTaskObtain does not overlook any, though both bounds move by
\* compare-and-swaps on values that were read earlier and may fail.
ScanCovers ==
    \A t \in 0 .. Last :
        /\ t < m_min => working[t] = Rows
        /\ t > m_max + 1 => completed[t - 1] = 0

\* Every frame the workers were sent to is finished, and they come back.
FrameCompletes == host = "run" ~> host = "add"

\* What the users of the scheduler see.
Windows == INSTANCE RowWindows WITH
    done <- completed, started <- working,
    stage <- IF host = "run" THEN "run" ELSE "add"

ImplementsWindows == Windows!WSpec
=============================================================================
