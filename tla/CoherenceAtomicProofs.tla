----------------------- MODULE CoherenceAtomicProofs -----------------------
(***************************************************************************)
(* Proofs about CoherenceAtomic, for any number of rows, tasks and         *)
(* workers, any sizes of the cache and of the queue, and any kinds of      *)
(* tasks.  IInv is the inductive invariant: what the progress words, the   *)
(* bounds m_min and m_max and the queue say about each other, and, for     *)
(* every place in the code a worker can be at, what it knows of them.      *)
(***************************************************************************)
EXTENDS CoherenceAtomic, SequenceTheorems, FiniteSetTheorems, TLAPS

Row == [tid : TaskIds, tsk : RowSet]

LocalsType ==
    [min : Nat, max : Nat, x : Nat, lim : Nat, tc : 0 .. Rows, tw : 0 .. Rows,
     cs : 0 .. Rows, v : Int, from : {"scan", "near", "forward"},
     ret : {"loop", "signal"}]

Typed ==
    /\ TypeOK
    /\ row \in [Workers -> Row \cup {NoRow}]
    /\ loc \in [Workers -> LocalsType]
    /\ r_q \in Seq(Row \cup {NoRow, END})

\* Outside a frame nothing is handed out and no worker runs.
FrameInv ==
    /\ host = "add" =>
          /\ \A t \in TaskIds : completed[t] = 0 /\ working[t] = 0
          /\ m_min = 0 /\ m_max = 0 /\ r_q = <<>>
          /\ \A w \in Workers : At(w, "idle")
    /\ host = "run" => tasks # <<>> /\ \A w \in Workers : ~At(w, "idle")

\* The progress words of neighbours: a task that has begun follows one that has completed
\* a row, and one that is handed out follows tasks that are completed.
ProgressInv ==
    \A t \in TaskIds :
        /\ completed[t] <= working[t]
        /\ working[t] > 0 =>
              /\ t <= Last
              /\ ~AnyOrder(t) => working[t] <= completed[t] + 1
              /\ t > 0 => completed[t - 1] > 0
              /\ working[t] = Rows => \A s \in 0 .. t - 1 : completed[s] = Rows

BoundsInv ==
    /\ m_min <= Len(tasks)
    /\ m_max <= Len(tasks)
    /\ \A t \in TaskIds :
          /\ t < m_min => working[t] = Rows
          /\ completed[t] > 0 => t < m_max

\* Row r was reserved and is not completed.
Reserved(r) == completed[r.tid] <= r.tsk /\ r.tsk < working[r.tid]

\* The reserved rows are those that a worker holds or the queue contains, each once.
HeldInv ==
    /\ \A w \in Workers : row[w] # NoRow => Reserved(row[w])
    /\ \A n \in 1 .. Len(r_q) : r_q[n] \in Row => Reserved(r_q[n])
    /\ \A w, u \in Workers : row[w] = row[u] /\ row[w] # NoRow => w = u
    /\ \A n, k \in 1 .. Len(r_q) : r_q[n] = r_q[k] /\ r_q[n] \in Row => n = k
    /\ \A w \in Workers, n \in 1 .. Len(r_q) : row[w] = r_q[n] => row[w] = NoRow
    /\ \A r \in Row : Reserved(r) =>
          (\E w \in Workers : row[w] = r) \/ (\E n \in 1 .. Len(r_q) : r_q[n] = r)

\* A worker is told to stop only when the frame is over.
EndInv == \A n \in 1 .. Len(r_q) : r_q[n] \in {NoRow, END} => LastTaskDone
-----------------------------------------------------------------------------
(* The places in the code. *)

\* A worker looks for a row in task x.
Taking == {"pvt_cache", "pvt_prev", "pvt_take"}
Looking == {"pvt"} \cup Taking
\* It has a row, or may have one.
Completing == {"read_min", "read_max", "spin", "min_up", "window_reset", "max_up", "complete"}
Carrying == {"pvt_window", "found_forward", "forward_push", "run"} \cup Completing
MayCarry == {"signal", "signal_lock", "give"}
\* It has seen the end of the frame.
Ending == {"end", "end_set", "push_end", "done"}
\* It has read m_max and not yet turned it into the last task to look at.
MaxRead == {"spin", "min_up", "window_reset", "max_up"}
\* Its row is the next of the task to be completed.
InItsTurn == {"min_up", "window_reset", "max_up", "complete"}

PlaceInv(w) ==
    /\ ~At(w, "error")
    /\ pc[w] \in Carrying => row[w] # NoRow
    /\ pc[w] \notin Carrying \cup MayCarry => row[w] = NoRow
    /\ pc[w] \in MayCarry /\ row[w] = NoRow => LastTaskDone
    /\ pc[w] \in Ending => LastTaskDone
    /\ pc[w] \in {"idle", "done"} => loc[w] = NoLocals
    /\ pc[w] \notin MaxRead \cup {"idle", "complete"} => loc[w].max <= Last

ScanInv(w) ==
    LET l == loc[w] IN
    /\ pc[w] \in Looking \cup {"pvt_window", "forward", "found_forward", "forward_push"}
          => l.x <= Last
    /\ pc[w] \in Looking /\ l.from = "scan" => l.lim <= Last
    /\ pc[w] \in {"forward", "found_forward", "forward_push"} => l.from = "forward"
    /\ pc[w] \in Taking => l.tw < Rows /\ (AnyOrder(l.x) \/ l.tc = l.tw)
    /\ pc[w] = "pvt_take" /\ l.x > 0 => PrevFinished(l.x, l.tw)
    /\ pc[w] = "pvt_window" => l.cs < Rows

\* What mpCTaskComplete has read is still so, of a task in order; of the others a part of
\* it is, and the words have only grown.
CompleteInv(w) ==
    LET l == loc[w]
        t == row[w].tid IN
    /\ pc[w] \in Completing =>
          /\ l.tc <= completed[t] /\ l.tw <= working[t]
          /\ ~AnyOrder(t) => l.tc = completed[t] /\ l.tw = working[t]
    /\ pc[w] \in InItsTurn => l.tc = row[w].tsk /\ completed[t] = row[w].tsk
    /\ pc[w] \in {"read_max", "spin", "min_up"} /\ ~AnyOrder(t) /\ l.min = t => m_min = t
    /\ pc[w] = "min_up" => l.min = t /\ working[t] = Rows
    /\ pc[w] \in MaxRead =>
          /\ t <= l.max /\ l.max <= m_max
          /\ ~AnyOrder(t) /\ l.max = t => m_max = t
    /\ pc[w] = "complete" => t < m_max

WorkerInv(w) == PlaceInv(w) /\ ScanInv(w) /\ CompleteInv(w)

Shared == FrameInv /\ ProgressInv /\ BoundsInv /\ HeldInv /\ EndInv

IInv == Typed /\ Shared /\ \A w \in Workers : WorkerInv(w)
-----------------------------------------------------------------------------
(* Lemmas on the parts of the invariant. *)

LEMMA Constants ==
    /\ Rows \in Nat \ {0} /\ MaxTasks \in Nat \ {0} /\ CacheSize \in Nat \ {0}
    /\ QSize \in Nat \ {0} /\ Workers # {}
    /\ \A k \in Kinds : k.bottom \in Nat /\ k.any \in BOOLEAN
  BY FieldAssumption, AtomicAssumption DEF FieldAssumption, AtomicAssumption

\* -1 and the end of a frame are no rows.
LEMMA RowTypes ==
    /\ NoRow \notin Row /\ END \notin Row /\ NoRow # END
    /\ \A r \in Row : /\ r.tid \in 0 .. MaxTasks - 1 /\ r.tsk \in 0 .. Rows - 1
                      /\ r = [tid |-> r.tid, tsk |-> r.tsk]
  <1>1. NoRow.tid = -1 /\ END.tid = -2
    BY DEF NoRow, END
  <1>2. \A r \in Row : /\ r.tid \in 0 .. MaxTasks - 1 /\ r.tsk \in 0 .. Rows - 1
                       /\ r = [tid |-> r.tid, tsk |-> r.tsk]
    BY DEF Row, TaskIds, RowSet
  <1> QED
    BY <1>1, <1>2

\* What the types say in the terms that the proofs use.
LEMMA TypeFacts ==
    ASSUME Typed
    PROVE  /\ Len(tasks) \in Nat /\ Len(tasks) <= MaxTasks /\ Last = Len(tasks) - 1
           /\ \A t \in 0 .. Last : /\ t \in TaskIds
                                   /\ AnyOrder(t) \in BOOLEAN /\ Bottom(t) \in Nat
           /\ \A t \in TaskIds : /\ t \in Nat /\ t < MaxTasks
                                 /\ completed[t] \in Nat /\ completed[t] <= Rows
                                 /\ working[t] \in Nat /\ working[t] <= Rows
           /\ m_min \in Nat /\ m_max \in Nat
           /\ tasks # <<>> <=> Last >= 0
  <1>1. Len(tasks) \in Nat /\ Len(tasks) <= MaxTasks /\ Last = Len(tasks) - 1
    BY DEF Typed, TypeOK, Last
  <1>2. tasks # <<>> <=> Last >= 0
    BY <1>1, EmptySeq DEF Typed, TypeOK
  <1>3. \A t \in 0 .. Last : t \in TaskIds /\ AnyOrder(t) \in BOOLEAN /\ Bottom(t) \in Nat
    <2> SUFFICES ASSUME NEW t \in 0 .. Last
                 PROVE  t \in TaskIds /\ AnyOrder(t) \in BOOLEAN /\ Bottom(t) \in Nat
      OBVIOUS
    <2>1. t + 1 \in 1 .. Len(tasks) /\ t \in 0 .. MaxTasks - 1
      BY <1>1, Constants
    <2>2. tasks[t + 1] \in Kinds
      BY <2>1, ElementOfSeq DEF Typed, TypeOK
    <2>3. tasks[t + 1].any \in BOOLEAN /\ tasks[t + 1].bottom \in Nat
      BY <2>2, Constants
    <2> QED
      BY <2>1, <2>3 DEF TaskIds, AnyOrder, Bottom
  <1>4. /\ \A t \in TaskIds : /\ t \in Nat /\ t < MaxTasks
                              /\ completed[t] \in Nat /\ completed[t] <= Rows
                              /\ working[t] \in Nat /\ working[t] <= Rows
        /\ m_min \in Nat /\ m_max \in Nat
    BY Constants DEF Typed, TypeOK, TaskIds
  <1> QED
    BY <1>1, <1>2, <1>3, <1>4

\* A row that is reserved is one of a task of the frame; of a task in order it is the next
\* one to be completed.
LEMMA ReservedRow ==
    ASSUME Typed, ProgressInv, NEW r \in Row, Reserved(r)
    PROVE  /\ r.tid \in 0 .. Last
           /\ working[r.tid] > 0
           /\ ~AnyOrder(r.tid) => r.tsk = completed[r.tid] /\ working[r.tid] = r.tsk + 1
  <1>1. /\ r.tid \in TaskIds /\ r.tid \in Nat /\ r.tsk \in Nat
        /\ completed[r.tid] \in Nat /\ working[r.tid] \in Nat
    BY RowTypes, TypeFacts DEF TaskIds
  <1>2. working[r.tid] > 0
    BY <1>1 DEF Reserved
  <1>3. r.tid <= Last /\ (~AnyOrder(r.tid) => working[r.tid] <= completed[r.tid] + 1)
    BY <1>1, <1>2 DEF ProgressInv
  <1>4. Last \in Int
    BY TypeFacts
  <1> QED
    BY <1>1, <1>2, <1>3, <1>4 DEF Reserved

\* The row that a worker carries.
LEMMA CarriedRow ==
    ASSUME Typed, ProgressInv, HeldInv, NEW w \in Workers, row[w] # NoRow
    PROVE  /\ row[w] \in Row
           /\ Reserved(row[w])
           /\ row[w].tid \in 0 .. Last /\ row[w].tid \in TaskIds
           /\ row[w].tsk \in 0 .. Rows - 1
           /\ working[row[w].tid] > 0
           /\ ~AnyOrder(row[w].tid) => /\ row[w].tsk = completed[row[w].tid]
                                       /\ working[row[w].tid] = row[w].tsk + 1
  <1>1. row[w] \in Row /\ Reserved(row[w])
    BY DEF Typed, HeldInv
  <1> QED
    BY <1>1, ReservedRow, RowTypes DEF TaskIds

\* What the others do leaves worker u alone: the words only grow, and those of the task
\* whose row it holds stay, in order or once it is that row's turn.
Undisturbed(u) ==
    /\ \A t \in TaskIds : completed[t] <= completed'[t] /\ working[t] <= working'[t]
    /\ m_max <= m_max'
    /\ row[u] # NoRow =>
          LET t == row[u].tid IN
          /\ completed[t] = row[u].tsk => completed'[t] = completed[t]
          /\ ~AnyOrder(t) => /\ working'[t] = working[t]
                             /\ m_min = t => m_min' = t
                             /\ m_max = t => m_max' = t

LEMMA OtherKept ==
    ASSUME IInv, Typed', tasks # <<>>, tasks' = tasks, NEW u \in Workers,
           pc'[u] = pc[u], row'[u] = row[u], loc'[u] = loc[u], Undisturbed(u)
    PROVE  WorkerInv(u)'
  <1>1. /\ Last' = Last /\ Last \in 0 .. MaxTasks - 1 /\ Last \in TaskIds
        /\ \A t : AnyOrder(t)' = AnyOrder(t) /\ Bottom(t)' = Bottom(t)
    BY TypeFacts, Constants DEF IInv, Last, AnyOrder, Bottom, TaskIds
  <1>2. /\ loc[u] \in LocalsType
        /\ \A t \in TaskIds : /\ completed[t] \in 0 .. Rows /\ completed'[t] \in 0 .. Rows
                              /\ working[t] \in 0 .. Rows /\ working'[t] \in 0 .. Rows
        /\ m_max \in Nat /\ m_max' \in Nat
    BY DEF IInv, Typed, TypeOK
  <1>3. LastTaskDone => LastTaskDone'
    BY <1>1, <1>2, Constants DEF LastTaskDone, Undisturbed
  <1>4. PlaceInv(u)'
    BY <1>1, <1>3 DEF IInv, WorkerInv, PlaceInv, At
  <1>5. ScanInv(u)'
    <2>1. ASSUME pc[u] = "pvt_take", loc[u].x > 0, PrevFinished(loc[u].x, loc[u].tw)
          PROVE  PrevFinished(loc[u].x, loc[u].tw)'
      <3> DEFINE x == loc[u].x
      <3>1. x \in Nat /\ x <= Last /\ loc[u].tw \in 0 .. Rows
        BY <1>2, <2>1 DEF IInv, WorkerInv, ScanInv, Looking, Taking, LocalsType
      <3>2. x - 1 \in TaskIds /\ x \in 0 .. Last
        BY <1>1, <2>1, <3>1, Constants DEF TaskIds
      <3>3. completed[x - 1] <= completed'[x - 1]
        BY <3>2 DEF Undisturbed
      <3>4. Bottom(x) \in Nat
        BY <3>2, TypeFacts DEF IInv
      <3> QED
        BY <1>1, <1>2, <2>1, <3>1, <3>2, <3>3, <3>4, Constants DEF PrevFinished, Least
    <2> QED
      BY <1>1, <2>1 DEF IInv, WorkerInv, ScanInv
  <1>6. CompleteInv(u)'
    <2>1. CASE pc[u] \notin Completing
      BY <2>1 DEF CompleteInv, Completing, InItsTurn, MaxRead
    <2>2. CASE pc[u] \in Completing
      <3> DEFINE t == row[u].tid
      <3>1. row[u] # NoRow
        BY <2>2 DEF IInv, WorkerInv, PlaceInv, Carrying
      <3>2. /\ t \in TaskIds /\ row[u].tsk \in Nat /\ t \in Nat
            /\ ~AnyOrder(t) => row[u].tsk = completed[t]
        BY <3>1, CarriedRow, TypeFacts DEF IInv, Shared
      <3>3. /\ completed[t] <= completed'[t] /\ working[t] <= working'[t]
            /\ completed[t] = row[u].tsk => completed'[t] = completed[t]
            /\ m_max <= m_max'
            /\ ~AnyOrder(t) => /\ working'[t] = working[t]
                               /\ m_min = t => m_min' = t
                               /\ m_max = t => m_max' = t
        BY <3>1, <3>2 DEF Undisturbed
      <3>4. loc[u].tc \in Nat /\ loc[u].tw \in Nat /\ loc[u].max \in Nat
        BY <1>2, Constants DEF LocalsType
      <3>5. completed'[t] \in 0 .. Rows /\ working'[t] \in 0 .. Rows
        BY <1>2, <3>2
      <3>6. CompleteInv(u)
        BY DEF IInv, WorkerInv
      <3>7. AnyOrder(t)' = AnyOrder(t)
        BY <1>1
      <3> DEFINE l == loc[u]
                 c == completed[t]
                 c2 == completed'[t]
                 v == working[t]
                 v2 == working'[t]
      <3>8. /\ pc'[u] \in Completing => /\ l.tc <= c2 /\ l.tw <= v2
                                        /\ ~AnyOrder(t) => l.tc = c2 /\ l.tw = v2
            /\ pc'[u] \in InItsTurn => l.tc = row[u].tsk /\ c2 = row[u].tsk
        <4>1. /\ l.tc <= c /\ l.tw <= v
              /\ ~AnyOrder(t) => l.tc = c /\ l.tw = v
              /\ pc[u] \in InItsTurn => l.tc = row[u].tsk /\ c = row[u].tsk
          BY <2>2, <3>6 DEF CompleteInv
        <4>2. c \in Nat /\ v \in Nat /\ c2 \in Nat /\ v2 \in Nat
          BY <1>2, <3>2, Constants
        <4>3. l.tc \in Nat /\ l.tw \in Nat /\ c <= c2 /\ v <= v2
          BY <3>3, <3>4
        <4> HIDE DEF c, c2, v, v2, l
        <4>4. l.tc <= c2 /\ l.tw <= v2
          BY <4>1, <4>2, <4>3
        <4>5. /\ c = row[u].tsk => c2 = c
              /\ ~AnyOrder(t) => v2 = v /\ c = row[u].tsk
          BY <3>2, <3>3 DEF c, c2, v, v2
        <4> QED
          BY <4>1, <4>4, <4>5
      <3>9. /\ pc'[u] \in {"read_max", "spin", "min_up"} /\ ~AnyOrder(t) /\ l.min = t => m_min' = t
            /\ pc'[u] = "min_up" => l.min = t /\ v2 = Rows
        <4>1. v = Rows => v2 = Rows
          BY <1>2, <3>2, <3>3, <3>5, Constants
        <4> QED
          BY <3>3, <3>6, <4>1 DEF CompleteInv
      <3>10. /\ pc'[u] \in MaxRead => /\ t <= l.max /\ l.max <= m_max'
                                      /\ ~AnyOrder(t) /\ l.max = t => m_max' = t
             /\ pc'[u] = "complete" => t < m_max'
        <4>1. /\ pc[u] \in MaxRead => /\ t <= l.max /\ l.max <= m_max
                                      /\ ~AnyOrder(t) /\ l.max = t => m_max = t
              /\ pc[u] = "complete" => t < m_max
          BY <3>6 DEF CompleteInv
        <4>2. l.max <= m_max => l.max <= m_max'
          BY <1>2, <3>3, <3>4
        <4>3. t < m_max => t < m_max'
          BY <1>2, <3>2, <3>3
        <4> HIDE DEF l, t
        <4> QED
          BY <3>3, <4>1, <4>2, <4>3 DEF t
      <3> QED
        BY <3>7, <3>8, <3>9, <3>10 DEF CompleteInv
    <2> QED
      BY <2>1, <2>2
  <1> QED
    BY <1>4, <1>5, <1>6 DEF WorkerInv
-----------------------------------------------------------------------------
(* How one worker goes on. *)

LEMMA TasksKept ==
    ASSUME tasks' = tasks
    PROVE  /\ Last' = Last
           /\ \A t : AnyOrder(t)' = AnyOrder(t) /\ Bottom(t)' = Bottom(t)
  BY DEF Last, AnyOrder, Bottom

\* A worker that runs, in a frame.
LEMMA WorkerFacts ==
    ASSUME IInv, NEW w \in Workers, pc[w] # "idle"
    PROVE  /\ host = "run" /\ tasks # <<>> /\ Last \in 0 .. MaxTasks - 1 /\ Last \in TaskIds
           /\ loc[w] \in LocalsType
           /\ loc[w].min \in Nat /\ loc[w].max \in Nat /\ loc[w].x \in Nat /\ loc[w].lim \in Nat
           /\ loc[w].tc \in 0 .. Rows /\ loc[w].tw \in 0 .. Rows /\ loc[w].cs \in 0 .. Rows
           /\ loc[w].v \in Int /\ loc[w].from \in {"scan", "near", "forward"}
           /\ loc[w].ret \in {"loop", "signal"}
           /\ PlaceInv(w) /\ ScanInv(w) /\ CompleteInv(w)
  <1>1. host = "run" /\ tasks # <<>>
    BY DEF IInv, Shared, FrameInv, At, Typed, TypeOK
  <1>2. Last \in 0 .. MaxTasks - 1 /\ Last \in TaskIds
    BY <1>1, TypeFacts, Constants DEF IInv, TaskIds
  <1>3. loc[w] \in LocalsType
    BY DEF IInv, Typed
  <1> QED
    BY <1>1, <1>2, <1>3 DEF IInv, WorkerInv, LocalsType

\* Only worker w moves.
Moves(w) ==
    /\ pc[w] # "idle" /\ pc'[w] # "idle"
    /\ pc' \in [Workers -> PcStates]
    /\ loc' \in [Workers -> LocalsType]
    /\ \A u \in Workers : u # w => pc'[u] = pc[u] /\ loc'[u] = loc[u]

LEMMA GoMoves ==
    ASSUME IInv, NEW w \in Workers, pc[w] # "idle",
           NEW p \in PcStates, p # "idle", NEW l \in LocalsType, Go(w, p), Locals(w, l)
    PROVE  Moves(w) /\ pc'[w] = p /\ loc'[w] = l
  BY DEF IInv, Typed, TypeOK, Moves, Go, Locals

LEMMA GoMovesKeeping ==
    ASSUME IInv, NEW w \in Workers, pc[w] # "idle",
           NEW p \in PcStates, p # "idle", Go(w, p), UNCHANGED loc
    PROVE  Moves(w) /\ pc'[w] = p /\ loc'[w] = loc[w]
  BY DEF IInv, Typed, TypeOK, Moves, Go

\* The locals that a worker starts from again.
LEMMA LocalsReset ==
    /\ NoLocals \in LocalsType
    /\ \A l \in LocalsType : /\ AfterPvt(l) \in LocalsType
                             /\ AfterScan(l) \in LocalsType
                             /\ AfterPvt(l).max = l.max /\ AfterScan(l).max = l.max
                             /\ AfterPvt(l).x = l.x /\ AfterPvt(l).lim = l.lim
                             /\ AfterPvt(l).from = l.from
  <1>1. NoLocals \in LocalsType
    BY Constants DEF NoLocals, LocalsType
  <1>2. ASSUME NEW l \in LocalsType
        PROVE  /\ AfterPvt(l) \in LocalsType /\ AfterPvt(l).max = l.max
               /\ AfterPvt(l).x = l.x /\ AfterPvt(l).lim = l.lim /\ AfterPvt(l).from = l.from
    <2> DEFINE a == [l EXCEPT !.tc = 0]
               b == [a EXCEPT !.tw = 0]
               c == [b EXCEPT !.cs = 0]
    <2>1. AfterPvt(l) = c
      BY <1>2 DEF AfterPvt
    <2>2. /\ a \in LocalsType /\ a.max = l.max /\ a.x = l.x /\ a.lim = l.lim
          /\ a.from = l.from
      BY <1>2, Constants DEF LocalsType
    <2> HIDE DEF a
    <2>3. /\ b \in LocalsType /\ b.max = a.max /\ b.x = a.x /\ b.lim = a.lim
          /\ b.from = a.from
      BY <2>2, Constants DEF LocalsType
    <2> HIDE DEF b
    <2>4. /\ c \in LocalsType /\ c.max = b.max /\ c.x = b.x /\ c.lim = b.lim
          /\ c.from = b.from
      BY <2>3, Constants DEF LocalsType
    <2> HIDE DEF c
    <2> QED
      BY <2>1, <2>2, <2>3, <2>4
  <1>3. ASSUME NEW l \in LocalsType
        PROVE  AfterScan(l) \in LocalsType /\ AfterScan(l).max = l.max
    <2> DEFINE p == AfterPvt(l)
               a == [p EXCEPT !.x = 0]
               b == [a EXCEPT !.lim = 0]
               c == [b EXCEPT !.v = 0]
    <2>0. p \in LocalsType /\ p.max = l.max
      BY <1>2, <1>3
    <2> HIDE DEF p
    <2>1. AfterScan(l) = c
      BY <2>0 DEF AfterScan, p
    <2>2. a \in LocalsType /\ a.max = p.max
      BY <2>0 DEF LocalsType
    <2> HIDE DEF a
    <2>3. b \in LocalsType /\ b.max = a.max
      BY <2>2 DEF LocalsType
    <2> HIDE DEF b
    <2>4. c \in LocalsType /\ c.max = b.max
      BY <2>3 DEF LocalsType
    <2> HIDE DEF c
    <2> QED
      BY <2>0, <2>1, <2>2, <2>3, <2>4
  <1> QED
    BY <1>1, <1>2, <1>3

LEMMA ReturnMoves ==
    ASSUME IInv, NEW w \in Workers, pc[w] \notin MaxRead \cup {"idle", "complete"},
           tasks' = tasks, Return(w),
           row'[w] \in Row \/ (row'[w] = NoRow /\ LastTaskDone')
    PROVE  Moves(w) /\ WorkerInv(w)'
  <1> USE WorkerFacts, TasksKept, LocalsReset, RowTypes
  <1>1. loc[w].max <= Last /\ Last >= 0 /\ NoLocals.max = 0
    BY DEF PlaceInv, NoLocals
  <1>2. CASE loc[w].ret = "signal"
    <2> DEFINE s == AfterScan(loc[w])
               l == [s EXCEPT !.ret = "loop"]
    <2>1. l \in LocalsType /\ l.max = loc[w].max
      <3>1. s \in LocalsType /\ s.max = loc[w].max
        OBVIOUS
      <3> HIDE DEF s
      <3> QED
        BY ONLY <3>1 DEF LocalsType
    <2>2. Moves(w) /\ pc'[w] = "signal" /\ loc'[w] = l
      BY <1>2, <2>1, GoMoves DEF Return, PcStates
    <2> HIDE DEF l
    <2> QED
      BY <1>1, <2>1, <2>2 DEF WorkerInv, PlaceInv, ScanInv, CompleteInv, At, Looking, Taking,
         Completing, Carrying, MayCarry, Ending, MaxRead, InItsTurn
  <1>3. CASE loc[w].ret # "signal"
    <2>1. /\ Moves(w)
          /\ pc'[w] = IF row'[w] = NoRow THEN "done" ELSE "run"
          /\ loc'[w] = NoLocals
      BY <1>3, GoMoves DEF Return, PcStates
    <2> QED
      BY <1>1, <2>1 DEF WorkerInv, PlaceInv, ScanInv, CompleteInv, At, Looking, Taking,
         Completing, Carrying, MayCarry, Ending, MaxRead, InItsTurn
  <1> QED
    BY <1>2, <1>3

LEMMA NextTaskMoves ==
    ASSUME IInv, NEW w \in Workers, pc[w] \in Looking \cup {"forward_push"},
           tasks' = tasks, NextTask(w), row'[w] = NoRow
    PROVE  Moves(w) /\ WorkerInv(w)'
  <1> USE WorkerFacts, TasksKept, LocalsReset
  <1> DEFINE l == AfterPvt(loc[w])
  <1>1. /\ pc[w] # "idle" /\ loc[w].max <= Last /\ Last \in Nat /\ NoLocals.max = 0
        /\ loc[w].x <= Last
        /\ pc[w] = "forward_push" => loc[w].from = "forward"
        /\ loc[w].from = "scan" => loc[w].lim <= Last
    BY DEF PlaceInv, ScanInv, NoLocals, Looking, Taking, MaxRead
  <1>2. /\ l \in LocalsType /\ l.max = loc[w].max /\ l.x = loc[w].x /\ l.lim = loc[w].lim
        /\ l.from = loc[w].from /\ l.x \in Nat /\ l.lim \in Nat
        /\ AfterScan(l) \in LocalsType /\ AfterScan(l).max = l.max
    BY <1>1
  <1>3. CASE l.from = "scan"
    <2> DEFINE k == IF l.x < l.lim THEN [l EXCEPT !.x = @ + 1] ELSE AfterScan(l)
    <2>1. /\ k \in LocalsType /\ k.max = l.max
          /\ l.x < l.lim => k.x = l.x + 1 /\ k.lim = l.lim /\ k.from = "scan"
      <3>1. l.x < l.lim => [l EXCEPT !.x = @ + 1] \in LocalsType
        <4> HIDE DEF l
        <4> QED
          BY ONLY <1>2 DEF LocalsType
      <3>2. /\ [l EXCEPT !.x = @ + 1].max = l.max /\ [l EXCEPT !.x = @ + 1].x = l.x + 1
            /\ [l EXCEPT !.x = @ + 1].lim = l.lim /\ [l EXCEPT !.x = @ + 1].from = l.from
        <4> HIDE DEF l
        <4> QED
          BY ONLY <1>2 DEF LocalsType
      <3> HIDE DEF l
      <3> QED
        BY ONLY <1>2, <1>3, <3>1, <3>2
    <2>2. /\ Moves(w) /\ loc'[w] = k
          /\ pc'[w] = IF l.x < l.lim THEN "pvt" ELSE "none_scan"
      <3>1. /\ Go(w, IF l.x < l.lim THEN "pvt" ELSE "none_scan") /\ Locals(w, k)
        BY <1>3 DEF NextTask
      <3> HIDE DEF k, l
      <3> QED
        BY <1>1, <2>1, <3>1, GoMoves DEF PcStates
    <2> HIDE DEF k, l
    <2> QED
      BY <1>1, <1>2, <1>3, <2>1, <2>2 DEF WorkerInv, PlaceInv, ScanInv, CompleteInv, At, Looking, Taking,
         Completing, Carrying, MayCarry, Ending, MaxRead, InItsTurn
  <1>4. CASE l.from = "near"
    <2> DEFINE k == IF l.x > l.lim THEN [l EXCEPT !.x = @ - 1]
                    ELSE [AfterScan(l) EXCEPT !.ret = "signal"]
    <2>1. /\ k \in LocalsType /\ k.max = l.max
          /\ l.x > l.lim => k.x = l.x - 1 /\ k.from = "near"
      <3> DEFINE s == AfterScan(l)
                 d == [l EXCEPT !.x = @ - 1]
                 e == [s EXCEPT !.ret = "signal"]
      <3>1. l.x > l.lim => d \in LocalsType
        <4> HIDE DEF l
        <4> QED
          BY ONLY <1>2 DEF LocalsType
      <3>2. d.max = l.max /\ d.x = l.x - 1 /\ d.from = l.from
        <4> HIDE DEF l
        <4> QED
          BY ONLY <1>2 DEF LocalsType
      <3>3. e \in LocalsType /\ e.max = s.max
        <4> HIDE DEF s
        <4> QED
          BY ONLY <1>2 DEF LocalsType, s
      <3> HIDE DEF l, d, e
      <3> QED
        BY ONLY <1>2, <1>4, <3>1, <3>2, <3>3 DEF s, d, e
    <2>2. /\ Moves(w) /\ loc'[w] = k
          /\ pc'[w] = IF l.x > l.lim THEN "pvt" ELSE "obtain"
      <3>1. /\ Go(w, IF l.x > l.lim THEN "pvt" ELSE "obtain") /\ Locals(w, k)
        BY <1>4 DEF NextTask
      <3> HIDE DEF k, l
      <3> QED
        BY <1>1, <2>1, <3>1, GoMoves DEF PcStates
    <2> HIDE DEF k, l
    <2> QED
      BY <1>1, <1>2, <1>4, <2>1, <2>2 DEF WorkerInv, PlaceInv, ScanInv, CompleteInv, At, Looking, Taking,
         Completing, Carrying, MayCarry, Ending, MaxRead, InItsTurn
  <1>5. CASE l.from = "forward"
    <2> DEFINE k == IF l.x > l.lim THEN [l EXCEPT !.x = @ - 1] ELSE NoLocals
    <2>1. /\ k \in LocalsType /\ k.max <= Last
          /\ l.x > l.lim => k.x = l.x - 1 /\ k.from = "forward"
      <3> DEFINE d == [l EXCEPT !.x = @ - 1]
      <3>1. l.x > l.lim => d \in LocalsType
        <4> HIDE DEF l
        <4> QED
          BY ONLY <1>2 DEF LocalsType
      <3>2. d.max = l.max /\ d.x = l.x - 1 /\ d.from = l.from
        <4> HIDE DEF l
        <4> QED
          BY ONLY <1>2 DEF LocalsType
      <3> HIDE DEF l
      <3> QED
        BY <1>1, <1>2, <1>5, <3>1, <3>2
    <2>2. /\ Moves(w) /\ loc'[w] = k
          /\ pc'[w] = IF l.x > l.lim THEN "forward" ELSE "none_forward"
      <3>1. /\ Go(w, IF l.x > l.lim THEN "forward" ELSE "none_forward") /\ Locals(w, k)
        BY <1>5 DEF NextTask
      <3> HIDE DEF k, l
      <3> QED
        BY <1>1, <2>1, <3>1, GoMoves DEF PcStates
    <2> HIDE DEF k, l
    <2> QED
      BY <1>1, <1>2, <1>5, <2>1, <2>2 DEF WorkerInv, PlaceInv, ScanInv, CompleteInv, At, Looking, Taking,
         Completing, Carrying, MayCarry, Ending, MaxRead, InItsTurn
  <1> QED
    BY <1>1, <1>2, <1>3, <1>4, <1>5

LEMMA PvtFoundMoves ==
    ASSUME IInv, NEW w \in Workers, pc[w] \in {"pvt_take", "pvt_window"},
           tasks' = tasks, PvtFound(w), row'[w] \in Row
    PROVE  Moves(w) /\ WorkerInv(w)'
  <1> USE WorkerFacts, TasksKept, LocalsReset, RowTypes
  <1>1. /\ pc[w] \notin MaxRead \cup {"idle", "complete"}
        /\ loc[w].max <= Last /\ Last \in Nat /\ loc[w].x <= Last
    BY DEF PlaceInv, ScanInv, Looking, Taking, MaxRead
  <1>2. CASE loc[w].from = "scan"
    BY <1>1, <1>2, ReturnMoves DEF PvtFound
  <1>3. CASE loc[w].from = "near"
    <2>1. Moves(w) /\ pc'[w] = "signal" /\ loc'[w] = AfterScan(loc[w])
      BY <1>1, <1>3, GoMoves DEF PvtFound, PcStates
    <2> QED
      BY <1>1, <2>1 DEF WorkerInv, PlaceInv, ScanInv, CompleteInv, At, Looking, Taking,
         Completing, Carrying, MayCarry, Ending, MaxRead, InItsTurn
  <1>4. CASE loc[w].from = "forward"
    <2>1. Moves(w) /\ pc'[w] = "found_forward" /\ loc'[w] = AfterPvt(loc[w])
      BY <1>1, <1>4, GoMoves DEF PvtFound, PcStates
    <2> QED
      BY <1>1, <1>4, <2>1 DEF WorkerInv, PlaceInv, ScanInv, CompleteInv, At, Looking, Taking,
         Completing, Carrying, MayCarry, Ending, MaxRead, InItsTurn
  <1> QED
    BY <1>1, <1>2, <1>3, <1>4

\* A step of worker w that touches nothing that the others know about.
LEMMA QuietStep ==
    ASSUME IInv, NEW w \in Workers, Moves(w), WorkerInv(w)',
           UNCHANGED <<tasks, progress, bounds, r_q, row, host>>,
           m_nBlocking' \in Int, m_nCacheStart' \in 0 .. Rows,
           m_mutex' \in Workers \cup {NoWorker}
    PROVE  IInv'
  <1> USE TasksKept, WorkerFacts
  <1>1. Typed'
    BY DEF IInv, Typed, TypeOK, Moves, progress, bounds
  <1>2. UNCHANGED <<tasks, completed, working, m_min, m_max, r_q, row, host>> /\ host = "run"
    BY DEF Moves, progress, bounds
  <1>3. FrameInv'
    <2>1. \A u \in Workers : ~At(u, "idle")'
      BY <1>2 DEF Moves, IInv, Shared, FrameInv, At
    <2> QED
      BY <1>2, <2>1 DEF IInv, Shared, FrameInv
  <1>4. ProgressInv' /\ BoundsInv' /\ EndInv'
    BY <1>2 DEF IInv, Shared, ProgressInv, BoundsInv, EndInv, LastTaskDone
  <1>5. HeldInv'
    BY <1>2 DEF IInv, Shared, HeldInv, Reserved
  <1>6. ASSUME NEW u \in Workers, u # w  PROVE WorkerInv(u)'
    <2>1. Undisturbed(u)
      BY <1>2, TypeFacts DEF Undisturbed, IInv
    <2> QED
      BY <1>1, <1>2, <1>6, <2>1, OtherKept DEF Moves
  <1> QED
    BY <1>1, <1>3, <1>4, <1>5, <1>6 DEF IInv, Shared

\* The places where a worker has no row, does not look at a task and knows nothing.
Plain == {"obtain", "obtain_max", "none_scan", "none_forward", "count", "pop", "given"}

LEMMA AtPlain ==
    ASSUME NEW w \in Workers, pc'[w] \in Plain, row'[w] = NoRow, loc'[w].max <= Last'
    PROVE  WorkerInv(w)'
  BY DEF Plain, WorkerInv, PlaceInv, ScanInv, CompleteInv, At, Looking, Taking,
         Completing, Carrying, MayCarry, Ending, MaxRead, InItsTurn

LEMMA KeepMoves ==
    ASSUME IInv, NEW w \in Workers, pc[w] \in {"signal", "signal_lock"},
           tasks' = tasks, completed' = completed, row' = row, Keep(w)
    PROVE  Moves(w) /\ WorkerInv(w)'
  <1>1. /\ loc[w].max <= Last /\ Last >= 0 /\ NoLocals.max = 0 /\ pc[w] # "idle"
        /\ row[w] = NoRow => LastTaskDone
    BY WorkerFacts DEF PlaceInv, NoLocals, MayCarry, MaxRead
  <1>2. /\ Moves(w)
        /\ pc'[w] = IF row[w] = NoRow THEN "done" ELSE "run"
        /\ loc'[w] = NoLocals
    BY <1>1, GoMoves, LocalsReset DEF Keep, PcStates
  <1>3. Last' = Last /\ (LastTaskDone => LastTaskDone')
    BY TasksKept DEF LastTaskDone
  <1> QED
    BY <1>1, <1>2, <1>3 DEF WorkerInv, PlaceInv, ScanInv, CompleteInv, At, Looking, Taking,
         Completing, Carrying, MayCarry, Ending, MaxRead, InItsTurn
-----------------------------------------------------------------------------
(* The steps that only read what is shared, or change m_nBlocking, m_nCacheStart *)
(* or m_mutex.                                                                   *)

LEMMA PvtProgressKeeps ==
    ASSUME IInv, NEW w \in Workers, PvtProgress(w)  PROVE IInv'
  <1>1. pc[w] = "pvt" /\ pc[w] # "idle"
    BY DEF PvtProgress, At
  <1>2. /\ UNCHANGED <<tasks, progress, bounds, r_q, row, host>> /\ m_nBlocking' \in Int
        /\ m_nCacheStart' \in 0 .. Rows /\ m_mutex' \in Workers \cup {NoWorker}
    BY DEF PvtProgress, waiting, IInv, Typed, TypeOK
  <1>3. /\ loc[w] \in LocalsType /\ loc[w].max <= Last /\ loc[w].x \in 0 .. Last
        /\ loc[w].from = "scan" => loc[w].lim <= Last
        /\ row[w] = NoRow
    BY <1>1, WorkerFacts DEF PlaceInv, ScanInv, Looking, MaxRead, Carrying, Completing, MayCarry
  <1>4. CASE HasRow(loc[w].x) /\ Go(w, "pvt_cache")
             /\ Locals(w, [loc[w] EXCEPT !.tc = completed[loc[w].x], !.tw = working[loc[w].x]])
    <2> DEFINE x == loc[w].x
               k == [loc[w] EXCEPT !.tc = completed[x]]
               l == [k EXCEPT !.tw = working[x]]
    <2>1. /\ completed[x] \in 0 .. Rows /\ working[x] \in 0 .. Rows
          /\ working[x] < Rows /\ (AnyOrder(x) \/ completed[x] = working[x])
      <3>1. /\ completed[x] \in Nat /\ completed[x] <= Rows
            /\ working[x] \in Nat /\ working[x] <= Rows /\ Rows \in Nat
        BY <1>3, TypeFacts, Constants DEF IInv
      <3> HIDE DEF x
      <3> QED
        BY <1>4, <3>1 DEF HasRow, x
    <2>2. [loc[w] EXCEPT !.tc = completed[loc[w].x], !.tw = working[loc[w].x]] = l
      BY <1>3
    <2>3. /\ k \in LocalsType /\ k.max = loc[w].max /\ k.x = x /\ k.lim = loc[w].lim
          /\ k.from = loc[w].from /\ k.tc = completed[x]
      BY <1>3, <2>1 DEF LocalsType
    <2> HIDE DEF k
    <2>4. /\ l \in LocalsType /\ l.max = loc[w].max /\ l.x = x /\ l.lim = loc[w].lim
          /\ l.from = loc[w].from /\ l.tc = completed[x] /\ l.tw = working[x]
      BY <2>1, <2>3 DEF LocalsType
    <2>5. Moves(w) /\ pc'[w] = "pvt_cache" /\ loc'[w] = l
      BY <1>1, <1>4, <2>2, <2>4, GoMoves DEF PcStates
    <2> HIDE DEF l
    <2>6. WorkerInv(w)'
      BY <1>2, <1>3, <2>1, <2>4, <2>5, TasksKept DEF WorkerInv, PlaceInv, ScanInv, CompleteInv, At, Looking, Taking,
         Completing, Carrying, MayCarry, Ending, MaxRead, InItsTurn
    <2> QED
      BY <1>2, <2>5, <2>6, QuietStep
  <1>5. CASE NextTask(w)
    BY <1>1, <1>2, <1>3, <1>5, NextTaskMoves, QuietStep DEF Looking
  <1> QED
    BY <1>4, <1>5 DEF PvtProgress

LEMMA PvtCacheKeeps ==
    ASSUME IInv, NEW w \in Workers, PvtCache(w)  PROVE IInv'
  <1>1. pc[w] = "pvt_cache" /\ pc[w] # "idle"
    BY DEF PvtCache, At
  <1>2. /\ UNCHANGED <<tasks, progress, bounds, r_q, row, host>> /\ m_nBlocking' \in Int
        /\ m_nCacheStart' \in 0 .. Rows /\ m_mutex' \in Workers \cup {NoWorker}
        /\ m_nCacheStart \in 0 .. Rows
    BY DEF PvtCache, waiting, IInv, Typed, TypeOK
  <1>3. /\ loc[w] \in LocalsType /\ loc[w].max <= Last /\ loc[w].x \in 0 .. Last
        /\ loc[w].from = "scan" => loc[w].lim <= Last
        /\ row[w] = NoRow
        /\ loc[w].tw < Rows /\ (AnyOrder(loc[w].x) \/ loc[w].tc = loc[w].tw)
    BY <1>1, WorkerFacts DEF PlaceInv, ScanInv, Looking, Taking, MaxRead, Carrying, Completing, MayCarry
  <1>4. CASE /\ Go(w, IF loc[w].x = 0 THEN "pvt_take" ELSE "pvt_prev")
             /\ Locals(w, [loc[w] EXCEPT !.cs = m_nCacheStart])
    <2> DEFINE l == [loc[w] EXCEPT !.cs = m_nCacheStart]
    <2>1. /\ l \in LocalsType /\ l.max = loc[w].max /\ l.x = loc[w].x /\ l.lim = loc[w].lim
          /\ l.from = loc[w].from /\ l.tc = loc[w].tc /\ l.tw = loc[w].tw
      BY <1>2, <1>3 DEF LocalsType
    <2>2. /\ Moves(w) /\ loc'[w] = l
          /\ pc'[w] = IF loc[w].x = 0 THEN "pvt_take" ELSE "pvt_prev"
      BY <1>1, <1>4, <2>1, GoMoves DEF PcStates
    <2> HIDE DEF l
    <2>3. WorkerInv(w)'
      BY <1>2, <1>3, <2>1, <2>2, TasksKept DEF WorkerInv, PlaceInv, ScanInv, CompleteInv, At, Looking, Taking,
         Completing, Carrying, MayCarry, Ending, MaxRead, InItsTurn
    <2> QED
      BY <1>2, <2>2, <2>3, QuietStep
  <1>5. CASE NextTask(w)
    BY <1>1, <1>2, <1>3, <1>5, NextTaskMoves, QuietStep DEF Looking, Taking
  <1> QED
    BY <1>4, <1>5 DEF PvtCache

LEMMA PvtPrevKeeps ==
    ASSUME IInv, NEW w \in Workers, PvtPrev(w)  PROVE IInv'
  <1>1. pc[w] = "pvt_prev" /\ pc[w] # "idle"
    BY DEF PvtPrev, At
  <1>2. /\ UNCHANGED <<tasks, progress, bounds, r_q, row, host>> /\ m_nBlocking' \in Int
        /\ m_nCacheStart' \in 0 .. Rows /\ m_mutex' \in Workers \cup {NoWorker}
    BY DEF PvtPrev, waiting, IInv, Typed, TypeOK
  <1>3. /\ loc[w].max <= Last /\ loc[w].x \in 0 .. Last
        /\ loc[w].from = "scan" => loc[w].lim <= Last
        /\ row[w] = NoRow
        /\ loc[w].tw < Rows /\ (AnyOrder(loc[w].x) \/ loc[w].tc = loc[w].tw)
    BY <1>1, WorkerFacts DEF PlaceInv, ScanInv, Looking, Taking, MaxRead, Carrying, Completing, MayCarry
  <1>4. CASE PrevFinished(loc[w].x, loc[w].tw) /\ Go(w, "pvt_take") /\ UNCHANGED loc
    <2>1. Moves(w) /\ pc'[w] = "pvt_take" /\ loc'[w] = loc[w]
      BY <1>1, <1>4, GoMovesKeeping DEF PcStates
    <2>2. PrevFinished(loc[w].x, loc[w].tw)'
      BY <1>2, <1>4, TasksKept DEF PrevFinished, progress
    <2>3. WorkerInv(w)'
      BY <1>2, <1>3, <2>1, <2>2, TasksKept DEF WorkerInv, PlaceInv, ScanInv, CompleteInv, At, Looking, Taking,
         Completing, Carrying, MayCarry, Ending, MaxRead, InItsTurn
    <2> QED
      BY <1>2, <2>1, <2>3, QuietStep
  <1>5. CASE NextTask(w)
    BY <1>1, <1>2, <1>3, <1>5, NextTaskMoves, QuietStep DEF Looking, Taking
  <1> QED
    BY <1>4, <1>5 DEF PvtPrev

LEMMA PvtWindowKeeps ==
    ASSUME IInv, NEW w \in Workers, PvtWindow(w)  PROVE IInv'
  <1>1. pc[w] = "pvt_window" /\ pc[w] # "idle"
    BY DEF PvtWindow, At
  <1>2. row[w] \in Row /\ loc[w].cs < Rows /\ loc[w].cs \in 0 .. Rows
    BY <1>1, WorkerFacts, CarriedRow DEF PlaceInv, ScanInv, Carrying, IInv, Shared
  <1>3. /\ UNCHANGED <<tasks, progress, bounds, r_q, row, host>> /\ m_nBlocking' \in Int
        /\ m_nCacheStart' \in 0 .. Rows /\ m_mutex' \in Workers \cup {NoWorker}
    <2>1. m_nCacheStart \in 0 .. Rows /\ m_nBlocking \in Int /\ m_mutex \in Workers \cup {NoWorker}
      BY DEF IInv, Typed, TypeOK
    <2> QED
      BY <1>2, <2>1, Constants DEF PvtWindow, waiting
  <1> QED
    BY <1>1, <1>2, <1>3, PvtFoundMoves, QuietStep DEF PvtWindow
-----------------------------------------------------------------------------
LEMMA ObtainMinKeeps ==
    ASSUME IInv, NEW w \in Workers, ObtainMin(w)  PROVE IInv'
  <1>1. pc[w] = "obtain" /\ pc[w] # "idle"
    BY DEF ObtainMin, At
  <1>2. /\ UNCHANGED <<tasks, progress, bounds, r_q, row, host>> /\ m_nBlocking' \in Int
        /\ m_nCacheStart' \in 0 .. Rows /\ m_mutex' \in Workers \cup {NoWorker}
        /\ m_min \in Nat
    BY TypeFacts DEF ObtainMin, waiting, IInv, Typed, TypeOK
  <1>3. loc[w] \in LocalsType /\ loc[w].max <= Last /\ row[w] = NoRow
    BY <1>1, WorkerFacts DEF PlaceInv, MaxRead, Carrying, Completing, MayCarry
  <1> DEFINE k == [loc[w] EXCEPT !.x = m_min]
             l == [k EXCEPT !.from = "scan"]
  <1>4. /\ [loc[w] EXCEPT !.x = m_min, !.from = "scan"] = l
        /\ k \in LocalsType /\ k.max = loc[w].max
    BY <1>2, <1>3 DEF LocalsType
  <1> HIDE DEF k
  <1>5. l \in LocalsType /\ l.max = loc[w].max
    BY <1>4 DEF LocalsType
  <1>6. Moves(w) /\ pc'[w] = "obtain_max" /\ loc'[w] = l
    BY <1>1, <1>4, <1>5, GoMoves DEF ObtainMin, PcStates
  <1> HIDE DEF l
  <1> QED
    BY <1>2, <1>3, <1>5, <1>6, AtPlain, TasksKept, QuietStep DEF Plain

LEMMA ObtainMaxKeeps ==
    ASSUME IInv, NEW w \in Workers, ObtainMax(w)  PROVE IInv'
  <1>1. pc[w] = "obtain_max" /\ pc[w] # "idle"
    BY DEF ObtainMax, At
  <1>2. /\ UNCHANGED <<tasks, progress, bounds, r_q, row, host>> /\ m_nBlocking' \in Int
        /\ m_nCacheStart' \in 0 .. Rows /\ m_mutex' \in Workers \cup {NoWorker}
        /\ m_max \in Nat
    BY TypeFacts DEF ObtainMax, waiting, IInv, Typed, TypeOK
  <1>3. loc[w] \in LocalsType /\ loc[w].max <= Last /\ row[w] = NoRow /\ Last \in Nat
    BY <1>1, WorkerFacts DEF PlaceInv, MaxRead, Carrying, Completing, MayCarry
  <1>4. ScanEnd \in Nat /\ ScanEnd <= Last
    BY <1>2, <1>3 DEF ScanEnd, Least
  <1> DEFINE l == [loc[w] EXCEPT !.lim = ScanEnd]
  <1>5. CASE loc[w].x <= ScanEnd
    <2>1. /\ l \in LocalsType /\ l.max = loc[w].max /\ l.x = loc[w].x /\ l.lim = ScanEnd
          /\ loc[w].x \in Nat
      BY <1>3, <1>4 DEF LocalsType
    <2>2. Moves(w) /\ pc'[w] = "pvt" /\ loc'[w] = l
      BY <1>1, <1>5, <2>1, GoMoves DEF ObtainMax, PcStates
    <2> HIDE DEF l
    <2>3. WorkerInv(w)'
      BY <1>2, <1>3, <1>4, <1>5, <2>1, <2>2, TasksKept DEF WorkerInv, PlaceInv, ScanInv, CompleteInv, At, Looking, Taking,
         Completing, Carrying, MayCarry, Ending, MaxRead, InItsTurn
    <2> QED
      BY <1>2, <2>2, <2>3, QuietStep
  <1>6. CASE ~(loc[w].x <= ScanEnd)
    <2>1. Moves(w) /\ pc'[w] = "none_scan" /\ loc'[w] = AfterScan(loc[w])
      BY <1>1, <1>3, <1>6, LocalsReset, GoMoves DEF ObtainMax, PcStates
    <2>2. WorkerInv(w)'
      BY <1>2, <1>3, <2>1, AtPlain, LocalsReset, TasksKept DEF Plain
    <2> QED
      BY <1>2, <2>1, <2>2, QuietStep
  <1> QED
    BY <1>5, <1>6

LEMMA ObtainNoneKeeps ==
    ASSUME IInv, NEW w \in Workers, ObtainNone(w)  PROVE IInv'
  <1>1. pc[w] = "none_scan" /\ pc[w] # "idle"
    BY DEF ObtainNone, At
  <1>2. /\ UNCHANGED <<tasks, progress, bounds, r_q, row, host>> /\ m_nBlocking' \in Int
        /\ m_nCacheStart' \in 0 .. Rows /\ m_mutex' \in Workers \cup {NoWorker}
    BY DEF ObtainNone, waiting, IInv, Typed, TypeOK
  <1>3. loc[w].max <= Last /\ row[w] = NoRow
    BY <1>1, WorkerFacts DEF PlaceInv, MaxRead, Carrying, Completing, MayCarry
  <1>4. /\ Moves(w) /\ loc'[w] = loc[w]
        /\ pc'[w] = IF LastTaskDone THEN "end" ELSE "count"
    BY <1>1, GoMovesKeeping DEF ObtainNone, PcStates
  <1>5. LastTaskDone' = LastTaskDone
    BY <1>2, TasksKept DEF LastTaskDone, progress
  <1>6. WorkerInv(w)'
    BY <1>2, <1>3, <1>4, <1>5, TasksKept DEF WorkerInv, PlaceInv, ScanInv, CompleteInv, At, Looking, Taking,
         Completing, Carrying, MayCarry, Ending, MaxRead, InItsTurn
  <1> QED
    BY <1>2, <1>4, <1>6, QuietStep

LEMMA EndReadKeeps ==
    ASSUME IInv, NEW w \in Workers, EndRead(w)  PROVE IInv'
  <1>1. pc[w] = "end" /\ pc[w] # "idle"
    BY DEF EndRead, At
  <1>2. /\ UNCHANGED <<tasks, progress, bounds, r_q, row, host>> /\ m_nBlocking' \in Int
        /\ m_nCacheStart' \in 0 .. Rows /\ m_mutex' \in Workers \cup {NoWorker}
        /\ m_nBlocking \in Int
    BY DEF EndRead, waiting, IInv, Typed, TypeOK
  <1>3. loc[w] \in LocalsType /\ loc[w].max <= Last /\ row[w] = NoRow /\ LastTaskDone
    BY <1>1, WorkerFacts DEF PlaceInv, MaxRead, Carrying, Completing, MayCarry, Ending
  <1> DEFINE l == [loc[w] EXCEPT !.v = m_nBlocking]
  <1>4. l \in LocalsType /\ l.max = loc[w].max
    BY <1>2, <1>3 DEF LocalsType
  <1>5. Moves(w) /\ pc'[w] = "end_set" /\ loc'[w] = l
    BY <1>1, <1>4, GoMoves DEF EndRead, PcStates
  <1>6. LastTaskDone'
    BY <1>2, <1>3, TasksKept DEF LastTaskDone, progress
  <1> HIDE DEF l
  <1>7. WorkerInv(w)'
    BY <1>2, <1>3, <1>4, <1>5, <1>6, TasksKept DEF WorkerInv, PlaceInv, ScanInv, CompleteInv, At, Looking, Taking,
         Completing, Carrying, MayCarry, Ending, MaxRead, InItsTurn
  <1> QED
    BY <1>2, <1>5, <1>7, QuietStep

LEMMA EndSetKeeps ==
    ASSUME IInv, NEW w \in Workers, EndSet(w)  PROVE IInv'
  <1>1. pc[w] = "end_set" /\ pc[w] # "idle"
    BY DEF EndSet, At
  <1>2. /\ UNCHANGED <<tasks, progress, bounds, r_q, row, host>> /\ m_nBlocking' \in Int
        /\ m_nCacheStart' \in 0 .. Rows /\ m_mutex' \in Workers \cup {NoWorker}
    BY DEF EndSet, IInv, Typed, TypeOK
  <1>3. loc[w].max <= Last /\ row[w] = NoRow /\ LastTaskDone
    BY <1>1, WorkerFacts DEF PlaceInv, MaxRead, Carrying, Completing, MayCarry, Ending
  <1>4. LastTaskDone'
    BY <1>2, <1>3, TasksKept DEF LastTaskDone, progress
  <1>5. ASSUME NEW p \in {"push_end", "end"}, Go(w, p), UNCHANGED loc  PROVE IInv'
    <2>1. Moves(w) /\ pc'[w] = p /\ loc'[w] = loc[w]
      BY <1>1, <1>5, GoMovesKeeping DEF PcStates
    <2>2. WorkerInv(w)'
      BY <1>2, <1>3, <1>4, <1>5, <2>1, TasksKept DEF WorkerInv, PlaceInv, ScanInv, CompleteInv, At, Looking, Taking,
         Completing, Carrying, MayCarry, Ending, MaxRead, InItsTurn
    <2> QED
      BY <1>2, <2>1, <2>2, QuietStep
  <1>6. CASE Return(w)
    <2>1. Moves(w) /\ WorkerInv(w)'
      BY <1>1, <1>2, <1>3, <1>4, <1>6, ReturnMoves DEF MaxRead
    <2> QED
      BY <1>2, <2>1, QuietStep
  <1> QED
    BY <1>5, <1>6 DEF EndSet

LEMMA CountKeeps ==
    ASSUME IInv, NEW w \in Workers, Count(w)  PROVE IInv'
  <1>1. pc[w] = "count" /\ pc[w] # "idle"
    BY DEF Count, At
  <1>2. /\ UNCHANGED <<tasks, progress, bounds, r_q, row, host>> /\ m_nBlocking' \in Int
        /\ m_nCacheStart' \in 0 .. Rows /\ m_mutex' \in Workers \cup {NoWorker}
    BY DEF Count, IInv, Typed, TypeOK
  <1>3. loc[w].max <= Last /\ row[w] = NoRow
    BY <1>1, WorkerFacts DEF PlaceInv, MaxRead, Carrying, Completing, MayCarry
  <1>4. Moves(w) /\ pc'[w] = "pop" /\ loc'[w] = loc[w]
    BY <1>1, GoMovesKeeping DEF Count, PcStates
  <1> QED
    BY <1>2, <1>3, <1>4, AtPlain, TasksKept, QuietStep DEF Plain
-----------------------------------------------------------------------------
\* What a worker that completes its row reads.
LEMMA RowRead ==
    ASSUME IInv, NEW w \in Workers, pc[w] \in {"run"} \cup Completing
    PROVE  LET t == row[w].tid IN
           /\ row[w] # NoRow /\ pc[w] # "idle" /\ Last \in Nat
           /\ t \in 0 .. Last /\ t \in TaskIds /\ t \in Nat
           /\ row[w].tsk \in 0 .. Rows - 1
           /\ completed[t] \in 0 .. Rows /\ working[t] \in 0 .. Rows
           /\ completed[t] <= row[w].tsk /\ row[w].tsk < working[t]
           /\ ~AnyOrder(t) => row[w].tsk = completed[t] /\ working[t] = row[w].tsk + 1
           /\ t <= m_max
           /\ m_min \in Nat /\ m_max \in Nat /\ AnyOrder(t) \in BOOLEAN
  <1> DEFINE t == row[w].tid
  <1>1. row[w] # NoRow /\ pc[w] # "idle"
    BY DEF IInv, WorkerInv, PlaceInv, Carrying, Completing
  <1>2. /\ t \in 0 .. Last /\ t \in TaskIds /\ row[w].tsk \in 0 .. Rows - 1
        /\ working[t] > 0 /\ Reserved(row[w])
        /\ ~AnyOrder(t) => row[w].tsk = completed[t] /\ working[t] = row[w].tsk + 1
    BY <1>1, CarriedRow DEF IInv, Shared
  <1>3. /\ completed[t] \in 0 .. Rows /\ working[t] \in 0 .. Rows /\ t \in Nat
        /\ m_min \in Nat /\ m_max \in Nat /\ AnyOrder(t) \in BOOLEAN /\ Last \in Nat
    BY <1>1, <1>2, TypeFacts, WorkerFacts, Constants DEF IInv
  <1>4. t <= m_max
    <2>1. CASE t = 0
      BY <1>3, <2>1
    <2>2. CASE t > 0
      <3>1. completed[t - 1] > 0
        BY <1>2, <2>2 DEF IInv, Shared, ProgressInv
      <3>2. t - 1 \in TaskIds
        BY <1>2, <2>2, Constants DEF TaskIds
      <3>3. t - 1 < m_max
        BY <3>1, <3>2 DEF IInv, Shared, BoundsInv
      <3> QED
        BY <1>3, <3>3
    <2> QED
      BY <1>3, <2>1, <2>2
  <1> QED
    BY <1>1, <1>2, <1>3, <1>4 DEF Reserved

LEMMA ReadProgressKeeps ==
    ASSUME IInv, NEW w \in Workers, ReadProgress(w)  PROVE IInv'
  <1> DEFINE t == row[w].tid
             k == [NoLocals EXCEPT !.tc = completed[t]]
             l == [k EXCEPT !.tw = working[t]]
  <1>1. pc[w] = "run"
    BY DEF ReadProgress, At
  <1>2. /\ UNCHANGED <<tasks, progress, bounds, r_q, row, host>> /\ m_nBlocking' \in Int
        /\ m_nCacheStart' \in 0 .. Rows /\ m_mutex' \in Workers \cup {NoWorker}
    BY DEF ReadProgress, waiting, IInv, Typed, TypeOK
  <1>3. /\ pc[w] # "idle" /\ t \in 0 .. Last /\ Last \in Nat /\ row[w] # NoRow
        /\ completed[t] \in 0 .. Rows /\ working[t] \in 0 .. Rows
    BY <1>1, RowRead
  <1>4. /\ l \in LocalsType /\ l.max = 0 /\ l.tc = completed[t] /\ l.tw = working[t]
        /\ [NoLocals EXCEPT !.tc = completed[t], !.tw = working[t]] = l
    <2>1. NoLocals \in LocalsType /\ NoLocals.max = 0
      BY LocalsReset DEF NoLocals
    <2>2. [NoLocals EXCEPT !.tc = completed[t], !.tw = working[t]] = l
      OBVIOUS
    <2>3. k \in LocalsType /\ k.max = 0 /\ k.tc = completed[t]
      BY <1>3, <2>1 DEF LocalsType
    <2> HIDE DEF k
    <2>4. l \in LocalsType /\ l.max = 0 /\ l.tc = completed[t] /\ l.tw = working[t]
      BY <1>3, <2>3 DEF LocalsType
    <2> QED
      BY <2>2, <2>4
  <1>5. Moves(w) /\ pc'[w] = "read_min" /\ loc'[w] = l
    BY <1>1, <1>3, <1>4, GoMoves DEF ReadProgress, PcStates
  <1> HIDE DEF l
  <1>6. WorkerInv(w)'
    BY <1>2, <1>3, <1>4, <1>5, TasksKept DEF progress, WorkerInv, PlaceInv, ScanInv, CompleteInv, At, Looking, Taking,
         Completing, Carrying, MayCarry, Ending, MaxRead, InItsTurn
  <1> QED
    BY <1>2, <1>5, <1>6, QuietStep

LEMMA ReadMinKeeps ==
    ASSUME IInv, NEW w \in Workers, ReadMin(w)  PROVE IInv'
  <1> DEFINE t == row[w].tid
             l == [loc[w] EXCEPT !.min = m_min]
  <1>1. pc[w] = "read_min"
    BY DEF ReadMin, At
  <1>2. /\ UNCHANGED <<tasks, progress, bounds, r_q, row, host>> /\ m_nBlocking' \in Int
        /\ m_nCacheStart' \in 0 .. Rows /\ m_mutex' \in Workers \cup {NoWorker}
    BY DEF ReadMin, waiting, IInv, Typed, TypeOK
  <1>3. /\ pc[w] # "idle" /\ row[w] # NoRow /\ m_min \in Nat
    BY <1>1, RowRead DEF Completing
  <1>4. /\ loc[w] \in LocalsType /\ loc[w].max <= Last
        /\ loc[w].tc <= completed[t] /\ loc[w].tw <= working[t]
        /\ ~AnyOrder(t) => loc[w].tc = completed[t] /\ loc[w].tw = working[t]
    BY <1>1, <1>3, WorkerFacts DEF PlaceInv, CompleteInv, Completing, MaxRead
  <1>5. /\ l \in LocalsType /\ l.max = loc[w].max /\ l.tc = loc[w].tc /\ l.tw = loc[w].tw
        /\ l.min = m_min
    BY <1>3, <1>4 DEF LocalsType
  <1>6. Moves(w) /\ pc'[w] = "read_max" /\ loc'[w] = l
    BY <1>1, <1>3, <1>5, GoMoves DEF ReadMin, PcStates
  <1> HIDE DEF l
  <1>7. WorkerInv(w)'
    BY <1>2, <1>3, <1>4, <1>5, <1>6, TasksKept DEF progress, bounds, WorkerInv, PlaceInv, ScanInv, CompleteInv, At, Looking, Taking,
         Completing, Carrying, MayCarry, Ending, MaxRead, InItsTurn
  <1> QED
    BY <1>2, <1>6, <1>7, QuietStep

\* A worker whose turn it is goes on to m_min or to m_max.
LEMMA TurnTaken ==
    ASSUME IInv, NEW w \in Workers, pc[w] \in {"read_max", "spin"},
           NEW l \in LocalsType,
           l.tc <= completed[row[w].tid], l.tw <= working[row[w].tid],
           ~AnyOrder(row[w].tid) => /\ l.tc = completed[row[w].tid]
                                    /\ l.tw = working[row[w].tid],
           row[w].tid <= l.max, l.max <= m_max,
           ~AnyOrder(row[w].tid) /\ l.max = row[w].tid => m_max = row[w].tid,
           l.min = loc[w].min, InTurn(w, l.tc), AfterTurn(w, l.tw),
           Locals(w, [l EXCEPT !.min = MinPassed(l, row[w].tid, l.tw)]),
           UNCHANGED <<tasks, progress, bounds, waiting, m_nCacheStart, row, host>>
    PROVE  IInv'
  <1> DEFINE t == row[w].tid
             k == [l EXCEPT !.min = MinPassed(l, t, l.tw)]
             p == IF l.tw = Rows /\ l.min = t THEN "min_up" ELSE "max_up"
  <1>1. /\ UNCHANGED <<tasks, progress, bounds, r_q, row, host>> /\ m_nBlocking' \in Int
        /\ m_nCacheStart' \in 0 .. Rows /\ m_mutex' \in Workers \cup {NoWorker}
    BY DEF waiting, IInv, Typed, TypeOK
  <1>2. /\ row[w] # NoRow /\ pc[w] # "idle" /\ t \in 0 .. Last /\ t \in Nat
        /\ row[w].tsk \in 0 .. Rows - 1
        /\ completed[t] \in 0 .. Rows /\ working[t] \in 0 .. Rows
        /\ completed[t] <= row[w].tsk
        /\ ~AnyOrder(t) => row[w].tsk = completed[t]
    BY RowRead DEF Completing
  <1>3. /\ l.tc \in 0 .. Rows /\ l.tw \in 0 .. Rows /\ l.min \in Nat
        /\ l.tc <= completed[t] /\ l.tw <= working[t]
    BY DEF LocalsType
  <1>4. l.tc = row[w].tsk /\ completed[t] = row[w].tsk
    BY <1>2, <1>3, Constants DEF InTurn
  <1>5. l.tw = Rows => working[t] = Rows
    BY <1>2, <1>3, Constants
  <1>6. /\ k \in LocalsType /\ k.max = l.max /\ k.tc = l.tc /\ k.tw = l.tw
        /\ p = "min_up" => k.min = l.min
    <2>1. MinPassed(l, t, l.tw) \in Nat
      BY <1>3 DEF MinPassed
    <2>2. p = "min_up" => MinPassed(l, t, l.tw) = l.min
      BY DEF MinPassed
    <2> QED
      BY <2>1, <2>2 DEF LocalsType
  <1>7. loc[w].min = l.min /\ (~AnyOrder(t) /\ l.min = t => m_min = t)
    BY <1>2, WorkerFacts DEF CompleteInv
  <1>8. Moves(w) /\ pc'[w] = p /\ loc'[w] = k
    BY <1>2, <1>6, GoMoves DEF AfterTurn, PcStates
  <1>9. p = "max_up" \/ (p = "min_up" /\ l.tw = Rows /\ l.min = t)
    OBVIOUS
  <1> HIDE DEF k, p
  <1>10. UNCHANGED <<completed, working, m_min, m_max>>
    BY DEF progress, bounds
  <1>11. WorkerInv(w)'
    <2>1. PlaceInv(w)'
      BY <1>2, <1>8, <1>9 DEF PlaceInv, At, Carrying, MayCarry, Completing, Ending, MaxRead
    <2>2. ScanInv(w)'
      BY <1>8, <1>9 DEF ScanInv, Looking, Taking
    <2>3. CompleteInv(w)'
      BY <1>2, <1>3, <1>4, <1>5, <1>6, <1>7, <1>8, <1>9, <1>10, TasksKept
         DEF CompleteInv, Completing, MaxRead, InItsTurn
    <2> QED
      BY <2>1, <2>2, <2>3 DEF WorkerInv
  <1> QED
    BY <1>1, <1>8, <1>11, QuietStep

LEMMA ReadMaxKeeps ==
    ASSUME IInv, NEW w \in Workers, ReadMax(w)  PROVE IInv'
  <1> DEFINE t == row[w].tid
             l == [loc[w] EXCEPT !.max = m_max]
  <1>1. pc[w] = "read_max"
    BY DEF ReadMax, At
  <1>2. /\ UNCHANGED <<tasks, progress, bounds, r_q, row, host>> /\ m_nBlocking' \in Int
        /\ m_nCacheStart' \in 0 .. Rows /\ m_mutex' \in Workers \cup {NoWorker}
    BY DEF ReadMax, waiting, IInv, Typed, TypeOK
  <1>3. /\ pc[w] # "idle" /\ row[w] # NoRow /\ m_max \in Nat /\ t <= m_max
    BY <1>1, RowRead DEF Completing
  <1>4. /\ loc[w] \in LocalsType
        /\ loc[w].tc <= completed[t] /\ loc[w].tw <= working[t]
        /\ ~AnyOrder(t) => loc[w].tc = completed[t] /\ loc[w].tw = working[t]
        /\ ~AnyOrder(t) /\ loc[w].min = t => m_min = t
    BY <1>1, <1>3, WorkerFacts DEF CompleteInv, Completing
  <1>5. /\ l \in LocalsType /\ l.max = m_max /\ l.tc = loc[w].tc /\ l.tw = loc[w].tw
        /\ l.min = loc[w].min
    BY <1>3, <1>4 DEF LocalsType
  <1>6. CASE /\ InTurn(w, l.tc) /\ AfterTurn(w, l.tw)
             /\ Locals(w, [l EXCEPT !.min = MinPassed(l, row[w].tid, l.tw)])
    <2>1. UNCHANGED <<tasks, progress, bounds, waiting, m_nCacheStart, row, host>>
      BY DEF ReadMax
    <2> HIDE DEF l
    <2>2. m_max <= m_max
      BY <1>3
    <2> QED
      BY <1>1, <1>3, <1>4, <1>5, <1>6, <2>1, <2>2, TurnTaken
  <1>7. CASE Go(w, "spin") /\ Locals(w, l)
    <2>1. Moves(w) /\ pc'[w] = "spin" /\ loc'[w] = l
      BY <1>3, <1>5, <1>7, GoMoves DEF PcStates
    <2> HIDE DEF l
    <2>2. WorkerInv(w)'
      <3>1. PlaceInv(w)' /\ ScanInv(w)'
        BY <1>2, <1>3, <2>1 DEF PlaceInv, ScanInv, Looking, Taking, At, Carrying, MayCarry, Completing, Ending, MaxRead
      <3>2. CompleteInv(w)'
        BY <1>2, <1>3, <1>4, <1>5, <2>1, TasksKept
           DEF progress, bounds, CompleteInv, Completing, MaxRead, InItsTurn
      <3> QED
        BY <3>1, <3>2 DEF WorkerInv
    <2> QED
      BY <1>2, <2>1, <2>2, QuietStep
  <1> QED
    BY <1>6, <1>7 DEF ReadMax

LEMMA SpinKeeps ==
    ASSUME IInv, NEW w \in Workers, Spin(w)  PROVE IInv'
  <1> DEFINE t == row[w].tid
             k == [loc[w] EXCEPT !.tc = completed[t]]
             l == [k EXCEPT !.tw = working[t]]
  <1>1. pc[w] = "spin"
    BY DEF Spin, At
  <1>2. /\ pc[w] # "idle" /\ row[w] # NoRow
        /\ completed[t] \in 0 .. Rows /\ working[t] \in 0 .. Rows
    BY <1>1, RowRead DEF Completing
  <1>3. /\ loc[w] \in LocalsType
        /\ t <= loc[w].max /\ loc[w].max <= m_max
        /\ ~AnyOrder(t) /\ loc[w].max = t => m_max = t
    BY <1>1, <1>2, WorkerFacts DEF CompleteInv, MaxRead
  <1>4. /\ [loc[w] EXCEPT !.tc = completed[t], !.tw = working[t]] = l
        /\ k \in LocalsType /\ k.max = loc[w].max /\ k.min = loc[w].min /\ k.tc = completed[t]
    BY <1>2, <1>3 DEF LocalsType
  <1>5. InTurn(w, completed[t])
    BY DEF Spin
  <1> HIDE DEF k
  <1>6. /\ l \in LocalsType /\ l.max = loc[w].max /\ l.min = loc[w].min
        /\ l.tc = completed[t] /\ l.tw = working[t]
    BY <1>2, <1>4 DEF LocalsType
  <1>7. /\ AfterTurn(w, l.tw) /\ Locals(w, [l EXCEPT !.min = MinPassed(l, t, l.tw)])
        /\ UNCHANGED <<tasks, progress, bounds, waiting, m_nCacheStart, row, host>>
    BY <1>4 DEF Spin
  <1> HIDE DEF l
  <1>8. completed[t] <= completed[t] /\ working[t] <= working[t]
    BY <1>2
  <1> QED
    BY <1>1, <1>2, <1>3, <1>5, <1>6, <1>7, <1>8, TurnTaken

LEMMA WindowResetKeeps ==
    ASSUME IInv, NEW w \in Workers, WindowReset(w)  PROVE IInv'
  <1>1. pc[w] = "window_reset" /\ pc[w] # "idle"
    BY DEF WindowReset, At
  <1>2. /\ UNCHANGED <<tasks, progress, bounds, r_q, row, host>> /\ m_nBlocking' \in Int
        /\ m_nCacheStart' \in 0 .. Rows /\ m_mutex' \in Workers \cup {NoWorker}
    BY Constants DEF WindowReset, waiting, IInv, Typed, TypeOK
  <1>3. Moves(w) /\ pc'[w] = "max_up" /\ loc'[w] = loc[w]
    BY <1>1, GoMovesKeeping DEF WindowReset, PcStates
  <1>4. WorkerInv(w)'
    BY <1>1, <1>2, <1>3, WorkerFacts, TasksKept DEF progress, bounds, WorkerInv, PlaceInv, ScanInv, CompleteInv, At, Looking, Taking,
         Completing, Carrying, MayCarry, Ending, MaxRead, InItsTurn
  <1> QED
    BY <1>2, <1>3, <1>4, QuietStep

LEMMA SignalKeeps ==
    ASSUME IInv, NEW w \in Workers, Signal(w) \/ SignalLock(w)  PROVE IInv'
  <1>1. pc[w] \in {"signal", "signal_lock"} /\ pc[w] # "idle"
    BY DEF Signal, SignalLock, At
  <1>2. /\ UNCHANGED <<tasks, progress, bounds, r_q, row, host>> /\ m_nBlocking' \in Int
        /\ m_nCacheStart' \in 0 .. Rows /\ m_mutex' \in Workers \cup {NoWorker}
        /\ m_nBlocking \in Int
    BY DEF Signal, SignalLock, waiting, IInv, Typed, TypeOK
  <1>3. CASE Keep(w)
    BY <1>1, <1>2, <1>3, KeepMoves, QuietStep DEF progress
  <1>4. /\ loc[w] \in LocalsType /\ loc[w].max <= Last /\ Last \in Nat
        /\ row[w] = NoRow => LastTaskDone
    BY <1>1, WorkerFacts DEF PlaceInv, MayCarry, MaxRead
  <1>5. LastTaskDone' = LastTaskDone
    BY <1>2, TasksKept DEF LastTaskDone, progress
  <1>6. ASSUME NEW p \in MayCarry, NEW l \in LocalsType, l.max = loc[w].max,
               Go(w, p), Locals(w, l)
        PROVE  IInv'
    <2>1. Moves(w) /\ pc'[w] = p /\ loc'[w] = l
      BY <1>1, <1>6, GoMoves DEF PcStates, MayCarry
    <2>2. WorkerInv(w)'
      BY <1>2, <1>4, <1>5, <1>6, <2>1, TasksKept DEF WorkerInv, PlaceInv, ScanInv, CompleteInv, At, Looking, Taking,
         Completing, Carrying, MayCarry, Ending, MaxRead, InItsTurn
    <2> QED
      BY <1>2, <2>1, <2>2, QuietStep
  <1>7. CASE Signal(w) /\ m_nBlocking > 0
    <2>1. Locals(w, loc[w]) /\ Go(w, "signal_lock")
      BY <1>7 DEF Signal, Locals, IInv, Typed
    <2> QED
      BY <1>4, <1>6, <2>1 DEF MayCarry
  <1>8. CASE SignalLock(w) /\ m_nBlocking # 0
    <2> DEFINE l == [loc[w] EXCEPT !.v = m_nBlocking]
    <2>1. Locals(w, l) /\ Go(w, "give")
      BY <1>8 DEF SignalLock
    <2>2. l \in LocalsType /\ l.max = loc[w].max
      BY <1>2, <1>4 DEF LocalsType
    <2> HIDE DEF l
    <2> QED
      BY <1>6, <2>1, <2>2 DEF MayCarry
  <1> QED
    BY <1>3, <1>7, <1>8 DEF Signal, SignalLock

LEMMA GivenKeeps ==
    ASSUME IInv, NEW w \in Workers, Given(w)  PROVE IInv'
  <1>1. pc[w] = "given" /\ pc[w] # "idle"
    BY DEF Given, At
  <1>2. /\ UNCHANGED <<tasks, progress, bounds, r_q, row, host>> /\ m_nBlocking' \in Int
        /\ m_nCacheStart' \in 0 .. Rows /\ m_mutex' \in Workers \cup {NoWorker}
    BY DEF Given, UncountBlocked, IInv, Typed, TypeOK
  <1>3. /\ loc[w] \in LocalsType /\ loc[w].max <= Last /\ row[w] = NoRow /\ Last \in Nat
        /\ loc[w].max \in Nat /\ loc[w].min \in Nat
    BY <1>1, WorkerFacts DEF PlaceInv, MaxRead, Carrying, Completing, MayCarry
  <1>4. CASE loc[w].max >= loc[w].min
    <2> DEFINE a == [NoLocals EXCEPT !.x = loc[w].max]
               b == [a EXCEPT !.lim = loc[w].min]
               l == [b EXCEPT !.from = "forward"]
    <2>1. Go(w, "forward") /\ Locals(w, [NoLocals EXCEPT !.x = loc[w].max, !.lim = loc[w].min,
                                                        !.from = "forward"])
      BY <1>4 DEF Given
    <2>2. [NoLocals EXCEPT !.x = loc[w].max, !.lim = loc[w].min, !.from = "forward"] = l
      OBVIOUS
    <2>3. NoLocals \in LocalsType /\ NoLocals.max = 0
      BY LocalsReset DEF NoLocals
    <2>4. a \in LocalsType /\ a.max = 0 /\ a.x = loc[w].max
      BY <1>3, <2>3 DEF LocalsType
    <2> HIDE DEF a
    <2>5. b \in LocalsType /\ b.max = 0 /\ b.x = loc[w].max
      BY <1>3, <2>4 DEF LocalsType
    <2> HIDE DEF b
    <2>6. l \in LocalsType /\ l.max = 0 /\ l.x = loc[w].max /\ l.from = "forward"
      BY <1>3, <2>5 DEF LocalsType
    <2> HIDE DEF l
    <2>7. Moves(w) /\ pc'[w] = "forward" /\ loc'[w] = l
      BY <1>1, <2>1, <2>2, <2>6, GoMoves DEF PcStates
    <2>8. WorkerInv(w)'
      BY <1>2, <1>3, <2>6, <2>7, TasksKept DEF WorkerInv, PlaceInv, ScanInv, CompleteInv, At, Looking, Taking,
         Completing, Carrying, MayCarry, Ending, MaxRead, InItsTurn
    <2> QED
      BY <1>2, <2>7, <2>8, QuietStep
  <1>5. CASE ~(loc[w].max >= loc[w].min)
    <2>1. Moves(w) /\ pc'[w] = "none_forward" /\ loc'[w] = NoLocals
      BY <1>1, <1>5, GoMoves, LocalsReset DEF Given, PcStates
    <2>2. NoLocals.max = 0
      BY DEF NoLocals
    <2>3. WorkerInv(w)'
      BY <1>2, <1>3, <2>1, <2>2, AtPlain, TasksKept DEF Plain
    <2> QED
      BY <1>2, <2>1, <2>3, QuietStep
  <1> QED
    BY <1>4, <1>5

LEMMA ForwardKeeps ==
    ASSUME IInv, NEW w \in Workers, Forward(w)  PROVE IInv'
  <1>1. pc[w] = "forward" /\ pc[w] # "idle"
    BY DEF Forward, At
  <1>2. /\ UNCHANGED <<tasks, progress, bounds, r_q, row, host>> /\ m_nBlocking' \in Int
        /\ m_nCacheStart' \in 0 .. Rows /\ m_mutex' \in Workers \cup {NoWorker}
        /\ m_nBlocking \in Int
    BY DEF Forward, waiting, IInv, Typed, TypeOK
  <1>3. /\ loc[w] \in LocalsType /\ loc[w].max <= Last /\ row[w] = NoRow /\ Last \in Nat
        /\ loc[w].x <= Last /\ loc[w].from = "forward"
    BY <1>1, WorkerFacts DEF PlaceInv, ScanInv, MaxRead, Carrying, Completing, MayCarry
  <1>4. CASE m_nBlocking = 0
    <2>1. Moves(w) /\ pc'[w] = "none_forward" /\ loc'[w] = NoLocals
      BY <1>1, <1>4, GoMoves, LocalsReset DEF Forward, PcStates
    <2>2. NoLocals.max = 0
      BY DEF NoLocals
    <2>3. WorkerInv(w)'
      BY <1>2, <1>3, <2>1, <2>2, AtPlain, TasksKept DEF Plain
    <2> QED
      BY <1>2, <2>1, <2>3, QuietStep
  <1>5. CASE m_nBlocking # 0
    <2> DEFINE l == [loc[w] EXCEPT !.v = m_nBlocking]
    <2>1. l \in LocalsType /\ l.max = loc[w].max /\ l.x = loc[w].x /\ l.from = loc[w].from
      BY <1>2, <1>3 DEF LocalsType
    <2>2. Moves(w) /\ pc'[w] = "pvt" /\ loc'[w] = l
      BY <1>1, <1>5, <2>1, GoMoves DEF Forward, PcStates
    <2> HIDE DEF l
    <2>3. WorkerInv(w)'
      BY <1>2, <1>3, <2>1, <2>2, TasksKept DEF WorkerInv, PlaceInv, ScanInv, CompleteInv, At, Looking, Taking,
         Completing, Carrying, MayCarry, Ending, MaxRead, InItsTurn
    <2> QED
      BY <1>2, <2>2, <2>3, QuietStep
  <1> QED
    BY <1>4, <1>5

LEMMA ForwardFoundKeeps ==
    ASSUME IInv, NEW w \in Workers, ForwardFound(w)  PROVE IInv'
  <1>1. pc[w] = "found_forward" /\ pc[w] # "idle"
    BY DEF ForwardFound, At
  <1>2. /\ UNCHANGED <<tasks, progress, bounds, r_q, row, host>> /\ m_nBlocking' \in Int
        /\ m_nCacheStart' \in 0 .. Rows /\ m_mutex' \in Workers \cup {NoWorker}
    BY DEF ForwardFound, UncountBlocked, IInv, Typed, TypeOK
  <1>3. /\ loc[w] \in LocalsType /\ loc[w].max <= Last /\ row[w] # NoRow
        /\ loc[w].x <= Last /\ loc[w].from = "forward"
    BY <1>1, WorkerFacts DEF PlaceInv, ScanInv, MaxRead, Carrying
  <1> DEFINE l == [loc[w] EXCEPT !.v = 0]
  <1>4. l \in LocalsType /\ l.max = loc[w].max /\ l.x = loc[w].x /\ l.from = loc[w].from
    BY <1>3 DEF LocalsType
  <1>5. Moves(w) /\ pc'[w] = "forward_push" /\ loc'[w] = l
    BY <1>1, <1>4, GoMoves DEF ForwardFound, PcStates
  <1> HIDE DEF l
  <1>6. WorkerInv(w)'
    BY <1>2, <1>3, <1>4, <1>5, TasksKept DEF WorkerInv, PlaceInv, ScanInv, CompleteInv, At, Looking, Taking,
         Completing, Carrying, MayCarry, Ending, MaxRead, InItsTurn
  <1> QED
    BY <1>2, <1>5, <1>6, QuietStep

LEMMA ForwardNoneKeeps ==
    ASSUME IInv, NEW w \in Workers, ForwardNone(w)  PROVE IInv'
  <1>1. pc[w] = "none_forward" /\ pc[w] # "idle"
    BY DEF ForwardNone, At
  <1>2. /\ UNCHANGED <<tasks, progress, bounds, r_q, row, host>> /\ m_nBlocking' \in Int
        /\ m_nCacheStart' \in 0 .. Rows /\ m_mutex' \in Workers \cup {NoWorker}
    BY DEF ForwardNone, IInv, Typed, TypeOK
  <1>3. loc[w].max <= Last /\ row[w] = NoRow
    BY <1>1, WorkerFacts DEF PlaceInv, MaxRead, Carrying, Completing, MayCarry
  <1>4. Moves(w) /\ pc'[w] = "obtain" /\ loc'[w] = loc[w]
    BY <1>1, GoMovesKeeping DEF ForwardNone, PcStates
  <1> QED
    BY <1>2, <1>3, <1>4, AtPlain, TasksKept, QuietStep DEF Plain
-----------------------------------------------------------------------------
(* The steps that move a row, or the end of the frame, through the queue. *)

\* A step of worker w that leaves the others alone.
LEMMA WorkerStep ==
    ASSUME IInv, NEW w \in Workers, Moves(w), WorkerInv(w)', Typed',
           UNCHANGED <<tasks, host>>,
           \A u \in Workers : u # w => row'[u] = row[u] /\ Undisturbed(u),
           ProgressInv', BoundsInv', HeldInv', EndInv'
    PROVE  IInv'
  <1>1. tasks # <<>> /\ host = "run" /\ tasks' = tasks
    BY WorkerFacts DEF Moves
  <1>2. FrameInv'
    <2>1. \A u \in Workers : ~At(u, "idle")'
      BY <1>1 DEF Moves, IInv, Shared, FrameInv, At
    <2> QED
      BY <1>1, <2>1 DEF FrameInv
  <1>3. ASSUME NEW u \in Workers, u # w  PROVE WorkerInv(u)'
    BY <1>1, <1>3, OtherKept DEF Moves
  <1> QED
    BY <1>2, <1>3 DEF IInv, Shared

LEMMA QueueStep ==
    ASSUME IInv, NEW w \in Workers, Moves(w), WorkerInv(w)',
           UNCHANGED <<tasks, progress, bounds, m_nBlocking, m_nCacheStart, host>>,
           m_mutex' = m_mutex,
           row' \in [Workers -> Row \cup {NoRow}],
           \A u \in Workers : u # w => row'[u] = row[u],
           r_q' \in Seq(Row \cup {NoRow, END}), Len(r_q') <= QSize,
           HeldInv', EndInv'
    PROVE  IInv'
  <1>1. Typed'
    BY DEF IInv, Typed, TypeOK, Moves, progress, bounds
  <1>2. ProgressInv' /\ BoundsInv'
    BY TasksKept DEF IInv, Shared, ProgressInv, BoundsInv, progress, bounds
  <1>3. \A u \in Workers : Undisturbed(u)
    BY TypeFacts DEF IInv, Undisturbed, progress, bounds
  <1> QED
    BY <1>1, <1>2, <1>3, WorkerStep

\* The messages after one more was pushed.
LEMMA Pushed ==
    ASSUME Typed, NEW m \in Row \cup {NoRow, END}, r_q' = Append(r_q, m)
    PROVE  /\ r_q' \in Seq(Row \cup {NoRow, END})
           /\ Len(r_q) \in Nat /\ Len(r_q') = Len(r_q) + 1
           /\ \A n \in 1 .. Len(r_q) : r_q'[n] = r_q[n] /\ n \in 1 .. Len(r_q')
           /\ r_q'[Len(r_q) + 1] = m /\ Len(r_q) + 1 \in 1 .. Len(r_q')
           /\ \A n \in 1 .. Len(r_q') : n \in 1 .. Len(r_q) \/ n = Len(r_q) + 1
  <1>1. r_q \in Seq(Row \cup {NoRow, END})
    BY DEF Typed
  <1>2. /\ r_q' \in Seq(Row \cup {NoRow, END})
        /\ Len(r_q) \in Nat /\ Len(r_q') = Len(r_q) + 1
        /\ \A n \in 1 .. Len(r_q) : r_q'[n] = r_q[n]
        /\ r_q'[Len(r_q) + 1] = m
    BY <1>1
  <1> QED
    BY <1>2

\* The messages after the first one was popped.
LEMMA Popped ==
    ASSUME Typed, r_q # <<>>, r_q' = Tail(r_q)
    PROVE  /\ r_q' \in Seq(Row \cup {NoRow, END}) /\ Head(r_q) \in Row \cup {NoRow, END}
           /\ Len(r_q) \in Nat \ {0} /\ Len(r_q') = Len(r_q) - 1
           /\ Head(r_q) = r_q[1]
           /\ \A n \in 1 .. Len(r_q') : r_q'[n] = r_q[n + 1] /\ n + 1 \in 2 .. Len(r_q)
           /\ \A n \in 2 .. Len(r_q) : r_q'[n - 1] = r_q[n] /\ n - 1 \in 1 .. Len(r_q')
  <1>1. r_q \in Seq(Row \cup {NoRow, END})
    BY DEF Typed
  <1>2. /\ r_q' \in Seq(Row \cup {NoRow, END}) /\ Head(r_q) \in Row \cup {NoRow, END}
        /\ Len(r_q) \in Nat \ {0} /\ Len(r_q') = Len(r_q) - 1
        /\ Head(r_q) = r_q[1]
    BY <1>1
  <1>3. \A n \in 1 .. Len(r_q') : r_q'[n] = r_q[n + 1] /\ n + 1 \in 2 .. Len(r_q)
    BY <1>1, <1>2
  <1>4. ASSUME NEW n \in 2 .. Len(r_q)
        PROVE  r_q'[n - 1] = r_q[n] /\ n - 1 \in 1 .. Len(r_q')
    <2>1. n - 1 \in 1 .. Len(r_q') /\ (n - 1) + 1 = n
      BY <1>2, <1>4
    <2> QED
      BY <1>3, <2>1
  <1> QED
    BY <1>2, <1>3, <1>4

LEMMA PutHeld ==
    ASSUME Typed, HeldInv, UNCHANGED progress, NEW w \in Workers,
           r_q' = Append(r_q, row[w]), row' = [row EXCEPT ![w] = NoRow]
    PROVE  HeldInv'
  <1> DEFINE k == Len(r_q) + 1
  <1>1. /\ row \in [Workers -> Row \cup {NoRow}]
        /\ row'[w] = NoRow /\ \A u \in Workers : u # w => row'[u] = row[u]
    BY DEF Typed
  <1>2. /\ \A n \in 1 .. Len(r_q) : r_q'[n] = r_q[n] /\ n \in 1 .. Len(r_q')
        /\ r_q'[k] = row[w] /\ k \in 1 .. Len(r_q')
        /\ \A n \in 1 .. Len(r_q') : n \in 1 .. Len(r_q) \/ n = k
    BY <1>1, Pushed
  <1>3. \A r : Reserved(r)' = Reserved(r)
    BY DEF Reserved, progress
  <1> HIDE DEF k
  <1>4. \A u \in Workers : row'[u] # NoRow => Reserved(row'[u])
    BY <1>1 DEF HeldInv
  <1>5. \A n \in 1 .. Len(r_q') : r_q'[n] \in Row => Reserved(r_q'[n])
    BY <1>1, <1>2, RowTypes DEF HeldInv
  <1>6. \A v, u \in Workers : row'[v] = row'[u] /\ row'[v] # NoRow => v = u
    BY <1>1 DEF HeldInv
  <1>7. \A n, m \in 1 .. Len(r_q') : r_q'[n] = r_q'[m] /\ r_q'[n] \in Row => n = m
    BY <1>1, <1>2, RowTypes DEF HeldInv
  <1>8. \A u \in Workers, n \in 1 .. Len(r_q') : row'[u] = r_q'[n] => row'[u] = NoRow
    BY <1>1, <1>2 DEF HeldInv
  <1>9. ASSUME NEW r \in Row, Reserved(r)
        PROVE  (\E u \in Workers : row'[u] = r) \/ (\E n \in 1 .. Len(r_q') : r_q'[n] = r)
    BY <1>1, <1>2, <1>9 DEF HeldInv
  <1> QED
    BY <1>3, <1>4, <1>5, <1>6, <1>7, <1>8, <1>9 DEF HeldInv

LEMMA PutEndHeld ==
    ASSUME Typed, HeldInv, UNCHANGED progress, row' = row, r_q' = Append(r_q, END)
    PROVE  HeldInv'
  <1> DEFINE k == Len(r_q) + 1
  <1>1. row \in [Workers -> Row \cup {NoRow}]
    BY DEF Typed
  <1>2. /\ \A n \in 1 .. Len(r_q) : r_q'[n] = r_q[n] /\ n \in 1 .. Len(r_q')
        /\ r_q'[k] = END /\ k \in 1 .. Len(r_q')
        /\ \A n \in 1 .. Len(r_q') : n \in 1 .. Len(r_q) \/ n = k
    BY Pushed
  <1>3. \A r : Reserved(r)' = Reserved(r)
    BY DEF Reserved, progress
  <1> HIDE DEF k
  <1>4. END \notin Row \cup {NoRow}
    BY RowTypes
  <1>5. \A n \in 1 .. Len(r_q') : r_q'[n] \in Row => n \in 1 .. Len(r_q) /\ r_q'[n] = r_q[n]
    BY <1>2, <1>4
  <1>6. \A u \in Workers, n \in 1 .. Len(r_q') : row'[u] = r_q'[n] => row'[u] = NoRow
    BY <1>1, <1>2, <1>4 DEF HeldInv
  <1>7. ASSUME NEW r \in Row, Reserved(r)
        PROVE  (\E u \in Workers : row'[u] = r) \/ (\E n \in 1 .. Len(r_q') : r_q'[n] = r)
    BY <1>2, <1>7 DEF HeldInv
  <1> QED
    BY <1>3, <1>5, <1>6, <1>7 DEF HeldInv

LEMMA TakeHeld ==
    ASSUME Typed, HeldInv, UNCHANGED progress, NEW w \in Workers, row[w] = NoRow,
           r_q # <<>>, r_q' = Tail(r_q),
           row' = IF Head(r_q) = END THEN row ELSE [row EXCEPT ![w] = Head(r_q)]
    PROVE  HeldInv'
  <1> DEFINE h == r_q[1]
  <1>1. /\ row \in [Workers -> Row \cup {NoRow}]
        /\ \A u \in Workers : u # w => row'[u] = row[u]
        /\ row'[w] = IF h = END THEN NoRow ELSE h
    BY Popped DEF Typed
  <1>2. /\ h \in Row \cup {NoRow, END} /\ 1 \in 1 .. Len(r_q)
        /\ \A n \in 1 .. Len(r_q') : /\ r_q'[n] = r_q[n + 1]
                                     /\ n + 1 \in 1 .. Len(r_q) /\ n + 1 # 1
        /\ \A n \in 1 .. Len(r_q) : n # 1 => r_q'[n - 1] = r_q[n] /\ n - 1 \in 1 .. Len(r_q')
    BY Popped
  <1>3. \A r : Reserved(r)' = Reserved(r)
    BY DEF Reserved, progress
  <1>4. \A n, k \in 1 .. Len(r_q') : n + 1 = k + 1 => n = k
    OBVIOUS
  <1>5. row'[w] \in Row => row'[w] = h
    BY <1>1, RowTypes
  <1>6. \A u \in Workers : row'[u] # NoRow => row'[u] \in Row
    BY <1>1, <1>2
  <1> HIDE DEF h
  <1>7. \A u \in Workers : row'[u] # NoRow => Reserved(row'[u])
    BY <1>1, <1>2, <1>5, <1>6 DEF HeldInv, h
  <1>8. \A n \in 1 .. Len(r_q') : r_q'[n] \in Row => Reserved(r_q'[n])
    BY <1>2 DEF HeldInv
  <1>9. \A v, u \in Workers : row'[v] = row'[u] /\ row'[v] # NoRow => v = u
    BY <1>1, <1>2, <1>5, <1>6 DEF HeldInv, h
  <1>10. \A n, k \in 1 .. Len(r_q') : r_q'[n] = r_q'[k] /\ r_q'[n] \in Row => n = k
    BY <1>2, <1>4 DEF HeldInv
  <1>11. \A u \in Workers, n \in 1 .. Len(r_q') : row'[u] = r_q'[n] => row'[u] = NoRow
    <2> SUFFICES ASSUME NEW u \in Workers, NEW n \in 1 .. Len(r_q'), row'[u] = r_q'[n],
                        row'[u] # NoRow
                 PROVE  FALSE
      OBVIOUS
    <2>1. row'[u] \in Row /\ r_q[n + 1] = row'[u] /\ n + 1 \in 1 .. Len(r_q) /\ n + 1 # 1
      BY <1>2, <1>6
    <2>2. u = w => h = r_q[n + 1]
      BY <1>5, <2>1
    <2> QED
      BY <1>1, <1>2, <2>1, <2>2 DEF HeldInv, h
  <1>12. ASSUME NEW r \in Row, Reserved(r)
         PROVE  (\E u \in Workers : row'[u] = r) \/ (\E n \in 1 .. Len(r_q') : r_q'[n] = r)
    <2>1. CASE \E u \in Workers : row[u] = r
      BY <1>1, <2>1, RowTypes
    <2>2. CASE h = r
      BY <1>1, <2>2, RowTypes
    <2>3. CASE \E n \in 1 .. Len(r_q) : n # 1 /\ r_q[n] = r
      BY <1>2, <2>3
    <2> QED
      BY <1>12, <2>1, <2>2, <2>3 DEF HeldInv, h
  <1> QED
    BY <1>3, <1>7, <1>8, <1>9, <1>10, <1>11, <1>12 DEF HeldInv

\* END is pushed, or -1 forwarded, only when the last task has run on every row.
LEMMA PushedEnd ==
    ASSUME Typed, EndInv, NEW m \in Row \cup {NoRow, END}, r_q' = Append(r_q, m),
           m \in Row \/ LastTaskDone, tasks' = tasks, completed' = completed
    PROVE  EndInv'
  <1>1. LastTaskDone' = LastTaskDone
    BY TasksKept DEF LastTaskDone
  <1>2. \A n \in 1 .. Len(r_q') : (n \in 1 .. Len(r_q) /\ r_q'[n] = r_q[n]) \/ r_q'[n] = m
    BY Pushed
  <1> QED
    BY <1>1, <1>2, RowTypes DEF EndInv

LEMMA PushEndKeeps ==
    ASSUME IInv, NEW w \in Workers, PushEnd(w)  PROVE IInv'
  <1>1. pc[w] = "push_end" /\ pc[w] # "idle"
    BY DEF PushEnd, At
  <1>2. row[w] = NoRow /\ LastTaskDone
    BY <1>1, WorkerFacts DEF PlaceInv, Carrying, Completing, MayCarry, Ending
  <1>3. /\ UNCHANGED <<tasks, progress, bounds, m_nBlocking, m_mutex, m_nCacheStart, row, host>>
        /\ r_q' = Append(r_q, END) /\ Len(r_q) < QSize /\ Return(w)
    BY DEF PushEnd
  <1>4. LastTaskDone'
    BY <1>2, <1>3, TasksKept DEF LastTaskDone, progress
  <1>5. Moves(w) /\ WorkerInv(w)'
    BY <1>1, <1>2, <1>3, <1>4, ReturnMoves DEF MaxRead
  <1>6. r_q' \in Seq(Row \cup {NoRow, END}) /\ Len(r_q') <= QSize
    BY <1>3, Pushed, Constants DEF IInv
  <1>7. HeldInv' /\ EndInv'
    BY <1>2, <1>3, PutEndHeld, PushedEnd DEF IInv, Shared, progress
  <1>8. row' \in [Workers -> Row \cup {NoRow}] /\ \A u \in Workers : row'[u] = row[u]
    BY <1>3 DEF IInv, Typed
  <1> QED
    BY <1>3, <1>5, <1>6, <1>7, <1>8, QueueStep

LEMMA PopKeeps ==
    ASSUME IInv, NEW w \in Workers, Pop(w)  PROVE IInv'
  <1>1. pc[w] = "pop" /\ pc[w] # "idle"
    BY DEF Pop, At
  <1>2. row[w] = NoRow /\ loc[w].max <= Last
    BY <1>1, WorkerFacts DEF PlaceInv, Carrying, Completing, MayCarry, MaxRead
  <1>3. /\ UNCHANGED <<tasks, progress, bounds, m_nBlocking, m_mutex, m_nCacheStart, host>>
        /\ r_q # <<>> /\ r_q' = Tail(r_q)
        /\ row' = IF Head(r_q) = END THEN row ELSE [row EXCEPT ![w] = Head(r_q)]
    BY DEF Pop, Hold
  <1>4. /\ r_q' \in Seq(Row \cup {NoRow, END}) /\ Head(r_q) \in Row \cup {NoRow, END}
        /\ Len(r_q') <= QSize
        /\ Head(r_q) \in {NoRow, END} => LastTaskDone
        /\ \A n \in 1 .. Len(r_q') : r_q'[n] = r_q[n + 1] /\ n + 1 \in 1 .. Len(r_q)
    <2>1. Len(r_q) <= QSize /\ QSize \in Nat
      BY Constants DEF IInv, Typed, TypeOK
    <2>2. Len(r_q) \in Nat \ {0} /\ Len(r_q') = Len(r_q) - 1 /\ Head(r_q) = r_q[1]
      BY <1>3, Popped DEF IInv
    <2>3. 1 \in 1 .. Len(r_q)
      BY <2>2
    <2> QED
      BY <1>3, <2>1, <2>2, <2>3, Popped DEF IInv, Shared, EndInv
  <1>5. LastTaskDone' = LastTaskDone
    BY <1>3, TasksKept DEF LastTaskDone, progress
  <1>6. HeldInv' /\ EndInv'
    <2>1. HeldInv'
      BY <1>2, <1>3, TakeHeld DEF IInv, Shared
    <2> QED
      BY <1>4, <1>5, <2>1 DEF IInv, Shared, EndInv
  <1>7. /\ row' \in [Workers -> Row \cup {NoRow}]
        /\ \A u \in Workers : u # w => row'[u] = row[u]
        /\ row'[w] = IF Head(r_q) = END THEN NoRow ELSE Head(r_q)
    BY <1>2, <1>3, <1>4 DEF IInv, Typed
  <1>8. Moves(w) /\ WorkerInv(w)'
    <2>1. CASE Head(r_q) = END
      <3>1. Moves(w) /\ pc'[w] = "push_end" /\ loc'[w] = loc[w]
        BY <1>1, <2>1, GoMovesKeeping DEF Pop, PcStates
      <3>2. LastTaskDone' /\ row'[w] = NoRow
        BY <1>4, <1>5, <1>7, <2>1
      <3> QED
        BY <1>2, <1>3, <3>1, <3>2, TasksKept DEF WorkerInv, PlaceInv, ScanInv, CompleteInv, At, Looking, Taking,
         Completing, Carrying, MayCarry, Ending, MaxRead, InItsTurn
    <2>2. CASE Head(r_q) # END
      <3>1. Return(w)
        BY <2>2 DEF Pop
      <3>2. row'[w] \in Row \/ (row'[w] = NoRow /\ LastTaskDone')
        BY <1>4, <1>5, <1>7, <2>2
      <3> QED
        BY <1>1, <1>3, <3>1, <3>2, ReturnMoves DEF MaxRead
    <2> QED
      BY <2>1, <2>2
  <1> QED
    BY <1>3, <1>4, <1>6, <1>7, <1>8, QueueStep

\* A row is put in the queue.
LEMMA PutStep ==
    ASSUME IInv, NEW w \in Workers, Moves(w), WorkerInv(w)',
           r_q' = Append(r_q, row[w]), Len(r_q) < QSize, Hold(w, NoRow),
           row[w] # NoRow \/ LastTaskDone,
           UNCHANGED <<tasks, progress, bounds, m_nBlocking, m_mutex, m_nCacheStart, host>>
    PROVE  IInv'
  <1>1. /\ row \in [Workers -> Row \cup {NoRow}] /\ row[w] \in Row \cup {NoRow}
        /\ row' = [row EXCEPT ![w] = NoRow]
    BY DEF IInv, Typed, Hold
  <1>2. r_q' \in Seq(Row \cup {NoRow, END}) /\ Len(r_q') <= QSize
    BY <1>1, Pushed, Constants DEF IInv
  <1>3. HeldInv'
    BY <1>1, PutHeld DEF IInv, Shared
  <1>4. EndInv'
    BY <1>1, PushedEnd DEF IInv, Shared, progress
  <1> QED
    BY <1>1, <1>2, <1>3, <1>4, QueueStep

LEMMA GiveKeeps ==
    ASSUME IInv, NEW w \in Workers, Give(w)  PROVE IInv'
  <1>1. pc[w] = "give" /\ pc[w] # "idle"
    BY DEF Give, At
  <1>2. loc[w].max <= Last /\ (row[w] = NoRow => LastTaskDone)
    BY <1>1, WorkerFacts DEF PlaceInv, MayCarry, MaxRead
  <1>3. Moves(w) /\ pc'[w] = "given" /\ loc'[w] = loc[w]
    BY <1>1, GoMovesKeeping DEF Give, PcStates
  <1>4. row'[w] = NoRow
    BY DEF Give, Hold, IInv, Typed
  <1>5. WorkerInv(w)'
    BY <1>2, <1>3, <1>4, AtPlain, TasksKept DEF Give, Plain
  <1> QED
    BY <1>2, <1>3, <1>5, PutStep DEF Give

LEMMA ForwardPushKeeps ==
    ASSUME IInv, NEW w \in Workers, ForwardPush(w)  PROVE IInv'
  <1>1. pc[w] = "forward_push" /\ pc[w] # "idle"
    BY DEF ForwardPush, At
  <1>2. row[w] # NoRow
    BY <1>1, WorkerFacts DEF PlaceInv, Carrying
  <1>3. row'[w] = NoRow
    BY DEF ForwardPush, Hold, IInv, Typed
  <1>4. Moves(w) /\ WorkerInv(w)'
    BY <1>1, <1>3, NextTaskMoves DEF ForwardPush
  <1> QED
    BY <1>2, <1>4, PutStep DEF ForwardPush
-----------------------------------------------------------------------------
(* The steps that move the progress words, m_min and m_max. *)

\* A task in order has one row at most that is reserved and not completed, and the next
\* row to be completed of any task is one row: whoever holds it is alone.
LEMMA OneOwner ==
    ASSUME IInv, NEW w \in Workers, NEW u \in Workers, u # w,
           row[w] # NoRow, row[u] # NoRow, row[u].tid = row[w].tid
    PROVE  /\ AnyOrder(row[w].tid)
           /\ row[u].tsk # row[w].tsk
  <1>1. row[w] \in Row /\ row[u] \in Row /\ row[u] # row[w]
    BY CarriedRow DEF IInv, Shared, HeldInv
  <1>2. row[u].tsk # row[w].tsk
    BY <1>1, RowTypes
  <1>3. ~AnyOrder(row[w].tid) => row[w].tsk = completed[row[w].tid] /\ row[u].tsk = completed[row[w].tid]
    BY CarriedRow DEF IInv, Shared
  <1> QED
    BY <1>2, <1>3

LEMMA MinUpKeeps ==
    ASSUME IInv, NEW w \in Workers, MinUp(w)  PROVE IInv'
  <1> DEFINE t == row[w].tid
             l == [loc[w] EXCEPT !.min = @ + 1]
  <1>1. pc[w] = "min_up"
    BY DEF MinUp, At
  <1>2. /\ UNCHANGED <<tasks, completed, working, m_max, m_nBlocking, m_mutex, r_q,
                       m_nCacheStart, row, host>>
    BY DEF MinUp, progress, waiting
  <1>3. /\ row[w] # NoRow /\ pc[w] # "idle" /\ t \in 0 .. Last /\ t \in TaskIds /\ t \in Nat
        /\ completed[t] \in 0 .. Rows /\ working[t] \in 0 .. Rows
        /\ m_min \in Nat /\ m_max \in Nat
    BY <1>1, RowRead DEF Completing
  <1>4. /\ loc[w] \in LocalsType /\ loc[w].min = t /\ working[t] = Rows
        /\ ~AnyOrder(t) => m_min = t
        /\ CompleteInv(w)
    BY <1>1, <1>3, WorkerFacts DEF CompleteInv
  <1>5. /\ l \in LocalsType /\ l.max = loc[w].max /\ l.tc = loc[w].tc /\ l.tw = loc[w].tw
    BY <1>3, <1>4 DEF LocalsType
  <1>6. /\ m_min' = IF m_min = t THEN t + 1 ELSE m_min
        /\ Locals(w, l)
        /\ Go(w, IF m_min = t THEN "window_reset" ELSE "max_up")
    BY <1>4 DEF MinUp
  <1>7. /\ Moves(w) /\ loc'[w] = l
        /\ pc'[w] = IF m_min = t THEN "window_reset" ELSE "max_up"
    BY <1>3, <1>5, <1>6, GoMoves DEF PcStates
  <1> HIDE DEF l
  <1>8. WorkerInv(w)'
    <2>1. PlaceInv(w)' /\ ScanInv(w)'
      BY <1>2, <1>3, <1>7 DEF PlaceInv, ScanInv, Looking, Taking, At, Carrying, MayCarry,
         Completing, Ending, MaxRead
    <2>2. CompleteInv(w)'
      BY <1>1, <1>2, <1>3, <1>4, <1>5, <1>7, TasksKept
         DEF CompleteInv, Completing, MaxRead, InItsTurn
    <2> QED
      BY <2>1, <2>2 DEF WorkerInv
  <1>9. m_min' <= Len(tasks) /\ m_min' \in 0 .. MaxTasks
    <2>1. Last = Len(tasks) - 1 /\ Len(tasks) \in Nat /\ Len(tasks) <= MaxTasks /\ MaxTasks \in Nat
      BY TypeFacts, Constants DEF IInv
    <2>2. m_min <= Len(tasks)
      BY DEF IInv, Shared, BoundsInv
    <2> QED
      BY <1>3, <1>6, <2>1, <2>2
  <1>10. Typed'
    BY <1>2, <1>7, <1>9 DEF IInv, Typed, TypeOK, Moves
  <1>11. ProgressInv' /\ HeldInv' /\ EndInv'
    BY <1>2, TasksKept DEF IInv, Shared, ProgressInv, HeldInv, Reserved, EndInv, LastTaskDone
  <1>12. BoundsInv'
    <2>1. ASSUME NEW s \in TaskIds, s < m_min'  PROVE working[s] = Rows
      <3>1. s < m_min \/ s = t
        BY <1>3, <1>6, <2>1 DEF TaskIds
      <3> QED
        BY <1>4, <2>1, <3>1 DEF IInv, Shared, BoundsInv
    <2> QED
      BY <1>2, <1>9, <2>1 DEF IInv, Shared, BoundsInv
  <1>13. ASSUME NEW u \in Workers, u # w  PROVE Undisturbed(u)
    <2>1. /\ \A s \in TaskIds : completed[s] <= completed'[s] /\ working[s] <= working'[s]
          /\ m_max <= m_max'
      BY <1>2, TypeFacts DEF IInv
    <2>2. ASSUME row[u] # NoRow, ~AnyOrder(row[u].tid), m_min = row[u].tid
          PROVE  m_min' = row[u].tid
      BY <1>3, <1>6, <1>13, <2>2, OneOwner
    <2> QED
      BY <1>2, <2>1, <2>2 DEF Undisturbed
  <1> QED
    BY <1>2, <1>7, <1>8, <1>10, <1>11, <1>12, <1>13, WorkerStep

LEMMA MaxUpKeeps ==
    ASSUME IInv, NEW w \in Workers, MaxUp(w)  PROVE IInv'
  <1> DEFINE t == row[w].tid
             l == loc[w]
  <1>1. pc[w] = "max_up"
    BY DEF MaxUp, At
  <1>2. /\ UNCHANGED <<tasks, completed, working, m_min, m_nBlocking, m_mutex, r_q,
                       m_nCacheStart, row, loc, host>>
    BY DEF MaxUp, progress, waiting
  <1>3. /\ row[w] # NoRow /\ pc[w] # "idle" /\ t \in 0 .. Last /\ t \in TaskIds /\ t \in Nat
        /\ row[w].tsk \in 0 .. Rows - 1
        /\ completed[t] \in 0 .. Rows /\ working[t] \in 0 .. Rows
        /\ m_min \in Nat /\ m_max \in Nat /\ AnyOrder(t) \in BOOLEAN
        /\ ~AnyOrder(t) => row[w].tsk = completed[t] /\ working[t] = row[w].tsk + 1
    BY <1>1, RowRead DEF Completing
  <1>4. /\ CompleteInv(w) /\ l.max \in Nat
        /\ ~AnyOrder(t) => l.tc = completed[t] /\ l.tw = working[t]
        /\ t <= l.max /\ l.max <= m_max
        /\ ~AnyOrder(t) /\ l.max = t => m_max = t
    BY <1>1, <1>3, WorkerFacts DEF CompleteInv, Completing, MaxRead
  <1>5. Go(w, "complete")
    <2>1. ~AnyOrder(t) => (t = l.max => m_max = t) /\ l.tc + 1 = l.tw
      BY <1>3, <1>4
    <2> QED
      BY <2>1 DEF MaxUp
  <1>6. /\ m_max' = IF t = l.max /\ m_max = t THEN m_max + 1 ELSE m_max
    BY DEF MaxUp
  <1>7. Moves(w) /\ pc'[w] = "complete" /\ loc'[w] = l
    BY <1>2, <1>3, <1>5, GoMovesKeeping DEF PcStates
  <1>8. t < m_max' /\ m_max <= m_max' /\ m_max' \in Nat
    BY <1>3, <1>4, <1>6
  <1>9. WorkerInv(w)'
    <2>1. PlaceInv(w)' /\ ScanInv(w)'
      BY <1>2, <1>3, <1>7 DEF PlaceInv, ScanInv, Looking, Taking, At, Carrying, MayCarry,
         Completing, Ending, MaxRead
    <2>2. CompleteInv(w)'
      BY <1>1, <1>2, <1>3, <1>4, <1>7, <1>8, TasksKept
         DEF CompleteInv, Completing, MaxRead, InItsTurn
    <2> QED
      BY <2>1, <2>2 DEF WorkerInv
  <1>10. m_max' <= Len(tasks) /\ m_max' \in 0 .. MaxTasks
    <2>1. Last = Len(tasks) - 1 /\ Len(tasks) \in Nat /\ Len(tasks) <= MaxTasks /\ MaxTasks \in Nat
      BY TypeFacts, Constants DEF IInv
    <2>2. m_max <= Len(tasks)
      BY DEF IInv, Shared, BoundsInv
    <2> QED
      BY <1>3, <1>6, <2>1, <2>2
  <1>11. Typed'
    BY <1>2, <1>7, <1>10 DEF IInv, Typed, TypeOK, Moves
  <1>12. ProgressInv' /\ HeldInv' /\ EndInv'
    BY <1>2, TasksKept DEF IInv, Shared, ProgressInv, HeldInv, Reserved, EndInv, LastTaskDone
  <1>13. BoundsInv'
    <2>1. ASSUME NEW s \in TaskIds, completed[s] > 0  PROVE s < m_max'
      <3>1. s < m_max /\ s \in Nat
        BY <2>1 DEF IInv, Shared, BoundsInv, TaskIds
      <3> QED
        BY <1>3, <1>8, <3>1
    <2> QED
      BY <1>2, <1>10, <2>1 DEF IInv, Shared, BoundsInv
  <1>14. ASSUME NEW u \in Workers, u # w  PROVE Undisturbed(u)
    <2>1. \A s \in TaskIds : completed[s] <= completed'[s] /\ working[s] <= working'[s]
      BY <1>2, TypeFacts DEF IInv
    <2>2. ASSUME row[u] # NoRow, ~AnyOrder(row[u].tid), m_max = row[u].tid
          PROVE  m_max' = row[u].tid
      BY <1>3, <1>6, <1>14, <2>2, OneOwner
    <2> QED
      BY <1>2, <1>8, <2>1, <2>2 DEF Undisturbed
  <1> QED
    BY <1>2, <1>7, <1>9, <1>11, <1>12, <1>13, <1>14, WorkerStep

LEMMA CompleteRowKeeps ==
    ASSUME IInv, NEW w \in Workers, CompleteRow(w)  PROVE IInv'
  <1> DEFINE t == row[w].tid
             y == row[w].tsk
             max == Least(loc[w].max + 1, Last)
             s == Least(IF t < loc[w].min THEN loc[w].min ELSE t, max)
             e == Least(s + 1, max)
             p == AfterPvt(loc[w])
             a == [p EXCEPT !.max = max]
             b == [a EXCEPT !.x = e]
             c == [b EXCEPT !.lim = s]
             l == [c EXCEPT !.from = "near"]
  <1>1. pc[w] = "complete"
    BY DEF CompleteRow, At
  <1>2. /\ row[w] # NoRow /\ pc[w] # "idle" /\ t \in 0 .. Last /\ t \in TaskIds /\ t \in Nat
        /\ y \in 0 .. Rows - 1
        /\ completed[t] \in 0 .. Rows /\ working[t] \in 0 .. Rows /\ y < working[t]
        /\ Last \in Nat
    BY <1>1, RowRead DEF Completing
  <1>3. /\ loc[w] \in LocalsType /\ loc[w].min \in Nat /\ loc[w].max \in Nat
        /\ ~AnyOrder(t) => loc[w].tc = completed[t] /\ loc[w].tw = working[t]
        /\ completed[t] = y /\ t < m_max
    BY <1>1, <1>2, WorkerFacts DEF CompleteInv, Completing, InItsTurn
  <1>4. /\ Go(w, "pvt") /\ Hold(w, NoRow) /\ completed' = [completed EXCEPT ![t] = @ + 1]
        /\ Locals(w, [AfterPvt(loc[w]) EXCEPT !.max = max, !.x = e, !.lim = s, !.from = "near"])
    BY <1>3 DEF CompleteRow
  <1>5. UNCHANGED <<tasks, working, m_min, m_max, m_nBlocking, m_mutex, r_q,
                    m_nCacheStart, host>>
    BY DEF CompleteRow, bounds, waiting
  <1>6. /\ max \in Nat /\ max <= Last /\ s \in Nat /\ s <= max /\ e \in Nat /\ e <= max
    <2>1. max \in Nat /\ max <= Last
      BY <1>2, <1>3 DEF Least
    <2> HIDE DEF max
    <2>2. s \in Nat /\ s <= max
      BY <1>2, <1>3, <2>1 DEF Least
    <2> HIDE DEF s
    <2>3. e \in Nat /\ e <= max
      BY <2>1, <2>2 DEF Least
    <2> QED
      BY <2>1, <2>2, <2>3
  <1> HIDE DEF max, s, e
  <1>7. l \in LocalsType /\ l.max = max /\ l.x = e /\ l.from = "near"
    <2>1. p \in LocalsType
      BY <1>3, LocalsReset
    <2> HIDE DEF p
    <2>2. a \in LocalsType /\ a.max = max
      BY <1>6, <2>1 DEF LocalsType
    <2> HIDE DEF a
    <2>3. b \in LocalsType /\ b.max = max /\ b.x = e
      BY <1>6, <2>2 DEF LocalsType
    <2> HIDE DEF b
    <2>4. c \in LocalsType /\ c.max = max /\ c.x = e
      BY <1>6, <2>3 DEF LocalsType
    <2> HIDE DEF c
    <2> QED
      BY <2>4 DEF LocalsType
  <1>8. [AfterPvt(loc[w]) EXCEPT !.max = max, !.x = e, !.lim = s, !.from = "near"] = l
    OBVIOUS
  <1> HIDE DEF l
  <1>9. Moves(w) /\ pc'[w] = "pvt" /\ loc'[w] = l
    BY <1>2, <1>4, <1>7, <1>8, GoMoves DEF PcStates
  <1>10. /\ row' = [row EXCEPT ![w] = NoRow] /\ row \in [Workers -> Row \cup {NoRow}]
         /\ row' \in [Workers -> Row \cup {NoRow}]
         /\ row'[w] = NoRow /\ \A u \in Workers : u # w => row'[u] = row[u]
    BY <1>4 DEF Hold, IInv, Typed
  <1>11. WorkerInv(w)'
    <2>1. l.max <= Last /\ l.x <= Last
      BY <1>2, <1>6, <1>7
    <2> QED
      BY <1>5, <1>7, <1>9, <1>10, <2>1, TasksKept DEF WorkerInv, PlaceInv, ScanInv, CompleteInv, At, Looking, Taking,
         Completing, Carrying, MayCarry, Ending, MaxRead, InItsTurn
  <1>12. /\ completed'[t] = y + 1 /\ completed[t] = y /\ completed'[t] \in 0 .. Rows
         /\ y \in Nat /\ y < Rows
         /\ \A q \in TaskIds : q # t => completed'[q] = completed[q]
         /\ completed' \in [TaskIds -> 0 .. Rows]
    <2>1. completed \in [TaskIds -> 0 .. Rows]
      BY DEF IInv, Typed, TypeOK
    <2>2. completed[t] + 1 \in 0 .. Rows /\ completed[t] + 1 = y + 1 /\ y \in Nat /\ y < Rows
      BY <1>2, <1>3, Constants
    <2> QED
      BY <1>2, <1>3, <1>4, <2>1, <2>2
  <1>13. Typed'
    BY <1>5, <1>9, <1>10, <1>12 DEF IInv, Typed, TypeOK, Moves
  <1>14. \A q \in TaskIds : /\ completed[q] \in 0 .. Rows /\ working[q] \in 0 .. Rows
                            /\ completed'[q] \in 0 .. Rows /\ completed[q] <= completed'[q]
                            /\ completed[q] = Rows => completed'[q] = Rows
    <2> SUFFICES ASSUME NEW q \in TaskIds
                 PROVE  /\ completed[q] \in 0 .. Rows /\ working[q] \in 0 .. Rows
                        /\ completed'[q] \in 0 .. Rows /\ completed[q] <= completed'[q]
                        /\ completed[q] = Rows => completed'[q] = Rows
      OBVIOUS
    <2>1. completed[q] \in 0 .. Rows /\ working[q] \in 0 .. Rows
      BY DEF IInv, Typed, TypeOK
    <2> HIDE DEF t, y
    <2>2. CASE q = t
      BY <1>12, <2>1, <2>2
    <2>3. CASE q # t
      BY <1>12, <2>1, <2>3
    <2> QED
      BY <2>2, <2>3
  <1>15. ProgressInv'
    <2> SUFFICES ASSUME NEW q \in TaskIds
                 PROVE  /\ completed'[q] <= working[q]
                        /\ working[q] > 0 =>
                              /\ q <= Last
                              /\ ~AnyOrder(q) => working[q] <= completed'[q] + 1
                              /\ q > 0 => completed'[q - 1] > 0
                              /\ working[q] = Rows => \A r \in 0 .. q - 1 : completed'[r] = Rows
      BY <1>5, TasksKept DEF ProgressInv
    <2>1. /\ completed[q] <= working[q]
          /\ working[q] > 0 =>
                /\ q <= Last
                /\ ~AnyOrder(q) => working[q] <= completed[q] + 1
                /\ q > 0 => completed[q - 1] > 0
                /\ working[q] = Rows => \A r \in 0 .. q - 1 : completed[r] = Rows
      BY DEF IInv, Shared, ProgressInv
    <2>2. completed'[q] <= working[q]
      <3> HIDE DEF t, y
      <3>1. CASE q = t
        BY <1>2, <1>12, <3>1
      <3>2. CASE q # t
        BY <1>12, <2>1, <3>2
      <3> QED
        BY <3>1, <3>2
    <2>3. ASSUME working[q] > 0, ~AnyOrder(q)  PROVE working[q] <= completed'[q] + 1
      BY <1>14, <2>1, <2>3
    <2>4. ASSUME working[q] > 0, q > 0  PROVE completed'[q - 1] > 0
      <3>1. q - 1 \in TaskIds
        BY <2>4, Constants DEF TaskIds
      <3> QED
        BY <1>14, <2>1, <2>4, <3>1
    <2>5. ASSUME working[q] > 0, working[q] = Rows, NEW r \in 0 .. q - 1  PROVE completed'[r] = Rows
      <3>1. r \in TaskIds
        BY <2>5, Constants DEF TaskIds
      <3> QED
        BY <1>14, <2>1, <2>5, <3>1
    <2> QED
      BY <2>1, <2>2, <2>3, <2>4, <2>5
  <1>16. BoundsInv'
    <2>1. ASSUME NEW q \in TaskIds, completed'[q] > 0  PROVE q < m_max
      BY <1>3, <1>12, <2>1 DEF IInv, Shared, BoundsInv
    <2> QED
      BY <1>5, <2>1 DEF IInv, Shared, BoundsInv
  <1>17. \A r \in Row : completed'[r.tid] <= r.tsk /\ r.tsk < working'[r.tid]
                            <=> Reserved(r) /\ r # row[w]
    <2> SUFFICES ASSUME NEW r \in Row
                 PROVE  completed'[r.tid] <= r.tsk /\ r.tsk < working'[r.tid]
                            <=> Reserved(r) /\ r # row[w]
      OBVIOUS
    <2>1. /\ r.tid \in TaskIds /\ r.tsk \in Nat /\ working[r.tid] \in Nat
          /\ row[w] \in Row /\ (r = row[w] <=> r.tid = t /\ r.tsk = y)
      BY <1>2, <1>10, <1>14, RowTypes DEF TaskIds
    <2>2. working' = working
      BY <1>5
    <2>3. Reserved(r) <=> completed[r.tid] <= r.tsk /\ r.tsk < working[r.tid]
      BY DEF Reserved
    <2>4. r.tid # t => completed'[r.tid] = completed[r.tid]
      BY <1>12, <2>1
    <2> HIDE DEF t, y
    <2> QED
      BY <1>12, <2>1, <2>2, <2>3, <2>4
  <1>18. HeldInv'
    <2>1. \A u \in Workers : row'[u] # NoRow =>
              u # w /\ row'[u] = row[u] /\ row[u] \in Row /\ row[u] # row[w] /\ Reserved(row[u])
      BY <1>2, <1>10 DEF IInv, Shared, HeldInv
    <2>2. \A n \in 1 .. Len(r_q) : r_q[n] # row[w]
      BY <1>2 DEF IInv, Shared, HeldInv
    <2>3. (\A u \in Workers : row[u] # NoRow => Reserved(row[u]))'
      BY <1>17, <2>1 DEF Reserved
    <2>4. (\A n \in 1 .. Len(r_q) : r_q[n] \in Row => Reserved(r_q[n]))'
      <3>1. \A n \in 1 .. Len(r_q) : r_q[n] \in Row => Reserved(r_q[n]) /\ r_q[n] # row[w]
        BY <2>2 DEF IInv, Shared, HeldInv
      <3> QED
        BY <1>5, <1>17, <3>1 DEF Reserved
    <2>5. \A v, u \in Workers : row'[v] = row'[u] /\ row'[v] # NoRow => v = u
      BY <2>1 DEF IInv, Shared, HeldInv
    <2>6. \A u \in Workers, n \in 1 .. Len(r_q) : row'[u] = r_q[n] => row'[u] = NoRow
      BY <2>1 DEF IInv, Shared, HeldInv
    <2>7. ASSUME NEW r \in Row, Reserved(r)'
          PROVE  (\E u \in Workers : row'[u] = r) \/ (\E n \in 1 .. Len(r_q) : r_q[n] = r)
      <3>1. Reserved(r) /\ r # row[w]
        BY <1>17, <2>7 DEF Reserved
      <3> QED
        BY <1>10, <3>1 DEF IInv, Shared, HeldInv
    <2>8. \A n, k \in 1 .. Len(r_q) : r_q[n] = r_q[k] /\ r_q[n] \in Row => n = k
      BY DEF IInv, Shared, HeldInv
    <2> QED
      BY <1>5, <2>3, <2>4, <2>5, <2>6, <2>7, <2>8 DEF HeldInv
  <1>19. EndInv'
    <2>1. Last \in TaskIds
      BY <1>2, WorkerFacts
    <2>2. LastTaskDone => LastTaskDone'
      BY <1>5, <1>14, <2>1, TasksKept DEF LastTaskDone
    <2> QED
      BY <1>5, <2>2 DEF IInv, Shared, EndInv
  <1>20. ASSUME NEW u \in Workers, u # w  PROVE Undisturbed(u)
    <2>1. ASSUME row[u] # NoRow, completed[row[u].tid] = row[u].tsk
          PROVE  completed'[row[u].tid] = completed[row[u].tid]
      <3>1. row[u].tid \in TaskIds
        BY <2>1, CarriedRow DEF IInv, Shared
      <3>2. row[u].tid # t
        BY <1>2, <1>3, <1>20, <2>1, OneOwner
      <3> QED
        BY <1>12, <3>1, <3>2
    <2>2. \A q \in TaskIds : working[q] <= working'[q] /\ completed[q] <= completed'[q]
      BY <1>5, <1>14
    <2>3. m_max <= m_max'
      BY <1>5, TypeFacts DEF IInv
    <2> QED
      BY <1>5, <2>1, <2>2, <2>3 DEF Undisturbed
  <1> QED
    BY <1>5, <1>9, <1>10, <1>11, <1>13, <1>15, <1>16, <1>18, <1>19, <1>20, WorkerStep

\* Worker w takes the next row of the task that it looks at.
LEMMA TakeKeeps ==
    ASSUME IInv, NEW w \in Workers, pc[w] = "pvt_take", WordUnchanged(w),
           working' = [working EXCEPT ![loc[w].x] = loc[w].tw + 1],
           completed' = completed,
           Hold(w, [tid |-> loc[w].x, tsk |-> loc[w].tw]),
           UNCHANGED <<tasks, bounds, waiting, m_nCacheStart, host>>,
           Moves(w), WorkerInv(w)'
    PROVE  IInv'
  <1> DEFINE x == loc[w].x
             y == loc[w].tw
             new == [tid |-> x, tsk |-> y]
  <1>1. /\ x \in 0 .. Last /\ x \in TaskIds /\ x \in Nat /\ Last \in Nat
        /\ y \in Nat /\ y < Rows /\ working[x] = y
        /\ completed[x] \in 0 .. Rows /\ completed[x] <= y
        /\ ~AnyOrder(x) => completed[x] = y
        /\ x > 0 => PrevFinished(x, y)
        /\ row[w] = NoRow
    <2>1. /\ x \in 0 .. Last /\ x \in TaskIds /\ x \in Nat /\ Last \in Nat
          /\ y \in Nat /\ y < Rows /\ working[x] = y
          /\ ~AnyOrder(x) => completed[x] = y
          /\ x > 0 => PrevFinished(x, y)
          /\ row[w] = NoRow
      BY WorkerFacts, Constants DEF WordUnchanged, ScanInv, PlaceInv, Looking, Taking, Carrying, Completing,
         MayCarry, TaskIds
    <2>2. completed[x] \in 0 .. Rows /\ completed[x] <= working[x]
      BY <2>1 DEF IInv, Typed, TypeOK, Shared, ProgressInv
    <2> QED
      BY <2>1, <2>2
  <1>2. /\ working'[x] = y + 1 /\ working[x] = y
        /\ \A q \in TaskIds : q # x => working'[q] = working[q]
        /\ working' \in [TaskIds -> 0 .. Rows]
    <2>1. working \in [TaskIds -> 0 .. Rows] /\ y + 1 \in 0 .. Rows
      BY <1>1, Constants DEF IInv, Typed, TypeOK
    <2> QED
      BY <1>1, <2>1
  <1>3. UNCHANGED <<tasks, completed, m_min, m_max, m_nBlocking, m_mutex, r_q,
                    m_nCacheStart, host>>
    BY DEF bounds, waiting
  <1>4. /\ new \in Row /\ new # NoRow /\ new.tid = x /\ new.tsk = y
        /\ row' \in [Workers -> Row \cup {NoRow}] /\ row'[w] = new
        /\ \A u \in Workers : u # w => row'[u] = row[u]
    <2>1. new \in Row
      BY <1>1, Constants DEF Row, RowSet
    <2> QED
      BY <2>1, RowTypes DEF Hold, IInv, Typed
  <1>5. Typed'
    BY <1>2, <1>3, <1>4 DEF IInv, Typed, TypeOK, Moves
  <1>6. \A q \in TaskIds : working[q] \in 0 .. Rows /\ completed[q] \in 0 .. Rows
    BY DEF IInv, Typed, TypeOK
  <1> HIDE DEF x, y, new
  <1>7. ProgressInv'
    <2> SUFFICES ASSUME NEW q \in TaskIds
                 PROVE  /\ completed[q] <= working'[q]
                        /\ working'[q] > 0 =>
                              /\ q <= Last
                              /\ ~AnyOrder(q) => working'[q] <= completed[q] + 1
                              /\ q > 0 => completed[q - 1] > 0
                              /\ working'[q] = Rows => \A r \in 0 .. q - 1 : completed[r] = Rows
      BY <1>3, TasksKept DEF ProgressInv
    <2>1. CASE q # x
      BY <1>2, <2>1 DEF IInv, Shared, ProgressInv
    <2>2. CASE q = x
      <3>1. completed[x] <= working'[x] /\ x <= Last
            /\ (~AnyOrder(x) => working'[x] <= completed[x] + 1)
        BY <1>1, <1>2
      <3>2. ASSUME x > 0
            PROVE  completed[x - 1] > 0 /\ (working'[x] = Rows => completed[x - 1] = Rows)
        <4>1. x - 1 \in TaskIds
          BY <1>1, <3>2, Constants DEF TaskIds
        <4>2. Bottom(x) \in Nat
          BY <1>1, TypeFacts DEF IInv
        <4>3. completed[x - 1] > Least(y + Bottom(x), Rows - 1)
          BY <1>1, <3>2 DEF PrevFinished
        <4> DEFINE c == completed[x - 1]
        <4>4. c \in 0 .. Rows /\ c > Least(y + Bottom(x), Rows - 1)
          BY <1>6, <4>1, <4>3
        <4> HIDE DEF c
        <4>5. c > 0 /\ (y + 1 = Rows => c = Rows)
          BY <1>1, <4>2, <4>4, Constants DEF Least
        <4> QED
          BY <1>2, <4>5 DEF c
      <3>3. ASSUME working'[x] = Rows, NEW r \in 0 .. x - 1  PROVE completed[r] = Rows
        <4>1. /\ x > 0 /\ x - 1 \in TaskIds /\ r \in TaskIds /\ r \in Int
          BY <1>1, <3>3, Constants DEF TaskIds
        <4>2. completed[x - 1] = Rows
          BY <3>2, <3>3, <4>1
        <4>3. working[x - 1] = Rows
          <5> DEFINE v == working[x - 1]
          <5>1. completed[x - 1] <= v
            BY <4>1 DEF IInv, Shared, ProgressInv
          <5>2. v \in 0 .. Rows
            BY <1>6, <4>1
          <5> HIDE DEF v
          <5>3. v = Rows
            BY <4>2, <5>1, <5>2, Constants
          <5> QED
            BY <5>3 DEF v
        <4>4. \A s \in 0 .. (x - 1) - 1 : completed[s] = Rows
          <5> DEFINE z == x - 1
          <5>1. z \in TaskIds /\ working[z] = Rows /\ Rows > 0
            BY <4>1, <4>3, Constants
          <5> HIDE DEF z
          <5>2. \A s \in 0 .. z - 1 : completed[s] = Rows
            BY <5>1 DEF IInv, Shared, ProgressInv
          <5> QED
            BY <5>2 DEF z
        <4>5. r = x - 1 \/ r \in 0 .. (x - 1) - 1
          BY <1>1, <3>3, <4>1
        <4> QED
          BY <4>2, <4>4, <4>5
      <3> QED
        BY <2>2, <3>1, <3>2, <3>3
    <2> QED
      BY <2>1, <2>2
  <1>8. BoundsInv'
    <2>1. ASSUME NEW q \in TaskIds, q < m_min  PROVE working'[q] = Rows
      <3>1. working[q] = Rows
        BY <2>1 DEF IInv, Shared, BoundsInv
      <3>2. q # x
        BY <1>1, <3>1, Constants
      <3> QED
        BY <1>2, <3>1, <3>2
    <2> QED
      BY <1>3, <2>1 DEF IInv, Shared, BoundsInv
  <1>9. \A r \in Row : completed'[r.tid] <= r.tsk /\ r.tsk < working'[r.tid]
                            <=> Reserved(r) \/ r = new
    <2> SUFFICES ASSUME NEW r \in Row
                 PROVE  completed[r.tid] <= r.tsk /\ r.tsk < working'[r.tid]
                            <=> Reserved(r) \/ r = new
      BY <1>3
    <2>1. /\ r.tid \in TaskIds /\ r.tsk \in Nat /\ working[r.tid] \in 0 .. Rows
          /\ (r = new <=> r.tid = x /\ r.tsk = y)
      BY <1>4, <1>6, RowTypes DEF TaskIds
    <2>2. Reserved(r) <=> completed[r.tid] <= r.tsk /\ r.tsk < working[r.tid]
      BY DEF Reserved
    <2>3. CASE r.tid = x
      BY <1>1, <1>2, <2>1, <2>2, <2>3
    <2>4. CASE r.tid # x
      BY <1>2, <2>1, <2>2, <2>4
    <2> QED
      BY <2>3, <2>4
  <1>10. ~Reserved(new)
    BY <1>1, <1>4 DEF Reserved
  <1>11. HeldInv'
    <2>1. \A u \in Workers : u # w /\ row'[u] # NoRow =>
              row'[u] = row[u] /\ row[u] \in Row /\ row[u] # new /\ Reserved(row[u])
      BY <1>4, <1>10 DEF IInv, Shared, HeldInv, Typed
    <2>2. \A n \in 1 .. Len(r_q) : r_q[n] \in Row => Reserved(r_q[n]) /\ r_q[n] # new
      BY <1>10 DEF IInv, Shared, HeldInv
    <2>3. (\A u \in Workers : row[u] # NoRow => Reserved(row[u]))'
      BY <1>4, <1>9, <2>1 DEF Reserved
    <2>4. (\A n \in 1 .. Len(r_q) : r_q[n] \in Row => Reserved(r_q[n]))'
      BY <1>3, <1>9, <2>2 DEF Reserved
    <2>5. \A v, u \in Workers : row'[v] = row'[u] /\ row'[v] # NoRow => v = u
      BY <1>4, <2>1 DEF IInv, Shared, HeldInv
    <2>6. \A u \in Workers, n \in 1 .. Len(r_q) : row'[u] = r_q[n] => row'[u] = NoRow
      BY <1>4, <2>1, <2>2 DEF IInv, Shared, HeldInv
    <2>7. ASSUME NEW r \in Row, Reserved(r)'
          PROVE  (\E u \in Workers : row'[u] = r) \/ (\E n \in 1 .. Len(r_q) : r_q[n] = r)
      <3>1. Reserved(r) \/ r = new
        BY <1>9, <2>7 DEF Reserved
      <3> QED
        BY <1>1, <1>4, <3>1, RowTypes DEF IInv, Shared, HeldInv
    <2>8. \A n, k \in 1 .. Len(r_q) : r_q[n] = r_q[k] /\ r_q[n] \in Row => n = k
      BY DEF IInv, Shared, HeldInv
    <2> QED
      BY <1>3, <2>3, <2>4, <2>5, <2>6, <2>7, <2>8 DEF HeldInv
  <1>12. EndInv'
    BY <1>3, TasksKept DEF IInv, Shared, EndInv, LastTaskDone
  <1>13. ASSUME NEW u \in Workers, u # w  PROVE Undisturbed(u)
    <2>1. \A q \in TaskIds : working[q] <= working'[q] /\ completed[q] <= completed'[q]
      BY <1>1, <1>2, <1>3, <1>6, Constants
    <2>2. ASSUME row[u] # NoRow, ~AnyOrder(row[u].tid)
          PROVE  working'[row[u].tid] = working[row[u].tid]
      <3>1. /\ row[u].tid \in TaskIds /\ row[u].tsk = completed[row[u].tid]
            /\ working[row[u].tid] = row[u].tsk + 1 /\ row[u].tsk \in 0 .. Rows - 1
        BY <2>2, CarriedRow DEF IInv, Shared
      <3>2. row[u].tid # x
        BY <1>1, <2>2, <3>1
      <3> QED
        BY <1>2, <3>1, <3>2
    <2>3. m_max <= m_max'
      BY <1>3, TypeFacts DEF IInv
    <2> QED
      BY <1>3, <2>1, <2>2, <2>3 DEF Undisturbed
  <1> QED
    BY <1>3, <1>4, <1>5, <1>7, <1>8, <1>11, <1>12, <1>13, WorkerStep

LEMMA PvtTakeKeeps ==
    ASSUME IInv, NEW w \in Workers, PvtTake(w)  PROVE IInv'
  <1> DEFINE l == loc[w]
             new == [tid |-> l.x, tsk |-> l.tw]
  <1>1. pc[w] = "pvt_take" /\ pc[w] # "idle"
    BY DEF PvtTake, At
  <1>2. /\ loc[w] \in LocalsType /\ l.max <= Last /\ row[w] = NoRow
        /\ l.x \in 0 .. Last /\ l.x \in TaskIds /\ l.tw \in Nat /\ l.tw < Rows /\ l.cs \in 0 .. Rows
    BY <1>1, WorkerFacts, Constants DEF ScanInv, PlaceInv, Looking, Taking, Carrying,
       Completing, MayCarry, MaxRead, TaskIds
  <1>3. CASE WordUnchanged(w) /\ Hold(w, new)
             /\ working' = [working EXCEPT ![l.x] = l.tw + 1]
             /\ completed' = [completed EXCEPT ![l.x] = l.tc]
             /\ IF l.tw + 1 > l.cs + CacheSize
                THEN Go(w, "pvt_window") /\ UNCHANGED loc
                ELSE PvtFound(w)
    <2>1. completed' = completed
      <3>1. completed \in [TaskIds -> 0 .. Rows] /\ completed[l.x] = l.tc
        BY <1>3 DEF WordUnchanged, IInv, Typed, TypeOK
      <3> QED
        BY <1>3, <3>1
    <2>2. new \in Row /\ row'[w] = new /\ new # NoRow
      <3>1. new \in Row
        BY <1>2, Constants DEF Row, RowSet
      <3> QED
        BY <1>3, <3>1, RowTypes DEF Hold, IInv, Typed
    <2>3. UNCHANGED <<tasks, bounds, waiting, m_nCacheStart, host>>
      BY DEF PvtTake
    <2> HIDE DEF new
    <2>4. Moves(w) /\ WorkerInv(w)'
      <3>1. CASE l.tw + 1 > l.cs + CacheSize
        <4>1. Moves(w) /\ pc'[w] = "pvt_window" /\ loc'[w] = l
          BY <1>1, <1>3, <3>1, GoMovesKeeping DEF PcStates
        <4>2. l.cs < Rows
          BY <1>2, <3>1, Constants
        <4> QED
          BY <1>2, <2>2, <2>3, <4>1, <4>2, TasksKept DEF WorkerInv, PlaceInv, ScanInv, CompleteInv, At, Looking, Taking,
         Completing, Carrying, MayCarry, Ending, MaxRead, InItsTurn
      <3>2. CASE ~(l.tw + 1 > l.cs + CacheSize)
        BY <1>1, <1>3, <2>2, <2>3, <3>2, PvtFoundMoves
      <3> QED
        BY <3>1, <3>2
    <2> QED
      BY <1>1, <1>3, <2>1, <2>3, <2>4, TakeKeeps DEF new
  <1>4. CASE NextTask(w) /\ UNCHANGED <<progress, row>>
    <2>1. /\ UNCHANGED <<tasks, progress, bounds, r_q, row, host>> /\ m_nBlocking' \in Int
          /\ m_nCacheStart' \in 0 .. Rows /\ m_mutex' \in Workers \cup {NoWorker}
      BY <1>4 DEF PvtTake, waiting, IInv, Typed, TypeOK
    <2> QED
      BY <1>1, <1>2, <1>4, <2>1, NextTaskMoves, QuietStep DEF Looking, Taking
  <1> QED
    BY <1>3, <1>4 DEF PvtTake
-----------------------------------------------------------------------------
(* The frame. *)

LEMMA AtIdle ==
    ASSUME NEW w \in Workers, pc'[w] = "idle", row'[w] = NoRow, loc'[w] = NoLocals
    PROVE  WorkerInv(w)'
  BY DEF WorkerInv, PlaceInv, ScanInv, CompleteInv, At, Looking, Taking,
         Completing, Carrying, MayCarry, Ending, MaxRead, InItsTurn

LEMMA InitKeeps == Init => IInv
  <1> SUFFICES ASSUME Init PROVE IInv
    OBVIOUS
  <1> USE Constants DEF Init
  <1>1. Typed
    <2>1. <<>> \in Seq(Kinds) /\ <<>> \in Seq(Row \cup {NoRow, END}) /\ Len(<<>>) = 0
      OBVIOUS
    <2>2. loc \in [Workers -> LocalsType]
      BY LocalsReset
    <2> QED
      BY <2>1, <2>2 DEF Typed, TypeOK, PcStates
  <1>2. FrameInv
    BY DEF FrameInv, At
  <1>3. ProgressInv /\ BoundsInv
    BY <1>1 DEF ProgressInv, BoundsInv, TaskIds
  <1>4. HeldInv
    <2>1. \A r \in Row : ~Reserved(r)
      BY DEF Reserved, Row, RowSet
    <2>2. 1 .. Len(r_q) = {}
      OBVIOUS
    <2> QED
      BY <2>1, <2>2 DEF HeldInv
  <1>5. EndInv
    BY DEF EndInv
  <1>6. ASSUME NEW w \in Workers PROVE WorkerInv(w)
    BY <1>6 DEF WorkerInv, PlaceInv, ScanInv, CompleteInv, At, Looking, Taking,
         Completing, Carrying, MayCarry, Ending, MaxRead, InItsTurn
  <1> QED
    BY <1>1, <1>2, <1>3, <1>4, <1>5, <1>6 DEF IInv, Shared

\* A worker outside a frame.
LEMMA IdleFacts ==
    ASSUME IInv, NEW w \in Workers, pc[w] \in {"idle", "done"}
    PROVE  row[w] = NoRow /\ loc[w] = NoLocals
  BY DEF IInv, WorkerInv, PlaceInv, ScanInv, CompleteInv, At, Looking, Taking,
         Completing, Carrying, MayCarry, Ending, MaxRead, InItsTurn

LEMMA AddKeeps ==
    ASSUME IInv, NEW k \in Kinds, mpCTaskAdd(k)  PROVE IInv'
  <1>1. /\ UNCHANGED <<completed, working, m_min, m_max, m_nBlocking, m_mutex, r_q,
                       m_nCacheStart, pc, row, loc, host>>
        /\ tasks' = Append(tasks, k) /\ host = "add" /\ Len(tasks) < MaxTasks
    BY DEF mpCTaskAdd, progress, bounds, waiting
  <1>2. /\ \A t \in TaskIds : completed[t] = 0 /\ working[t] = 0
        /\ m_min = 0 /\ m_max = 0 /\ r_q = <<>>
        /\ \A w \in Workers : pc[w] = "idle"
    BY <1>1 DEF IInv, Shared, FrameInv, At
  <1>3. tasks' \in Seq(Kinds) /\ Len(tasks') <= MaxTasks /\ Len(tasks') \in Nat
    BY <1>1, Constants DEF IInv, Typed, TypeOK
  <1>4. Typed'
    BY <1>1, <1>3 DEF IInv, Typed, TypeOK
  <1>5. FrameInv'
    BY <1>1, <1>2 DEF FrameInv, At
  <1>6. ProgressInv'
    BY <1>1, <1>2 DEF ProgressInv
  <1>7. BoundsInv'
    BY <1>1, <1>2, <1>3 DEF BoundsInv, TaskIds
  <1>8. HeldInv'
    BY <1>1 DEF IInv, Shared, HeldInv, Reserved
  <1>9. EndInv'
    <2>1. 1 .. Len(r_q) = {}
      BY <1>2
    <2> QED
      BY <1>1, <2>1 DEF EndInv
  <1>10. ASSUME NEW w \in Workers  PROVE WorkerInv(w)'
    BY <1>1, <1>2, IdleFacts, AtIdle
  <1> QED
    BY <1>4, <1>5, <1>6, <1>7, <1>8, <1>9, <1>10 DEF IInv, Shared

LEMMA FloodKeeps ==
    ASSUME IInv, Flood  PROVE IInv'
  <1>1. /\ UNCHANGED <<tasks, completed, working, m_min, m_max, m_nBlocking, m_mutex, r_q,
                       m_nCacheStart, row, loc>>
        /\ tasks # <<>> /\ host = "add" /\ host' = "run"
        /\ pc' = [w \in Workers |-> "obtain"]
    BY DEF Flood, progress, bounds, waiting
  <1>2. \A w \in Workers : pc[w] = "idle"
    BY <1>1 DEF IInv, Shared, FrameInv, At
  <1>3. Typed'
    BY <1>1 DEF IInv, Typed, TypeOK, PcStates
  <1>4. FrameInv'
    BY <1>1 DEF FrameInv, At
  <1>5. ProgressInv' /\ BoundsInv' /\ HeldInv' /\ EndInv'
    BY <1>1, TasksKept
       DEF IInv, Shared, ProgressInv, BoundsInv, HeldInv, Reserved, EndInv, LastTaskDone
  <1>6. ASSUME NEW w \in Workers  PROVE WorkerInv(w)'
    <2>1. Last >= 0 /\ NoLocals.max = 0
      BY <1>1, TypeFacts DEF IInv, NoLocals
    <2>2. row'[w] = NoRow /\ loc'[w] = NoLocals
      BY <1>1, <1>2, IdleFacts
    <2> QED
      BY <1>1, <2>1, <2>2, AtPlain, TasksKept DEF Plain
  <1> QED
    BY <1>3, <1>4, <1>5, <1>6 DEF IInv, Shared

LEMMA CollectKeeps ==
    ASSUME IInv, Collect  PROVE IInv'
  <1>1. /\ pc' = [w \in Workers |-> "idle"] /\ host' = "add"
        /\ UNCHANGED <<m_mutex, row, loc>>
        /\ \A w \in Workers : pc[w] = "done"
        /\ tasks' = <<>> /\ m_min' = 0 /\ m_max' = 0 /\ m_nBlocking' = 0
        /\ m_nCacheStart' = 0 /\ r_q' = <<>>
        /\ completed' = [t \in TaskIds |-> 0] /\ working' = [t \in TaskIds |-> 0]
    BY DEF Collect, mpCReset, At
  <1>2. \A w \in Workers : row[w] = NoRow /\ loc[w] = NoLocals
    BY <1>1, IdleFacts
  <1>3. /\ <<>> \in Seq(Kinds) /\ <<>> \in Seq(Row \cup {NoRow, END}) /\ Len(<<>>) = 0
        /\ 1 .. Len(r_q') = {}
    BY <1>1
  <1>4. Typed'
    BY <1>1, <1>3, Constants DEF IInv, Typed, TypeOK, PcStates
  <1>5. FrameInv'
    BY <1>1 DEF FrameInv, At
  <1>6. ProgressInv'
    BY <1>1 DEF ProgressInv
  <1>7. BoundsInv'
    BY <1>1, <1>3 DEF BoundsInv, TaskIds
  <1>8. HeldInv'
    <2>1. ASSUME NEW r \in Row  PROVE ~(completed'[r.tid] <= r.tsk /\ r.tsk < working'[r.tid])
      <3>1. r.tid \in TaskIds /\ r.tsk \in Nat
        BY RowTypes DEF TaskIds
      <3> QED
        BY <1>1, <3>1
    <2> QED
      BY <1>1, <1>2, <1>3, <2>1 DEF HeldInv, Reserved
  <1>9. EndInv'
    BY <1>3 DEF EndInv
  <1>10. ASSUME NEW w \in Workers  PROVE WorkerInv(w)'
    BY <1>1, <1>2, AtIdle
  <1> QED
    BY <1>4, <1>5, <1>6, <1>7, <1>8, <1>9, <1>10 DEF IInv, Shared
-----------------------------------------------------------------------------
(* The theorems. *)

LEMMA NextKeeps == IInv /\ [Next]_vars => IInv'
  <1> SUFFICES ASSUME IInv, [Next]_vars  PROVE IInv'
    OBVIOUS
  <1>1. ASSUME NEW k \in Kinds, mpCTaskAdd(k)  PROVE IInv'
    BY <1>1, AddKeeps
  <1>2. CASE Flood
    BY <1>2, FloodKeeps
  <1>3. CASE Collect
    BY <1>3, CollectKeeps
  <1>4. ASSUME NEW w \in Workers, mpCTaskObtainPvt(w)  PROVE IInv'
    BY <1>4, PvtProgressKeeps, PvtCacheKeeps, PvtPrevKeeps, PvtTakeKeeps, PvtWindowKeeps
       DEF mpCTaskObtainPvt
  <1>5. ASSUME NEW w \in Workers, mpCTaskObtain(w)  PROVE IInv'
    BY <1>5, ObtainMinKeeps, ObtainMaxKeeps, ObtainNoneKeeps, EndReadKeeps, EndSetKeeps,
       PushEndKeeps, CountKeeps, PopKeeps DEF mpCTaskObtain
  <1>6. ASSUME NEW w \in Workers, mpCTaskComplete(w)  PROVE IInv'
    BY <1>6, ReadProgressKeeps, ReadMinKeeps, ReadMaxKeeps, SpinKeeps, MinUpKeeps,
       WindowResetKeeps, MaxUpKeeps, CompleteRowKeeps, SignalKeeps, GiveKeeps, GivenKeeps,
       ForwardKeeps, ForwardFoundKeeps, ForwardPushKeeps, ForwardNoneKeeps
       DEF mpCTaskComplete
  <1>7. CASE UNCHANGED vars
    BY <1>7 DEF vars, IInv, Typed, TypeOK, Shared, FrameInv, ProgressInv, BoundsInv, HeldInv,
       Reserved, EndInv, LastTaskDone, Last, AnyOrder, Bottom, PrevFinished, WorkerInv, PlaceInv, ScanInv, CompleteInv, At, Looking, Taking,
         Completing, Carrying, MayCarry, Ending, MaxRead, InItsTurn
  <1> QED
    BY <1>1, <1>2, <1>3, <1>4, <1>5, <1>6, <1>7 DEF Next, Worker

\* Every state the scheduler reaches satisfies the inductive invariant: whatever the number
\* of workers and wherever each of them is, between two compare-and-swaps of
\* mpCTaskObtainPvt or in the middle of mpCTaskComplete.
THEOREM AtomicInvariant == Spec => []IInv
  BY InitKeeps, NextKeeps, PTL DEF Spec

\* The types, and with them that no count leaves its range: no row number beyond the field,
\* no task beyond the frame, no message beyond the size of the queue.
THEOREM AtomicTyping == Spec => []TypeOK
  BY AtomicInvariant, PTL DEF IInv, Typed

\* No errorAssert of mpCTaskComplete fails (Spec => []AssertionsHold).
THEOREM NoAssertionFails == Spec => []AssertionsHold
  <1>1. IInv => AssertionsHold
    BY DEF IInv, WorkerInv, PlaceInv, AssertionsHold
  <1> QED
    BY <1>1, AtomicInvariant, PTL

\* mpCTaskObtain overlooks no task that has a row to hand out (Spec => []ScanCovers).
THEOREM ScanIsComplete == Spec => []ScanCovers
  <1>1. IInv => ScanCovers
    <2> SUFFICES ASSUME IInv, NEW t \in 0 .. Last
                 PROVE  /\ t < m_min => working[t] = Rows
                        /\ t > m_max + 1 => completed[t - 1] = 0
      BY DEF ScanCovers
    <2>1. t \in TaskIds /\ t \in Nat /\ m_max \in Nat
      BY TypeFacts DEF IInv
    <2>2. t < m_min => working[t] = Rows
      BY <2>1 DEF IInv, Shared, BoundsInv
    <2>3. ASSUME t > m_max + 1  PROVE completed[t - 1] = 0
      <3>1. t - 1 \in TaskIds /\ ~(t - 1 < m_max)
        BY <2>1, <2>3, Constants DEF TaskIds
      <3>2. completed[t - 1] \in Nat /\ ~(completed[t - 1] > 0)
        BY <3>1, TypeFacts DEF IInv, Shared, BoundsInv
      <3> QED
        BY <3>2
    <2> QED
      BY <2>2, <2>3
  <1> QED
    BY <1>1, AtomicInvariant, PTL

\* A row that is reserved has one holder, and every other row has none.
LEMMA HoldersOfRow ==
    ASSUME IInv, NEW r \in Row
    PROVE  Holders(r) = IF Reserved(r) THEN 1 ELSE 0
  <1> DEFINE A == {w \in Workers : row[w] = r}
             B == {i \in 1 .. Len(r_q) : r_q[i] = r}
  <1>0. HeldInv /\ r # NoRow
    BY RowTypes DEF IInv, Shared
  <1>1. Holders(r) = Cardinality(A) + Cardinality(B)
    BY DEF Holders
  <1>2. Cardinality({}) = 0 /\ \A x : Cardinality({x}) = 1
    BY FS_EmptySet, FS_Singleton
  <1> HIDE DEF A, B
  <1>3. CASE \E w \in Workers : row[w] = r
    <2>1. PICK w \in Workers : row[w] = r
      BY <1>3
    <2>2. A = {w} /\ B = {}
      BY <1>0, <2>1 DEF HeldInv, A, B
    <2>3. Reserved(r)
      BY <1>0, <2>1 DEF HeldInv
    <2> QED
      BY <1>1, <1>2, <2>2, <2>3
  <1>4. CASE \E n \in 1 .. Len(r_q) : r_q[n] = r
    <2>1. PICK n \in 1 .. Len(r_q) : r_q[n] = r
      BY <1>4
    <2>2. A = {} /\ B = {n}
      BY <1>0, <2>1 DEF HeldInv, A, B
    <2>3. Reserved(r)
      BY <1>0, <2>1 DEF HeldInv
    <2>4. Cardinality(A) = 0 /\ Cardinality(B) = 1
      BY <1>2, <2>2, Zenon
    <2> QED
      BY <1>1, <2>3, <2>4
  <1>5. CASE ~(\E w \in Workers : row[w] = r) /\ ~(\E n \in 1 .. Len(r_q) : r_q[n] = r)
    <2>1. A = {} /\ B = {}
      BY <1>5 DEF A, B
    <2>2. ~Reserved(r)
      BY <1>0, <1>5 DEF HeldInv
    <2> QED
      BY <1>1, <1>2, <2>1, <2>2
  <1> QED
    BY <1>3, <1>4, <1>5

\* No row is lost, and none is run twice, when it goes from the worker that reserved it
\* through the queue to the one that runs it (Spec => []RowHeldOnce).
THEOREM RowsKept == Spec => []RowHeldOnce
  <1>1. IInv => RowHeldOnce
    <2> SUFFICES ASSUME IInv, NEW t \in TaskIds, NEW y \in RowSet
                 PROVE  Holders([tid |-> t, tsk |-> y]) =
                            IF completed[t] <= y /\ y < working[t] THEN 1 ELSE 0
      BY DEF RowHeldOnce
    <2> DEFINE r == [tid |-> t, tsk |-> y]
    <2>1. r \in Row /\ r.tid = t /\ r.tsk = y
      BY DEF Row
    <2> HIDE DEF r
    <2>2. Reserved(r) <=> completed[t] <= y /\ y < working[t]
      BY <2>1 DEF Reserved
    <2>3. Holders(r) = IF Reserved(r) THEN 1 ELSE 0
      BY <2>1, HoldersOfRow
    <2> QED
      BY <2>2, <2>3 DEF r
  <1> QED
    BY <1>1, AtomicInvariant, PTL
-----------------------------------------------------------------------------
(* The scheduler implements the windows of rows. *)

Stage == IF host = "run" THEN "run" ELSE "add"
WindowVars == <<tasks, completed, working, Stage>>

LEMMA TakeIsStart ==
    ASSUME IInv, NEW w \in Workers, PvtTake(w)
    PROVE  (\E t \in TaskIds : Windows!Start(t)) \/ UNCHANGED WindowVars
  <1> DEFINE x == loc[w].x
             y == loc[w].tw
  <1>1. pc[w] = "pvt_take" /\ pc[w] # "idle" /\ UNCHANGED <<tasks, host>>
    BY DEF PvtTake, At
  <1>2. CASE WordUnchanged(w) /\ working' = [working EXCEPT ![x] = y + 1]
             /\ completed' = [completed EXCEPT ![x] = loc[w].tc]
    <2>1. /\ x \in 0 .. Last /\ x \in TaskIds /\ x \in Nat
          /\ y \in Nat /\ y < Rows /\ working[x] = y /\ completed[x] = loc[w].tc
          /\ ~AnyOrder(x) => loc[w].tc = y
          /\ x > 0 => PrevFinished(x, y)
          /\ host = "run" /\ AnyOrder(x) \in BOOLEAN
      BY <1>1, <1>2, WorkerFacts, TypeFacts, Constants DEF WordUnchanged, ScanInv, Looking, Taking, TaskIds, IInv
    <2>2. completed' = completed /\ working' = [working EXCEPT ![x] = working[x] + 1]
      BY <1>2, <2>1 DEF IInv, Typed, TypeOK
    <2>3. x \in Windows!Added
      BY <2>1 DEF Windows!Added, Last
    <2>4. tasks[x + 1].any \/ working[x] = completed[x]
      BY <2>1 DEF AnyOrder
    <2>5. Windows!Ahead(x)
      BY <2>1 DEF Windows!Ahead, Windows!Least, PrevFinished, Least, Bottom
    <2>6. Windows!Start(x)
      BY <1>1, <2>1, <2>2, <2>3, <2>4, <2>5 DEF Windows!Start
    <2> QED
      BY <2>1, <2>6
  <1>3. CASE UNCHANGED progress
    BY <1>1, <1>3 DEF progress, WindowVars, Stage
  <1> QED
    BY <1>2, <1>3 DEF PvtTake

LEMMA CompleteIsFinish ==
    ASSUME IInv, NEW w \in Workers, CompleteRow(w)
    PROVE  \E t \in TaskIds : Windows!Finish(t)
  <1> DEFINE t == row[w].tid
  <1>1. pc[w] = "complete" /\ UNCHANGED <<tasks, working, host>>
    BY DEF CompleteRow, At
  <1>2. /\ row[w] # NoRow /\ pc[w] # "idle" /\ t \in TaskIds
        /\ row[w].tsk < working[t] /\ completed[t] <= row[w].tsk
    BY <1>1, RowRead DEF Completing
  <1>3. /\ ~AnyOrder(t) => loc[w].tc = completed[t] /\ loc[w].tw = working[t]
        /\ completed[t] = row[w].tsk
    BY <1>1, <1>2, WorkerFacts DEF CompleteInv, Completing, InItsTurn
  <1>4. completed' = [completed EXCEPT ![t] = completed[t] + 1]
    BY <1>3 DEF CompleteRow
  <1>5. Windows!Finish(t)
    BY <1>1, <1>2, <1>3, <1>4 DEF Windows!Finish
  <1> QED
    BY <1>2, <1>5

\* The frame is collected when a worker has seen the last row of the last task completed:
\* the rows of the other tasks were completed before that one was handed out.
LEMMA CollectIsCollect ==
    ASSUME IInv, Collect
    PROVE  Windows!Collect
  <1>1. host = "run" /\ \A w \in Workers : pc[w] = "done"
    BY DEF Collect, At
  <1>2. PICK w \in Workers : pc[w] = "done"
    BY <1>1, Constants
  <1>3. LastTaskDone /\ Last \in Nat /\ Last \in TaskIds
    BY <1>2, WorkerFacts DEF PlaceInv, Ending
  <1>4. working[Last] = Rows
    <2> DEFINE v == working[Last]
    <2>1. v \in 0 .. Rows /\ completed[Last] <= v
      BY <1>3 DEF IInv, Typed, TypeOK, Shared, ProgressInv
    <2> HIDE DEF v
    <2>2. v = Rows
      BY <1>3, <2>1, Constants DEF LastTaskDone
    <2> QED
      BY <2>2 DEF v
  <1>5. \A s \in 0 .. Last - 1 : completed[s] = Rows
    <2> DEFINE z == Last
    <2>1. z \in TaskIds /\ working[z] = Rows /\ Rows > 0
      BY <1>3, <1>4, Constants
    <2> HIDE DEF z
    <2>2. \A s \in 0 .. z - 1 : completed[s] = Rows
      BY <2>1 DEF IInv, Shared, ProgressInv
    <2> QED
      BY <2>2 DEF z
  <1>6. \A t \in Windows!Added : completed[t] = Rows
    <2> SUFFICES ASSUME NEW t \in Windows!Added PROVE completed[t] = Rows
      OBVIOUS
    <2>1. t \in 0 .. Last
      BY DEF Windows!Added, Last
    <2>2. t = Last \/ t \in 0 .. Last - 1
      BY <1>3, <2>1
    <2> QED
      BY <1>3, <1>5, <2>2 DEF LastTaskDone
  <1> QED
    BY <1>1, <1>6 DEF Collect, mpCReset, Windows!Collect, Windows!TaskIds, TaskIds

LEMMA WorkerIsWindow ==
    ASSUME IInv, NEW w \in Workers, Worker(w)
    PROVE  Windows!WNext \/ UNCHANGED WindowVars
  <1>1. CASE PvtTake(w)
    BY <1>1, TakeIsStart DEF Windows!WNext, Windows!TaskIds, TaskIds
  <1>2. CASE CompleteRow(w)
    BY <1>2, CompleteIsFinish DEF Windows!WNext, Windows!TaskIds, TaskIds
  <1>3. CASE PvtProgress(w) \/ PvtCache(w) \/ PvtPrev(w) \/ PvtWindow(w)
    BY <1>3 DEF PvtProgress, PvtCache, PvtPrev, PvtWindow, progress, WindowVars, Stage
  <1>4. CASE mpCTaskObtain(w)
    BY <1>4 DEF mpCTaskObtain, ObtainMin, ObtainMax, ObtainNone, EndRead, EndSet, PushEnd,
       Count, Pop, progress, WindowVars, Stage
  <1>5. CASE \/ ReadProgress(w) \/ ReadMin(w) \/ ReadMax(w) \/ Spin(w) \/ MinUp(w)
             \/ WindowReset(w) \/ MaxUp(w)
    BY <1>5 DEF ReadProgress, ReadMin, ReadMax, Spin, MinUp, WindowReset, MaxUp,
       progress, WindowVars, Stage
  <1>6. CASE \/ Signal(w) \/ SignalLock(w) \/ Give(w) \/ Given(w) \/ Forward(w)
             \/ ForwardFound(w) \/ ForwardPush(w) \/ ForwardNone(w)
    BY <1>6 DEF Signal, SignalLock, Give, Given, Forward, ForwardFound, ForwardPush,
       ForwardNone, progress, WindowVars, Stage
  <1> QED
    BY <1>1, <1>2, <1>3, <1>4, <1>5, <1>6 DEF Worker, mpCTaskObtainPvt, mpCTaskComplete

\* Compare-and-swaps keep the windows of rows (Spec => ImplementsWindows): every row of every
\* task is handed out and completed once, in order where the task asks for it, and never
\* before the rows of the task below that it reads.
THEOREM AtomicIsWindows == Spec => ImplementsWindows
  <1>1. Init => Windows!WInit
    BY DEF Init, Windows!WInit, Windows!TaskIds, TaskIds
  <1>2. IInv /\ [Next]_vars => [Windows!WNext]_WindowVars
    <2> SUFFICES ASSUME IInv, [Next]_vars
                 PROVE  Windows!WNext \/ UNCHANGED WindowVars
      OBVIOUS
    <2>1. CASE UNCHANGED vars
      BY <2>1 DEF vars, WindowVars, Stage
    <2>2. ASSUME NEW k \in Kinds, mpCTaskAdd(k)  PROVE Windows!WNext
      <3>1. Windows!Add(k)
        BY <2>2 DEF mpCTaskAdd, progress, Windows!Add
      <3> QED
        BY <3>1 DEF Windows!WNext
    <2>3. CASE Flood
      BY <2>3 DEF Flood, progress, Windows!WNext, Windows!Launch
    <2>4. CASE Collect
      BY <2>4, CollectIsCollect DEF Windows!WNext
    <2>5. ASSUME NEW w \in Workers, Worker(w)  PROVE Windows!WNext \/ UNCHANGED WindowVars
      BY <2>5, WorkerIsWindow
    <2> QED
      BY <2>1, <2>2, <2>3, <2>4, <2>5 DEF Next
  <1>3. WindowVars = Windows!windowVars
    BY DEF WindowVars, Stage, Windows!windowVars
  <1> QED
    BY <1>1, <1>2, <1>3, AtomicInvariant, PTL
       DEF Spec, ImplementsWindows, Windows!WSpec, Windows!windowVars, WindowVars, Stage
=============================================================================
