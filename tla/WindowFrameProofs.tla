------------------------- MODULE WindowFrameProofs -------------------------
(***************************************************************************)
(* Proofs about the build without Grand Central Dispatch.  The first part  *)
(* is about the frames on the contract of its scheduler, for any number of *)
(* rows, any distances and accuracies, and any set of configurations: the  *)
(* rule for beginning a row looks at the task before only; Spaced adds up  *)
(* what that means for all earlier tasks.  The second part is about the    *)
(* tokens by which the host collects the frames of any number of fluids    *)
(* from any number of workers: TokensInv counts them.                      *)
(***************************************************************************)
EXTENDS WindowFrame, TaskWorld, FluidTasksProofs, SequenceTheorems, FiniteSetTheorems, TLAPS

(***************************************************************************)
(* Frames on RowWindows.                                                   *)
(***************************************************************************)

\* The distances in front of task t, and those up to it.
Before(t) == Offset[config][t]
UpTo(t) == Offset[config][t + 1]

Typed ==
    /\ config \in Configs
    /\ tasks \in Seq([bottom : Nat, any : BOOLEAN])
    /\ Len(tasks) <= MaxTasks
    /\ done \in [TaskIds -> Nat]
    /\ started \in [TaskIds -> Nat]
    /\ stage \in {"add", "run"}

\* The scheduler holds tasks of the frame.
Prefix ==
    /\ Len(tasks) <= Len(Todo)
    /\ \A k \in 1 .. Len(tasks) :
          tasks[k].bottom = Todo[k].bottom /\ tasks[k].any = Todo[k].any
    /\ stage = "add" => \A t \in TaskIds : started[t] = 0

\* Rows are finished in order, and those of a task in order are run one by one.
Windows ==
    \A t \in TaskIds :
       /\ done[t] <= started[t] /\ started[t] <= Rows
       /\ t \in Added /\ ~tasks[t + 1].any => started[t] <= done[t] + 1

\* The distances are numbers that do not decrease.
Growing ==
    \A k, j \in 0 .. Len(tasks) :
       /\ Offset[config][k] \in Nat
       /\ k <= j => Offset[config][k] <= Offset[config][j]

\* A task that has begun n rows has every earlier task n rows ahead and the distances in
\* between, or finished.
Spaced ==
    \A t, u \in TaskIds :
       t < u /\ u \in Added /\ started[u] > 0
          => done[t] = Rows \/ done[t] >= started[u] + UpTo(u) - UpTo(t)

WInv == Typed /\ Prefix /\ Windows /\ Growing /\ Spaced

OffsetsSum ==
    \A c \in Configs : WindowsTyped(c) /\ OffsetsAdd(c)

FramesOrdered == \A c \in Configs : WindowsSuffice(c) /\ RowsApart(c)
-----------------------------------------------------------------------------
\* What the proofs use of the constants and the types.
LEMMA WindowTypes ==
    ASSUME Typed
    PROVE  /\ Rows \in Nat \ {0} /\ MaxTasks \in Nat /\ Len(tasks) \in Nat
           /\ Added \subseteq TaskIds
           /\ \A t \in TaskIds : t \in Nat /\ done[t] \in Nat /\ started[t] \in Nat
           /\ \A t \in Added : /\ t \in Nat /\ t + 1 \in 1 .. Len(tasks)
                               /\ (t > 0 => t - 1 \in Added)
                               /\ tasks[t + 1] \in [bottom : Nat, any : BOOLEAN]
  <1>1. Rows \in Nat \ {0} /\ MaxTasks \in Nat /\ Len(tasks) \in Nat
    BY FieldAssumption, WindowsAssumption, LenProperties DEF FieldAssumption, WindowsAssumption, Typed
  <1>2. ASSUME NEW t \in Added
        PROVE  t \in Nat /\ t + 1 \in 1 .. Len(tasks) /\ (t > 0 => t - 1 \in Added)
               /\ t \in TaskIds
    BY <1>1, <1>2 DEF Added, TaskIds, Typed
  <1>3. ASSUME NEW t \in Added PROVE tasks[t + 1] \in [bottom : Nat, any : BOOLEAN]
    BY <1>2, <1>3, ElementOfSeq DEF Typed
  <1>4. \A t \in TaskIds : t \in Nat /\ done[t] \in Nat /\ started[t] \in Nat
    BY <1>1 DEF TaskIds, Typed
  <1> QED
    BY <1>1, <1>2, <1>3, <1>4

\* The tasks of a frame.
LEMMA FrameWindows ==
    ASSUME OffsetsSum, NEW c \in Configs
    PROVE  /\ Len(Frames[c].windows) \in Nat
           /\ \A n \in 1 .. Len(Frames[c].windows) :
                 /\ Frames[c].windows[n].fn \in 0 .. Len(Frames[c].fns) - 1
                 /\ Frames[c].windows[n].bottom \in Nat
                 /\ Frames[c].windows[n].any \in BOOLEAN
                 /\ Offset[c][n] = Offset[c][n - 1] + Frames[c].windows[n].bottom
  <1> DEFINE w == Frames[c].windows
             Entry == [fn : 0 .. Len(Frames[c].fns) - 1, bottom : Nat, any : BOOLEAN]
  <1>1. w \in Seq(Entry) /\ OffsetsAdd(c)
    BY DEF OffsetsSum, WindowsTyped
  <1>2. \A n \in 1 .. Len(w) : Offset[c][n] = Offset[c][n - 1] + w[n].bottom
    BY <1>1 DEF OffsetsAdd
  <1> HIDE DEF w
  <1>3. Len(w) \in Nat /\ \A n \in 1 .. Len(w) : w[n] \in Entry
    BY <1>1, ElementOfSeq, LenProperties
  <1> QED
    BY <1>2, <1>3 DEF w

\* The first state of a frame.
LEMMA WindowsInit ==
    ASSUME OffsetsSum
    PROVE  WInit /\ config \in Configs => WInv
  <1> SUFFICES ASSUME WInit, config \in Configs PROVE WInv
    OBVIOUS
  <1>1. Len(tasks) = 0 /\ tasks \in Seq([bottom : Nat, any : BOOLEAN]) /\ Added = {}
    BY DEF WInit, Added
  <1>2. Rows \in Nat
    BY FieldAssumption DEF FieldAssumption
  <1>3. Typed
    BY <1>1, WindowsAssumption DEF WInit, Typed, WindowsAssumption
  <1>4. Len(Todo) \in Nat
    BY FrameWindows DEF Todo
  <1>5. Prefix
    BY <1>1, <1>4 DEF WInit, Prefix
  <1>6. Windows
    BY <1>1, <1>2 DEF WInit, Windows
  <1>7. Growing
    <2>1. Offset[config][0] = 0
      BY DEF OffsetsSum, OffsetsAdd
    <2> QED
      BY <1>1, <2>1 DEF Growing
  <1>8. Spaced
    BY <1>1 DEF Spaced
  <1> QED
    BY <1>3, <1>5, <1>6, <1>7, <1>8 DEF WInv

\* The state in which the next frame begins.
LEMMA FrameBegins ==
    ASSUME OffsetsSum, tasks' = <<>>, stage' = "add", config' \in Configs,
           done' = [t \in TaskIds |-> 0], started' = [t \in TaskIds |-> 0]
    PROVE  WInv'
  <1>1. Len(tasks') = 0 /\ tasks' \in Seq([bottom : Nat, any : BOOLEAN]) /\ Added' = {}
    BY DEF Added
  <1>2. Rows \in Nat
    BY FieldAssumption DEF FieldAssumption
  <1>3. Typed'
    BY <1>1, WindowsAssumption DEF Typed, WindowsAssumption
  <1>4. Len(Todo') \in Nat
    BY FrameWindows DEF Todo
  <1>5. Prefix'
    BY <1>1, <1>4 DEF Prefix
  <1>6. Windows'
    BY <1>1, <1>2 DEF Windows
  <1>7. Growing'
    <2>1. Offset[config'][0] = 0
      BY DEF OffsetsSum, OffsetsAdd
    <2> QED
      BY <1>1, <2>1 DEF Growing
  <1>8. Spaced'
    BY <1>1 DEF Spaced
  <1> QED
    BY <1>3, <1>5, <1>6, <1>7, <1>8 DEF WInv

\* A task is added: its offset is the last one and its distance.
LEMMA AddKeeps ==
    ASSUME OffsetsSum, WInv, AddNextTask
    PROVE  WInv'
  <1> DEFINE n == Len(tasks) + 1
             kind == [bottom |-> Todo[n].bottom, any |-> Todo[n].any]
  <1>1. /\ tasks' = Append(tasks, kind) /\ n \in 1 .. Len(Todo)
        /\ Len(tasks) < MaxTasks /\ stage = "add" /\ stage' = "add"
        /\ done' = done /\ started' = started /\ config' = config
    <2>1. Len(tasks) \in Nat /\ Len(Todo) \in Nat
      BY WindowTypes, FrameWindows DEF WInv, Typed, Todo
    <2> QED
      BY <2>1 DEF AddNextTask, Add
  <1>2. /\ config \in Configs /\ Len(tasks) \in Nat /\ MaxTasks \in Nat /\ Rows \in Nat
        /\ tasks \in Seq([bottom : Nat, any : BOOLEAN])
    BY WindowTypes DEF WInv, Typed
  <1>3. kind \in [bottom : Nat, any : BOOLEAN]
    BY <1>1, <1>2, FrameWindows DEF Todo
  <1> HIDE DEF kind
  <1>4. /\ tasks' \in Seq([bottom : Nat, any : BOOLEAN]) /\ Len(tasks') = Len(tasks) + 1
        /\ \A k \in 1 .. Len(tasks) : tasks'[k] = tasks[k]
        /\ tasks'[Len(tasks) + 1] = kind
    BY <1>1, <1>2, <1>3, AppendProperties
  <1>5. Typed'
    BY <1>1, <1>2, <1>4 DEF WInv, Typed
  <1>6. Prefix'
    <2>1. Todo' = Todo
      BY <1>1 DEF Todo
    <2>2. ASSUME NEW k \in 1 .. Len(tasks')
          PROVE  tasks'[k].bottom = Todo[k].bottom /\ tasks'[k].any = Todo[k].any
      <3>1. CASE k = Len(tasks) + 1
        BY <1>4, <3>1 DEF kind
      <3>2. CASE k # Len(tasks) + 1
        <4>1. k \in 1 .. Len(tasks)
          BY <1>2, <1>4, <3>2
        <4> QED
          BY <1>4, <4>1 DEF WInv, Prefix
      <3> QED
        BY <3>1, <3>2
    <2>3. Len(tasks') <= Len(Todo)
      BY <1>1, <1>4
    <2>4. \A t \in TaskIds : started'[t] = 0
      BY <1>1 DEF WInv, Prefix
    <2> QED
      BY <2>1, <2>2, <2>3, <2>4 DEF Prefix
  <1>7. \A t \in TaskIds : started[t] = 0 /\ done[t] = 0
    <2>1. \A t \in TaskIds : started[t] = 0
      BY <1>1 DEF WInv, Prefix
    <2> QED
      BY <2>1, WindowTypes DEF WInv, Windows
  <1>8. Windows'
    BY <1>1, <1>2, <1>7 DEF Windows
  <1>9. Growing'
    <2>1. Offset[config][n] = Offset[config][n - 1] + Todo[n].bottom /\ Todo[n].bottom \in Nat
      BY <1>1, <1>2, FrameWindows DEF Todo
    <2>2. \A k, j \in 0 .. Len(tasks) :
             Offset[config][k] \in Nat /\ (k <= j => Offset[config][k] <= Offset[config][j])
      BY DEF WInv, Growing
    <2>3. n - 1 = Len(tasks) /\ n = Len(tasks) + 1
      BY <1>2
    <2> HIDE DEF n
    <2>4. ASSUME NEW k \in 0 .. n
          PROVE  Offset[config][k] \in Nat /\ Offset[config][k] <= Offset[config][n]
      <3>1. CASE k = n
        BY <1>2, <2>1, <2>2, <2>3, <3>1
      <3>2. CASE k # n
        BY <1>2, <2>1, <2>2, <2>3, <3>2
      <3> QED
        BY <3>1, <3>2
    <2>5. ASSUME NEW k \in 0 .. n, NEW j \in 0 .. n, k <= j
          PROVE  Offset[config][k] <= Offset[config][j]
      <3>1. CASE j = n
        BY <2>4, <3>1
      <3>2. CASE j # n
        BY <1>2, <2>2, <2>3, <2>5, <3>2
      <3> QED
        BY <3>1, <3>2
    <2> QED
      BY <1>1, <1>4, <2>3, <2>4, <2>5 DEF Growing
  <1>10. Spaced'
    BY <1>1, <1>7 DEF Spaced
  <1> QED
    BY <1>5, <1>6, <1>8, <1>9, <1>10 DEF WInv

\* The frame is launched.
LEMMA LaunchKeeps ==
    ASSUME WInv, LaunchFrame
    PROVE  WInv'
  <1>1. /\ tasks' = tasks /\ done' = done /\ started' = started /\ config' = config
        /\ stage' = "run"
    BY DEF LaunchFrame, Launch
  <1>2. Added' = Added /\ Todo' = Todo
    BY <1>1 DEF Added, Todo
  <1>3. Typed'
    BY <1>1 DEF WInv, Typed
  <1>4. Prefix'
    BY <1>1, <1>2 DEF WInv, Prefix
  <1>5. Windows'
    BY <1>1, <1>2 DEF WInv, Windows
  <1>6. Growing' /\ Spaced'
    BY <1>1, <1>2 DEF WInv, Growing, Spaced, UpTo
  <1> QED
    BY <1>3, <1>4, <1>5, <1>6 DEF WInv

\* The distances of two windows, one behind the other, add up (v, d: rows done; n: rows
\* begun by the last task, s: by the one in between; a, o, b: offsets).
LEMMA TwoWindows ==
    ASSUME NEW v \in Nat, NEW d \in Nat, NEW n \in Nat, NEW s \in Nat,
           NEW a \in Nat, NEW o \in Nat, NEW b \in Nat, NEW r \in Nat,
           d = r \/ d >= n + b - o, v = r \/ v >= s + o - a,
           d <= s, s <= r, v <= r, a <= o
    PROVE  v = r \/ v >= n + b - a
  <1>1. CASE d = r
    BY <1>1
  <1>2. CASE d >= n + b - o
    BY <1>2
  <1> QED
    BY <1>1, <1>2

\* A row of task t begins: its predecessor is ahead, and so is every task before that.
LEMMA StartKeeps ==
    ASSUME OffsetsSum, WInv, NEW t \in TaskIds, Start(t), config' = config
    PROVE  WInv'
  <1>1. /\ tasks' = tasks /\ done' = done /\ stage' = "run" /\ stage = "run"
        /\ started' = [started EXCEPT ![t] = started[t] + 1]
        /\ t \in Added /\ started[t] < Rows
    BY DEF Start
  <1>2. Added' = Added /\ Todo' = Todo
    BY <1>1 DEF Added, Todo
  <1>3. /\ Rows \in Nat \ {0} /\ Len(tasks) \in Nat /\ Added \subseteq TaskIds
        /\ \A u \in TaskIds : u \in Nat /\ done[u] \in Nat /\ started[u] \in Nat
                              /\ done[u] <= started[u] /\ started[u] <= Rows
    BY WindowTypes DEF WInv, Windows
  <1>4. \A u \in TaskIds : started'[u] = IF u = t THEN started[t] + 1 ELSE started[u]
    BY <1>1 DEF WInv, Typed
  <1>5. Typed'
    BY <1>1, <1>3 DEF WInv, Typed
  <1>6. Prefix'
    BY <1>1, <1>2 DEF WInv, Prefix
  <1>7. Windows'
    <2>1. \A u \in TaskIds : done[u] <= started'[u] /\ started'[u] <= Rows
      BY <1>1, <1>3, <1>4
    <2>2. ASSUME NEW u \in TaskIds, u \in Added, ~tasks[u + 1].any
          PROVE  started'[u] <= done[u] + 1
      <3>1. CASE u = t
        <4>1. started[t] = done[t]
          BY <2>2, <3>1 DEF Start
        <4> QED
          BY <1>3, <1>4, <3>1, <4>1
      <3>2. CASE u # t
        BY <1>4, <2>2, <3>2 DEF WInv, Windows
      <3> QED
        BY <3>1, <3>2
    <2> QED
      BY <1>1, <1>2, <2>1, <2>2 DEF Windows
  <1>8. Growing'
    BY <1>1 DEF WInv, Growing
  <1>9. Spaced'
    <2>1. SUFFICES ASSUME NEW x \in TaskIds, NEW u \in TaskIds, x < u, u \in Added,
                          started'[u] > 0
                   PROVE  \/ done[x] = Rows
                          \/ done[x] >= started'[u] + Offset[config][u + 1] - Offset[config][x + 1]
      BY <1>1, <1>2 DEF Spaced, UpTo
    <2>2. CASE u # t
      BY <1>4, <2>1, <2>2 DEF WInv, Spaced, UpTo
    <2>3. CASE u = t
      <3>1. /\ u - 1 \in Added /\ u - 1 \in TaskIds /\ u \in Nat /\ x \in Nat
            /\ u + 1 \in 1 .. Len(tasks)
        BY <1>3, <2>1, WindowTypes DEF WInv
      <3>2. done[u - 1] > Least(started[u] + tasks[u + 1].bottom, Rows - 1)
        BY <2>1, <2>3, <3>1 DEF Start, Ahead
      <3>3. /\ tasks[u + 1].bottom = Offset[config][u + 1] - Offset[config][u]
            /\ tasks[u + 1].bottom \in Nat
        <4>1. tasks[u + 1].bottom = Todo[u + 1].bottom /\ u + 1 \in 1 .. Len(Todo)
          <5>1. Len(Todo) \in Nat /\ Len(tasks) <= Len(Todo)
            BY FrameWindows DEF WInv, Typed, Prefix, Todo
          <5>2. tasks[u + 1].bottom = Todo[u + 1].bottom
            BY <3>1 DEF WInv, Prefix
          <5> QED
            BY <1>3, <3>1, <5>1, <5>2
        <4>2. /\ Offset[config][u + 1] = Offset[config][(u + 1) - 1] + Todo[u + 1].bottom
              /\ Todo[u + 1].bottom \in Nat
          BY <4>1, FrameWindows DEF WInv, Typed, Todo
        <4>3. Offset[config][u] \in Nat
          BY <3>1 DEF WInv, Growing
        <4>4. (u + 1) - 1 = u
          BY <3>1
        <4> DEFINE b == Todo[u + 1].bottom
                   o == Offset[config][u]
                   n == Offset[config][u + 1]
        <4>5. n = o + b /\ b \in Nat /\ o \in Nat /\ tasks[u + 1].bottom = b
          BY <4>1, <4>2, <4>3, <4>4
        <4>6. b = n - o
          <5> HIDE DEF b, o, n
          <5> QED
            BY <4>5
        <4> QED
          BY <4>5, <4>6
      <3>4. /\ Offset[config][x + 1] \in Nat /\ Offset[config][u] \in Nat
            /\ Offset[config][u + 1] \in Nat /\ Offset[config][x + 1] <= Offset[config][u]
        <4>1. x + 1 \in 0 .. Len(tasks) /\ u \in 0 .. Len(tasks) /\ u + 1 \in 0 .. Len(tasks)
          BY <1>3, <2>1, <3>1
        <4>2. x + 1 <= u
          BY <2>1, <3>1
        <4> QED
          BY <4>1, <4>2 DEF WInv, Growing
      <3>5. started'[u] = started[u] + 1 /\ started[u] \in Nat /\ done[u - 1] \in Nat
            /\ done[u - 1] <= started[u - 1] /\ started[u - 1] <= Rows
            /\ started[u - 1] \in Nat /\ done[x] \in Nat /\ done[x] <= Rows
        BY <1>3, <1>4, <2>1, <2>3, <3>1
      <3>6. done[u - 1] = Rows
            \/ done[u - 1] >= started'[u] + Offset[config][u + 1] - Offset[config][u]
        <4> DEFINE d == done[u - 1]
                   b == tasks[u + 1].bottom
        <4>1. d > started[u] + b \/ d > Rows - 1
          BY <1>3, <3>2, <3>3, <3>5 DEF Least
        <4>2. b = Offset[config][u + 1] - Offset[config][u] /\ b \in Nat
          BY <3>3
        <4>3. d \in Nat /\ d <= Rows
          BY <1>3, <3>5
        <4> HIDE DEF d, b
        <4>4. d = Rows \/ d >= started'[u] + b
          BY <1>3, <3>5, <4>1, <4>2, <4>3
        <4>5. d = Rows \/ d >= started'[u] + Offset[config][u + 1] - Offset[config][u]
          BY <3>4, <3>5, <4>2, <4>4
        <4> QED
          BY <4>5 DEF d
      <3>7. CASE x = u - 1
        BY <3>1, <3>6, <3>7
      <3>8. CASE x # u - 1
        <4>1. x < u - 1 /\ started[u - 1] > 0 /\ (u - 1) + 1 = u
          <5>1. x < u - 1 /\ (u - 1) + 1 = u
            BY <2>1, <3>1, <3>8
          <5> DEFINE d == done[u - 1]
                     s == started[u - 1]
          <5>2. d > 0 /\ d <= s /\ d \in Nat /\ s \in Nat
            <6> DEFINE l == Least(started[u] + tasks[u + 1].bottom, Rows - 1)
            <6>1. l \in Nat
              BY <1>3, <3>3, <3>5 DEF Least
            <6>2. d > l /\ d <= s /\ d \in Nat /\ s \in Nat
              BY <3>2, <3>5
            <6> HIDE DEF d, s, l
            <6> QED
              BY <6>1, <6>2
          <5>3. s > 0
            <6> HIDE DEF d, s
            <6> QED
              BY <5>2
          <5> QED
            BY <5>1, <5>3
        <4>2. done[x] = Rows
              \/ done[x] >= started[u - 1] + Offset[config][u] - Offset[config][x + 1]
          <5>1. done[x] = Rows \/ done[x] >= started[u - 1] + UpTo(u - 1) - UpTo(x)
            BY <3>1, <4>1 DEF WInv, Spaced
          <5> QED
            BY <4>1, <5>1 DEF UpTo
        <4> DEFINE d == done[u - 1]
                   s == started[u - 1]
                   o == Offset[config][u]
        <4>3. /\ d = Rows \/ d >= started'[u] + Offset[config][u + 1] - o
              /\ done[x] = Rows \/ done[x] >= s + o - Offset[config][x + 1]
              /\ d <= s /\ s <= Rows /\ d \in Nat /\ s \in Nat /\ o \in Nat
              /\ Offset[config][x + 1] <= o
          BY <3>4, <3>5, <3>6, <4>2
        <4>4. started'[u] \in Nat /\ Rows \in Nat
          BY <1>3, <3>5
        <4> HIDE DEF d, s, o
        <4> QED
          BY <3>4, <3>5, <4>3, <4>4, TwoWindows
      <3> QED
        BY <3>7, <3>8
    <2> QED
      BY <2>2, <2>3
  <1> QED
    BY <1>5, <1>6, <1>7, <1>8, <1>9 DEF WInv

\* A row of task t ends.
LEMMA FinishKeeps ==
    ASSUME WInv, NEW t \in TaskIds, Finish(t), config' = config
    PROVE  WInv'
  <1>1. /\ tasks' = tasks /\ started' = started /\ stage' = stage
        /\ done' = [done EXCEPT ![t] = done[t] + 1] /\ done[t] < started[t]
    BY DEF Finish
  <1>2. Added' = Added /\ Todo' = Todo
    BY <1>1 DEF Added, Todo
  <1>3. /\ Rows \in Nat \ {0} /\ Len(tasks) \in Nat /\ Added \subseteq TaskIds
        /\ \A u \in TaskIds : u \in Nat /\ done[u] \in Nat /\ started[u] \in Nat
                              /\ done[u] <= started[u] /\ started[u] <= Rows
    BY WindowTypes DEF WInv, Windows
  <1>4. \A u \in TaskIds : /\ done'[u] = IF u = t THEN done[t] + 1 ELSE done[u]
                           /\ done'[u] >= done[u] /\ done'[u] <= started[u]
                           /\ done'[u] \in Nat
    BY <1>1, <1>3 DEF WInv, Typed
  <1>5. Typed'
    BY <1>1, <1>3 DEF WInv, Typed
  <1>6. Prefix'
    BY <1>1, <1>2 DEF WInv, Prefix
  <1>7. Windows'
    <2>1. ASSUME NEW u \in TaskIds, u \in Added, ~tasks[u + 1].any
          PROVE  started[u] <= done'[u] + 1
      <3>1. started[u] <= done[u] + 1
        BY <2>1 DEF WInv, Windows
      <3> QED
        BY <1>3, <1>4, <3>1
    <2> QED
      BY <1>1, <1>2, <1>3, <1>4, <2>1 DEF Windows
  <1>8. Growing'
    BY <1>1 DEF WInv, Growing
  <1>9. Spaced'
    <2>1. SUFFICES ASSUME NEW x \in TaskIds, NEW u \in TaskIds, x < u, u \in Added,
                          started[u] > 0
                   PROVE  done'[x] = Rows \/ done'[x] >= started[u] + UpTo(u) - UpTo(x)
      BY <1>1, <1>2 DEF Spaced, UpTo
    <2>2. done[x] = Rows \/ done[x] >= started[u] + UpTo(u) - UpTo(x)
      BY <2>1 DEF WInv, Spaced
    <2>3. UpTo(u) \in Nat /\ UpTo(x) \in Nat
      <3>1. u + 1 \in 0 .. Len(tasks) /\ x + 1 \in 0 .. Len(tasks)
        BY <1>3, <2>1 DEF Added
      <3> QED
        BY <3>1 DEF UpTo, WInv, Growing
    <2> QED
      BY <1>3, <1>4, <2>1, <2>2, <2>3
  <1> QED
    BY <1>5, <1>6, <1>7, <1>8, <1>9 DEF WInv
-----------------------------------------------------------------------------
\* WInv holds in every state.
LEMMA WindowsInvariance ==
    ASSUME OffsetsSum
    PROVE  WFSpec => []WInv
  <1>1. WFInit => WInv
    BY WindowsInit DEF WFInit
  <1>2. WInv /\ [WFNext]_wframeVars => WInv'
    <2> SUFFICES ASSUME WInv, [WFNext]_wframeVars PROVE WInv'
      OBVIOUS
    <2>1. CASE AddNextTask
      BY <2>1, AddKeeps
    <2>2. CASE LaunchFrame
      BY <2>2, LaunchKeeps
    <2>3. CASE RunRows
      BY <2>3, StartKeeps, FinishKeeps DEF RunRows
    <2>4. CASE NextFrame
      <3>1. /\ tasks' = <<>> /\ stage' = "add" /\ config' \in Configs
            /\ done' = [t \in TaskIds |-> 0] /\ started' = [t \in TaskIds |-> 0]
        BY <2>4 DEF NextFrame, Collect
      <3> QED
        BY <3>1, FrameBegins
    <2>5. CASE UNCHANGED wframeVars
      BY <2>5 DEF wframeVars, windowVars, WInv, Typed, Prefix, Windows, Growing, Spaced,
                  UpTo, Todo, Added
    <2> QED
      BY <2>1, <2>2, <2>3, <2>4, <2>5 DEF WFNext
  <1> QED
    BY <1>1, <1>2, PTL DEF WFSpec

\* If the windows a frame declares cover the conflicts of its row functions, then
\* on every schedule of the atomic scheduler a row function runs only when every
\* earlier task has finished the rows that conflict with it, and beside no row of
\* its own task that does.
LEMMA DeclaredWindowsOrdered ==
    ASSUME OffsetsSum, FramesOrdered
    PROVE  WFSpec => []WindowsOrdered
  <1>1. WInv => WindowsOrdered
    <2> SUFFICES ASSUME WInv, NEW u \in Added, NEW z \in Running(u)
                 PROVE  LET conflicts(t) == Conflicts[config][Todo[t + 1].fn][Todo[u + 1].fn][z] IN
                        /\ \A t \in 0 .. u - 1 : \A y \in conflicts(t) : y < done[t]
                        /\ conflicts(u) \cap Running(u) \subseteq {z}
      BY DEF WindowsOrdered
    <2>1. /\ Rows \in Nat \ {0} /\ Len(tasks) \in Nat /\ config \in Configs
          /\ u \in TaskIds /\ u \in Nat /\ u + 1 \in 1 .. Len(tasks)
          /\ Len(Todo) \in Nat /\ Len(tasks) <= Len(Todo) /\ u + 1 \in 1 .. Len(Todo)
          /\ done[u] \in Nat /\ started[u] \in Nat
          /\ z \in RowSet /\ done[u] <= z /\ z < started[u] /\ z \in Nat
      <3>1. Typed /\ Prefix
        BY DEF WInv
      <3>2. /\ Rows \in Nat \ {0} /\ Len(tasks) \in Nat /\ config \in Configs
            /\ u \in TaskIds /\ u \in Nat /\ u + 1 \in 1 .. Len(tasks)
            /\ done[u] \in Nat /\ started[u] \in Nat
        BY <3>1, WindowTypes DEF Typed
      <3>3. Len(Todo) \in Nat
        BY <3>2, FrameWindows DEF Todo
      <3>4. Len(tasks) <= Len(Todo)
        BY <3>1 DEF Prefix
      <3>5. z \in RowSet /\ done[u] <= z /\ z < started[u]
        BY DEF Running
      <3> QED
        BY <3>2, <3>3, <3>4, <3>5 DEF RowSet
    <2>2. ASSUME NEW t \in 0 .. u
          PROVE  /\ t \in TaskIds /\ t \in Nat /\ t + 1 \in 1 .. Len(Todo)
                 /\ t + 1 \in 1 .. Len(tasks)
                 /\ Todo[t + 1].fn \in 0 .. Len(Frames[config].fns) - 1
                 /\ Todo[u + 1].fn \in 0 .. Len(Frames[config].fns) - 1
      <3>1. t \in TaskIds /\ t \in Nat /\ t + 1 \in 1 .. Len(Todo) /\ t + 1 \in 1 .. Len(tasks)
        BY <2>1, WindowsAssumption DEF TaskIds, WindowsAssumption
      <3> QED
        BY <2>1, <3>1, FrameWindows DEF Todo
    <2>3. ASSUME NEW t \in 0 .. u
          PROVE  \A y \in Conflicts[config][Todo[t + 1].fn][Todo[u + 1].fn][z] :
                    /\ y \in RowSet
                    /\ Conflict(Footprint(config, Todo[t + 1].fn, y),
                                Footprint(config, Todo[u + 1].fn, z))
      <3> DEFINE h == Todo[t + 1].fn
                 g == Todo[u + 1].fn
      <3>1. h \in 0 .. Len(Frames[config].fns) - 1 /\ g \in 0 .. Len(Frames[config].fns) - 1
        BY <2>2
      <3> HIDE DEF h, g
      <3>2. Conflicts[config][h][g][z] =
               {r \in RowSet : Conflict(Footprint(config, h, r), Footprint(config, g, z))}
        BY <2>1, <3>1 DEF Conflicts
      <3>3. \A y \in Conflicts[config][h][g][z] :
               y \in RowSet /\ Conflict(Footprint(config, h, y), Footprint(config, g, z))
        BY <3>2
      <3> QED
        BY <3>3 DEF h, g
    <2>4. ASSUME NEW t \in 0 .. u - 1,
                 NEW y \in Conflicts[config][Todo[t + 1].fn][Todo[u + 1].fn][z]
          PROVE  y < done[t]
      <3>1. t \in 0 .. u /\ t < u /\ t + 1 \in 1 .. (u + 1) - 1
        BY <2>1
      <3>2. t \in TaskIds /\ t + 1 \in 0 .. Len(tasks) /\ u + 1 \in 0 .. Len(tasks)
        BY <2>1, <2>2, <3>1
      <3>3. /\ y \in RowSet
            /\ Conflict(Footprint(config, Todo[t + 1].fn, y),
                        Footprint(config, Todo[u + 1].fn, z))
        BY <2>3, <3>1
      <3>4. ~(y > z + (Offset[config][u + 1] - Offset[config][t + 1]))
        <4>1. WindowsSuffice(config)
          BY <2>1 DEF FramesOrdered
        <4> QED
          BY <2>1, <3>1, <3>3, <4>1 DEF WindowsSuffice, Todo
      <3>5. done[t] = Rows \/ done[t] >= started[u] + UpTo(u) - UpTo(t)
        BY <2>1, <3>1, <3>2 DEF WInv, Spaced
      <3>6. UpTo(u) \in Nat /\ UpTo(t) \in Nat
        BY <3>2 DEF UpTo, WInv, Growing
      <3>7. y \in Nat /\ y < Rows /\ done[t] \in Nat
        <4>1. done[t] \in Nat
          BY <3>2, WindowTypes DEF WInv
        <4> QED
          BY <2>1, <3>3, <4>1 DEF RowSet
      <3>8. ~(y > z + (UpTo(u) - UpTo(t)))
        BY <3>4 DEF UpTo
      <3>9. z \in Nat /\ started[u] \in Nat /\ z < started[u]
        BY <2>1
      <3> DEFINE d == done[t]
                 s == started[u]
                 a == UpTo(u)
                 b == UpTo(t)
      <3>10. /\ d = Rows \/ d >= s + a - b
             /\ a \in Nat /\ b \in Nat /\ ~(y > z + (a - b))
             /\ y \in Nat /\ y < Rows /\ d \in Nat
             /\ z \in Nat /\ s \in Nat /\ z < s
        BY <3>5, <3>6, <3>7, <3>8, <3>9
      <3>11. y < d
        <4> HIDE DEF d, s, a, b
        <4> QED
          BY <3>10, FieldAssumption
      <3> QED
        BY <3>11
    <2>5. ASSUME NEW y \in Conflicts[config][Todo[u + 1].fn][Todo[u + 1].fn][z],
                 y \in Running(u)
          PROVE  y = z
      <3>1. y \in RowSet /\ done[u] <= y /\ y < started[u] /\ y \in Nat
        BY <2>1, <2>5 DEF Running, RowSet
      <3>2. CASE Todo[u + 1].any
        <4>1. RowsApart(config)
          BY <2>1 DEF FramesOrdered
        <4>2. Conflict(Footprint(config, Todo[u + 1].fn, y),
                       Footprint(config, Todo[u + 1].fn, z))
          <5>1. u \in 0 .. u
            BY <2>1
          <5> QED
            BY <2>3, <2>5, <5>1
        <4> QED
          BY <2>1, <3>1, <3>2, <4>1, <4>2 DEF RowsApart, Todo
      <3>3. CASE ~Todo[u + 1].any
        <4>1. ~tasks[u + 1].any
          BY <2>1, <3>3 DEF WInv, Prefix
        <4>2. started[u] <= done[u] + 1
          BY <2>1, <4>1 DEF WInv, Windows
        <4> QED
          BY <2>1, <3>1, <4>2
      <3> QED
        BY <3>2, <3>3
    <2> QED
      BY <2>4, <2>5
  <1> QED
    BY <1>1, WindowsInvariance, PTL

\* The frames that fluid_cpu.c builds declare enough: with them, whatever the size of the
\* field, the reach of the advection and the accuracies, on every schedule of the atomic
\* scheduler a row function runs only when every earlier task has finished the rows that
\* conflict with it, and beside no row of its own task that does
\* (WFSpec => []WindowsOrdered).
THEOREM WindowRowsOrdered ==
    ASSUME \A c \in Configs : Sound(c)
    PROVE  WFSpec => []WindowsOrdered
  <1>1. OffsetsSum
    BY FrameWindowsTyped, FrameOffsets DEF OffsetsSum
  <1>2. FramesOrdered
    BY FrameWindowsSuffice, FrameRowsApart DEF FramesOrdered
  <1> QED
    BY <1>1, <1>2, DeclaredWindowsOrdered
-----------------------------------------------------------------------------
(***************************************************************************)
(* The workers and the tokens of TaskWorld.                                *)
(***************************************************************************)
\* The places of fluid g in a queue, and the workers that have still to push its token.
PlacesOf(q, g) == {n \in 1 .. Len(q) : q[n] = g}
Serving(g) == {w \in Workers : job[w] = g /\ at[w] \in {"work", "token"}}

\* The workers that have a record.
Busy == {w \in Workers : at[w] # "pop"}

WorldTyped ==
    /\ world \in BOOLEAN
    /\ r_sendQueue \in Seq(Fluids)
    /\ free \in Nat
    /\ at \in [Workers -> {"pop", "work", "token", "return", "crashed"}]
    /\ job \in [Workers -> Fluids \cup {NoFluid}]
    /\ frame \in [Fluids -> {"none", "running", "finished"}]
    /\ r_blocker \in [Fluids -> 0 .. BlockerSize]
    /\ spawned \in [Fluids -> {0, m_workers}]
    /\ didEnd \in [Fluids -> BOOLEAN]
    /\ host \in {"idle", "sync", "stop", "calc", "flood", "terminate"}
    /\ f \in Fluids \cup {NoFluid}
    /\ i \in 0 .. m_workers
    /\ host # "idle" => f \in Fluids

Flooded(g) == host = "flood" /\ f = g
Collected(g) == host \in {"sync", "stop"} /\ f = g

\* The tokens of g that are to be popped yet.
Due(g) ==
    IF Flooded(g) THEN i
    ELSE IF frame[g] = "none" THEN 0
    ELSE IF Collected(g) THEN m_workers - i ELSE m_workers

TokensInv == \A g \in Fluids : Pending(g) + r_blocker[g] = Due(g)

\* What the host thread knows of the frames.
CallsInv ==
    /\ \A g \in Fluids :
          /\ frame[g] # "none" /\ ~Flooded(g) => spawned[g] = m_workers /\ ~didEnd[g]
          /\ Flooded(g) => frame[g] # "none"
          /\ Collected(g) /\ frame[g] = "none" => i = 0
    /\ host \in {"calc", "terminate"} => frame[f] = "none"

RecordsInv == free + Len(r_sendQueue) + Cardinality(Busy) = Records

WorldInv == WorldTyped /\ TokensInv /\ CallsInv /\ RecordsInv
-----------------------------------------------------------------------------
LEMMA WorldConstants ==
    /\ m_workers \in Nat \ {0} /\ Records = 4 * m_workers /\ BlockerSize \in Nat \ {0}
    /\ IsFiniteSet(Workers)
  BY WorldAssumption, FS_CardinalityType, FS_EmptySet DEF WorldAssumption, m_workers, Records

LEMMA CountOf ==
    ASSUME NEW S, NEW q \in Seq(S), NEW g
    PROVE  IsFiniteSet(PlacesOf(q, g)) /\ Cardinality(PlacesOf(q, g)) \in Nat
  <1>1. PlacesOf(q, g) \in SUBSET (1 .. Len(q)) /\ Len(q) \in Int
    BY LenProperties DEF PlacesOf
  <1>2. IsFiniteSet(1 .. Len(q))
    BY <1>1, FS_Interval
  <1> QED
    BY <1>1, <1>2, FS_Subset, FS_CardinalityType

\* A record that is appended, and one that is taken.
LEMMA CountAppend ==
    ASSUME NEW S, NEW q \in Seq(S), NEW x \in S, NEW g
    PROVE  Cardinality(PlacesOf(Append(q, x), g))
              = Cardinality(PlacesOf(q, g)) + (IF x = g THEN 1 ELSE 0)
  <1> DEFINE l == Len(q) + 1
  <1>1. /\ Len(q) \in Nat /\ Len(Append(q, x)) = l /\ Append(q, x)[l] = x
        /\ \A n \in 1 .. Len(q) : Append(q, x)[n] = q[n]
    BY AppendProperties, LenProperties
  <1>2. l \notin PlacesOf(q, g) /\ 1 .. l = (1 .. Len(q)) \cup {l}
    BY <1>1 DEF PlacesOf
  <1>3. PlacesOf(Append(q, x), g) = IF x = g THEN PlacesOf(q, g) \cup {l} ELSE PlacesOf(q, g)
    BY <1>1, <1>2 DEF PlacesOf
  <1> HIDE DEF l
  <1>4. IsFiniteSet(PlacesOf(q, g)) /\ Cardinality(PlacesOf(q, g)) \in Nat
    BY CountOf
  <1>5. Cardinality(PlacesOf(q, g) \cup {l}) = Cardinality(PlacesOf(q, g)) + 1
    BY <1>2, <1>4, FS_AddElement
  <1> QED
    BY <1>3, <1>4, <1>5

LEMMA CountTail ==
    ASSUME NEW S, NEW q \in Seq(S), q # <<>>, NEW g
    PROVE  Cardinality(PlacesOf(q, g))
              = Cardinality(PlacesOf(Tail(q), g)) + (IF Head(q) = g THEN 1 ELSE 0)
  <1> DEFINE A == PlacesOf(Tail(q), g)
             B == PlacesOf(q, g) \ {1}
             F == [n \in A |-> n + 1]
  <1>1. /\ Len(q) \in Nat /\ Len(q) # 0 /\ Tail(q) \in Seq(S) /\ Len(Tail(q)) = Len(q) - 1
        /\ Head(q) = q[1] /\ \A n \in 1 .. Len(q) - 1 : Tail(q)[n] = q[n + 1]
    BY HeadTailProperties, EmptySeq, LenProperties
  <1>2. F \in Bijection(A, B)
    <2>1. \A n \in A : n \in Nat /\ n + 1 \in B
      BY <1>1 DEF PlacesOf
    <2>2. \A k \in B : k - 1 \in A /\ (k - 1) + 1 = k
      BY <1>1 DEF PlacesOf
    <2>3. F \in [A -> B]
      BY <2>1
    <2>4. \A m, n \in A : F[m] = F[n] => m = n
      BY <2>1
    <2>5. \A k \in B : \E n \in A : F[n] = k
      <3>1. SUFFICES ASSUME NEW k \in B PROVE \E n \in A : F[n] = k
        OBVIOUS
      <3>2. k - 1 \in A /\ F[k - 1] = k
        BY <2>2
      <3> QED
        BY <3>2
    <2> HIDE DEF A, B, F
    <2> QED
      BY <2>3, <2>4, <2>5 DEF Bijection, Injection, Surjection, IsInjective
  <1>3. IsFiniteSet(A) /\ Cardinality(A) \in Nat
    BY <1>1, CountOf
  <1>4. IsFiniteSet(B) /\ Cardinality(B) = Cardinality(A)
    BY <1>2, <1>3, FS_Bijection DEF ExistsBijection
  <1>5. PlacesOf(q, g) = IF Head(q) = g THEN B \cup {1} ELSE B
    BY <1>1 DEF PlacesOf
  <1>6. 1 \notin B
    OBVIOUS
  <1> HIDE DEF A, B, F
  <1>7. Cardinality(B \cup {1}) = Cardinality(B) + 1
    BY <1>4, <1>6, FS_AddElement
  <1> QED
    BY <1>3, <1>4, <1>5, <1>7 DEF A

\* Parts of the finite set of workers.
LEMMA CountWorkers ==
    ASSUME NEW S \in SUBSET Workers, NEW w \in Workers
    PROVE  /\ Cardinality(S) \in Nat /\ Cardinality(S) <= m_workers
           /\ w \notin S => Cardinality(S \cup {w}) = Cardinality(S) + 1
           /\ w \in S => Cardinality(S \ {w}) = Cardinality(S) - 1
  <1>1. IsFiniteSet(S) /\ Cardinality(S) <= m_workers
    BY WorldConstants, FS_Subset DEF m_workers
  <1> QED
    BY <1>1, FS_CardinalityType, FS_AddElement, FS_RemoveElement

LEMMA PendingIs ==
    ASSUME WorldTyped, NEW g
    PROVE  /\ Pending(g) = Cardinality(PlacesOf(r_sendQueue, g)) + Cardinality(Serving(g))
           /\ Cardinality(PlacesOf(r_sendQueue, g)) \in Nat /\ Cardinality(Serving(g)) \in Nat
           /\ Pending(g) \in Nat
  <1>1. Cardinality(PlacesOf(r_sendQueue, g)) \in Nat
    BY CountOf DEF WorldTyped
  <1>2. Cardinality(Serving(g)) \in Nat
    <2>1. Serving(g) \in SUBSET Workers /\ IsFiniteSet(Workers)
      BY WorldConstants DEF Serving
    <2> QED
      BY <2>1, FS_Subset, FS_CardinalityType
  <1> QED
    BY <1>1, <1>2 DEF Pending, PlacesOf, Serving

\* A step that neither moves a record nor begins or ends the work for a fluid.
LEMMA PendingKept ==
    ASSUME r_sendQueue' = r_sendQueue, \A w \in Workers, g \in Fluids :
              job'[w] = g /\ at'[w] \in {"work", "token"}
                  <=> job[w] = g /\ at[w] \in {"work", "token"}
    PROVE  \A g \in Fluids : Pending(g)' = Pending(g)
  <1> SUFFICES ASSUME NEW g \in Fluids PROVE Pending(g)' = Pending(g)
    OBVIOUS
  <1>1. Serving(g)' = Serving(g)
    BY DEF Serving
  <1> QED
    BY <1>1 DEF Pending, Serving

\* A step of a worker that moves no record, and leaves the accounts of each fluid equal.
LEMMA PopKeeps == ASSUME WorldInv, NEW w \in Workers, PopRecord(w)  PROVE WorldInv'
  <1>1. WorldTyped /\ TokensInv /\ CallsInv /\ RecordsInv
    BY DEF WorldInv
  <1>2. /\ at[w] = "pop" /\ r_sendQueue # <<>> /\ r_sendQueue' = Tail(r_sendQueue)
        /\ job' = [job EXCEPT ![w] = Head(r_sendQueue)] /\ at' = [at EXCEPT ![w] = "work"]
        /\ UNCHANGED <<world, free, r_blocker, frame, spawned, didEnd, host, f, i>>
    BY DEF PopRecord, fluidVars, hostVars
  <1>3. /\ r_sendQueue' \in Seq(Fluids) /\ Len(r_sendQueue') = Len(r_sendQueue) - 1
        /\ Head(r_sendQueue) \in Fluids /\ Len(r_sendQueue) \in Nat
    BY <1>1, <1>2, HeadTailProperties, LenProperties DEF WorldTyped
  <1>4. WorldTyped'
    BY <1>1, <1>2, <1>3 DEF WorldTyped, m_workers
  <1>5. \A g \in Fluids : Pending(g)' = Pending(g)
    <2> SUFFICES ASSUME NEW g \in Fluids PROVE Pending(g)' = Pending(g)
      OBVIOUS
    <2>1. /\ Serving(g) \in SUBSET Workers /\ w \notin Serving(g)
          /\ Serving(g)' = IF Head(r_sendQueue) = g THEN Serving(g) \cup {w} ELSE Serving(g)
      BY <1>1, <1>2 DEF Serving, WorldTyped
    <2>2. Cardinality(Serving(g))' = Cardinality(Serving(g))
                                        + (IF Head(r_sendQueue) = g THEN 1 ELSE 0)
      <3>1. Cardinality(Serving(g) \cup {w}) = Cardinality(Serving(g)) + 1
        BY <2>1, CountWorkers
      <3>2. Cardinality(Serving(g)) \in Nat
        BY <1>1, PendingIs
      <3> QED
        BY <2>1, <3>1, <3>2
    <2>3. Cardinality(PlacesOf(r_sendQueue, g))
             = Cardinality(PlacesOf(r_sendQueue', g)) + (IF Head(r_sendQueue) = g THEN 1 ELSE 0)
      BY <1>1, <1>2, CountTail DEF WorldTyped
    <2>4. /\ Pending(g) = Cardinality(PlacesOf(r_sendQueue, g)) + Cardinality(Serving(g))
          /\ Cardinality(PlacesOf(r_sendQueue, g)) \in Nat /\ Cardinality(Serving(g)) \in Nat
      BY <1>1, PendingIs
    <2>5. /\ Pending(g)' = Cardinality(PlacesOf(r_sendQueue', g)) + Cardinality(Serving(g))'
          /\ Cardinality(PlacesOf(r_sendQueue', g)) \in Nat
      BY <1>3, CountOf DEF Pending, PlacesOf, Serving
    <2> QED
      BY <2>2, <2>3, <2>4, <2>5
  <1>6. TokensInv' /\ CallsInv'
    BY <1>1, <1>2, <1>5 DEF TokensInv, CallsInv, Due, Flooded, Collected, m_workers
  <1>7. RecordsInv'
    <2>1. Busy \in SUBSET Workers /\ w \notin Busy /\ Busy' = Busy \cup {w}
      BY <1>1, <1>2 DEF Busy, WorldTyped
    <2>2. Cardinality(Busy') = Cardinality(Busy) + 1 /\ Cardinality(Busy) \in Nat
      BY <2>1, CountWorkers
    <2> QED
      BY <1>1, <1>2, <1>3, <2>2 DEF RecordsInv, Records, m_workers, WorldTyped
  <1> QED
    BY <1>4, <1>6, <1>7 DEF WorldInv

LEMMA FrameKeeps ==
    ASSUME WorldInv, NEW w \in Workers, FinishFrame(w) \/ LeaveFrame(w)  PROVE WorldInv'
  <1>1. WorldTyped /\ TokensInv /\ CallsInv /\ RecordsInv
    BY DEF WorldInv
  <1>2. /\ UNCHANGED <<world, r_sendQueue, free, job, r_blocker, spawned, didEnd, host, f, i>>
        /\ at[w] = "work" /\ at' \in {at, [at EXCEPT ![w] = "token"]}
        /\ \/ frame' = frame
           \/ frame[job[w]] = "running" /\ frame' = [frame EXCEPT ![job[w]] = "finished"]
    BY DEF FinishFrame, LeaveFrame, workerVars, fluidVars, hostVars
  <1>3. WorldTyped'
    BY <1>1, <1>2 DEF WorldTyped, m_workers
  <1>4. \A g \in Fluids : Pending(g)' = Pending(g)
    BY <1>1, <1>2, PendingKept DEF WorldTyped
  <1>5. \A g \in Fluids : frame'[g] = "none" <=> frame[g] = "none"
    BY <1>1, <1>2 DEF WorldTyped
  <1>6. TokensInv'
    BY <1>1, <1>2, <1>4, <1>5 DEF TokensInv, Due, Flooded, Collected, m_workers
  <1>7. CallsInv'
    BY <1>1, <1>2, <1>5 DEF CallsInv, WorldTyped, Flooded, Collected, m_workers
  <1>8. RecordsInv'
    <2>1. Busy' = Busy
      BY <1>1, <1>2 DEF Busy, WorldTyped
    <2> QED
      BY <1>1, <1>2, <2>1 DEF RecordsInv, Records, m_workers
  <1> QED
    BY <1>3, <1>6, <1>7, <1>8 DEF WorldInv

LEMMA PushKeeps == ASSUME WorldInv, NEW w \in Workers, PushToken(w)  PROVE WorldInv'
  <1>1. WorldTyped /\ TokensInv /\ CallsInv /\ RecordsInv
    BY DEF WorldInv
  <1>2. /\ UNCHANGED <<world, r_sendQueue, free, job, frame, spawned, didEnd, host, f, i>>
        /\ at[w] = "token" /\ at' = [at EXCEPT ![w] = "return"] /\ r_blocker[job[w]] < BlockerSize
        /\ r_blocker' = [r_blocker EXCEPT ![job[w]] = @ + 1]
    BY DEF PushToken, fluidVars, hostVars
  <1>3. WorldTyped'
    <2>1. r_blocker' \in [Fluids -> 0 .. BlockerSize]
      <3>1. ASSUME NEW g \in Fluids  PROVE r_blocker'[g] \in 0 .. BlockerSize
        <4>1. r_blocker \in [Fluids -> 0 .. BlockerSize] /\ BlockerSize \in Nat
          BY <1>1, WorldConstants DEF WorldTyped
        <4>2. r_blocker[g] \in 0 .. BlockerSize
          BY <4>1
        <4>3. r_blocker'[g] = IF g = job[w] THEN r_blocker[g] + 1 ELSE r_blocker[g]
          BY <1>2, <4>1
        <4> QED
          BY <1>2, <4>1, <4>2, <4>3
      <3>2. r_blocker' = [g \in Fluids |-> r_blocker'[g]]
        BY <1>1, <1>2 DEF WorldTyped
      <3> QED
        BY <3>1, <3>2
    <2> QED
      BY <1>1, <1>2, <2>1 DEF WorldTyped, m_workers
  <1>4. TokensInv'
    <2> SUFFICES ASSUME NEW g \in Fluids PROVE Pending(g)' + r_blocker'[g] = Due(g)'
      BY DEF TokensInv
    <2>1. Due(g)' = Due(g)
      BY <1>2 DEF Due, Flooded, Collected, m_workers
    <2>2. /\ Serving(g) \in SUBSET Workers
          /\ job[w] = g => w \in Serving(g) /\ Serving(g)' = Serving(g) \ {w}
          /\ job[w] # g => Serving(g)' = Serving(g)
      BY <1>1, <1>2 DEF Serving, WorldTyped
    <2>3. Cardinality(Serving(g))' = Cardinality(Serving(g)) - (IF job[w] = g THEN 1 ELSE 0)
      <3>1. w \in Serving(g) => Cardinality(Serving(g) \ {w}) = Cardinality(Serving(g)) - 1
        BY <2>2, CountWorkers
      <3>2. Cardinality(Serving(g)) \in Nat
        BY <1>1, PendingIs
      <3> QED
        BY <2>2, <3>1, <3>2
    <2>4. r_blocker'[g] = r_blocker[g] + (IF job[w] = g THEN 1 ELSE 0) /\ r_blocker[g] \in Nat
      BY <1>1, <1>2, WorldConstants DEF WorldTyped
    <2>5. Pending(g)' = Pending(g) - (IF job[w] = g THEN 1 ELSE 0) /\ Pending(g) \in Nat
      <3>1. /\ Pending(g) = Cardinality(PlacesOf(r_sendQueue, g)) + Cardinality(Serving(g))
            /\ Cardinality(PlacesOf(r_sendQueue, g)) \in Nat /\ Cardinality(Serving(g)) \in Nat
            /\ Pending(g) \in Nat
        BY <1>1, PendingIs
      <3>2. Pending(g)' = Cardinality(PlacesOf(r_sendQueue', g)) + Cardinality(Serving(g))'
        BY DEF Pending, PlacesOf, Serving
      <3> QED
        BY <1>2, <2>3, <3>1, <3>2
    <2>6. Pending(g) + r_blocker[g] = Due(g)
      BY <1>1 DEF TokensInv
    <2> QED
      BY <2>1, <2>4, <2>5, <2>6
  <1>5. CallsInv'
    BY <1>1, <1>2 DEF CallsInv, Flooded, Collected, m_workers
  <1>6. RecordsInv'
    <2>1. Busy' = Busy
      BY <1>1, <1>2 DEF Busy, WorldTyped
    <2> QED
      BY <1>1, <1>2, <2>1 DEF RecordsInv, Records, m_workers
  <1> QED
    BY <1>3, <1>4, <1>5, <1>6 DEF WorldInv

LEMMA ReturnKeeps == ASSUME WorldInv, NEW w \in Workers, ReturnRecord(w)  PROVE WorldInv'
  <1>1. WorldTyped /\ TokensInv /\ CallsInv /\ RecordsInv
    BY DEF WorldInv
  <1>2. /\ UNCHANGED <<world, r_sendQueue, r_blocker, frame, spawned, didEnd, host, f, i>>
        /\ at[w] = "return" /\ job' = [job EXCEPT ![w] = NoFluid]
        /\ \/ at' = [at EXCEPT ![w] = "pop"] /\ free' = free + 1
           \/ at' = [at EXCEPT ![w] = "crashed"] /\ free' = free
    BY DEF ReturnRecord, fluidVars, hostVars
  <1>3. WorldTyped'
    BY <1>1, <1>2 DEF WorldTyped, m_workers
  <1>4. \A g \in Fluids : Pending(g)' = Pending(g)
    BY <1>1, <1>2, PendingKept DEF WorldTyped
  <1>5. TokensInv' /\ CallsInv'
    BY <1>1, <1>2, <1>4 DEF TokensInv, CallsInv, Due, Flooded, Collected, m_workers
  <1>6. RecordsInv'
    <2>1. Busy \in SUBSET Workers /\ w \in Busy
      BY <1>1, <1>2 DEF Busy
    <2>2. \/ Busy' = Busy \ {w} /\ free' = free + 1
          \/ Busy' = Busy /\ free' = free
      BY <1>1, <1>2 DEF Busy, WorldTyped
    <2>3. Cardinality(Busy \ {w}) = Cardinality(Busy) - 1 /\ Cardinality(Busy) \in Nat
      BY <2>1, CountWorkers
    <2>4. Len(r_sendQueue) \in Nat
      BY <1>1, LenProperties DEF WorldTyped
    <2> QED
      <3>1. free + Len(r_sendQueue) + Cardinality(Busy) = Records /\ free \in Nat /\ Records' = Records
        BY <1>1 DEF RecordsInv, WorldTyped, Records, m_workers
      <3>2. free' + Cardinality(Busy') = free + Cardinality(Busy)
        <4>1. CASE Busy' = Busy \ {w} /\ free' = free + 1
          <5>1. Cardinality(Busy') = Cardinality(Busy) - 1
            BY <2>3, <4>1
          <5> QED
            BY <2>3, <3>1, <4>1, <5>1
        <4>2. CASE Busy' = Busy /\ free' = free
          BY <4>2
        <4> QED
          BY <2>2, <4>1, <4>2
      <3>3. Cardinality(Busy') \in Nat /\ free' \in Nat
        BY <1>3, <2>1, <2>2, CountWorkers DEF WorldTyped
      <3>4. Len(r_sendQueue') = Len(r_sendQueue)
        BY <1>2
      <3>5. free' + Len(r_sendQueue') + Cardinality(Busy') = Records'
        <4>1. free + Len(r_sendQueue) + Cardinality(Busy) = Records'
          BY <3>1
        <4>2. Cardinality(Busy) \in Nat /\ free \in Nat
          BY <2>3, <3>1
        <4> QED
          BY <2>4, <3>2, <3>3, <3>4, <4>1, <4>2
      <3> QED
        BY <3>5 DEF RecordsInv
  <1> QED
    BY <1>3, <1>5, <1>6 DEF WorldInv
-----------------------------------------------------------------------------
\* The steps of the host thread, but one, move no record.
LEMMA HostKept ==
    ASSUME WorldInv, UNCHANGED <<r_sendQueue, free, at, job>>
    PROVE  RecordsInv' /\ \A g \in Fluids : Pending(g)' = Pending(g)
  <1>1. \A g \in Fluids : Pending(g)' = Pending(g)
    BY PendingKept
  <1>2. Busy' = Busy
    BY DEF Busy
  <1> QED
    BY <1>1, <1>2 DEF RecordsInv, Records, m_workers, WorldInv

LEMMA BeginKeeps ==
    ASSUME WorldInv, NEW g \in Fluids, matrix_calc(g) \/ jit_tml_fluid2_free(g)  PROVE WorldInv'
  <1>1. WorldTyped /\ TokensInv /\ CallsInv /\ RecordsInv
    BY DEF WorldInv
  <1>2. /\ UNCHANGED <<world, r_sendQueue, free, at, job, r_blocker, frame, spawned, didEnd>>
        /\ host = "idle" /\ f' = g /\ i' = 0
        /\ host' \in {"sync", "stop"} \/ (host' = "terminate" /\ didEnd[g])
    BY DEF matrix_calc, jit_tml_fluid2_free, BeginSync, workerVars, fluidVars
  <1>3. WorldTyped'
    BY <1>1, <1>2, WorldConstants DEF WorldTyped, m_workers
  <1>4. RecordsInv' /\ \A h \in Fluids : Pending(h)' = Pending(h)
    BY <1>2, HostKept
  <1>5. TokensInv'
    BY <1>1, <1>2, <1>4, WorldConstants DEF TokensInv, Due, Flooded, Collected, m_workers
  <1>6. CallsInv'
    BY <1>1, <1>2 DEF CallsInv, Flooded, Collected, m_workers, WorldTyped
  <1> QED
    BY <1>3, <1>4, <1>5, <1>6 DEF WorldInv

LEMMA PopTokenKeeps == ASSUME WorldInv, PopToken  PROVE WorldInv'
  <1>1. WorldTyped /\ TokensInv /\ CallsInv /\ RecordsInv
    BY DEF WorldInv
  <1>2. /\ UNCHANGED <<world, r_sendQueue, free, at, job, frame, spawned, didEnd, host, f>>
        /\ host \in {"sync", "stop"} /\ i < spawned[f] /\ r_blocker[f] > 0
        /\ r_blocker' = [r_blocker EXCEPT ![f] = @ - 1] /\ i' = i + 1
    BY DEF PopToken, workerVars, fluidVars
  <1>3. RecordsInv' /\ \A h \in Fluids : Pending(h)' = Pending(h)
    BY <1>2, HostKept
  <1>4. f \in Fluids /\ Pending(f) \in Nat /\ r_blocker[f] \in Nat /\ spawned[f] \in {0, m_workers}
    BY <1>1, <1>2, PendingIs, WorldConstants DEF WorldTyped
  <1>5. frame[f] # "none" /\ spawned[f] = m_workers
    <2>1. Pending(f) + r_blocker[f] = Due(f)
      BY <1>1, <1>4 DEF TokensInv
    <2>2. frame[f] # "none"
      BY <1>2, <1>4, <2>1 DEF Due, Flooded
    <2> QED
      BY <1>1, <1>2, <1>4, <2>2 DEF CallsInv, Flooded
  <1>6. WorldTyped'
    <2>1. r_blocker' \in [Fluids -> 0 .. BlockerSize]
      BY <1>1, <1>2, <1>4, WorldConstants DEF WorldTyped
    <2>2. i' \in 0 .. m_workers
      BY <1>1, <1>2, <1>5, WorldConstants DEF WorldTyped
    <2> QED
      BY <1>1, <1>2, <2>1, <2>2 DEF WorldTyped, m_workers
  <1>7. TokensInv'
    <2> SUFFICES ASSUME NEW g \in Fluids PROVE Pending(g)' + r_blocker'[g] = Due(g)'
      BY DEF TokensInv
    <2>1. Pending(g) + r_blocker[g] = Due(g) /\ Pending(g)' = Pending(g) /\ Pending(g) \in Nat
      BY <1>1, <1>3, PendingIs DEF TokensInv
    <2>2. r_blocker'[g] = (IF g = f THEN r_blocker[g] - 1 ELSE r_blocker[g]) /\ r_blocker[g] \in Nat
      BY <1>1, <1>2, WorldConstants DEF WorldTyped
    <2>3. Due(g)' = IF g = f THEN Due(g) - 1 ELSE Due(g)
      BY <1>1, <1>2, <1>5, WorldConstants DEF Due, Flooded, Collected, m_workers, WorldTyped
    <2>4. Due(g) \in Int
      BY <2>1, <2>2
    <2> QED
      BY <2>1, <2>2, <2>3, <2>4
  <1>8. CallsInv'
    BY <1>1, <1>2, <1>5 DEF CallsInv, Flooded, Collected, m_workers
  <1> QED
    BY <1>3, <1>6, <1>7, <1>8 DEF WorldInv

LEMMA EndSyncKeeps == ASSUME WorldInv, EndSync  PROVE WorldInv'
  <1>1. WorldTyped /\ TokensInv /\ CallsInv /\ RecordsInv
    BY DEF WorldInv
  <1>2. /\ UNCHANGED <<world, r_sendQueue, free, at, job, r_blocker, spawned, f, i>>
        /\ host \in {"sync", "stop"} /\ i = spawned[f]
        /\ frame' = [frame EXCEPT ![f] = "none"] /\ host' \in {"calc", "terminate"}
        /\ \/ didEnd' = [didEnd EXCEPT ![f] = TRUE]
           \/ didEnd' = [didEnd EXCEPT ![f] = @]
    BY DEF EndSync, AllPopped, workerVars
  <1>3. RecordsInv' /\ \A h \in Fluids : Pending(h)' = Pending(h)
    BY <1>2, HostKept
  <1>4. f \in Fluids
    BY <1>1, <1>2 DEF WorldTyped
  <1>5. WorldTyped'
    BY <1>1, <1>2, <1>4 DEF WorldTyped, m_workers
  <1>6. Due(f) = 0
    BY <1>1, <1>2, <1>4, WorldConstants DEF Due, Flooded, Collected, CallsInv
  <1>7. \A g \in Fluids : Due(g)' = Due(g)
    BY <1>1, <1>2, <1>4, <1>6 DEF Due, Flooded, Collected, WorldTyped, m_workers
  <1>8. TokensInv'
    BY <1>1, <1>2, <1>3, <1>7 DEF TokensInv
  <1>9. CallsInv'
    BY <1>1, <1>2, <1>4 DEF CallsInv, Flooded, Collected, WorldTyped, m_workers
  <1> QED
    BY <1>3, <1>5, <1>8, <1>9 DEF WorldInv

\* The host leaves a fluid whose frame is collected.
LEMMA LeaveKeeps == ASSUME WorldInv, LeaveEarly \/ mpTerminate  PROVE WorldInv'
  <1>1. WorldTyped /\ TokensInv /\ CallsInv /\ RecordsInv
    BY DEF WorldInv
  <1>2. /\ UNCHANGED <<r_sendQueue, free, at, job, r_blocker, frame, spawned, didEnd>>
        /\ (world' = world \/ world' = FALSE)
        /\ host \in {"calc", "terminate"}
        /\ host' = "idle" /\ f' = NoFluid /\ i' = 0
    BY DEF LeaveEarly, mpTerminate, workerVars, fluidVars
  <1>3. RecordsInv' /\ \A h \in Fluids : Pending(h)' = Pending(h)
    BY <1>2, HostKept
  <1>4. WorldTyped'
    <2>1. world' \in BOOLEAN
      BY <1>1, <1>2, Zenon DEF WorldTyped
    <2>2. m_workers' = m_workers /\ 0 \in 0 .. m_workers
      BY WorldConstants DEF m_workers
    <2> QED
      BY <1>1, <1>2, <2>1, <2>2 DEF WorldTyped
  <1>5. TokensInv' /\ CallsInv'
    BY <1>1, <1>2, <1>3 DEF TokensInv, CallsInv, Due, Flooded, Collected, m_workers
  <1> QED
    BY <1>3, <1>4, <1>5 DEF WorldInv

LEMMA BeginFloodKeeps == ASSUME WorldInv, BeginFlood  PROVE WorldInv'
  <1>1. WorldTyped /\ TokensInv /\ CallsInv /\ RecordsInv
    BY DEF WorldInv
  <1>2. /\ UNCHANGED <<world, r_sendQueue, free, at, job, r_blocker, spawned, didEnd, f>>
        /\ host = "calc" /\ host' = "flood" /\ i' = 0 /\ frame' = [frame EXCEPT ![f] = "running"]
    BY DEF BeginFlood, workerVars
  <1>3. RecordsInv' /\ \A h \in Fluids : Pending(h)' = Pending(h)
    BY <1>2, HostKept
  <1>4. f \in Fluids /\ frame[f] = "none"
    BY <1>1, <1>2 DEF WorldTyped, CallsInv
  <1>5. WorldTyped'
    BY <1>1, <1>2, <1>4, WorldConstants DEF WorldTyped, m_workers
  <1>6. \A g \in Fluids : Due(g)' = Due(g)
    BY <1>1, <1>2, <1>4 DEF Due, Flooded, Collected, WorldTyped, m_workers
  <1>7. TokensInv'
    BY <1>1, <1>2, <1>3, <1>6 DEF TokensInv
  <1>8. CallsInv'
    BY <1>1, <1>2, <1>4 DEF CallsInv, Flooded, Collected, WorldTyped, m_workers
  <1> QED
    BY <1>3, <1>5, <1>7, <1>8 DEF WorldInv

LEMMA FloodKeeps == ASSUME WorldInv, mpTaskLaunch  PROVE WorldInv'
  <1>1. WorldTyped /\ TokensInv /\ CallsInv /\ RecordsInv
    BY DEF WorldInv
  <1>2. /\ UNCHANGED <<world, at, job, r_blocker, frame, spawned, didEnd, host, f>>
        /\ host = "flood" /\ i < m_workers /\ i' = i + 1 /\ free > 0 /\ free' = free - 1
        /\ r_sendQueue' = Append(r_sendQueue, f)
    BY DEF mpTaskLaunch, workerVars, fluidVars
  <1>3. f \in Fluids /\ r_sendQueue \in Seq(Fluids)
    BY <1>1, <1>2 DEF WorldTyped
  <1>4. r_sendQueue' \in Seq(Fluids) /\ Len(r_sendQueue') = Len(r_sendQueue) + 1
        /\ Len(r_sendQueue) \in Nat
    BY <1>2, <1>3, AppendProperties, LenProperties
  <1>5. WorldTyped'
    BY <1>1, <1>2, <1>4, WorldConstants DEF WorldTyped, m_workers
  <1>6. TokensInv'
    <2> SUFFICES ASSUME NEW g \in Fluids PROVE Pending(g)' + r_blocker'[g] = Due(g)'
      BY DEF TokensInv
    <2>1. Serving(g)' = Serving(g)
      BY <1>2 DEF Serving
    <2>2. Cardinality(PlacesOf(r_sendQueue', g))
             = Cardinality(PlacesOf(r_sendQueue, g)) + (IF f = g THEN 1 ELSE 0)
      BY <1>2, <1>3, CountAppend
    <2>3. /\ Pending(g) = Cardinality(PlacesOf(r_sendQueue, g)) + Cardinality(Serving(g))
          /\ Cardinality(PlacesOf(r_sendQueue, g)) \in Nat /\ Cardinality(Serving(g)) \in Nat
      BY <1>1, PendingIs
    <2>4. Pending(g)' = Cardinality(PlacesOf(r_sendQueue', g)) + Cardinality(Serving(g))'
      BY DEF Pending, PlacesOf, Serving
    <2>5. Pending(g) + r_blocker[g] = Due(g) /\ r_blocker[g] \in Nat
      BY <1>1, WorldConstants DEF TokensInv, WorldTyped
    <2>6. Due(g)' = IF f = g THEN i + 1 ELSE Due(g)
      BY <1>2 DEF Due, Flooded, Collected, m_workers
    <2>7. f = g => Due(g) = i
      BY <1>2 DEF Due, Flooded
    <2> QED
      BY <1>2, <2>1, <2>2, <2>3, <2>4, <2>5, <2>6, <2>7
  <1>7. CallsInv'
    BY <1>1, <1>2 DEF CallsInv, Flooded, Collected, m_workers
  <1>8. RecordsInv'
    <2>1. Busy' = Busy /\ Busy \in SUBSET Workers
      BY <1>2 DEF Busy
    <2>2. Cardinality(Busy) \in Nat
      BY <2>1, WorldConstants, FS_Subset, FS_CardinalityType
    <2> QED
      BY <1>1, <1>2, <1>4, <2>1, <2>2 DEF RecordsInv, Records, m_workers, WorldTyped
  <1> QED
    BY <1>5, <1>6, <1>7, <1>8 DEF WorldInv

LEMMA EndFloodKeeps == ASSUME WorldInv, EndFlood  PROVE WorldInv'
  <1>1. WorldTyped /\ TokensInv /\ CallsInv /\ RecordsInv
    BY DEF WorldInv
  <1>2. /\ UNCHANGED <<world, r_sendQueue, free, at, job, r_blocker, frame>>
        /\ host = "flood" /\ i = m_workers /\ host' = "idle" /\ f' = NoFluid /\ i' = 0
        /\ spawned' = [spawned EXCEPT ![f] = m_workers] /\ didEnd' = [didEnd EXCEPT ![f] = FALSE]
    BY DEF EndFlood, workerVars
  <1>3. RecordsInv' /\ \A h \in Fluids : Pending(h)' = Pending(h)
    BY <1>2, HostKept
  <1>4. f \in Fluids /\ frame[f] # "none"
    BY <1>1, <1>2 DEF WorldTyped, CallsInv, Flooded
  <1>5. WorldTyped'
    BY <1>1, <1>2, <1>4, WorldConstants DEF WorldTyped, m_workers
  <1>6. \A g \in Fluids : Due(g)' = Due(g)
    BY <1>1, <1>2, <1>4 DEF Due, Flooded, Collected, m_workers
  <1>7. TokensInv'
    BY <1>1, <1>2, <1>3, <1>6 DEF TokensInv
  <1>8. CallsInv'
    BY <1>1, <1>2, <1>4 DEF CallsInv, Flooded, Collected, WorldTyped, m_workers
  <1> QED
    BY <1>3, <1>5, <1>7, <1>8 DEF WorldInv

LEMMA WorldInit == Init => WorldInv
  <1> SUFFICES ASSUME Init  PROVE WorldInv
    OBVIOUS
  <1>1. WorldTyped
    BY WorldConstants DEF Init, WorldTyped
  <1>2. TokensInv
    <2> SUFFICES ASSUME NEW g \in Fluids PROVE Pending(g) + r_blocker[g] = Due(g)
      BY DEF TokensInv
    <2>1. PlacesOf(r_sendQueue, g) = {} /\ Serving(g) = {}
      BY DEF Init, PlacesOf, Serving
    <2>2. Pending(g) = 0
      BY <1>1, <2>1, PendingIs, FS_EmptySet
    <2> QED
      BY <2>2 DEF Init, Due, Flooded
  <1>3. CallsInv
    BY DEF Init, CallsInv, Flooded, Collected
  <1>4. RecordsInv
    <2>1. Busy = {}
      BY DEF Init, Busy
    <2> QED
      BY <2>1, FS_EmptySet, WorldConstants DEF Init, RecordsInv
  <1> QED
    BY <1>1, <1>2, <1>3, <1>4 DEF WorldInv

LEMMA WorldNext == ASSUME WorldInv, [Next]_vars  PROVE WorldInv'
  <1>1. CASE \E w \in Workers : mpTaskEngine(w)
    BY <1>1, PopKeeps, FrameKeeps, PushKeeps, ReturnKeeps DEF mpTaskEngine
  <1>2. CASE \E g \in Fluids : matrix_calc(g) \/ jit_tml_fluid2_free(g)
    BY <1>2, BeginKeeps
  <1>3. CASE HostGoesOn
    BY <1>3, PopTokenKeeps, EndSyncKeeps, LeaveKeeps, BeginFloodKeeps, FloodKeeps, EndFloodKeeps
       DEF HostGoesOn
  <1>4. CASE UNCHANGED vars
    <2>1. RecordsInv' /\ \A g \in Fluids : Pending(g)' = Pending(g)
      BY <1>4, HostKept DEF vars
    <2> QED
      BY <1>4, <2>1 DEF vars, WorldInv, WorldTyped, TokensInv, CallsInv, Due, Flooded, Collected, m_workers
  <1> QED
    BY <1>1, <1>2, <1>3, <1>4 DEF Next

\* The tokens a fluid is owed are in its queue or with the calls of fluidMP that are left.
THEOREM WorldInvariant == Spec => []WorldInv
  <1> QED
    BY WorldInit, WorldNext, PTL DEF Spec

\* No record is lost, and no queue holds more than its size.
THEOREM WorldTyping == Spec => []TypeOK
  <1>1. WorldInv => TypeOK
    <2> SUFFICES ASSUME WorldInv  PROVE TypeOK
      OBVIOUS
    <2>1. WorldTyped /\ RecordsInv
      BY DEF WorldInv
    <2>2. Busy \in SUBSET Workers
      BY DEF Busy
    <2>3. Cardinality(Busy) \in Nat /\ Len(r_sendQueue) \in Nat
      BY <2>1, <2>2, WorldConstants, FS_Subset, FS_CardinalityType, LenProperties DEF WorldTyped
    <2>4. free \in 0 .. Records
      BY <2>1, <2>3, WorldConstants DEF RecordsInv, WorldTyped
    <2> QED
      BY <2>1, <2>4 DEF WorldTyped, TypeOK
  <1> QED
    BY WorldInvariant, <1>1, PTL

\* When the host goes on to touch a fluid no call of fluidMP for it is left.
THEOREM CollectingWaits == Spec => []SyncCoversFrame
  <1>1. WorldInv => SyncCoversFrame
    <2> SUFFICES ASSUME WorldInv, host \in {"calc", "terminate"}
                 PROVE  Pending(f) = 0 /\ r_blocker[f] = 0
      BY DEF SyncCoversFrame
    <2>1. f \in Fluids /\ frame[f] = "none" /\ Pending(f) \in Nat /\ r_blocker[f] \in Nat
      BY PendingIs, WorldConstants DEF WorldInv, WorldTyped, CallsInv
    <2>2. Pending(f) + r_blocker[f] = 0
      BY <2>1 DEF WorldInv, TokensInv, Due, Flooded
    <2> QED
      BY <2>1, <2>2
  <1> QED
    BY WorldInvariant, <1>1, PTL
=============================================================================
