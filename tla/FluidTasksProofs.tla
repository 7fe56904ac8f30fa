-------------------------- MODULE FluidTasksProofs --------------------------
(***************************************************************************)
(* Proofs about the task lists of fluid_cpu.c, for every height of the     *)
(* field, reach of the advection, number of relaxations and configuration, *)
(* but for a velocity output of another height and for a vorticity after   *)
(* which another task writes the velocity (Sound): those frames do run     *)
(* conflicting rows out of order.                                          *)
(*                                                                         *)
(* Whether a distance is enough is decided between a task and every        *)
(* earlier one, and a builder such as fluidTaskPressure sees none of them. *)
(* So the invariant along the builders, Good, says of a list not only that *)
(* its pairs of tasks are clear but also how far back its tasks read, n    *)
(* rows, and which fields a coming task must declare that distance for, P: *)
(* a task that declares n or more empties P, and one that declares less    *)
(* must not write a field of P (Light).  There is one lemma for the        *)
(* footprint of each row function, one for each builder, and FrameGood     *)
(* for the frame.  The last part adds the distances up: Offset is a        *)
(* recursive function, so this takes an induction over the natural         *)
(* numbers, which is made of WFMin.                                        *)
(***************************************************************************)
EXTENDS FluidConflicts, SequenceTheorems, WellFoundedInduction, TLAPS

\* The inputs: fields of the host, which no row function writes.
Inputs == {"vidIn", "velIn"}

\* The arguments of mpCTaskAdd that each of the two schedulers keeps.
TaskArgs == [fn : Nat, dep : Int]
WindowArgs == [fn : Nat, bottom : Nat, any : BOOLEAN]

\* The footprint of task i of the frame s, and the distance it declares.
Fn(s, i) == s.fns[s.windows[i].fn + 1]
Bottom(s, i) == s.windows[i].bottom

\* The frame s is a frame: a table of functions, and as many tasks as windows, which name
\* entries of the table and declare the same distance to both schedulers.
Formed(s) ==
    /\ DOMAIN s = {"fns", "tasks", "windows", "bound"}
    /\ \E S : s.fns \in Seq(S)
    /\ s.tasks \in Seq(TaskArgs)
    /\ s.windows \in Seq(WindowArgs)
    /\ Len(s.windows) = Len(s.tasks)
    /\ \A i \in 1 .. Len(s.tasks) :
          /\ s.tasks[i].fn < Len(s.fns)
          /\ s.windows[i].fn = s.tasks[i].fn
          /\ s.tasks[i].dep = -s.windows[i].bottom
          /\ s.windows[i].bottom \in {0, 1, AdvectDist + 1}

\* Row y of G writes row y of fields, never of an input.
WritesOwn(G) ==
    \A y \in RowSet : \A c \in G[y].writes : c[2] = y /\ c[1] \notin Inputs

\* Row y of G reads no row beyond y + b, inputs aside.
ReadsAbove(G, b) ==
    \A y \in RowSet : \A c \in G[y].reads :
       c[2] \in Int /\ c[1] # "vidOut" /\ (c[1] \in Inputs \/ c[2] <= y + b)

\* Row y of G reads no row before y - n, and only fields of P before row y; cells of U
\* aside.
ReadsBelow(G, n, U, P) ==
    \A y \in RowSet : \A c \in G[y].reads :
       \/ c[1] \in Inputs \/ c \in U
       \/ c[2] >= y - n /\ (c[2] >= y \/ c[1] \in P)

\* G writes no cell of U.
Avoids(G, U) == \A y \in RowSet : \A c \in G[y].writes : c \notin U

\* The rows of G can run in any order.
Apart(G) == \A y, z \in RowSet : y # z => ~Conflict(G[y], G[z])

\* G may declare b although earlier tasks read up to n rows back: it writes nothing but
\* the picture, which they do not read, or n is at most one row more, the row that
\* Grand Central Dispatch's scheduler waits for in any case, and it writes no field of P,
\* those whose reads the other scheduler has not waited for.
Light(G, b, n, P) ==
    \A y \in RowSet : \A c \in G[y].writes : c[1] = "vidOut" \/ (c[1] \notin P /\ n <= b + 1)

\* Task i of s may read c on row y: c is of an input or in U, or at most n rows back, and
\* if it is of a row before y, then of a field of P, or some task after i waits for that
\* many rows.
Covered(s, i, y, c, n, U, P) ==
    \/ c[1] \in Inputs \/ c \in U
    \/ /\ c[2] >= y - n
       /\ \/ c[2] >= y \/ c[1] \in P
          \/ \E m \in i + 1 .. Len(s.windows) : c[2] >= y - Bottom(s, m)

\* Every task of s writes and reads what it may.  This is what a builder needs of the
\* tasks before its own: U are the cells that no coming task writes, P the fields that
\* some task read behind its row, with no task since that waits for those reads.
Safe(s, n, U, P) ==
    \A i \in 1 .. Len(s.windows) :
       /\ WritesOwn(Fn(s, i))
       /\ s.windows[i].any => Apart(Fn(s, i))
       /\ \A y \in RowSet : \A c \in Fn(s, i)[y].reads :
             c[2] \in Int /\ c[1] # "vidOut" /\ Covered(s, i, y, c, n, U, P)

\* What both schedulers ask of the tasks i < j: row z of j does not conflict with the
\* rows of i that need not be finished when z starts.  With Grand Central Dispatch those
\* are farther ahead than the distance of j and one row; without, farther than every
\* distance of the tasks after i up to j (than their sum, which is at least each of them).
Clear(s, i, j, y, z) ==
    /\ y > z + Bottom(s, j) + 1 => ~Conflict(Fn(s, i)[y], Fn(s, j)[z])
    /\ (\A m \in i + 1 .. j : y > z + Bottom(s, m))
          => ~Conflict(Fn(s, i)[y], Fn(s, j)[z])

AllClear(s) ==
    \A i, j \in 1 .. Len(s.windows) : i < j => \A y, z \in RowSet : Clear(s, i, j, y, z)

\* r is s with tasks after it that all run G and declare b.
Extends(r, s, G, b, any) ==
    /\ Len(s.windows) <= Len(r.windows)
    /\ \A i \in 1 .. Len(s.windows) : r.windows[i] = s.windows[i] /\ Fn(r, i) = Fn(s, i)
    /\ \A i \in Len(s.windows) + 1 .. Len(r.windows) :
          Fn(r, i) = G /\ Bottom(r, i) = b /\ (r.windows[i].any => any)

-----------------------------------------------------------------------------
(* The step of the invariant. *)

\* The rows of a field.
LEMMA RowsAreInts == RowSet \subseteq Int /\ Rows \in Nat /\ 0 < Rows
  BY FieldAssumption DEF FieldAssumption, RowSet

\* Two row functions that write their own rows conflict on different rows only by a read.
LEMMA NoConflict ==
    ASSUME NEW F, NEW G, NEW y \in RowSet, NEW z \in RowSet, y # z,
           WritesOwn(F), WritesOwn(G),
           \A c \in G[z].reads : c[1] \in Inputs \/ c[2] # y,
           \A c \in F[y].reads : c \notin G[z].writes
    PROVE  ~Conflict(F[y], G[z])
  BY DEF Conflict, WritesOwn

\* The step of AllClear: tasks that run G keep it if they declare at least the n rows
\* that earlier tasks read back, or if there is one of them and it is light; and if G
\* reads no farther ahead than they declare.
LEMMA ExtendClear ==
    ASSUME NEW r, NEW s, NEW G, NEW b \in Nat, NEW any, NEW n \in Nat, NEW U, NEW P, NEW PP,
           Len(s.windows) \in Nat, Len(r.windows) \in Nat,
           \A i \in 1 .. Len(s.windows) : Bottom(s, i) \in Nat,
           Safe(s, n, U, P), AllClear(s), Extends(r, s, G, b, any),
           WritesOwn(G), ReadsAbove(G, b), ReadsBelow(G, n, U, PP), Avoids(G, U),
           b >= n \/ (Len(r.windows) = Len(s.windows) + 1 /\ Light(G, b, n, P))
    PROVE  AllClear(r)
<1> SUFFICES ASSUME NEW i \in 1 .. Len(r.windows), NEW j \in 1 .. Len(r.windows), i < j,
                    NEW y \in RowSet, NEW z \in RowSet
             PROVE  Clear(r, i, j, y, z)
  BY DEF AllClear
<1>1. y \in Int /\ z \in Int
  BY RowsAreInts
<1>2. CASE j <= Len(s.windows)
  <2>1. i \in 1 .. Len(s.windows) /\ j \in 1 .. Len(s.windows)
    BY <1>2
  <2>2. Clear(s, i, j, y, z)
    BY <2>1 DEF AllClear
  <2>3. Fn(r, i) = Fn(s, i) /\ Fn(r, j) = Fn(s, j)
    BY <2>1 DEF Extends
  <2>4. \A m \in i + 1 .. j : Bottom(r, m) = Bottom(s, m)
    BY <2>1 DEF Extends, Bottom
  <2>5. j \in i + 1 .. j
    BY <2>1
  <2> QED  BY <2>2, <2>3, <2>4, <2>5 DEF Clear
<1>3. CASE j > Len(s.windows)
  <2>1. Fn(r, j) = G /\ Bottom(r, j) = b /\ j \in i + 1 .. j
    BY <1>3 DEF Extends
  <2>2. WritesOwn(Fn(r, i))
    BY DEF Extends, Safe
  <2>3. ASSUME NEW c \in Fn(r, i)[y].reads, c \in G[z].writes,
               \/ y > z + b + 1
               \/ \A m \in i + 1 .. j : y > z + Bottom(r, m)
        PROVE  FALSE
    <3>1. c[2] = z /\ c[1] \notin Inputs /\ c \notin U
      BY <2>3 DEF WritesOwn, Avoids
    <3>2. y > z + b
      BY <1>1, <2>1, <2>3
    <3>3. CASE i <= Len(s.windows)
      <4>1. i \in 1 .. Len(s.windows) /\ c \in Fn(s, i)[y].reads
        BY <3>3, <2>3 DEF Extends
      <4>2. c[1] # "vidOut" /\ Covered(s, i, y, c, n, U, P)
        BY <4>1 DEF Safe
      <4>3. z >= y - n
        BY <3>1, <4>2 DEF Covered
      <4>4. ~(b >= n)
        BY <1>1, <3>2, <4>3
      <4>5. Light(G, b, n, P)
        BY <4>4
      <4>6. c[1] \notin P /\ n <= b + 1
        BY <2>3, <4>2, <4>5 DEF Light
      <4>7. PICK m \in i + 1 .. Len(s.windows) : z >= y - Bottom(s, m)
        BY <1>1, <3>1, <3>2, <4>2, <4>6 DEF Covered
      <4>8. m \in i + 1 .. j /\ Bottom(r, m) = Bottom(s, m) /\ Bottom(s, m) \in Nat
        BY <1>3, <4>1, <4>7 DEF Extends, Bottom
      <4>9. \A k \in i + 1 .. j : y > z + Bottom(r, k)
        BY <1>1, <2>3, <4>3, <4>6
      <4> QED  BY <1>1, <4>7, <4>8, <4>9
    <3>4. CASE i > Len(s.windows)
      <4>1. Fn(r, i) = G /\ b >= n
        BY <1>3, <3>4 DEF Extends
      <4>2. z >= y - n
        BY <2>3, <3>1, <4>1 DEF ReadsBelow
      <4> QED  BY <1>1, <3>2, <4>1, <4>2
    <3> QED  BY <3>3, <3>4
  <2>4. ASSUME \/ y > z + b + 1
               \/ \A m \in i + 1 .. j : y > z + Bottom(r, m)
        PROVE  ~Conflict(Fn(r, i)[y], Fn(r, j)[z])
    <3>1. y > z + b
      BY <1>1, <2>1, <2>4
    <3>2. \A c \in G[z].reads : c[1] \in Inputs \/ c[2] # y
      BY <1>1, <3>1 DEF ReadsAbove
    <3>3. \A c \in Fn(r, i)[y].reads : c \notin G[z].writes
      BY <2>3, <2>4
    <3>4. y # z
      BY <1>1, <3>1
    <3>5. ~Conflict(Fn(r, i)[y], G[z])
      BY <2>2, <3>2, <3>3, <3>4, NoConflict
    <3> QED  BY <2>1, <3>5
  <2> QED  BY <2>1, <2>4 DEF Clear
<1> QED  BY <1>2, <1>3

\* The step of Safe, with n rows and the fields PP from then on.  The fields of P are
\* forgotten when the new tasks declare n.
LEMMA ExtendSafe ==
    ASSUME NEW r, NEW s, NEW G, NEW b \in Nat, NEW any, NEW n \in Nat, NEW U, NEW P, NEW PP,
           Len(s.windows) \in Nat, Len(r.windows) \in Nat,
           Safe(s, n, U, P), Extends(r, s, G, b, any),
           WritesOwn(G), ReadsAbove(G, b), ReadsBelow(G, n, U, PP), any => Apart(G),
           P \subseteq PP \/ (b >= n /\ Len(s.windows) < Len(r.windows))
    PROVE  Safe(r, n, U, PP)
<1> SUFFICES ASSUME NEW i \in 1 .. Len(r.windows)
             PROVE  /\ WritesOwn(Fn(r, i))
                    /\ r.windows[i].any => Apart(Fn(r, i))
                    /\ \A y \in RowSet : \A c \in Fn(r, i)[y].reads :
                          c[2] \in Int /\ c[1] # "vidOut" /\ Covered(r, i, y, c, n, U, PP)
  BY DEF Safe
<1>1. CASE i <= Len(s.windows)
  <2>1. /\ i \in 1 .. Len(s.windows) /\ Fn(r, i) = Fn(s, i)
        /\ r.windows[i] = s.windows[i]
    BY <1>1 DEF Extends
  <2>2. ASSUME NEW y \in RowSet, NEW c \in Fn(r, i)[y].reads
        PROVE  c[2] \in Int /\ c[1] # "vidOut" /\ Covered(r, i, y, c, n, U, PP)
    <3>1. c[2] \in Int /\ c[1] # "vidOut" /\ Covered(s, i, y, c, n, U, P)
      BY <2>1, <2>2 DEF Safe
    <3>2. y \in Int
      BY RowsAreInts
    <3>3. \A m \in i + 1 .. Len(s.windows) :
             m \in i + 1 .. Len(r.windows) /\ Bottom(r, m) = Bottom(s, m)
      BY <2>1 DEF Extends, Bottom
    <3>4. ASSUME c[1] \in P, c[2] >= y - n
          PROVE  c[1] \in PP \/ \E m \in i + 1 .. Len(r.windows) : c[2] >= y - Bottom(r, m)
      <4>1. CASE P \subseteq PP
        BY <3>4, <4>1
      <4>2. CASE b >= n /\ Len(s.windows) < Len(r.windows)
        <5>1. /\ Len(r.windows) \in i + 1 .. Len(r.windows)
              /\ Len(r.windows) \in Len(s.windows) + 1 .. Len(r.windows)
          BY <2>1, <4>2
        <5>2. Bottom(r, Len(r.windows)) = b
          BY <5>1 DEF Extends
        <5>3. c[2] >= y - b
          BY <3>1, <3>2, <3>4, <4>2
        <5> QED  BY <5>1, <5>2, <5>3
      <4> QED  BY <4>1, <4>2
    <3> QED  BY <3>1, <3>3, <3>4 DEF Covered
  <2> QED  BY <2>1, <2>2 DEF Safe
<1>2. CASE i > Len(s.windows)
  <2>1. Fn(r, i) = G /\ (r.windows[i].any => any)
    BY <1>2 DEF Extends
  <2> QED  BY <2>1 DEF ReadsAbove, ReadsBelow, Covered
<1> QED  BY <1>1, <1>2

\* The invariant of the builders: s is formed and safe, its pairs are clear, and it has
\* at most f functions and t tasks.
Good(s, n, U, P, f, t) ==
    /\ Formed(s) /\ Safe(s, n, U, P) /\ AllClear(s)
    /\ Len(s.fns) <= f /\ Len(s.windows) <= t

-----------------------------------------------------------------------------
(* The lists of a frame. *)

\* The parts of a formed frame have their types.
LEMMA FormedFacts ==
    ASSUME NEW s, Formed(s)
    PROVE  /\ Len(s.fns) \in Nat /\ Len(s.tasks) \in Nat /\ Len(s.windows) \in Nat
           /\ \A i \in 1 .. Len(s.windows) :
                 /\ s.windows[i] \in WindowArgs
                 /\ s.tasks[i] \in TaskArgs
                 /\ s.windows[i].fn + 1 \in 1 .. Len(s.fns)
                 /\ Bottom(s, i) \in Nat
<1>1. PICK S : s.fns \in Seq(S)
  BY DEF Formed
<1>2. Len(s.fns) \in Nat /\ Len(s.tasks) \in Nat /\ Len(s.windows) \in Nat
  BY <1>1, LenProperties DEF Formed
<1>3. \A i \in 1 .. Len(s.windows) :
         /\ s.windows[i] \in WindowArgs
         /\ s.tasks[i] \in TaskArgs
  BY <1>2, ElementOfSeq DEF Formed
<1> QED  BY <1>2, <1>3 DEF Formed, Bottom, TaskArgs, WindowArgs

\* Append, with an element that may be of another type.
LEMMA AppendAny ==
    ASSUME NEW S, NEW q \in Seq(S), NEW e
    PROVE  /\ Append(q, e) \in Seq(S \cup {e})
           /\ Len(Append(q, e)) = Len(q) + 1
           /\ \A i \in 1 .. Len(q) : Append(q, e)[i] = q[i]
           /\ Append(q, e)[Len(q) + 1] = e
<1>1. q \in Seq(S \cup {e})
  BY SeqMonotonic
<1> QED  BY <1>1, AppendProperties

\* A function of 1 .. n is a sequence of length n.
LEMMA FunctionSeq ==
    ASSUME NEW S, NEW n \in Nat, NEW q \in [1 .. n -> S]
    PROVE  q \in Seq(S) /\ Len(q) = n
  OBVIOUS

\* A sequence followed by a function of 1 .. k.
LEMMA ConcatFunction ==
    ASSUME NEW S, NEW p \in Seq(S), NEW k \in Nat, NEW q \in [1 .. k -> S]
    PROVE  /\ p \o q \in Seq(S) /\ Len(p \o q) = Len(p) + k
           /\ \A i \in 1 .. Len(p) : (p \o q)[i] = p[i]
           /\ \A i \in 1 .. k : (p \o q)[Len(p) + i] = q[i]
<1>1. q \in Seq(S) /\ Len(q) = k
  BY FunctionSeq
<1>2. Len(p) \in Nat
  BY LenProperties
<1>3. /\ p \o q \in Seq(S) /\ Len(p \o q) = Len(p) + Len(q)
      /\ \A i \in 1 .. Len(p) + Len(q) :
            (p \o q)[i] = IF i <= Len(p) THEN p[i] ELSE q[i - Len(p)]
  BY <1>1, ConcatProperties
<1>4. ASSUME NEW i \in 1 .. Len(p) PROVE (p \o q)[i] = p[i]
  BY <1>1, <1>2, <1>3
<1>5. ASSUME NEW i \in 1 .. k PROVE (p \o q)[Len(p) + i] = q[i]
  <2>1. /\ Len(p) + i \in 1 .. Len(p) + Len(q) /\ ~(Len(p) + i <= Len(p))
        /\ (Len(p) + i) - Len(p) = i
    BY <1>1, <1>2
  <2>2. (p \o q)[Len(p) + i] = q[(Len(p) + i) - Len(p)]
    BY <1>3, <2>1
  <2> QED  BY <2>1, <2>2
<1> QED  BY <1>1, <1>3, <1>4, <1>5

\* What AddOne does to the lists of a frame.
LEMMA AddOneForm ==
    ASSUME NEW s, Formed(s), NEW G, NEW b \in {0, 1, AdvectDist + 1}, NEW dep \in Int
    PROVE  LET r == AddOne(s, G, -b, b, dep) IN
           /\ Formed(r) /\ Extends(r, s, G, b, dep = 0) /\ r.bound = s.bound
           /\ Len(r.fns) = Len(s.fns) + 1 /\ Len(r.windows) = Len(s.windows) + 1
<1> DEFINE r == AddOne(s, G, -b, b, dep)
           w == [fn |-> Len(s.fns), bottom |-> b, any |-> dep = 0]
           k == [fn |-> Len(s.fns), dep |-> -b]
<1>1. AdvectDist \in Nat /\ b \in Nat
  BY KernelAssumption DEF KernelAssumption
<1>2. /\ DOMAIN r = {"fns", "tasks", "windows", "bound"}
      /\ r.fns = Append(s.fns, G) /\ r.tasks = Append(s.tasks, k)
      /\ r.windows = Append(s.windows, w) /\ r.bound = s.bound
  <2>1. Window(Len(s.fns), b, dep) = w
    BY <1>1 DEF Window
  <2> HIDE DEF w
  <2> QED  BY <2>1 DEF AddOne, SetFn, fluidAddTask, Used, Formed
<1> HIDE DEF r
<1>3. Len(s.fns) \in Nat /\ Len(s.tasks) \in Nat /\ Len(s.windows) = Len(s.tasks)
  BY FormedFacts DEF Formed
<1>4. /\ \E S : r.fns \in Seq(S)
      /\ Len(r.fns) = Len(s.fns) + 1 /\ r.fns[Len(s.fns) + 1] = G
      /\ \A i \in 1 .. Len(s.fns) : r.fns[i] = s.fns[i]
  <2>1. PICK S : s.fns \in Seq(S)
    BY DEF Formed
  <2>2. /\ Append(s.fns, G) \in Seq(S \cup {G})
        /\ Len(Append(s.fns, G)) = Len(s.fns) + 1
        /\ \A i \in 1 .. Len(s.fns) : Append(s.fns, G)[i] = s.fns[i]
        /\ Append(s.fns, G)[Len(s.fns) + 1] = G
    BY <2>1, AppendAny
  <2> QED  BY <2>2, <1>2
<1>5. /\ r.tasks \in Seq(TaskArgs) /\ Len(r.tasks) = Len(s.tasks) + 1
      /\ \A i \in 1 .. Len(s.tasks) : r.tasks[i] = s.tasks[i]
      /\ r.tasks[Len(s.tasks) + 1] = k
  <2>1. k \in TaskArgs
    BY <1>1, <1>3 DEF TaskArgs
  <2> HIDE DEF k
  <2> QED  BY <1>2, <2>1, AppendProperties DEF Formed
<1>6. /\ r.windows \in Seq(WindowArgs)
      /\ Len(r.windows) = Len(s.windows) + 1
      /\ \A i \in 1 .. Len(s.windows) : r.windows[i] = s.windows[i]
      /\ r.windows[Len(s.windows) + 1] = w
  <2>1. w \in WindowArgs
    BY <1>1, <1>3 DEF WindowArgs
  <2> HIDE DEF w
  <2> QED  BY <1>2, <2>1, AppendProperties DEF Formed
<1>7. ASSUME NEW i \in 1 .. Len(r.tasks)
      PROVE  /\ r.tasks[i].fn < Len(r.fns) /\ r.windows[i].fn = r.tasks[i].fn
             /\ r.tasks[i].dep = -r.windows[i].bottom
             /\ r.windows[i].bottom \in {0, 1, AdvectDist + 1}
  <2>1. CASE i \in 1 .. Len(s.tasks)
    <3>1. s.tasks[i].fn \in Nat
      BY <2>1, <1>3, FormedFacts DEF TaskArgs
    <3>2. r.tasks[i] = s.tasks[i] /\ r.windows[i] = s.windows[i]
      BY <2>1, <1>3, <1>5, <1>6
    <3>3. /\ s.tasks[i].fn < Len(s.fns) /\ s.windows[i].fn = s.tasks[i].fn
          /\ s.tasks[i].dep = -s.windows[i].bottom
          /\ s.windows[i].bottom \in {0, 1, AdvectDist + 1}
      BY <2>1 DEF Formed
    <3>4. r.tasks[i].fn < Len(r.fns)
      BY <3>1, <3>2, <3>3, <1>3, <1>4
    <3> QED  BY <3>2, <3>3, <3>4
  <2>2. CASE i = Len(s.tasks) + 1
    BY <2>2, <1>3, <1>4, <1>5, <1>6
  <2> QED  BY <1>3, <1>5, <2>1, <2>2
<1>8. Formed(r)
  BY <1>2, <1>3, <1>4, <1>5, <1>6, <1>7 DEF Formed
<1>9. Extends(r, s, G, b, dep = 0)
  <2>1. \A i \in 1 .. Len(s.windows) : r.windows[i] = s.windows[i] /\ Fn(r, i) = Fn(s, i)
    <3> SUFFICES ASSUME NEW i \in 1 .. Len(s.windows)
                 PROVE  r.windows[i] = s.windows[i] /\ Fn(r, i) = Fn(s, i)
      OBVIOUS
    <3>1. r.windows[i] = s.windows[i]
      BY <1>6
    <3>2. s.windows[i].fn + 1 \in 1 .. Len(s.fns)
      BY FormedFacts
    <3> QED  BY <3>1, <3>2, <1>4 DEF Fn
  <2>2. \A i \in Len(s.windows) + 1 .. Len(r.windows) : i = Len(s.windows) + 1
    BY <1>3, <1>6
  <2>3. /\ Fn(r, Len(s.windows) + 1) = G /\ Bottom(r, Len(s.windows) + 1) = b
        /\ (r.windows[Len(s.windows) + 1].any => dep = 0)
    <3>1. w.fn = Len(s.fns) /\ w.bottom = b /\ (w.any => dep = 0)
      OBVIOUS
    <3> HIDE DEF w
    <3> QED  BY <3>1, <1>4, <1>6 DEF Fn, Bottom
  <2> QED  BY <1>3, <1>6, <2>1, <2>2, <2>3 DEF Extends
<1> QED  BY <1>2, <1>4, <1>6, <1>8, <1>9 DEF r

\* r is s with k relaxations more, of functions fns that are all G.
Longer(r, s, G, k, fns) ==
    /\ \A i \in 1 .. k : fns[i] < Len(s.fns) /\ s.fns[fns[i] + 1] = G
    /\ DOMAIN r = {"fns", "tasks", "windows", "bound"}
    /\ r.fns = s.fns
    /\ r.tasks \in Seq(TaskArgs)
    /\ Len(r.tasks) = Len(s.tasks) + k
    /\ \A i \in 1 .. Len(s.tasks) : r.tasks[i] = s.tasks[i]
    /\ \A i \in 1 .. k : /\ r.tasks[Len(s.tasks) + i].fn = fns[i]
                         /\ r.tasks[Len(s.tasks) + i].dep = -1
    /\ r.windows \in Seq(WindowArgs)
    /\ Len(r.windows) = Len(s.windows) + k
    /\ \A i \in 1 .. Len(s.windows) : r.windows[i] = s.windows[i]
    /\ \A i \in 1 .. k : /\ r.windows[Len(s.windows) + i].fn = fns[i]
                         /\ r.windows[Len(s.windows) + i].bottom = 1
                         /\ ~r.windows[Len(s.windows) + i].any

\* Relaxations leave a frame formed, and extend it.
LEMMA LongerForm ==
    ASSUME NEW s, Formed(s), NEW G, NEW k \in Nat, NEW fns, NEW r, Longer(r, s, G, k, fns)
    PROVE  Formed(r) /\ Extends(r, s, G, 1, FALSE)
<1> USE DEF Longer
<1>1. Len(s.fns) \in Nat /\ Len(s.tasks) \in Nat /\ Len(s.windows) = Len(s.tasks)
  BY FormedFacts DEF Formed
<1>2. ASSUME NEW i \in 1 .. Len(r.tasks)
      PROVE  i \in 1 .. Len(s.tasks) \/ \E m \in 1 .. k : i = Len(s.tasks) + m
  <2>1. i \notin 1 .. Len(s.tasks) => i - Len(s.tasks) \in 1 .. k
    BY <1>1
  <2>2. i = Len(s.tasks) + (i - Len(s.tasks))
    BY <1>1
  <2> QED  BY <2>1, <2>2
<1>3. ASSUME NEW i \in 1 .. Len(r.tasks)
      PROVE  /\ r.tasks[i].fn < Len(r.fns) /\ r.windows[i].fn = r.tasks[i].fn
             /\ r.tasks[i].dep = -r.windows[i].bottom
             /\ r.windows[i].bottom \in {0, 1, AdvectDist + 1}
  <2>1. CASE i \in 1 .. Len(s.tasks)
    BY <2>1, <1>1 DEF Formed
  <2>2. ASSUME NEW m \in 1 .. k, i = Len(s.tasks) + m
        PROVE  /\ r.tasks[i].fn < Len(r.fns) /\ r.windows[i].fn = r.tasks[i].fn
               /\ r.tasks[i].dep = -r.windows[i].bottom
               /\ r.windows[i].bottom \in {0, 1, AdvectDist + 1}
    BY <2>2, <1>1
  <2> QED  BY <1>2, <2>1, <2>2
<1>4. Formed(r)
  BY <1>1, <1>3 DEF Formed
<1>5. \A i \in 1 .. Len(s.windows) : r.windows[i] = s.windows[i] /\ Fn(r, i) = Fn(s, i)
  BY DEF Fn
<1>6. ASSUME NEW i \in Len(s.windows) + 1 .. Len(r.windows)
      PROVE  Fn(r, i) = G /\ Bottom(r, i) = 1 /\ (r.windows[i].any => FALSE)
  <2>1. i \in 1 .. Len(r.tasks) /\ i \notin 1 .. Len(s.tasks)
    BY <1>1
  <2>2. PICK m \in 1 .. k : i = Len(s.windows) + m
    BY <1>1, <1>2, <2>1
  <2> QED  BY <2>2 DEF Fn, Bottom
<1>7. Len(s.windows) <= Len(r.windows)
  BY <1>1
<1> QED  BY <1>4, <1>5, <1>6, <1>7 DEF Extends

\* What AddRelaxations does to the lists of a frame.
LEMMA RelaxForm ==
    ASSUME NEW s, Formed(s), NEW G, NEW k \in Nat, NEW fns \in [1 .. k -> Nat],
           \A i \in 1 .. k : fns[i] < Len(s.fns) /\ s.fns[fns[i] + 1] = G
    PROVE  LET r == AddRelaxations(s, fns) IN
           /\ Formed(r) /\ Extends(r, s, G, 1, FALSE) /\ r.bound = s.bound
           /\ r.fns = s.fns /\ Len(r.windows) = Len(s.windows) + k
<1> DEFINE r == AddRelaxations(s, fns)
           ws == [i \in 1 .. k |-> [fn |-> fns[i], bottom |-> 1, any |-> FALSE]]
           ts == [i \in 1 .. k |-> [fn |-> fns[i], dep |-> -1]]
<1>1. /\ ts \in [1 .. k -> TaskArgs]
      /\ \A i \in 1 .. k : ts[i].fn = fns[i] /\ ts[i].dep = -1
  BY DEF TaskArgs
<1>2. /\ ws \in [1 .. k -> WindowArgs]
      /\ \A i \in 1 .. k : ws[i].fn = fns[i] /\ ws[i].bottom = 1 /\ ~ws[i].any
  BY DEF WindowArgs
<1>3. /\ DOMAIN r = {"fns", "tasks", "windows", "bound"}
      /\ r.fns = s.fns /\ r.tasks = s.tasks \o ts
      /\ r.windows = s.windows \o ws /\ r.bound = s.bound
  <2>1. DOMAIN fns = 1 .. k
    OBVIOUS
  <2>2. [i \in DOMAIN fns |-> Window(fns[i], 1, 1)] = ws
    <3>1. \A i \in 1 .. k : Window(fns[i], 1, 1) = [fn |-> fns[i], bottom |-> 1, any |-> FALSE]
      <4>1. ~(1 < 0) /\ (1 = 0) = FALSE
        OBVIOUS
      <4> QED  BY <4>1, Zenon DEF Window
    <3> QED  BY <2>1, <3>1
  <2>3. [i \in DOMAIN fns |-> [fn |-> fns[i], dep |-> -1]] = ts
    BY <2>1
  <2> HIDE DEF ws, ts
  <2> QED  BY <2>2, <2>3 DEF AddRelaxations, Formed
<1> HIDE DEF r, ts, ws
<1>4. /\ r.tasks \in Seq(TaskArgs) /\ Len(r.tasks) = Len(s.tasks) + k
      /\ \A i \in 1 .. Len(s.tasks) : r.tasks[i] = s.tasks[i]
      /\ \A i \in 1 .. k : r.tasks[Len(s.tasks) + i] = ts[i]
  <2> DEFINE p == s.tasks
             q == ts
             S == TaskArgs
  <2>1. p \in Seq(S) /\ q \in [1 .. k -> S] /\ k \in Nat
    BY <1>1 DEF Formed
  <2>2. r.tasks = p \o q
    BY <1>3
  <2> HIDE DEF p, q, S
  <2>3. /\ p \o q \in Seq(S) /\ Len(p \o q) = Len(p) + k
        /\ \A i \in 1 .. Len(p) : (p \o q)[i] = p[i]
        /\ \A i \in 1 .. k : (p \o q)[Len(p) + i] = q[i]
    BY ONLY <2>1, ConcatFunction
  <2> QED  BY ONLY <2>2, <2>3 DEF p, q, S
<1>5. /\ r.windows \in Seq(WindowArgs) /\ Len(r.windows) = Len(s.windows) + k
      /\ \A i \in 1 .. Len(s.windows) : r.windows[i] = s.windows[i]
      /\ \A i \in 1 .. k : r.windows[Len(s.windows) + i] = ws[i]
  <2> DEFINE p == s.windows
             q == ws
             S == WindowArgs
  <2>1. p \in Seq(S) /\ q \in [1 .. k -> S] /\ k \in Nat
    BY <1>2 DEF Formed
  <2>2. r.windows = p \o q
    BY <1>3
  <2> HIDE DEF p, q, S
  <2>3. /\ p \o q \in Seq(S) /\ Len(p \o q) = Len(p) + k
        /\ \A i \in 1 .. Len(p) : (p \o q)[i] = p[i]
        /\ \A i \in 1 .. k : (p \o q)[Len(p) + i] = q[i]
    BY ONLY <2>1, ConcatFunction
  <2> QED  BY ONLY <2>2, <2>3 DEF p, q, S
<1>6. Formed(r) /\ Extends(r, s, G, 1, FALSE)
  <2>1. \A i \in 1 .. k : /\ r.tasks[Len(s.tasks) + i].fn = fns[i]
                          /\ r.tasks[Len(s.tasks) + i].dep = -1
    BY <1>1, <1>4
  <2>2. \A i \in 1 .. k : /\ r.windows[Len(s.windows) + i].fn = fns[i]
                          /\ r.windows[Len(s.windows) + i].bottom = 1
                          /\ ~r.windows[Len(s.windows) + i].any
    BY <1>2, <1>5
  <2>3. r.fns = s.fns /\ DOMAIN r = {"fns", "tasks", "windows", "bound"}
    BY <1>3
  <2>4. Longer(r, s, G, k, fns)
    BY <1>4, <1>5, <2>1, <2>2, <2>3 DEF Longer
  <2> QED  BY <2>4, LongerForm
<1> QED  BY <1>3, <1>5, <1>6 DEF r

\* Adding tasks exchanges no pointers.
LEMMA BoundKept ==
    ASSUME NEW s, Formed(s), NEW G
    PROVE  /\ SetFn(s, G).bound = s.bound
           /\ \A left, right, dep : AddOne(s, G, left, right, dep).bound = s.bound
           /\ \A fns : AddRelaxations(s, fns).bound = s.bound
           /\ \A k : AddAlternating(s, G, k).bound = s.bound
  BY DEF Formed, SetFn, AddOne, fluidAddTask, AddRelaxations, AddAlternating

\* What SetFn does to the table.
LEMMA SetFnForm ==
    ASSUME NEW s, Formed(s), NEW G
    PROVE  /\ Len(s.fns) \in Nat /\ Len(SetFn(s, G).fns) = Len(s.fns) + 1
           /\ SetFn(s, G).fns[Len(s.fns) + 1] = G
           /\ \A i \in 1 .. Len(s.fns) : SetFn(s, G).fns[i] = s.fns[i]
<1>1. PICK S : s.fns \in Seq(S)
  BY DEF Formed
<1>2. SetFn(s, G).fns = Append(s.fns, G)
  BY DEF SetFn, Formed
<1>3. /\ Append(s.fns, G) \in Seq(S \cup {G})
      /\ Len(Append(s.fns, G)) = Len(s.fns) + 1
      /\ \A i \in 1 .. Len(s.fns) : Append(s.fns, G)[i] = s.fns[i]
      /\ Append(s.fns, G)[Len(s.fns) + 1] = G
  BY <1>1, AppendAny
<1> QED  BY <1>2, <1>3, FormedFacts

-----------------------------------------------------------------------------
(* The invariant along the additions to a frame. *)

\* What ExtendClear and ExtendSafe ask of the footprint of a new task.
Shape(G, b, n, U, PP) ==
    WritesOwn(G) /\ ReadsAbove(G, b) /\ ReadsBelow(G, n, U, PP) /\ Avoids(G, U)

\* Both steps together.
LEMMA Extension ==
    ASSUME NEW s, NEW r, NEW n \in Nat, NEW U, NEW P, NEW PP, NEW f, NEW t, Good(s, n, U, P, f, t),
           NEW G, NEW b \in Nat, NEW any, Formed(r), Extends(r, s, G, b, any),
           Shape(G, b, n, U, PP), any => Apart(G),
           b >= n \/ (Len(r.windows) = Len(s.windows) + 1 /\ Light(G, b, n, P)),
           P \subseteq PP \/ (b >= n /\ Len(s.windows) < Len(r.windows))
    PROVE  Safe(r, n, U, PP) /\ AllClear(r)
<1>1. /\ Len(s.windows) \in Nat /\ Len(r.windows) \in Nat
      /\ \A i \in 1 .. Len(s.windows) : Bottom(s, i) \in Nat
  BY FormedFacts DEF Good
<1>2. Safe(s, n, U, P) /\ AllClear(s)
  BY DEF Good
<1>3. WritesOwn(G) /\ ReadsAbove(G, b) /\ ReadsBelow(G, n, U, PP) /\ Avoids(G, U)
  BY DEF Shape
<1>4. AllClear(r)
  BY <1>1, <1>2, <1>3, ExtendClear
<1>5. Safe(r, n, U, PP)
  BY <1>1, <1>2, <1>3, ExtendSafe
<1> QED  BY <1>4, <1>5

\* A task that declares b keeps the invariant, if b is at least n or the task is light.
LEMMA AddOneKeeps ==
    ASSUME NEW s, NEW n \in Nat, NEW U, NEW P, NEW PP, NEW f \in Nat, NEW t \in Nat,
           Good(s, n, U, P, f, t),
           NEW G, NEW b \in {0, 1, AdvectDist + 1}, NEW left, left = -b, NEW dep \in Int,
           Shape(G, b, n, U, PP), dep = 0 => Apart(G),
           b >= n \/ (Light(G, b, n, P) /\ P \subseteq PP)
    PROVE  Good(AddOne(s, G, left, b, dep), n, U, PP, f + 1, t + 1)
<1> DEFINE r == AddOne(s, G, left, b, dep)
<1>1. Formed(s) /\ b \in Nat
  BY KernelAssumption DEF KernelAssumption, Good
<1>2. /\ Formed(r) /\ Extends(r, s, G, b, dep = 0) /\ r.bound = s.bound
      /\ Len(r.fns) = Len(s.fns) + 1 /\ Len(r.windows) = Len(s.windows) + 1
  BY <1>1, AddOneForm
<1> HIDE DEF r
<1>3. Len(s.fns) \in Nat /\ Len(s.windows) \in Nat
  BY <1>1, FormedFacts
<1>4. Len(s.windows) < Len(r.windows)
  BY <1>2, <1>3
<1>5. Safe(r, n, U, PP) /\ AllClear(r)
  <2> DEFINE any == dep = 0
  <2>1. Extends(r, s, G, b, any) /\ (any => Apart(G))
    BY <1>2
  <2> HIDE DEF any
  <2>2. /\ b >= n \/ (Len(r.windows) = Len(s.windows) + 1 /\ Light(G, b, n, P))
        /\ P \subseteq PP \/ (b >= n /\ Len(s.windows) < Len(r.windows))
    BY <1>2, <1>4
  <2> QED  BY <1>1, <1>2, <2>1, <2>2, Extension
<1>6. Len(r.fns) <= f + 1 /\ Len(r.windows) <= t + 1
  BY <1>2, <1>3 DEF Good
<1> QED  BY <1>2, <1>5, <1>6 DEF Good, r

\* The functions fns of s are all G.
Names(s, fns, k, G) ==
    \A i \in 1 .. k : fns[i] < Len(s.fns) /\ s.fns[fns[i] + 1] = G

\* The relaxations keep the invariant: each declares the one row around it.
LEMMA AddRelaxationsKeeps ==
    ASSUME NEW s, NEW n \in {0, 1}, NEW U, NEW P, NEW PP, NEW f \in Nat, NEW t \in Nat,
           Good(s, n, U, P, f, t),
           NEW G, NEW k \in Nat, NEW fns \in [1 .. k -> Nat],
           Names(s, fns, k, G), Shape(G, 1, n, U, PP), P \subseteq PP
    PROVE  Good(AddRelaxations(s, fns), n, U, PP, f, t + k)
<1> DEFINE r == AddRelaxations(s, fns)
<1>1. Formed(s)
  BY DEF Good
<1>2. /\ Formed(r) /\ Extends(r, s, G, 1, FALSE) /\ r.bound = s.bound
      /\ r.fns = s.fns /\ Len(r.windows) = Len(s.windows) + k
  BY <1>1, RelaxForm DEF Names
<1> HIDE DEF r
<1>3. Len(s.fns) \in Nat /\ Len(s.windows) \in Nat
  BY <1>1, FormedFacts
<1>4. 1 >= n /\ n \in Nat
  OBVIOUS
<1>5. Safe(r, n, U, PP) /\ AllClear(r)
  <2> DEFINE any == FALSE
  <2>1. Extends(r, s, G, 1, any) /\ (any => Apart(G))
    BY <1>2
  <2> HIDE DEF any
  <2>2. /\ 1 >= n \/ (Len(r.windows) = Len(s.windows) + 1 /\ Light(G, 1, n, P))
        /\ P \subseteq PP \/ (1 >= n /\ Len(s.windows) < Len(r.windows))
    BY <1>4
  <2>3. 1 \in Nat
    OBVIOUS
  <2> QED  BY <1>1, <1>2, <1>4, <2>1, <2>2, <2>3, Extension
<1>6. Len(r.fns) <= f /\ Len(r.windows) <= t + k
  BY <1>2, <1>3 DEF Good
<1> QED  BY <1>2, <1>5, <1>6 DEF Good, r

\* A new table entry keeps the invariant.
LEMMA SetFnKeeps ==
    ASSUME NEW s, NEW n \in Nat, NEW U, NEW P, NEW f \in Nat, NEW t \in Nat,
           Good(s, n, U, P, f, t), NEW G
    PROVE  Good(SetFn(s, G), n, U, P, f + 1, t)
<1> DEFINE r == SetFn(s, G)
<1>1. Formed(s)
  BY DEF Good
<1>2. /\ DOMAIN r = {"fns", "tasks", "windows", "bound"} /\ r.fns = Append(s.fns, G)
      /\ r.tasks = s.tasks /\ r.windows = s.windows /\ r.bound = s.bound
  BY <1>1 DEF SetFn, Formed
<1> HIDE DEF r
<1>3. /\ \E S : r.fns \in Seq(S)
      /\ Len(r.fns) = Len(s.fns) + 1 /\ r.fns[Len(s.fns) + 1] = G
      /\ \A i \in 1 .. Len(s.fns) : r.fns[i] = s.fns[i]
  <2>1. PICK S : s.fns \in Seq(S)
    BY <1>1 DEF Formed
  <2>2. /\ Append(s.fns, G) \in Seq(S \cup {G})
        /\ Len(Append(s.fns, G)) = Len(s.fns) + 1
        /\ \A i \in 1 .. Len(s.fns) : Append(s.fns, G)[i] = s.fns[i]
        /\ Append(s.fns, G)[Len(s.fns) + 1] = G
    BY <2>1, AppendAny
  <2> QED  BY <2>2, <1>2
<1>4. /\ Len(s.fns) \in Nat /\ Len(s.windows) \in Nat
      /\ \A i \in 1 .. Len(s.windows) : s.windows[i].fn + 1 \in 1 .. Len(s.fns)
  BY <1>1, FormedFacts
<1>5. Formed(r)
  <2>1. ASSUME NEW i \in 1 .. Len(s.tasks) PROVE s.tasks[i].fn < Len(r.fns)
    <3>1. s.tasks[i].fn \in Nat /\ s.tasks[i].fn < Len(s.fns)
      BY <1>1, FormedFacts DEF Formed, TaskArgs
    <3> QED  BY <3>1, <1>3, <1>4
  <2> QED  BY <2>1, <1>1, <1>2, <1>3 DEF Formed
<1>6. \A i \in 1 .. Len(s.windows) : Fn(r, i) = Fn(s, i) /\ Bottom(r, i) = Bottom(s, i)
  BY <1>2, <1>3, <1>4 DEF Fn, Bottom
<1>7. Safe(r, n, U, P)
  <2>1. Safe(s, n, U, P)
    BY DEF Good
  <2>2. ASSUME NEW i \in 1 .. Len(s.windows), NEW y, NEW c, Covered(s, i, y, c, n, U, P)
        PROVE  Covered(r, i, y, c, n, U, P)
    BY <2>2, <1>2 DEF Covered, Bottom
  <2> QED  BY <2>1, <2>2, <1>2, <1>6 DEF Safe
<1>8. AllClear(r)
  <2>1. AllClear(s)
    BY DEF Good
  <2>2. ASSUME NEW i \in 1 .. Len(s.windows), NEW j \in 1 .. Len(s.windows), NEW y, NEW z,
               Clear(s, i, j, y, z)
        PROVE  Clear(r, i, j, y, z)
    <3>1. \A m \in i + 1 .. j : Bottom(r, m) = Bottom(s, m)
      BY <1>2 DEF Bottom
    <3> QED  BY <2>2, <3>1, <1>6 DEF Clear
  <2> QED  BY <2>1, <2>2, <1>2 DEF AllClear
<1>9. Len(r.fns) <= f + 1 /\ Len(r.windows) <= t
  BY <1>2, <1>3, <1>4 DEF Good
<1> QED  BY <1>2, <1>3, <1>5, <1>7, <1>8, <1>9 DEF Good, r

\* So do two new table entries, used in turn.
LEMMA AddAlternatingKeeps ==
    ASSUME NEW s, NEW n \in {0, 1}, NEW U, NEW P, NEW PP, NEW f \in Nat, NEW t \in Nat,
           Good(s, n, U, P, f, t), NEW G, NEW k \in Nat,
           Shape(G, 1, n, U, PP), P \subseteq PP
    PROVE  Good(AddAlternating(s, G, k), n, U, PP, f + 2, t + k)
<1> DEFINE s1 == SetFn(s, G)
           s2 == SetFn(s1, G)
           ids == [i \in 1 .. k |-> (Used(s) + 1) - ((i - 1) % 2)]
<1>1. n \in Nat /\ Len(s.fns) \in Nat
  BY FormedFacts DEF Good
<1> HIDE DEF ids
<1>2. /\ Len(s1.fns) = Len(s.fns) + 1 /\ s1.fns[Len(s.fns) + 1] = G
      /\ Good(s1, n, U, P, f + 1, t)
  BY <1>1, SetFnForm, SetFnKeeps DEF Good
<1>3. Good(s2, n, U, P, (f + 1) + 1, t)
  <2> DEFINE f1 == f + 1
  <2>1. f1 \in Nat /\ t \in Nat
    OBVIOUS
  <2>2. Good(s1, n, U, P, f1, t)
    BY <1>2
  <2> HIDE DEF f1
  <2>3. Good(s2, n, U, P, f1 + 1, t)
    BY <1>1, <2>1, <2>2, SetFnKeeps, Zenon
  <2> QED  BY <2>3 DEF f1
<1> HIDE DEF s1
<1>9. /\ Len(s2.fns) = Len(s1.fns) + 1 /\ s2.fns[Len(s1.fns) + 1] = G
      /\ \A i \in 1 .. Len(s1.fns) : s2.fns[i] = s1.fns[i]
  BY <1>2, SetFnForm DEF Good
<1> HIDE DEF s2
<1>4. s2.fns[Len(s.fns) + 1] = G /\ s2.fns[Len(s.fns) + 2] = G /\ Len(s2.fns) = Len(s.fns) + 2
  <2>1. Len(s.fns) + 1 \in 1 .. Len(s1.fns)
    BY <1>1, <1>2
  <2>2. s2.fns[Len(s.fns) + 1] = G
    BY <1>2, <1>9, <2>1
  <2>3. Len(s1.fns) + 1 = Len(s.fns) + 2
    BY <1>1, <1>2
  <2> QED  BY <1>9, <2>2, <2>3
<1>5. ASSUME NEW i \in 1 .. k
      PROVE  ids[i] \in Nat /\ ids[i] < Len(s2.fns) /\ s2.fns[ids[i] + 1] = G
  <2> DEFINE m == (i - 1) % 2
  <2>1. m \in {0, 1}
    OBVIOUS
  <2>2. ids[i] = (Len(s.fns) + 1) - m
    BY DEF Used, ids
  <2> HIDE DEF m
  <2>3. CASE m = 0
    <3>1. ids[i] = Len(s.fns) + 1 /\ ids[i] + 1 = Len(s.fns) + 2
      BY <1>1, <2>2, <2>3
    <3>2. s2.fns[ids[i] + 1] = G
      BY <1>4, <3>1
    <3> QED  BY <1>1, <1>4, <3>1, <3>2
  <2>4. CASE m = 1
    <3>1. ids[i] = Len(s.fns) /\ ids[i] + 1 = Len(s.fns) + 1
      BY <1>1, <2>2, <2>4
    <3>2. s2.fns[ids[i] + 1] = G
      BY <1>4, <3>1
    <3> QED  BY <1>1, <1>4, <3>1, <3>2
  <2> QED  BY <2>1, <2>3, <2>4
<1>6. ids \in [1 .. k -> Nat]
  BY <1>5 DEF ids
<1>7. AddAlternating(s, G, k) = AddRelaxations(s2, ids)
  BY DEF AddAlternating, s1, s2, ids
<1>8. Good(AddRelaxations(s2, ids), n, U, PP, f + 2, t + k)
  <2> DEFINE f2 == f + 2
  <2>1. n \in {0, 1} /\ f2 \in Nat /\ t \in Nat /\ k \in Nat
    OBVIOUS
  <2>2. Good(s2, n, U, P, f2, t)
    <3>1. (f + 1) + 1 = f2
      OBVIOUS
    <3> QED  BY <1>3, <3>1
  <2> HIDE DEF f2
  <2>3. Names(s2, ids, k, G)
    BY <1>5 DEF Names
  <2>4. Good(AddRelaxations(s2, ids), n, U, PP, f2, t + k)
    BY <1>6, <2>1, <2>2, <2>3, AddRelaxationsKeeps, Zenon
  <2> QED  BY <2>4 DEF f2
<1> QED  BY <1>7, <1>8

\* The invariant may be weakened: more rows back, more cells that stay, more fields, more
\* functions and tasks.
LEMMA Weaken ==
    ASSUME NEW s, NEW n \in Nat, NEW m \in Nat, n <= m, NEW U, NEW V, U \subseteq V,
           NEW P, NEW Q, P \subseteq Q, NEW f \in Nat, NEW g \in Nat, f <= g,
           NEW t \in Nat, NEW u \in Nat, t <= u, Good(s, n, U, P, f, t)
    PROVE  Good(s, m, V, Q, g, u)
<1>1. Len(s.fns) \in Nat /\ Len(s.windows) \in Nat
  BY FormedFacts DEF Good
<1>2. Len(s.fns) <= g /\ Len(s.windows) <= u
  BY <1>1 DEF Good
<1>3. ASSUME NEW i \in 1 .. Len(s.windows), NEW y \in RowSet, NEW c, c[2] \in Int,
             Covered(s, i, y, c, n, U, P)
      PROVE  Covered(s, i, y, c, m, V, Q)
  <2>1. y \in Int
    BY RowsAreInts
  <2>2. c[2] >= y - n => c[2] >= y - m
    BY <1>3, <2>1
  <2> QED  BY <1>3, <2>2 DEF Covered
<1>4. Safe(s, m, V, Q)
  <2>1. Safe(s, n, U, P)
    BY DEF Good
  <2> QED  BY <1>3, <2>1 DEF Safe
<1> QED  BY <1>2, <1>4 DEF Good

-----------------------------------------------------------------------------
-----------------------------------------------------------------------------
(* The footprints of the row functions. *)

\* The cells of a row, and of a band of rows.
LEMMA RowCells ==
    ASSUME NEW f, NEW y, NEW c \in Row(f, y)
    PROVE  c = <<f, y>> /\ c[1] = f /\ c[2] = y /\ y \in RowSet
  BY DEF Row

LEMMA BandCells ==
    ASSUME NEW f, NEW a, NEW b, NEW c \in Band(f, a, b)
    PROVE  c[1] = f /\ c[2] \in RowSet /\ a <= c[2] /\ c[2] <= b
  BY DEF Band

\* Row y of G reads and writes the rows that Shape asks for, and writes the fields of W.
RowShape(G, b, n, U, PP, W, y) ==
    /\ \A c \in G[y].writes : c[2] = y /\ c[1] \in W /\ c \notin U
    /\ \A c \in G[y].reads :
          /\ c[2] \in Int /\ c[1] # "vidOut"
          /\ \/ c[1] \in Inputs
             \/ /\ c[2] <= y + b
                /\ c \in U \/ (c[2] >= y - n /\ (c[2] >= y \/ c[1] \in PP))

\* A footprint has its shape if each of its rows has.
LEMMA ShapeOfRows ==
    ASSUME NEW G, NEW b, NEW n, NEW U, NEW PP, NEW W, W \cap Inputs = {},
           \A y \in RowSet : RowShape(G, b, n, U, PP, W, y)
    PROVE  Shape(G, b, n, U, PP)
  BY DEF Shape, WritesOwn, ReadsAbove, ReadsBelow, Avoids, RowShape

\* Its rows are apart if they read what others write at their own row only.
LEMMA ApartOfRows ==
    ASSUME NEW G, NEW b, NEW n, NEW U, NEW PP, NEW W,
           \A y \in RowSet : RowShape(G, b, n, U, PP, W, y),
           \A y \in RowSet : \A c \in G[y].reads : c[2] = y \/ c[1] \notin W
    PROVE  Apart(G)
  BY DEF Apart, Conflict, RowShape

\* It is light if it writes the last output, or no field of P.
LEMMA LightOfRows ==
    ASSUME NEW G, NEW b, NEW n, NEW U, NEW PP, NEW W, NEW P,
           \A y \in RowSet : RowShape(G, b, n, U, PP, W, y),
           W \subseteq {"vidOut"} \/ (W \cap P = {} /\ n <= b + 1)
    PROVE  Light(G, b, n, P)
  BY DEF Light, RowShape

\* Row 0 of velY, which the vorticity reads from the last row (fluid_vorticity.c:92).
Swirled == {<<"velY", 0>>}

\* The two tasks of the vorticity.  Reading row 0 from the last row is all right as long
\* as no later task writes row 0.
LEMMA CurlShape ==
    LET G == fluid_vorticity_curl("velX", "velY", "tmpVelX") IN
    Shape(G, 1, 1, Swirled, {"velX", "velY"}) /\ Apart(G)
<1> DEFINE G == fluid_vorticity_curl("velX", "velY", "tmpVelX")
<1>1. ASSUME NEW y \in RowSet
      PROVE  /\ RowShape(G, 1, 1, Swirled, {"velX", "velY"}, {"tmpVelX"}, y)
             /\ \A c \in G[y].reads : c[2] = y \/ c[1] \notin {"tmpVelX"}
  <2>0. y \in Int /\ 0 <= y /\ y <= Rows - 1 /\ Rows \in Nat
    BY RowsAreInts DEF RowSet
  <2>1. \A c \in G[y].writes : c[1] = "tmpVelX" /\ c[2] = y /\ c = <<"tmpVelX", y>>
    BY RowCells DEF fluid_vorticity_curl, Touch
  <2>2. ASSUME NEW c \in G[y].reads
        PROVE  \/ c = <<"velY", 0>> /\ c[1] = "velY" /\ c[2] = 0
               \/ c[1] = "velY" /\ c[2] = y
               \/ c[1] = "velX" /\ c[2] = y - 1
               \/ c[1] = "velX" /\ c[2] = y + 1
    <3>1. CASE Edge(y)
      BY <2>2, <3>1, RowCells DEF fluid_vorticity_curl, Touch
    <3>2. CASE ~Edge(y)
      <4>1. c \in Row("velY", y) \/ c \in Row("velX", y - 1) \/ c \in Row("velX", y + 1)
        BY <2>2, <3>2 DEF fluid_vorticity_curl, Touch
      <4> QED  BY <4>1, RowCells
    <3> QED  BY <3>1, <3>2
  <2> HIDE DEF G
  <2> QED  BY <2>0, <2>1, <2>2 DEF RowShape, Swirled, Inputs
<1> HIDE DEF G
<1>2. {"tmpVelX"} \cap Inputs = {}
  BY DEF Inputs
<1>3. Shape(G, 1, 1, Swirled, {"velX", "velY"})
  BY <1>1, <1>2, ShapeOfRows
<1>4. Apart(G)
  BY <1>1, ApartOfRows
<1> QED  BY <1>3, <1>4 DEF G

\* The second of them leaves row 0 alone.
LEMMA ApplyShape ==
    LET G == fluid_vorticity_apply("velX", "velY", "tmpVelX") IN
    Shape(G, 1, 1, Swirled, {"tmpVelX"}) /\ Apart(G)
<1> DEFINE G == fluid_vorticity_apply("velX", "velY", "tmpVelX")
<1>1. ASSUME NEW y \in RowSet
      PROVE  /\ RowShape(G, 1, 1, Swirled, {"tmpVelX"}, {"velX", "velY"}, y)
             /\ \A c \in G[y].reads : c[2] = y \/ c[1] \notin {"velX", "velY"}
  <2>0. y \in Int /\ 0 <= y /\ y <= Rows - 1 /\ Rows \in Nat
    BY RowsAreInts DEF RowSet
  <2>1. \A c \in G[y].writes : y # 0 /\ c[1] \in {"velX", "velY"} /\ c[2] = y
    BY RowCells DEF fluid_vorticity_apply, Touch, Both, Edge
  <2>2. ASSUME NEW c \in G[y].reads
        PROVE  \/ c[1] \in {"velX", "velY"} /\ c[2] = y
               \/ c[1] = "tmpVelX" /\ c[2] \in RowSet /\ y - 1 <= c[2] /\ c[2] <= y + 1
    <3>1. c \in Row("velX", y) \/ c \in Row("velY", y) \/ c \in Band("tmpVelX", y - 1, y + 1)
      BY <2>2 DEF fluid_vorticity_apply, Touch, Both
    <3> QED  BY <3>1, RowCells, BandCells
  <2> HIDE DEF G
  <2>3. \A c \in G[y].writes : c \notin Swirled
    BY <2>1 DEF Swirled
  <2>4. ASSUME NEW c \in G[y].reads
        PROVE  /\ c[2] \in Int /\ c[1] # "vidOut" /\ c[2] <= y + 1 /\ c[2] >= y - 1
               /\ c[2] >= y \/ c[1] \in {"tmpVelX"}
               /\ c[2] = y \/ c[1] \notin {"velX", "velY"}
    <3>1. CASE c[1] \in {"velX", "velY"} /\ c[2] = y
      BY <2>0, <3>1
    <3>2. CASE c[1] = "tmpVelX" /\ c[2] \in RowSet /\ y - 1 <= c[2] /\ c[2] <= y + 1
      <4>1. c[2] \in Int
        BY <3>2, RowsAreInts
      <4> QED  BY <3>2, <4>1
    <3> QED  BY <2>2, <2>4, <3>1, <3>2
  <2> QED  BY <2>1, <2>3, <2>4 DEF RowShape
<1> HIDE DEF G
<1>2. {"velX", "velY"} \cap Inputs = {}
  BY DEF Inputs
<1>3. Shape(G, 1, 1, Swirled, {"tmpVelX"})
  BY <1>1, <1>2, ShapeOfRows
<1>4. Apart(G)
  BY <1>1, ApartOfRows
<1> QED  BY <1>3, <1>4 DEF G

\* A function whose rows read and write row y only, input rows aside.
OwnRow(G, W, U) ==
    \A y \in RowSet :
       /\ \A c \in G[y].writes : c[2] = y /\ c[1] \in W /\ c \notin U
       /\ \A c \in G[y].reads : c[2] \in Int /\ c[1] # "vidOut" /\ (c[1] \in Inputs \/ c[2] = y)

\* Such a function has its shape for every distance, and its rows are apart.
LEMMA OwnRowShape ==
    ASSUME NEW G, NEW W, NEW U, OwnRow(G, W, U), W \cap Inputs = {},
           NEW b \in Nat, NEW n \in Nat, NEW PP
    PROVE  Shape(G, b, n, U, PP) /\ Apart(G)
<1>1. ASSUME NEW y \in RowSet
      PROVE  /\ RowShape(G, b, n, U, PP, W, y)
             /\ \A c \in G[y].reads : c[2] = y \/ c[1] \notin W
  <2>1. y \in Int
    BY RowsAreInts
  <2>2. ASSUME NEW c \in G[y].reads
        PROVE  /\ c[2] \in Int /\ c[1] # "vidOut" /\ (c[1] \in Inputs \/ c[2] = y)
               /\ c[2] = y \/ c[1] \notin W
    BY <2>2 DEF OwnRow
  <2>3. y <= y + b /\ y >= y - n /\ y >= y
    BY <2>1
  <2> QED  BY <2>2, <2>3 DEF OwnRow, RowShape
<1>2. Shape(G, b, n, U, PP)
  BY <1>1, ShapeOfRows
<1>3. Apart(G)
  BY <1>1, ApartOfRows
<1> QED  BY <1>2, <1>3

\* It is light on the conditions of LightOfRows.
LEMMA OwnRowLight ==
    ASSUME NEW G, NEW W, NEW U, OwnRow(G, W, U), NEW b, NEW n, NEW P,
           W \subseteq {"vidOut"} \/ (W \cap P = {} /\ n <= b + 1)
    PROVE  Light(G, b, n, P)
  BY DEF Light, OwnRow

\* The inputs and the velocity output work on their own row.
LEMMA OutsideRows ==
    /\ OwnRow(fluid_input_char2dens("density", "vidIn"), {"density"}, {})
    /\ OwnRow(fluid_input_float2vel("velX", "velY", "velIn"), {"velX", "velY"}, {})
    /\ OwnRow(fluid_input_float2vel_scale("velX", "velY", "velIn"), {"velX", "velY"}, {})
    /\ OwnRow(fluid_input_vel2float("velX", "velY", "velOut"), {"velOut"}, {})
<1>1. OwnRow(fluid_input_char2dens("density", "vidIn"), {"density"}, {})
  BY RowCells, RowsAreInts DEF OwnRow, fluid_input_char2dens, Touch, Both, Inputs
<1>2. OwnRow(fluid_input_float2vel("velX", "velY", "velIn"), {"velX", "velY"}, {})
  BY RowCells, RowsAreInts DEF OwnRow, fluid_input_float2vel, Touch, Both, Inputs
<1>3. OwnRow(fluid_input_float2vel_scale("velX", "velY", "velIn"), {"velX", "velY"}, {})
  <2> DEFINE G == fluid_input_float2vel_scale("velX", "velY", "velIn")
  <2>1. ASSUME NEW y \in RowSet, NEW c \in G[y].writes
        PROVE  c[2] = y /\ c[1] \in {"velX", "velY"} /\ c \notin {}
    BY <2>1, RowCells DEF fluid_input_float2vel_scale, Touch, Both
  <2>2. ASSUME NEW y \in RowSet, NEW c \in G[y].reads
        PROVE  c[2] \in Int /\ c[1] # "vidOut" /\ (c[1] \in Inputs \/ c[2] = y)
    <3>1. c \in Row("velX", y) \/ c \in Row("velY", y) \/ c \in Band("velIn", 0, Rows - 1)
      BY <2>2 DEF fluid_input_float2vel_scale, Touch, Both
    <3>2. CASE c \in Row("velX", y) \/ c \in Row("velY", y)
      BY <3>2, RowCells, RowsAreInts
    <3>3. CASE c \in Band("velIn", 0, Rows - 1)
      <4>1. c[1] = "velIn" /\ c[2] \in RowSet
        BY <3>3, BandCells
      <4> QED  BY <4>1, RowsAreInts DEF Inputs
    <3> QED  BY <3>1, <3>2, <3>3
  <2> HIDE DEF G
  <2>3. OwnRow(G, {"velX", "velY"}, {})
    BY <2>1, <2>2 DEF OwnRow
  <2> QED  BY <2>3 DEF G
<1>4. OwnRow(fluid_input_vel2float("velX", "velY", "velOut"), {"velOut"}, {})
  BY RowCells, RowsAreInts DEF OwnRow, fluid_input_vel2float, Touch, Both, Inputs
<1> QED  BY <1>1, <1>2, <1>3, <1>4

\* So do the forces and the correction of the density;
LEMMA ForceRows ==
    /\ \A f \in {"density", "velX", "velY"} : OwnRow(fluid_dampen(f), {f}, {})
    /\ OwnRow(fluid_dampen("density"), {"density"}, Swirled)
    /\ OwnRow(fluid_force_heat("density", "velX", "velY"), {"velX", "velY"}, {})
    /\ \A U \in {{}, Swirled} : OwnRow(fluid_genPressure_densfix("density"), {"density"}, U)
<1>1. ASSUME NEW f \in {"density", "velX", "velY"} PROVE OwnRow(fluid_dampen(f), {f}, {})
  BY RowCells, RowsAreInts DEF OwnRow, fluid_dampen, Touch
<1>2. OwnRow(fluid_dampen("density"), {"density"}, Swirled)
  BY RowCells, RowsAreInts DEF OwnRow, fluid_dampen, Touch, Swirled
<1>3. OwnRow(fluid_force_heat("density", "velX", "velY"), {"velX", "velY"}, {})
  BY RowCells, RowsAreInts DEF OwnRow, fluid_force_heat, Touch, Both
<1>4. ASSUME NEW U \in {{}, Swirled}
      PROVE  OwnRow(fluid_genPressure_densfix("density"), {"density"}, U)
  BY RowCells, RowsAreInts DEF OwnRow, fluid_genPressure_densfix, Touch, Swirled
<1> QED  BY <1>1, <1>2, <1>3, <1>4

\* and the picture, whichever fields the pointers are of.
LEMMA OutputRows ==
    ASSUME NEW d, NEW p, NEW u, NEW v, "vidOut" \notin {d, p, u, v}, NEW U \in {{}, Swirled}
    PROVE  /\ OwnRow(fluid_video_temp2char(d, "vidOut"), {"vidOut"}, U)
           /\ OwnRow(fluid_video_dens2char_x(d, p, u, v, "vidOut"), {"vidOut"}, U)
<1>1. OwnRow(fluid_video_temp2char(d, "vidOut"), {"vidOut"}, U)
  BY RowCells, RowsAreInts DEF OwnRow, fluid_video_temp2char, Touch, Swirled
<1>2. OwnRow(fluid_video_dens2char_x(d, p, u, v, "vidOut"), {"vidOut"}, U)
  BY RowCells, RowsAreInts DEF OwnRow, fluid_video_dens2char_x, Touch, Both, Swirled
<1> QED  BY <1>1, <1>2

\* The viscosity reads the rows around its own, and writes row 0.
LEMMA ViscosityShape ==
    ASSUME NEW PP, {"velX", "velY"} \subseteq PP
    PROVE  Shape(fluid_viscosity("velX", "velY"), 1, 1, {}, PP)
<1> DEFINE G == fluid_viscosity("velX", "velY")
<1>1. ASSUME NEW y \in RowSet PROVE RowShape(G, 1, 1, {}, PP, {"velX", "velY"}, y)
  <2>0. y \in Int
    BY RowsAreInts
  <2>1. \A c \in G[y].writes : c[1] \in {"velX", "velY"} /\ c[2] = y
    BY RowCells DEF fluid_viscosity, Touch, Both
  <2>2. ASSUME NEW c \in G[y].reads
        PROVE  c[1] \in {"velX", "velY"} /\ c[2] \in Int /\ y - 1 <= c[2] /\ c[2] <= y + 1
    <3>1. CASE Edge(y)
      <4>1. c \in Row("velX", Inner(y)) \/ c \in Row("velY", Inner(y))
        BY <2>2, <3>1 DEF fluid_viscosity, Touch, Both
      <4>2. c[1] \in {"velX", "velY"} /\ c[2] = Inner(y)
        BY <4>1, RowCells
      <4>3. Inner(y) \in Int /\ y - 1 <= Inner(y) /\ Inner(y) <= y + 1
        BY <2>0 DEF Inner
      <4> QED  BY <4>2, <4>3
    <3>2. CASE ~Edge(y)
      <4>1. c \in Band("velX", y - 1, y + 1) \/ c \in Band("velY", y - 1, y + 1)
        BY <2>2, <3>2 DEF fluid_viscosity, Touch
      <4> QED  BY <4>1, BandCells, RowsAreInts
    <3> QED  BY <3>1, <3>2
  <2> HIDE DEF G
  <2> QED  BY <2>0, <2>1, <2>2 DEF RowShape
<1> HIDE DEF G
<1>2. {"velX", "velY"} \cap Inputs = {}
  BY DEF Inputs
<1>3. Shape(G, 1, 1, {}, PP)
  BY <1>1, <1>2, ShapeOfRows
<1> QED  BY <1>3 DEF G

\* The relaxations of the pressure read the rows around their own.
LEMMA PressureShape ==
    ASSUME NEW PP, {"velY", "pressure"} \subseteq PP, NEW U \in {{}, Swirled}
    PROVE  /\ Shape(fluid_genPressure("velX", "velY", "pressure"), 1, 1, U, PP)
           /\ Shape(fluid_genPressure_dens("velX", "velY", "pressure", "density"), 1, 1, U, PP)
<1> SUFFICES ASSUME NEW G,
                    \/ G = fluid_genPressure("velX", "velY", "pressure")
                    \/ G = fluid_genPressure_dens("velX", "velY", "pressure", "density")
             PROVE  Shape(G, 1, 1, U, PP)
  OBVIOUS
<1>1. ASSUME NEW y \in RowSet PROVE RowShape(G, 1, 1, U, PP, {"pressure"}, y)
  <2>0. y \in Int
    BY RowsAreInts
  <2>1. \A c \in G[y].writes : c = <<"pressure", y>> /\ c[1] = "pressure" /\ c[2] = y
    BY RowCells DEF fluid_genPressure, fluid_genPressure_dens, Touch
  <2>2. ASSUME NEW c \in G[y].reads
        PROVE  \/ c[1] \in {"velY", "pressure"} /\ c[2] \in Int
                  /\ y - 1 <= c[2] /\ c[2] <= y + 1
               \/ c[1] \in {"velX", "density"} /\ c[2] = y
    <3>1. CASE Edge(y)
      <4>1. c \in Row("pressure", Inner(y))
        BY <2>2, <3>1 DEF fluid_genPressure, fluid_genPressure_dens, Touch
      <4>2. c[1] = "pressure" /\ c[2] = Inner(y)
        BY <4>1, RowCells
      <4>3. Inner(y) \in Int /\ y - 1 <= Inner(y) /\ Inner(y) <= y + 1
        BY <2>0 DEF Inner
      <4> QED  BY <4>2, <4>3
    <3>2. CASE ~Edge(y)
      <4>1. \/ c \in Band("pressure", y - 1, y + 1)
            \/ c \in Row("velX", y) \/ c \in Row("density", y)
            \/ c \in Row("velY", y - 1) \/ c \in Row("velY", y + 1)
        BY <2>2, <3>2 DEF fluid_genPressure, fluid_genPressure_dens, Touch, Both
      <4>2. CASE c \in Band("pressure", y - 1, y + 1)
        BY <4>2, BandCells, RowsAreInts
      <4>3. CASE c \in Row("velX", y) \/ c \in Row("density", y)
        BY <4>3, RowCells
      <4>4. CASE c \in Row("velY", y - 1) \/ c \in Row("velY", y + 1)
        BY <2>0, <4>4, RowCells
      <4> QED  BY <4>1, <4>2, <4>3, <4>4
    <3> QED  BY <3>1, <3>2
  <2>3. \A c \in G[y].writes : c \notin U
    BY <2>1 DEF Swirled
  <2>4. ASSUME NEW c \in G[y].reads
        PROVE  /\ c[2] \in Int /\ c[1] # "vidOut" /\ c[2] <= y + 1 /\ c[2] >= y - 1
               /\ c[2] >= y \/ c[1] \in PP
    BY <2>0, <2>2, <2>4
  <2> QED  BY <2>1, <2>3, <2>4 DEF RowShape
<1>2. {"pressure"} \cap Inputs = {}
  BY DEF Inputs
<1> QED  BY <1>1, <1>2, ShapeOfRows

\* The pressure is applied from the rows around, and leaves row 0 alone.
LEMMA ApplyPressureShape ==
    ASSUME NEW U \in {{}, Swirled}
    PROVE  Shape(fluid_applyPressure("velX", "velY", "pressure"), 1, 1, U, {"pressure"})
<1> DEFINE G == fluid_applyPressure("velX", "velY", "pressure")
<1>1. ASSUME NEW y \in RowSet
      PROVE  RowShape(G, 1, 1, U, {"pressure"}, {"velX", "velY"}, y)
  <2>0. y \in Int
    BY RowsAreInts
  <2>1. \A c \in G[y].writes : y # 0 /\ c[1] \in {"velX", "velY"} /\ c[2] = y
    BY RowCells DEF fluid_applyPressure, Touch, Both, Edge
  <2>2. ASSUME NEW c \in G[y].reads
        PROVE  \/ c[1] \in {"velX", "velY"} /\ c[2] = y
               \/ c[1] = "pressure" /\ c[2] \in Int /\ y - 1 <= c[2] /\ c[2] <= y + 1
    <3>1. c \in Row("velX", y) \/ c \in Row("velY", y) \/ c \in Band("pressure", y - 1, y + 1)
      BY <2>2 DEF fluid_applyPressure, Touch, Both
    <3>2. CASE c \in Row("velX", y) \/ c \in Row("velY", y)
      BY <3>2, RowCells
    <3>3. CASE c \in Band("pressure", y - 1, y + 1)
      BY <3>3, BandCells, RowsAreInts
    <3> QED  BY <3>1, <3>2, <3>3
  <2> HIDE DEF G
  <2>3. \A c \in G[y].writes : c \notin U
    BY <2>1 DEF Swirled
  <2>4. ASSUME NEW c \in G[y].reads
        PROVE  /\ c[2] \in Int /\ c[1] # "vidOut" /\ c[2] <= y + 1 /\ c[2] >= y - 1
               /\ c[2] >= y \/ c[1] \in {"pressure"}
    BY <2>0, <2>2, <2>4
  <2> QED  BY <2>1, <2>3, <2>4 DEF RowShape
<1> HIDE DEF G
<1>2. {"velX", "velY"} \cap Inputs = {}
  BY DEF Inputs
<1>3. Shape(G, 1, 1, U, {"pressure"})
  BY <1>1, <1>2, ShapeOfRows
<1> QED  BY <1>3 DEF G

\* The distance of the advection's tasks.
Far == AdvectDist + 1

\* It is a number of rows.
LEMMA FarInNat == AdvectDist \in Nat /\ Far \in Nat /\ -AdvectDist - 1 = -Far
  BY KernelAssumption DEF KernelAssumption, Far

\* The rows the advection can reach.
LEMMA ReachCells ==
    ASSUME NEW f, NEW y \in RowSet, NEW c \in Reach(f, y)
    PROVE  c[1] = f /\ c[2] \in Int /\ y - Far <= c[2] /\ c[2] <= y + Far
<1>1. c[1] = f /\ c[2] \in RowSet /\ y - AdvectDist <= c[2] /\ c[2] <= y + AdvectDist + 1
  BY BandCells DEF Reach
<1>2. y \in Int /\ c[2] \in Int /\ AdvectDist \in Nat
  BY <1>1, RowsAreInts, FarInNat
<1>3. y + AdvectDist + 1 = y + Far /\ y - Far <= y - AdvectDist
  BY <1>2 DEF Far
<1>4. y - AdvectDist \in Int /\ y - Far \in Int /\ y + Far \in Int
  BY <1>2 DEF Far
<1> QED  BY <1>1, <1>2, <1>3, <1>4

\* A function that reads the fields of R around its row and those of Q at its row, and
\* writes those of W at its row.
FarRow(G, R, Q, W) ==
    \A y \in RowSet :
       /\ \A c \in G[y].writes : c[2] = y /\ c[1] \in W
       /\ \A c \in G[y].reads :
             \/ c[1] \in Q /\ c[2] = y
             \/ c[1] \in R /\ c[2] \in Int /\ y - Far <= c[2] /\ c[2] <= y + Far

\* Such a function has the shape for the distance Far, and its rows are apart, because it
\* writes other fields than those it reaches into.
LEMMA FarShape ==
    ASSUME NEW G, NEW R, NEW Q, NEW W, FarRow(G, R, Q, W),
           W \cap Inputs = {}, W \cap R = {}, "velY" \notin W,
           "vidOut" \notin R, "vidOut" \notin Q, NEW U \in {{}, Swirled},
           NEW PP, R \subseteq PP
    PROVE  Shape(G, Far, Far, U, PP) /\ Apart(G)
<1>1. ASSUME NEW y \in RowSet
      PROVE  /\ RowShape(G, Far, Far, U, PP, W, y)
             /\ \A c \in G[y].reads : c[2] = y \/ c[1] \notin W
  <2>1. y \in Int /\ Far \in Nat
    BY RowsAreInts, FarInNat
  <2>2. ASSUME NEW c \in G[y].writes
        PROVE  c[2] = y /\ c[1] \in W /\ c \notin U
    <3>1. c[2] = y /\ c[1] \in W
      BY <2>2 DEF FarRow
    <3>2. c \in Swirled => c[1] = "velY"
      BY DEF Swirled
    <3> QED  BY <3>1, <3>2
  <2>3. ASSUME NEW c \in G[y].reads
        PROVE  /\ c[2] \in Int /\ c[1] # "vidOut" /\ c[2] <= y + Far /\ c[2] >= y - Far
               /\ c[2] >= y \/ c[1] \in PP
               /\ c[2] = y \/ c[1] \notin W
    <3>1. \/ c[1] \in Q /\ c[2] = y
          \/ c[1] \in R /\ c[2] \in Int /\ y - Far <= c[2] /\ c[2] <= y + Far
      BY <2>3 DEF FarRow
    <3> QED  BY <2>1, <3>1
  <2> QED  BY <2>2, <2>3 DEF RowShape
<1>2. Shape(G, Far, Far, U, PP)
  BY <1>1, ShapeOfRows
<1>3. Apart(G)
  BY <1>1, ApartOfRows
<1> QED  BY <1>2, <1>3

\* The advection's functions are of that kind.
LEMMA AdvectionRows ==
    /\ FarRow(fluid_advection_mccormack_repos("velX", "velY", "reposX", "reposY"),
              {"velX", "velY"}, {}, {"reposX", "reposY"})
    /\ FarRow(fluid_repos("reposX", "reposY", "density", "density_swap"),
              {"density"}, {"reposX", "reposY"}, {"density_swap"})
    /\ FarRow(fluid_reposVel("reposX", "reposY", "velX", "velY", "tmpVelX", "tmpVelY"),
              {"velX", "velY"}, {"reposX", "reposY"}, {"tmpVelX", "tmpVelY"})
<1>1. FarRow(fluid_advection_mccormack_repos("velX", "velY", "reposX", "reposY"),
             {"velX", "velY"}, {}, {"reposX", "reposY"})
  BY RowCells, ReachCells DEF FarRow, fluid_advection_mccormack_repos, Touch, Both
<1>2. FarRow(fluid_repos("reposX", "reposY", "density", "density_swap"),
             {"density"}, {"reposX", "reposY"}, {"density_swap"})
  BY RowCells, ReachCells DEF FarRow, fluid_repos, Touch, Both
<1>3. FarRow(fluid_reposVel("reposX", "reposY", "velX", "velY", "tmpVelX", "tmpVelY"),
             {"velX", "velY"}, {"reposX", "reposY"}, {"tmpVelX", "tmpVelY"})
  BY RowCells, ReachCells DEF FarRow, fluid_reposVel, Touch, Both
<1> QED  BY <1>1, <1>2, <1>3

-----------------------------------------------------------------------------
-----------------------------------------------------------------------------
(* The builders of fluid_cpu.c. *)

\* A task that is not added keeps the invariant too.
LEMMA MoreRoom ==
    ASSUME NEW s, NEW n \in Nat, NEW U, NEW P, NEW f \in Nat, NEW t \in Nat,
           Good(s, n, U, P, f, t), NEW Q, P \subseteq Q
    PROVE  Good(s, n, U, Q, f + 1, t + 1)
<1>1. /\ n \in Nat /\ n <= n /\ U \subseteq U
      /\ f \in Nat /\ f + 1 \in Nat /\ f <= f + 1
      /\ t \in Nat /\ t + 1 \in Nat /\ t <= t + 1
  OBVIOUS
<1> QED  BY <1>1, Weaken, Zenon

\* A task on its own row declares nothing, and keeps the invariant while no task before
\* reads more than one row back.
LEMMA OwnTask ==
    ASSUME NEW s, NEW n \in Nat, NEW U, NEW P, NEW f \in Nat, NEW t \in Nat,
           Good(s, n, U, P, f, t),
           NEW G, NEW W, OwnRow(G, W, U), W \cap Inputs = {},
           W \subseteq {"vidOut"} \/ (W \cap P = {} /\ n <= 1)
    PROVE  Good(AddOne(s, G, 0, 0, 0), n, U, P, f + 1, t + 1)
<1> DEFINE b == 0
<1>1. b = 0 /\ b \in Int /\ b <= 0 /\ 0 <= b
  OBVIOUS
<1> HIDE DEF b
<1>2. \A x \in Int : x <= 0 /\ 0 <= x => 0 = -x
  OBVIOUS
<1>3. 0 = -b
  BY <1>2, <1>1, Zenon
<1>4. /\ b \in {0, 1, AdvectDist + 1} /\ b \in Nat /\ b + 1 = 1
      /\ n \in Nat /\ f \in Nat /\ t \in Nat /\ 0 \in Int
  BY <1>1, FarInNat
<1>5. Shape(G, b, n, U, P) /\ Apart(G)
  BY <1>4, OwnRowShape, Zenon
<1>6. Light(G, b, n, P)
  BY <1>4, OwnRowLight
<1>7. Good(AddOne(s, G, 0, b, 0), n, U, P, f + 1, t + 1)
  BY <1>3, <1>4, <1>5, <1>6, AddOneKeeps, Zenon
<1> QED  BY <1>1, <1>7

\* A task that declares what it and all before it reach keeps the invariant.
LEMMA AlongTask ==
    ASSUME NEW s, NEW n \in Nat, NEW U, NEW P, NEW f \in Nat, NEW t \in Nat,
           Good(s, n, U, P, f, t),
           NEW G, NEW b \in {0, 1, AdvectDist + 1}, NEW left, left = -b, NEW dep \in {0, 1},
           NEW PP, Shape(G, b, n, U, PP), dep = 0 => Apart(G), n <= b
    PROVE  Good(AddOne(s, G, left, b, dep), n, U, PP, f + 1, t + 1)
<1>1. b \in {0, 1, AdvectDist + 1} /\ n \in Nat /\ f \in Nat /\ t \in Nat /\ dep \in Int
  OBVIOUS
<1>2. b >= n
  BY <1>1, FarInNat
<1> QED  BY <1>1, <1>2, AddOneKeeps, Zenon

\* No pointers have been exchanged.
Plain(s) == s.bound = NewFrame.bound

\* Adding tasks exchanges no pointers.
LEMMA PlainKept ==
    ASSUME NEW s, Formed(s), Plain(s)
    PROVE  /\ \A G : Plain(SetFn(s, G))
           /\ \A G, left, right, dep : Plain(AddOne(s, G, left, right, dep))
           /\ \A fns : Plain(AddRelaxations(s, fns))
           /\ \A G, k : Plain(AddAlternating(s, G, k))
  BY BoundKept DEF Plain

\* The fields that the pointers of such a frame are of.
LEMMA PlainNames ==
    ASSUME NEW s, Plain(s)
    PROVE  /\ s.bound.density = "density" /\ s.bound.density_swap = "density_swap"
           /\ s.bound.velX = "velX" /\ s.bound.velY = "velY"
           /\ s.bound.tmpVelX = "tmpVelX" /\ s.bound.tmpVelY = "tmpVelY"
           /\ s.bound.pressure = "pressure"
           /\ s.bound.reposX = "reposX" /\ s.bound.reposY = "reposY"
  BY DEF Plain, NewFrame

\* The invariant holds of the empty frame.
LEMMA NewFrameGood == Good(NewFrame, 1, {}, {}, 0, 0) /\ Plain(NewFrame)
<1>1. /\ \A S : <<>> \in Seq(S)
      /\ Len(<<>>) = 0
  BY EmptySeq
<1>2. /\ NewFrame.fns = <<>> /\ NewFrame.tasks = <<>> /\ NewFrame.windows = <<>>
      /\ DOMAIN NewFrame = {"fns", "tasks", "windows", "bound"}
  BY DEF NewFrame
<1>3. Formed(NewFrame) /\ Safe(NewFrame, 1, {}, {}) /\ AllClear(NewFrame)
  BY <1>1, <1>2 DEF Formed, Safe, AllClear
<1> QED  BY <1>1, <1>2, <1>3 DEF Good, Plain

\* A frame of at most f functions and t tasks.
Stage(s, n, U, P, f, t) == Good(s, n, U, P, f, t) /\ Plain(s)

\* OwnTask for stages, whether or not the task is added.
LEMMA OwnStage ==
    ASSUME NEW s, NEW n \in Nat, NEW U, NEW P, NEW f \in Nat, NEW t \in Nat,
           Stage(s, n, U, P, f, t),
           NEW G, NEW W, OwnRow(G, W, U), W \cap Inputs = {},
           W \subseteq {"vidOut"} \/ (W \cap P = {} /\ n <= 1)
    PROVE  /\ Stage(AddOne(s, G, 0, 0, 0), n, U, P, f + 1, t + 1)
           /\ Stage(s, n, U, P, f + 1, t + 1)
<1>1. /\ Good(s, n, U, P, f, t) /\ Plain(s) /\ Formed(s)
      /\ n \in Nat /\ f \in Nat /\ t \in Nat /\ P \subseteq P
  BY DEF Stage, Good
<1>2. Good(AddOne(s, G, 0, 0, 0), n, U, P, f + 1, t + 1)
  BY <1>1, OwnTask, Zenon
<1>3. Good(s, n, U, P, f + 1, t + 1)
  BY <1>1, MoreRoom, Zenon
<1> QED  BY <1>1, <1>2, <1>3, PlainKept DEF Stage

\* AlongTask for stages.
LEMMA AlongStage ==
    ASSUME NEW s, NEW n \in Nat, NEW U, NEW P, NEW f \in Nat, NEW t \in Nat,
           Stage(s, n, U, P, f, t),
           NEW G, NEW b \in {0, 1, AdvectDist + 1}, NEW left, left = -b, NEW dep \in {0, 1},
           NEW PP, Shape(G, b, n, U, PP), dep = 0 => Apart(G), n <= b
    PROVE  Stage(AddOne(s, G, left, b, dep), n, U, PP, f + 1, t + 1)
<1>1. /\ Good(s, n, U, P, f, t) /\ Plain(s) /\ Formed(s) /\ b \in {0, 1, AdvectDist + 1}
      /\ n \in Nat /\ f \in Nat /\ t \in Nat /\ dep \in {0, 1}
  BY DEF Stage, Good
<1>2. Good(AddOne(s, G, left, b, dep), n, U, PP, f + 1, t + 1)
  BY <1>1, AlongTask, Zenon
<1> QED  BY <1>1, <1>2, PlainKept DEF Stage

\* Weaken for stages.
LEMMA WeakerStage ==
    ASSUME NEW s, NEW n \in Nat, NEW m \in Nat, n <= m, NEW U, NEW V, U \subseteq V,
           NEW P, NEW Q, P \subseteq Q, NEW f \in Nat, NEW g \in Nat, f <= g,
           NEW t \in Nat, NEW u \in Nat, t <= u, Stage(s, n, U, P, f, t)
    PROVE  Stage(s, m, V, Q, g, u)
<1>1. /\ Good(s, n, U, P, f, t) /\ Plain(s) /\ n \in Nat /\ m \in Nat
      /\ f \in Nat /\ g \in Nat /\ t \in Nat /\ u \in Nat
  BY DEF Stage
<1>2. Good(s, m, V, Q, g, u)
  BY <1>1, Weaken, Zenon
<1> QED  BY <1>1, <1>2 DEF Stage

\* What the host adds first.
LEMMA HostStage ==
    ASSUME NEW c \in Configuration, c.velOut # "scaled"
    PROVE  Stage(paramMess(addData(NewFrame, c), c), 1, {}, {}, 3, 3)
<1> DEFINE s1 == fluidVideoBlendIn(NewFrame, c)
           s2 == fluidVelocityBlendIn(s1, c)
           s3 == paramMess(s2, c)
<1>1. /\ 1 \in Nat /\ 0 \in Nat /\ 2 \in Nat /\ 1 <= 1
      /\ {"density"} \cap Inputs = {} /\ {"density"} \cap {} = {}
      /\ {"velX", "velY"} \cap Inputs = {} /\ {"velX", "velY"} \cap {} = {}
      /\ {"velOut"} \cap Inputs = {} /\ {"velOut"} \cap {} = {}
  BY DEF Inputs
<1>2. Stage(s1, 1, {}, {}, 1, 1)
  <2>1. Stage(NewFrame, 1, {}, {}, 0, 0)
    BY NewFrameGood DEF Stage
  <2> DEFINE G == fluid_input_char2dens(NewFrame.bound.density, "vidIn")
  <2>2. OwnRow(G, {"density"}, {})
    BY <2>1, PlainNames, OutsideRows DEF Stage
  <2> HIDE DEF G
  <2>3. /\ Stage(AddOne(NewFrame, G, 0, 0, 0), 1, {}, {}, 0 + 1, 0 + 1)
        /\ Stage(NewFrame, 1, {}, {}, 0 + 1, 0 + 1)
    BY <1>1, <2>1, <2>2, OwnStage, Zenon
  <2> QED  BY <2>3 DEF fluidVideoBlendIn, G
<1> HIDE DEF s1
<1>3. Stage(s2, 1, {}, {}, 2, 2)
  <2> DEFINE G == IF c.velIn = "same"
                  THEN fluid_input_float2vel(s1.bound.velX, s1.bound.velY, "velIn")
                  ELSE fluid_input_float2vel_scale(s1.bound.velX, s1.bound.velY, "velIn")
  <2>1. OwnRow(G, {"velX", "velY"}, {})
    BY <1>2, PlainNames, OutsideRows DEF Stage
  <2>2. s2 = AddOne(s1, G, 0, 0, 0)
    BY DEF fluidVelocityBlendIn
  <2> HIDE DEF G
  <2>3. Stage(AddOne(s1, G, 0, 0, 0), 1, {}, {}, 1 + 1, 1 + 1)
    BY <1>1, <1>2, <2>1, OwnStage, Zenon
  <2> QED  BY <2>2, <2>3
<1> HIDE DEF s2
<1>4. Stage(s3, 1, {}, {}, 3, 3)
  <2> DEFINE G == fluid_input_vel2float(s2.bound.velX, s2.bound.velY, "velOut")
  <2>1. OwnRow(G, {"velOut"}, {})
    BY <1>3, PlainNames, OutsideRows DEF Stage
  <2>2. s3 = s2 \/ s3 = AddOne(s2, G, 0, 0, 0)
    <3>1. fluidVideoVelocityOut(s2, c) =
             IF c.velOut = "same" THEN AddOne(s2, G, 0, 0, 0)
             ELSE AddOne(s2, fluid_input_vel2float_scale(s2.bound.velX, s2.bound.velY,
                                                         "velOut"), 0, 0, 0)
      BY DEF fluidVideoVelocityOut
    <3>2. c.velOut = "none" \/ c.velOut = "same"
      BY DEF Configuration
    <3> QED  BY <3>1, <3>2 DEF paramMess
  <2> HIDE DEF G, s3
  <2>3. /\ Stage(AddOne(s2, G, 0, 0, 0), 1, {}, {}, 2 + 1, 2 + 1)
        /\ Stage(s2, 1, {}, {}, 2 + 1, 2 + 1)
    BY <1>1, <1>3, <2>1, OwnStage, Zenon
  <2> QED  BY <2>2, <2>3
<1> QED  BY <1>4 DEF s1, s2, s3, addData

\* Once the vorticity has been added, row 0 of velY stays as it is until the frame ends.
Kept(c) == IF c.vorticity THEN Swirled ELSE {}

\* The vorticity.
LEMMA VorticityStage ==
    ASSUME NEW s, NEW c, NEW f \in Nat, NEW t \in Nat, Stage(s, 1, {}, {}, f, t)
    PROVE  Stage(fluidTaskVorticity(s, c), 1, Kept(c), {"tmpVelX"}, f + 2, t + 2)
<1>1. CASE ~c.vorticity
  <2> DEFINE P == {}
             Q == {"tmpVelX"}
  <2>1. /\ 1 \in Nat /\ 1 <= 1 /\ P \subseteq P /\ P \subseteq Q /\ Stage(s, 1, P, P, f, t)
        /\ f \in Nat /\ f + 2 \in Nat /\ f <= f + 2 /\ t \in Nat /\ t + 2 \in Nat /\ t <= t + 2
    OBVIOUS
  <2> HIDE DEF P, Q
  <2>2. Stage(s, 1, P, Q, f + 2, t + 2)
    BY <2>1, WeakerStage
  <2> QED  BY <1>1, <2>2 DEF fluidTaskVorticity, Kept, P, Q
<1>2. CASE c.vorticity
  <2> DEFINE G == fluid_vorticity_curl(s.bound.velX, s.bound.velY, s.bound.tmpVelX)
             H == fluid_vorticity_apply(s.bound.velX, s.bound.velY, s.bound.tmpVelX)
             f1 == f + 1
             t1 == t + 1
             r == AddOne(s, G, -1, 1, 0)
  <2>1. Shape(G, 1, 1, Swirled, {"velX", "velY"}) /\ Apart(G)
    BY CurlShape, PlainNames DEF Stage
  <2>2. Shape(H, 1, 1, Swirled, {"tmpVelX"}) /\ Apart(H)
    BY ApplyShape, PlainNames DEF Stage
  <2>3. fluidTaskVorticity(s, c) = AddOne(r, H, -1, 1, 0)
    BY <1>2 DEF fluidTaskVorticity
  <2>4. /\ 1 \in Nat /\ 1 <= 1 /\ 1 \in {0, 1, AdvectDist + 1} /\ 0 \in {0, 1} /\ {} \subseteq Swirled
        /\ f \in Nat /\ t \in Nat /\ f <= f /\ t <= t /\ {} \subseteq {}
        /\ f1 \in Nat /\ t1 \in Nat /\ f1 + 1 = f + 2 /\ t1 + 1 = t + 2 
        /\ f1 = f + 1 /\ t1 = t + 1
    BY FarInNat
  <2> HIDE DEF G, H, f1, t1, r
  <2>5. Stage(s, 1, Swirled, {}, f, t)
    BY <2>4, WeakerStage, Zenon
  <2>6. Stage(AddOne(s, G, -1, 1, 0), 1, Swirled, {"velX", "velY"}, f + 1, t + 1)
    BY <2>1, <2>4, <2>5, AlongStage, Zenon
  <2>7. Stage(r, 1, Swirled, {"velX", "velY"}, f1, t1)
    BY <2>6 DEF r, f1, t1
  <2>8. Stage(AddOne(r, H, -1, 1, 0), 1, Swirled, {"tmpVelX"}, f1 + 1, t1 + 1)
    BY <2>2, <2>4, <2>7, AlongStage, Zenon
  <2> QED  BY <1>2, <2>3, <2>4, <2>8 DEF Kept
<1> QED  BY <1>1, <1>2

\* The velocity is not damped, heated or smoothed after a vorticity.
Calm(c) == ~(c.vorticity /\ (c.fadeVel \/ c.viscosity \/ (c.density /\ c.heat)))

\* The damping of a field.  The velocity is damped only if there is no vorticity.
LEMMA DampenStage ==
    ASSUME NEW s, NEW c, Calm(c), NEW f \in Nat, NEW t \in Nat,
           Stage(s, 1, Kept(c), {"tmpVelX"}, f, t),
           NEW p, NEW fades,
           \/ p = "density"
           \/ p \in {"velX", "velY"} /\ fades = c.fadeVel
    PROVE  Stage(fluidTaskDampen(s, fades, p), 1, Kept(c), {"tmpVelX"}, f + 1, t + 1)
<1>1. /\ 1 \in Nat /\ 1 <= 1 /\ f \in Nat /\ t \in Nat
      /\ p \in {"density", "velX", "velY"} /\ {p} \cap Inputs = {} /\ {p} \cap {"tmpVelX"} = {}
  BY DEF Inputs
<1>2. s.bound[p] = p
  BY <1>1, PlainNames DEF Stage
<1>3. Stage(s, 1, Kept(c), {"tmpVelX"}, f + 1, t + 1)
  <2>1. /\ 1 <= 1 /\ Kept(c) \subseteq Kept(c) /\ {"tmpVelX"} \subseteq {"tmpVelX"}
        /\ f + 1 \in Nat /\ t + 1 \in Nat /\ f <= f + 1 /\ t <= t + 1
    OBVIOUS
  <2> QED  BY <1>1, <2>1, WeakerStage, Zenon
<1>4. ASSUME fades
      PROVE  Stage(AddOne(s, fluid_dampen(p), 0, 0, 0), 1, Kept(c), {"tmpVelX"}, f + 1, t + 1)
  <2>1. OwnRow(fluid_dampen(p), {p}, Kept(c))
    BY <1>1, <1>4, ForceRows DEF Kept, Calm
  <2> QED  BY <1>1, <2>1, OwnStage, Zenon
<1> QED  BY <1>2, <1>3, <1>4 DEF fluidTaskDampen

\* Gravity and heat.
LEMMA HeatStage ==
    ASSUME NEW s, NEW c, Calm(c), NEW f \in Nat, NEW t \in Nat,
           Stage(s, 1, Kept(c), {"tmpVelX"}, f, t)
    PROVE  Stage(fluidTaskTemperature(s, c), 1, Kept(c), {"tmpVelX"}, f + 1, t + 1)
<1>1. /\ 1 \in Nat /\ 1 <= 1 /\ f \in Nat /\ t \in Nat
      /\ {"velX", "velY"} \cap Inputs = {} /\ {"velX", "velY"} \cap {"tmpVelX"} = {}
  BY DEF Inputs
<1>2. Stage(s, 1, Kept(c), {"tmpVelX"}, f + 1, t + 1)
  <2>1. /\ 1 <= 1 /\ Kept(c) \subseteq Kept(c) /\ {"tmpVelX"} \subseteq {"tmpVelX"}
        /\ f + 1 \in Nat /\ t + 1 \in Nat /\ f <= f + 1 /\ t <= t + 1
    OBVIOUS
  <2> QED  BY <1>1, <2>1, WeakerStage, Zenon
<1>3. ASSUME c.density, c.heat
      PROVE  Stage(fluidTaskTemperature(s, c), 1, Kept(c), {"tmpVelX"}, f + 1, t + 1)
  <2> DEFINE G == fluid_force_heat(s.bound.density, s.bound.velX, s.bound.velY)
  <2>1. fluidTaskTemperature(s, c) = AddOne(s, G, 0, 0, 0)
    BY <1>3 DEF fluidTaskTemperature
  <2>2. OwnRow(G, {"velX", "velY"}, Kept(c))
    BY <1>3, PlainNames, ForceRows DEF Kept, Calm, Stage
  <2> HIDE DEF G
  <2>3. Stage(AddOne(s, G, 0, 0, 0), 1, Kept(c), {"tmpVelX"}, f + 1, t + 1)
    BY <1>1, <2>2, OwnStage, Zenon
  <2> QED  BY <2>1, <2>3
<1> QED  BY <1>2, <1>3 DEF fluidTaskTemperature

\* Relaxations with two functions in turn.
LEMMA AlternatingStage ==
    ASSUME NEW s, NEW n \in {0, 1}, NEW U, NEW P, NEW PP, NEW f \in Nat, NEW t \in Nat,
           Stage(s, n, U, P, f, t), NEW G, NEW k \in Nat,
           Shape(G, 1, n, U, PP), P \subseteq PP
    PROVE  Stage(AddAlternating(s, G, k), n, U, PP, f + 2, t + k)
<1>1. /\ Good(s, n, U, P, f, t) /\ Plain(s) /\ Formed(s)
      /\ n \in {0, 1} /\ f \in Nat /\ t \in Nat /\ k \in Nat
  BY DEF Stage, Good
<1>2. Good(AddAlternating(s, G, k), n, U, PP, f + 2, t + k)
  BY <1>1, AddAlternatingKeeps, Zenon
<1> QED  BY <1>1, <1>2, PlainKept DEF Stage

\* Relaxations with one function.
LEMMA RelaxationStage ==
    ASSUME NEW s, NEW n \in {0, 1}, NEW U, NEW P, NEW PP, NEW f \in Nat, NEW t \in Nat,
           Stage(s, n, U, P, f, t), NEW G, NEW k \in Nat,
           Shape(G, 1, n, U, PP), P \subseteq PP
    PROVE  LET r == AddRelaxations(SetFn(s, G), [i \in 1 .. k |-> Used(s)]) IN
           Stage(r, n, U, PP, f + 1, t + k)
<1> DEFINE s1 == SetFn(s, G)
           ids == [i \in 1 .. k |-> Used(s)]
           f1 == f + 1
<1>1. /\ Good(s, n, U, P, f, t) /\ Plain(s) /\ Formed(s)
      /\ n \in {0, 1} /\ n \in Nat /\ f \in Nat /\ t \in Nat /\ k \in Nat /\ f1 \in Nat
  BY DEF Stage, Good
<1>2. Good(s1, n, U, P, f + 1, t)
  BY <1>1, SetFnKeeps, Zenon
<1>3. Good(s1, n, U, P, f1, t)
  BY <1>2
<1>4. ids \in [1 .. k -> Nat] /\ Names(s1, ids, k, G)
  BY <1>1, SetFnForm DEF Names, Used
<1>5. Plain(s1) /\ Formed(s1)
  BY <1>1, <1>2, PlainKept DEF Good
<1> HIDE DEF s1, ids, f1
<1>6. Good(AddRelaxations(s1, ids), n, U, PP, f1, t + k)
  BY <1>1, <1>3, <1>4, AddRelaxationsKeeps, Zenon
<1>7. Plain(AddRelaxations(s1, ids))
  BY <1>5, PlainKept
<1> QED  BY <1>6, <1>7 DEF Stage, s1, ids, f1

\* The viscosity.
LEMMA ViscosityStage ==
    ASSUME NEW s, NEW c, Calm(c), NEW f \in Nat, NEW t \in Nat,
           Stage(s, 1, Kept(c), {"tmpVelX"}, f, t)
    PROVE  Stage(fluidTaskViscosity(s, c), 1, Kept(c), {"tmpVelX", "velX", "velY"},
                 f + 2, t + ViscosityAccuracy)
<1> DEFINE P == {"tmpVelX"}
           Q == {"tmpVelX", "velX", "velY"}
<1>1. /\ Stage(s, 1, Kept(c), P, f, t) /\ P \subseteq Q
      /\ 1 \in {0, 1} /\ f \in Nat /\ t \in Nat /\ ViscosityAccuracy \in Nat
  BY AccuracyAssumption DEF AccuracyAssumption
<1>2. {"velX", "velY"} \subseteq Q
  OBVIOUS
<1> HIDE DEF P, Q
<1>3. CASE c.viscosity
  <2> DEFINE G == fluid_viscosity(s.bound.velX, s.bound.velY)
  <2>1. Shape(G, 1, 1, Kept(c), Q)
    BY <1>2, <1>3, ViscosityShape, PlainNames DEF Stage, Kept, Calm
  <2>2. fluidTaskViscosity(s, c) = AddAlternating(s, G, ViscosityAccuracy)
    BY <1>3 DEF fluidTaskViscosity
  <2> HIDE DEF G
  <2>3. Stage(AddAlternating(s, G, ViscosityAccuracy), 1, Kept(c), Q,
              f + 2, t + ViscosityAccuracy)
    BY <1>1, <2>1, AlternatingStage, Zenon
  <2> QED  BY <2>2, <2>3 DEF Q
<1>4. CASE ~c.viscosity
  <2> DEFINE g == f + 2
             u == t + ViscosityAccuracy
  <2>1. g \in Nat /\ u \in Nat /\ f <= g /\ t <= u
    BY <1>1
  <2> HIDE DEF g, u
  <2>2. 1 \in Nat /\ 1 <= 1 /\ Kept(c) \subseteq Kept(c)
    OBVIOUS
  <2>3. Stage(s, 1, Kept(c), Q, g, u)
    BY <1>1, <2>1, <2>2, WeakerStage
  <2> QED  BY <1>4, <2>3 DEF fluidTaskViscosity, Q, g, u
<1> QED  BY <1>3, <1>4

\* The pressure, in both of its ways: what it adds before the relaxations, these, and the
\* pressure's application.
LEMMA PressureStage ==
    ASSUME NEW s, NEW c, NEW withDensity, NEW f \in Nat, NEW t \in Nat,
           Stage(s, 1, Kept(c), {"tmpVelX", "velX", "velY"}, f, t)
    PROVE  Stage(fluidTaskPressure(s, c, withDensity), 1, Kept(c), {"pressure"},
                 f + 3, t + PressureAccuracy + 2)
<1> DEFINE P == {"tmpVelX", "velX", "velY"}
           Q == {"tmpVelX", "velX", "velY", "pressure"}
           K == Kept(c)
           u == t + PressureAccuracy + 1
           g == f + 2
           k == PressureAccuracy
<1>1. /\ Stage(s, 1, K, P, f, t) /\ P \subseteq Q /\ K \subseteq K /\ {"velY", "pressure"} \subseteq Q
      /\ 1 \in {0, 1} /\ 1 \in Nat /\ 1 <= 1 /\ 1 \in {0, 1, AdvectDist + 1}
      /\ f \in Nat /\ t \in Nat /\ k \in Nat /\ g \in Nat /\ u \in Nat
      /\ K \in {{}, Swirled}
  BY AccuracyAssumption, FarInNat DEF AccuracyAssumption, Kept
<1> DEFINE A == fluid_applyPressure(s.bound.velX, s.bound.velY, s.bound.pressure)
           B == fluid_genPressure(s.bound.velX, s.bound.velY, s.bound.pressure)
           D == fluid_genPressure_dens(s.bound.velX, s.bound.velY, s.bound.pressure,
                                       s.bound.density)
           F == fluid_genPressure_densfix(s.bound.density)
           fixed == AddOne(s, F, -1, 1, 1)
           relaxed == IF withDensity /\ c.density
                      THEN AddRelaxations(SetFn(fixed, D), [i \in 1 .. k |-> Used(fixed)])
                      ELSE AddAlternating(s, B, k)
<1>2. fluidTaskPressure(s, c, withDensity) = AddOne(relaxed, A, -1, 1, 1)
  BY DEF fluidTaskPressure
<1>3. Shape(A, 1, 1, K, {"pressure"})
  BY <1>1, ApplyPressureShape, PlainNames DEF Stage
<1>4. Shape(B, 1, 1, K, Q) /\ Shape(D, 1, 1, K, Q)
  BY <1>1, PressureShape, PlainNames DEF Stage
<1>5. Shape(F, 1, 1, K, P) /\ Apart(F)
  <2>1. OwnRow(F, {"density"}, K)
    BY <1>1, ForceRows, PlainNames DEF Stage
  <2>2. {"density"} \cap Inputs = {}
    BY DEF Inputs
  <2> HIDE DEF F
  <2> QED  BY <1>1, <2>1, <2>2, OwnRowShape, Zenon
<1> HIDE DEF A, B, D, F, P, Q, K, u, g, k
<1>6. Stage(relaxed, 1, K, Q, g, u)
  <2>1. CASE withDensity /\ c.density
    <3> DEFINE f1 == f + 1
               t1 == t + 1
    <3>1. 1 \in {0, 1} /\ f1 \in Nat /\ t1 \in Nat /\ f1 + 1 = g /\ t1 + k = u
      BY <1>1 DEF g, u, k
    <3>2. Stage(fixed, 1, K, P, f + 1, t + 1)
      BY <1>1, <1>5, <3>1, AlongStage, Zenon
    <3>3. Stage(fixed, 1, K, P, f1, t1)
      BY <3>2
    <3> HIDE DEF f1, t1, fixed
    <3>4. Stage(AddRelaxations(SetFn(fixed, D), [i \in 1 .. k |-> Used(fixed)]), 1, K, Q,
                f1 + 1, t1 + k)
      BY <1>1, <1>4, <3>1, <3>3, RelaxationStage, Zenon
    <3> QED  BY <2>1, <3>1, <3>4
  <2>2. CASE ~(withDensity /\ c.density)
    <3> DEFINE v == t + k
    <3>1. v \in Nat /\ v <= u /\ g <= g
      BY <1>1 DEF u, k, g
    <3>2. Stage(AddAlternating(s, B, k), 1, K, Q, f + 2, t + k)
      BY <1>1, <1>4, AlternatingStage, Zenon
    <3>3. Stage(AddAlternating(s, B, k), 1, K, Q, g, v)
      BY <3>2 DEF g
    <3> HIDE DEF v
    <3>4. Q \subseteq Q
      OBVIOUS
    <3>5. Stage(AddAlternating(s, B, k), 1, K, Q, g, u)
      BY <1>1, <3>1, <3>3, <3>4, WeakerStage
    <3> QED  BY <2>2, <3>5
  <2> QED  BY <2>1, <2>2
<1> HIDE DEF relaxed, fixed
<1>7. Stage(AddOne(relaxed, A, -1, 1, 1), 1, K, {"pressure"}, g + 1, u + 1)
  <2>1. 1 \in {0, 1} /\ 1 # 0
    OBVIOUS
  <2> QED  BY <1>1, <1>3, <1>6, <2>1, AlongStage, Zenon
<1>8. g + 1 = f + 3 /\ u + 1 = t + PressureAccuracy + 2
  BY <1>1 DEF g, u, k
<1> QED  BY <1>2, <1>7, <1>8 DEF K

\* One task of the advection.
LEMMA FarTask ==
    ASSUME NEW s, NEW U \in {{}, Swirled}, NEW P, NEW f \in Nat, NEW t \in Nat,
           Good(s, Far, U, P, f, t),
           NEW G, NEW R, NEW Q, NEW W, FarRow(G, R, Q, W),
           W \cap Inputs = {}, W \cap R = {}, "velY" \notin W,
           "vidOut" \notin R, "vidOut" \notin Q
    PROVE  Good(AddOne(s, G, -AdvectDist - 1, AdvectDist + 1, 0), Far, U, R, f + 1, t + 1)
<1>1. /\ Far \in {0, 1, AdvectDist + 1} /\ Far \in Nat /\ Far <= Far /\ 0 \in {0, 1}
      /\ f \in Nat /\ t \in Nat /\ U \in {{}, Swirled} /\ -AdvectDist - 1 = -Far
      /\ AdvectDist + 1 = Far /\ R \subseteq R
  BY FarInNat DEF Far
<1>2. Shape(G, Far, Far, U, R) /\ Apart(G)
  BY <1>1, FarShape, Zenon
<1>3. Good(AddOne(s, G, -AdvectDist - 1, Far, 0), Far, U, R, f + 1, t + 1)
  BY <1>1, <1>2, AlongTask, Zenon
<1> QED  BY <1>1, <1>3

\* Exchanging two pointers adds nothing.
LEMMA SwapKeeps ==
    ASSUME NEW s, NEW n, NEW U, NEW P, NEW f, NEW t, Good(s, n, U, P, f, t), NEW p, NEW q
    PROVE  Good(fluidSwap(s, p, q), n, U, P, f, t)
<1> DEFINE r == fluidSwap(s, p, q)
<1>1. Formed(s)
  BY DEF Good
<1>2. /\ DOMAIN r = {"fns", "tasks", "windows", "bound"}
      /\ r.fns = s.fns /\ r.tasks = s.tasks /\ r.windows = s.windows
  BY <1>1 DEF fluidSwap, Formed
<1> HIDE DEF r
<1>3. Formed(r)
  BY <1>1, <1>2 DEF Formed
<1>4. Safe(r, n, U, P) /\ AllClear(r)
  BY <1>2 DEF Good, Safe, AllClear, Clear, Covered, Fn, Bottom
<1> QED  BY <1>2, <1>3, <1>4 DEF Good, r

\* What exchanging two pointers does to them.
LEMMA SwapNames ==
    ASSUME NEW s, Formed(s), NEW p, NEW q
    PROVE  /\ \A x : x \in DOMAIN s.bound /\ x # p /\ x # q
                  => fluidSwap(s, p, q).bound[x] = s.bound[x]
           /\ p \in DOMAIN s.bound /\ p # q => fluidSwap(s, p, q).bound[p] = s.bound[q]
           /\ DOMAIN fluidSwap(s, p, q).bound = DOMAIN s.bound
  BY DEF fluidSwap, Formed

\* The pointers that are in use.
Pointers == {"density", "density_swap", "velX", "velY", "tmpVelX", "tmpVelY", "pressure",
             "reposX", "reposY"}

\* The pointers as they are once the density has been advected.
Named(s) ==
    /\ DOMAIN s.bound = Pointers
    /\ s.bound.density \in {"density", "density_swap"}
    /\ s.bound.velX = "velX" /\ s.bound.velY = "velY"
    /\ s.bound.tmpVelX = "tmpVelX" /\ s.bound.tmpVelY = "tmpVelY"
    /\ s.bound.pressure = "pressure"
    /\ s.bound.reposX = "reposX" /\ s.bound.reposY = "reposY"

\* The advection's positions.
LEMMA ReposStage ==
    ASSUME NEW s, NEW U \in {{}, Swirled}, NEW P, NEW f \in Nat, NEW t \in Nat,
           Stage(s, Far, U, P, f, t)
    PROVE  Stage(fluidTaskCorrectorRepos(s), Far, U, {"velX", "velY"}, f + 1, t + 1)
<1> DEFINE G == fluid_advection_mccormack_repos(s.bound.velX, s.bound.velY,
                                                s.bound.reposX, s.bound.reposY)
           R == {"velX", "velY"}
           W == {"reposX", "reposY"}
<1>1. FarRow(G, R, {}, W)
  BY AdvectionRows, PlainNames DEF Stage
<1>2. /\ Good(s, Far, U, P, f, t) /\ Plain(s) /\ Formed(s)
      /\ U \in {{}, Swirled} /\ f \in Nat /\ t \in Nat
      /\ W \cap Inputs = {} /\ W \cap R = {} /\ "velY" \notin W
      /\ "vidOut" \notin R /\ "vidOut" \notin {}
  BY DEF Stage, Good, Inputs
<1>3. fluidTaskCorrectorRepos(s) = AddOne(s, G, -AdvectDist - 1, AdvectDist + 1, 0)
  BY DEF fluidTaskCorrectorRepos
<1> HIDE DEF G, R, W
<1>4. Good(AddOne(s, G, -AdvectDist - 1, AdvectDist + 1, 0), Far, U, R, f + 1, t + 1)
  BY <1>1, <1>2, FarTask, Zenon
<1> QED  BY <1>2, <1>3, <1>4, PlainKept DEF Stage, R

\* The advection of the density, after which its two pointers are exchanged.
LEMMA DensityStage ==
    ASSUME NEW s, NEW c, NEW U \in {{}, Swirled}, NEW P, NEW f \in Nat, NEW t \in Nat,
           Stage(s, Far, U, P, f, t)
    PROVE  \E Q : Good(fluidTaskAdvectDensity(s, c), Far, U, Q, f + 1, t + 1)
                  /\ Named(fluidTaskAdvectDensity(s, c))
<1> DEFINE G == fluid_repos(s.bound.reposX, s.bound.reposY, s.bound.density,
                            s.bound.density_swap)
           R == {"density"}
           Q == {"reposX", "reposY"}
           W == {"density_swap"}
           r == AddOne(s, G, -AdvectDist - 1, AdvectDist + 1, 0)
<1>1. FarRow(G, R, Q, W)
  BY AdvectionRows, PlainNames DEF Stage
<1>2. /\ Good(s, Far, U, P, f, t) /\ Plain(s) /\ Formed(s)
      /\ U \in {{}, Swirled} /\ f \in Nat /\ t \in Nat
      /\ W \cap Inputs = {} /\ W \cap R = {} /\ "velY" \notin W
      /\ "vidOut" \notin R /\ "vidOut" \notin Q
  BY DEF Stage, Good, Inputs
<1>3. fluidTaskAdvectDensity(s, c) =
         IF ~c.density THEN s ELSE fluidSwap(r, "density", "density_swap")
  BY DEF fluidTaskAdvectDensity
<1>4. CASE ~c.density
  <2>1. Far \in Nat /\ P \subseteq P
    BY FarInNat
  <2>2. Good(s, Far, U, P, f + 1, t + 1)
    BY <1>2, <2>1, MoreRoom, Zenon
  <2>3. Named(s)
    BY <1>2, PlainNames DEF Named, Plain, NewFrame, Pointers
  <2> QED  BY <1>3, <1>4, <2>2, <2>3
<1>5. CASE c.density
  <2> HIDE DEF G, R, Q, W
  <2>1. Good(r, Far, U, R, f + 1, t + 1)
    BY <1>1, <1>2, FarTask, Zenon
  <2>2. Plain(r) /\ Formed(r)
    BY <1>2, <2>1, PlainKept DEF Good
  <2> HIDE DEF r
  <2>3. Good(fluidSwap(r, "density", "density_swap"), Far, U, R, f + 1, t + 1)
    BY <2>1, SwapKeeps, Zenon
  <2>4. DOMAIN r.bound = Pointers
    BY <2>2 DEF Plain, NewFrame, Pointers
  <2>5. Named(fluidSwap(r, "density", "density_swap"))
    BY <2>2, <2>4, SwapNames, PlainNames DEF Named, Pointers
  <2> QED  BY <1>3, <1>5, <2>3, <2>5
<1> QED  BY <1>4, <1>5

\* The advection of the velocity, after which its pointers are exchanged.
LEMMA VelocityStage ==
    ASSUME NEW s, NEW U \in {{}, Swirled}, NEW P, NEW f \in Nat, NEW t \in Nat,
           Good(s, Far, U, P, f, t), Named(s)
    PROVE  LET r == fluidTaskAdvectVelocity(s) IN
           /\ \E Q : Good(r, Far, U, Q, f + 1, t + 1)
           /\ "vidOut" \notin {r.bound.density, r.bound.pressure, r.bound.velX, r.bound.velY}
<1> DEFINE G == fluid_reposVel(s.bound.reposX, s.bound.reposY, s.bound.velX, s.bound.velY,
                               s.bound.tmpVelX, s.bound.tmpVelY)
           R == {"velX", "velY"}
           Q == {"reposX", "reposY"}
           W == {"tmpVelX", "tmpVelY"}
           r1 == AddOne(s, G, -AdvectDist - 1, AdvectDist + 1, 0)
           r2 == fluidSwap(r1, "velX", "tmpVelX")
           r3 == fluidSwap(r2, "velY", "tmpVelY")
<1>1. FarRow(G, R, Q, W)
  BY AdvectionRows DEF Named
<1>2. /\ Formed(s) /\ U \in {{}, Swirled} /\ f \in Nat /\ t \in Nat
      /\ W \cap Inputs = {} /\ W \cap R = {} /\ "velY" \notin W
      /\ "vidOut" \notin R /\ "vidOut" \notin Q
  BY DEF Good, Inputs
<1>3. fluidTaskAdvectVelocity(s) = r3
  BY DEF fluidTaskAdvectVelocity
<1> HIDE DEF G, R, Q, W
<1>4. Good(r1, Far, U, R, f + 1, t + 1)
  BY <1>1, <1>2, FarTask, Zenon
<1>5. Named(r1) /\ Formed(r1)
  <2>1. r1.bound = s.bound
    BY <1>2, BoundKept
  <2> HIDE DEF r1
  <2> QED  BY <1>4, <2>1 DEF Named, Good
<1> HIDE DEF r1
<1>6. Good(r2, Far, U, R, f + 1, t + 1)
  BY <1>4, SwapKeeps, Zenon
<1>7. /\ DOMAIN r2.bound = Pointers /\ Formed(r2)
      /\ r2.bound.density \in {"density", "density_swap"} /\ r2.bound.velX = "tmpVelX"
      /\ r2.bound.tmpVelY = "tmpVelY" /\ r2.bound.pressure = "pressure"
  BY <1>5, <1>6, SwapNames DEF Named, Pointers, Good
<1> HIDE DEF r2
<1>8. Good(r3, Far, U, R, f + 1, t + 1)
  BY <1>6, SwapKeeps, Zenon
<1>9. /\ r3.bound.density \in {"density", "density_swap"} /\ r3.bound.velX = "tmpVelX"
      /\ r3.bound.velY = "tmpVelY" /\ r3.bound.pressure = "pressure"
  BY <1>7, SwapNames DEF Pointers
<1> HIDE DEF r3
<1> QED  BY <1>3, <1>8, <1>9

\* The picture, from whatever fields the pointers are of by then.
LEMMA OutputStage ==
    ASSUME NEW s, NEW c, NEW U \in {{}, Swirled}, NEW P, NEW f \in Nat, NEW t \in Nat,
           Good(s, Far, U, P, f, t),
           "vidOut" \notin {s.bound.density, s.bound.pressure, s.bound.velX, s.bound.velY}
    PROVE  Good(fluidTaskVideoDensity2Char(s, c), Far, U, P, f + 1, t + 1)
<1> DEFINE A == fluid_video_temp2char(s.bound.density, "vidOut")
           B == fluid_video_dens2char_x(s.bound.density, s.bound.pressure, s.bound.velX,
                                        s.bound.velY, "vidOut")
           W == {"vidOut"}
<1>1. OwnRow(A, W, U) /\ OwnRow(B, W, U)
  BY OutputRows
<1>2. /\ Far \in Nat /\ f \in Nat /\ t \in Nat /\ W \cap Inputs = {}
      /\ W \subseteq {"vidOut"} /\ P \subseteq P
  BY FarInNat DEF Inputs
<1>3. fluidTaskVideoDensity2Char(s, c) =
         IF ~c.density THEN s
         ELSE IF c.tempOut THEN AddOne(s, A, 0, 0, 0) ELSE AddOne(s, B, 0, 0, 0)
  BY DEF fluidTaskVideoDensity2Char
<1> HIDE DEF A, B, W
<1>4. Good(AddOne(s, A, 0, 0, 0), Far, U, P, f + 1, t + 1)
  BY <1>1, <1>2, OwnTask, Zenon
<1>5. Good(AddOne(s, B, 0, 0, 0), Far, U, P, f + 1, t + 1)
  BY <1>1, <1>2, OwnTask, Zenon
<1>6. Good(s, Far, U, P, f + 1, t + 1)
  BY <1>2, MoreRoom, Zenon
<1> QED  BY <1>3, <1>4, <1>5, <1>6

\* The most tasks of a frame.
FrameTaskLimit == PressureAccuracy + ViscosityAccuracy + 15

\* The most entries of m_fns that a frame uses, of MAX_FNS.
FrameFnLimit == 18

\* The configurations whose distances cover their conflicts.
Sound(c) == c.velOut # "scaled" /\ Calm(c)

\* Every frame that fluid_cpu.c builds in a sound configuration is good: its tasks are
\* clear of each other with the distances that the calls of fluidAddTask declare, for
\* every height of the field, reach of the advection and accuracies, and it fits in 18
\* functions and FrameTaskLimit tasks.
THEOREM FrameGood ==
    ASSUME NEW c \in Configuration, Sound(c)
    PROVE  \E U, P : Good(Frame(c), Far, U, P, FrameFnLimit, FrameTaskLimit)
<1> DEFINE V == ViscosityAccuracy
           A == PressureAccuracy
           K == Kept(c)
           s0 == paramMess(addData(NewFrame, c), c)
           vort == fluidTaskVorticity(s0, c)
           damp1 == fluidTaskDampen(vort, c.fadeDens, "density")
           damp2 == fluidTaskDampen(damp1, c.fadeVel, "velX")
           damp3 == fluidTaskDampen(damp2, c.fadeVel, "velY")
           heat == fluidTaskTemperature(damp3, c)
           visc == fluidTaskViscosity(heat, c)
           press == fluidTaskPressure(visc, c, c.simpleFree)
           repos == fluidTaskCorrectorRepos(press)
           dens == fluidTaskAdvectDensity(repos, c)
           vel == fluidTaskAdvectVelocity(dens)
           out == fluidTaskVideoDensity2Char(vel, c)
           P == {"tmpVelX"}
           t1 == 9 + V
           t2 == t1 + A + 2
           t3 == t2 + 1
           t4 == t3 + 1
           t5 == t4 + 1
<1>1. Frame(c) = out
  BY DEF Frame, fluidAdvanceASync
<1>2. /\ Calm(c) /\ c.velOut # "scaled" /\ K \in {{}, Swirled} /\ Far \in Nat /\ 1 <= Far
      /\ V \in Nat /\ A \in Nat
      /\ t1 \in Nat /\ t2 \in Nat /\ t3 \in Nat /\ t4 \in Nat /\ t5 \in Nat
      /\ t5 + 1 = FrameTaskLimit
  <2>1. V \in Nat /\ A \in Nat /\ Far \in Nat /\ 1 <= Far
    BY AccuracyAssumption, FarInNat DEF AccuracyAssumption, Far
  <2>2. t5 + 1 = FrameTaskLimit
    BY <2>1 DEF FrameTaskLimit
  <2> QED  BY <2>1, <2>2 DEF Sound, Kept
<1>3. 3 \in Nat /\ 5 \in Nat /\ 6 \in Nat /\ 7 \in Nat /\ 8 \in Nat /\ 9 \in Nat
  OBVIOUS
<1>4. Stage(s0, 1, {}, {}, 3, 3)
  BY <1>2, HostStage
<1> HIDE DEF s0, K, P
<1>5. Stage(vort, 1, K, P, 5, 5)
  <2>1. Stage(vort, 1, K, P, 3 + 2, 3 + 2)
    BY <1>3, <1>4, VorticityStage, Zenon DEF K, P
  <2> QED  BY <2>1
<1> HIDE DEF vort
<1>6. Stage(damp1, 1, K, P, 6, 6)
  <2>1. Stage(damp1, 1, K, P, 5 + 1, 5 + 1)
    BY <1>2, <1>3, <1>5, DampenStage, Zenon DEF K, P
  <2> QED  BY <2>1
<1> HIDE DEF damp1
<1>7. Stage(damp2, 1, K, P, 7, 7)
  <2>1. Stage(damp2, 1, K, P, 6 + 1, 6 + 1)
    BY <1>2, <1>3, <1>6, DampenStage, Zenon DEF K, P
  <2> QED  BY <2>1
<1> HIDE DEF damp2
<1>8. Stage(damp3, 1, K, P, 8, 8)
  <2>1. Stage(damp3, 1, K, P, 7 + 1, 7 + 1)
    BY <1>2, <1>3, <1>7, DampenStage, Zenon DEF K, P
  <2> QED  BY <2>1
<1> HIDE DEF damp3
<1>9. Stage(heat, 1, K, P, 9, 9)
  <2>1. Stage(heat, 1, K, P, 8 + 1, 8 + 1)
    BY <1>2, <1>3, <1>8, HeatStage, Zenon DEF K, P
  <2> QED  BY <2>1
<1> HIDE DEF heat
<1>10. Stage(visc, 1, K, {"tmpVelX", "velX", "velY"}, 11, t1)
  <2>1. Stage(visc, 1, K, {"tmpVelX", "velX", "velY"}, 9 + 2, 9 + V)
    BY <1>2, <1>3, <1>9, ViscosityStage, Zenon DEF K, P
  <2> QED  BY <2>1
<1> HIDE DEF visc, t1
<1>11. Stage(press, 1, K, {"pressure"}, 14, t2)
  <2>1. 11 \in Nat /\ t1 \in Nat
    BY <1>2
  <2>2. Stage(press, 1, K, {"pressure"}, 11 + 3, t1 + A + 2)
    BY <1>10, <2>1, PressureStage, Zenon DEF K
  <2> QED  BY <2>2
<1> HIDE DEF press, t2
<1>12. Stage(press, Far, K, {"pressure"}, 14, t2)
  <2> DEFINE Q == {"pressure"}
  <2>1. /\ 1 \in Nat /\ 14 \in Nat /\ K \subseteq K /\ 14 <= 14 /\ t2 <= t2
        /\ Stage(press, 1, K, Q, 14, t2) /\ Q \subseteq Q
    BY <1>2, <1>11
  <2> HIDE DEF Q
  <2>2. Stage(press, Far, K, Q, 14, t2)
    BY <1>2, <2>1, WeakerStage
  <2> QED  BY <2>2 DEF Q
<1>13. Stage(repos, Far, K, {"velX", "velY"}, 15, t3)
  <2>1. 14 \in Nat /\ t2 \in Nat /\ K \in {{}, Swirled}
    BY <1>2
  <2>2. Stage(repos, Far, K, {"velX", "velY"}, 14 + 1, t2 + 1)
    BY <1>12, <2>1, ReposStage, Zenon
  <2> QED  BY <2>2
<1> HIDE DEF repos, t3
<1>14. PICK P1 : Good(dens, Far, K, P1, 16, t4) /\ Named(dens)
  <2>1. 15 \in Nat /\ t3 \in Nat /\ K \in {{}, Swirled}
    BY <1>2
  <2>2. \E Q : Good(dens, Far, K, Q, 15 + 1, t3 + 1) /\ Named(dens)
    BY <1>13, <2>1, DensityStage, Zenon
  <2> QED  BY <2>2
<1> HIDE DEF dens, t4
<1>15. PICK P2 : /\ Good(vel, Far, K, P2, 17, t5)
                 /\ "vidOut" \notin {vel.bound.density, vel.bound.pressure,
                                     vel.bound.velX, vel.bound.velY}
  <2>1. 16 \in Nat /\ t4 \in Nat /\ K \in {{}, Swirled}
    BY <1>2
  <2>2. /\ \E Q : Good(vel, Far, K, Q, 16 + 1, t4 + 1)
        /\ "vidOut" \notin {vel.bound.density, vel.bound.pressure,
                            vel.bound.velX, vel.bound.velY}
    BY <1>14, <2>1, VelocityStage, Zenon
  <2> QED  BY <2>2
<1> HIDE DEF vel, t5
<1>16. Good(out, Far, K, P2, 18, t5 + 1)
  <2>1. 17 \in Nat /\ t5 \in Nat /\ K \in {{}, Swirled}
    BY <1>2
  <2>2. Good(out, Far, K, P2, 17 + 1, t5 + 1)
    BY <1>15, <2>1, OutputStage, Zenon
  <2> QED  BY <2>2
<1> QED  BY <1>1, <1>2, <1>16 DEF FrameFnLimit

-----------------------------------------------------------------------------
-----------------------------------------------------------------------------
(* The distances add up. *)

\* Less than, on the natural numbers.
LEMMA LessIsWellFounded == IsWellFoundedOn({p \in Nat \X Nat : p[1] < p[2]}, Nat)
  BY NatLessThanWellFounded DEF OpToRel

\* A set of numbers has a least one.
LEMMA LeastElement ==
    ASSUME NEW T, T \subseteq Nat, T # {}
    PROVE  \E n \in T : \A m \in T : n <= m
<1> DEFINE R == {p \in Nat \X Nat : p[1] < p[2]}
<1>1. \A x, y \in Nat : y < x => <<y, x>> \in R
  OBVIOUS
<1>2. IsWellFoundedOn(R, Nat)
  BY LessIsWellFounded
<1> HIDE DEF R
<1>3. PICK x \in T : \A y \in T : ~(<<y, x>> \in R)
  BY <1>2, WFMin
<1>4. ASSUME NEW m \in T PROVE x <= m
  <2>1. x \in Nat /\ m \in Nat
    OBVIOUS
  <2>2. ~(m < x)
    BY <2>1, <1>1, <1>3, Zenon
  <2> QED  BY <2>1, <2>2
<1> QED  BY <1>4

\* Induction over the natural numbers, for a set instead of a predicate.
LEMMA Induction ==
    ASSUME NEW T, 0 \in T, \A n \in T \cap Nat : n + 1 \in T
    PROVE  Nat \subseteq T
<1> SUFFICES ASSUME ~(Nat \subseteq T) PROVE FALSE
  OBVIOUS
<1>1. PICK n \in Nat \ T : \A m \in Nat \ T : n <= m
  <2> DEFINE S == Nat \ T
  <2>1. S \subseteq Nat /\ S # {}
    OBVIOUS
  <2> HIDE DEF S
  <2>2. \E n \in S : \A m \in S : n <= m
    BY <2>1, LeastElement
  <2> QED  BY <2>2 DEF S
<1>2. n - 1 \in Nat /\ n - 1 \in T
  BY <1>1
<1> QED  BY <1>1, <1>2

\* o is the function of the sums of the first n distances of w.
Sums(o, w, l) == o = [n \in 0 .. l |-> IF n = 0 THEN 0 ELSE o[n - 1] + w[n].bottom]

\* There is such a function for every length (by induction over the length).
LEMMA SumsExist ==
    ASSUME NEW w, NEW l \in Nat
    PROVE  \E o : Sums(o, w, l)
<1> DEFINE T == {n \in Nat : \E o : Sums(o, w, n)}
<1>1. 0 \in T
  <2> DEFINE o == [n \in 0 .. 0 |-> 0]
  <2>1. o = [n \in 0 .. 0 |-> IF n = 0 THEN 0 ELSE o[n - 1] + w[n].bottom]
    OBVIOUS
  <2> QED  BY <2>1 DEF Sums
<1>2. ASSUME NEW k \in T \cap Nat PROVE k + 1 \in T
  <2>1. PICK o : Sums(o, w, k)
    OBVIOUS
  <2> DEFINE p == [n \in 0 .. k + 1 |-> IF n <= k THEN o[n] ELSE o[k] + w[n].bottom]
  <2>2. ASSUME NEW n \in 0 .. k + 1
        PROVE  p[n] = IF n = 0 THEN 0 ELSE p[n - 1] + w[n].bottom
    <3>1. CASE n = 0
      BY <2>1, <3>1 DEF Sums
    <3>2. CASE n # 0 /\ n <= k
      BY <2>1, <3>2 DEF Sums
    <3>3. CASE n = k + 1
      BY <3>3
    <3> QED  BY <3>1, <3>2, <3>3
  <2>3. p = [n \in 0 .. k + 1 |-> p[n]]
    OBVIOUS
  <2> HIDE DEF p
  <2>4. Sums(p, w, k + 1)
    BY <2>2, <2>3 DEF Sums
  <2> QED  BY <2>4
<1> HIDE DEF T
<1>3. Nat \subseteq T
  BY <1>1, <1>2, Induction
<1>4. l \in T
  BY <1>3
<1> QED  BY <1>4 DEF T

\* Offset is that function.
LEMMA OffsetSums ==
    ASSUME NEW c \in Configs, Len(Frames[c].windows) \in Nat
    PROVE  Sums(Offset[c], Frames[c].windows, Len(Frames[c].windows))
<1> DEFINE w == Frames[c].windows
<1>1. Offset[c] = CHOOSE o : Sums(o, w, Len(w))
  BY DEF Offset, Sums
<1>2. \E o : Sums(o, w, Len(w))
  BY SumsExist
<1> QED  BY <1>1, <1>2

\* The sums are numbers, and
LEMMA SumsNat ==
    ASSUME NEW o, NEW w, NEW l \in Nat, Sums(o, w, l), \A m \in 1 .. l : w[m].bottom \in Nat
    PROVE  \A n \in 0 .. l : o[n] \in Nat
<1> DEFINE T == {n \in Nat : n <= l => o[n] \in Nat}
<1>1. 0 \in T
  BY DEF Sums
<1>2. ASSUME NEW n \in T \cap Nat PROVE n + 1 \in T
  <2>1. n + 1 <= l => o[n + 1] = o[n] + w[n + 1].bottom /\ w[n + 1].bottom \in Nat
    <3> SUFFICES ASSUME n + 1 <= l
                 PROVE  o[n + 1] = o[n] + w[n + 1].bottom /\ w[n + 1].bottom \in Nat
      OBVIOUS
    <3>1. n + 1 \in 0 .. l /\ n + 1 \in 1 .. l /\ n + 1 # 0 /\ (n + 1) - 1 = n
      OBVIOUS
    <3>2. o[n + 1] = o[(n + 1) - 1] + w[n + 1].bottom
      BY <3>1 DEF Sums
    <3> QED  BY <3>1, <3>2
  <2> QED  BY <2>1
<1> HIDE DEF T
<1>3. Nat \subseteq T
  BY <1>1, <1>2, Induction
<1> QED  BY <1>3 DEF T

\* they do not decrease.
LEMMA SumsGrow ==
    ASSUME NEW o, NEW w, NEW l \in Nat, Sums(o, w, l), \A m \in 1 .. l : w[m].bottom \in Nat
    PROVE  \A i, j \in 0 .. l : i <= j => o[i] <= o[j]
<1>1. \A n \in 0 .. l : o[n] \in Nat
  BY SumsNat
<1>2. \A m \in 1 .. l : o[m] = o[m - 1] + w[m].bottom
  BY DEF Sums
<1> TAKE i \in 0 .. l
<1> DEFINE T == {n \in Nat : i + n <= l => o[i] <= o[i + n]}
<1>3. 0 \in T
  BY <1>1
<1>4. ASSUME NEW n \in T \cap Nat PROVE n + 1 \in T
  <2> SUFFICES ASSUME i + (n + 1) <= l PROVE o[i] <= o[i + (n + 1)]
    OBVIOUS
  <2> DEFINE m == i + (n + 1)
  <2>1. m \in 1 .. l /\ m - 1 = i + n /\ m - 1 \in 0 .. l
    OBVIOUS
  <2>2. o[i] <= o[m - 1]
    BY <2>1
  <2>3. o[m] = o[m - 1] + w[m].bottom /\ w[m].bottom \in Nat
    BY <1>2, <2>1
  <2>4. o[m - 1] \in Nat /\ o[i] \in Nat
    BY <1>1, <2>1
  <2> HIDE DEF m
  <2>5. o[i] <= o[m]
    BY <2>2, <2>3, <2>4
  <2> QED  BY <2>5 DEF m
<1> HIDE DEF T
<1>5. Nat \subseteq T
  BY <1>3, <1>4, Induction
<1>6. ASSUME NEW j \in 0 .. l, i <= j PROVE o[i] <= o[j]
  <2>1. j - i \in T /\ i + (j - i) = j
    BY <1>5, <1>6
  <2> QED  BY <2>1 DEF T
<1> QED  BY <1>6

\* What FrameGood says of the frame of a configuration.
LEMMA FrameFacts ==
    ASSUME NEW c \in Configs, Sound(c)
    PROVE  LET s == Frames[c] IN
           /\ \E U, P : Good(s, Far, U, P, FrameFnLimit, FrameTaskLimit)
           /\ Formed(s) /\ AllClear(s) /\ Len(s.fns) \in Nat
           /\ Len(s.windows) \in Nat /\ Len(s.tasks) = Len(s.windows)
           /\ \A i \in 1 .. Len(s.windows) :
                 /\ s.windows[i] \in WindowArgs /\ s.windows[i].bottom \in Nat
                 /\ s.windows[i].fn \in 0 .. Len(s.fns) - 1
                 /\ \A y : Footprint(c, s.windows[i].fn, y) = Fn(s, i)[y]
<1> DEFINE s == Frames[c]
<1>1. s = Frame(c) /\ c \in Configuration
  BY ConfigAssumption DEF ConfigAssumption, Frames
<1>2. \E U, P : Good(s, Far, U, P, FrameFnLimit, FrameTaskLimit)
  BY <1>1, FrameGood
<1>3. Formed(s) /\ AllClear(s)
  BY <1>2 DEF Good
<1> HIDE DEF s
<1>4. /\ Len(s.fns) \in Nat /\ Len(s.tasks) \in Nat /\ Len(s.windows) \in Nat
      /\ Len(s.windows) = Len(s.tasks)
      /\ \A i \in 1 .. Len(s.windows) :
            /\ s.windows[i] \in WindowArgs
            /\ s.windows[i].fn + 1 \in 1 .. Len(s.fns)
            /\ Bottom(s, i) \in Nat
  BY <1>3, FormedFacts DEF Formed
<1>5. ASSUME NEW i \in 1 .. Len(s.windows)
      PROVE  s.windows[i].fn \in 0 .. Len(s.fns) - 1 /\ s.windows[i].bottom \in Nat
  <2>1. s.windows[i].fn \in Nat
    BY <1>4 DEF WindowArgs
  <2> QED  BY <2>1, <1>4 DEF Bottom
<1>6. ASSUME NEW i \in 1 .. Len(s.windows), NEW y
      PROVE  Footprint(c, s.windows[i].fn, y) = Fn(s, i)[y]
  BY DEF Footprint, Fn, s
<1> QED  BY <1>2, <1>3, <1>4, <1>5, <1>6 DEF s

\* The offsets of a frame are the sums of its distances.
LEMMA FrameOffsets ==
    ASSUME NEW c \in Configs, Sound(c)
    PROVE  OffsetsAdd(c)
<1> DEFINE w == Frames[c].windows
<1>1. Len(w) \in Nat
  BY FrameFacts
<1>2. Sums(Offset[c], w, Len(w))
  BY <1>1, OffsetSums
<1> DEFINE o == Offset[c]
           l == Len(w)
<1> HIDE DEF o, w
<1>3. o[0] = 0 /\ \A n \in 1 .. l : o[n] = o[n - 1] + w[n].bottom
  BY <1>1, <1>2 DEF Sums, o
<1> QED  BY <1>3 DEF OffsetsAdd, o, w

\* The windows of a frame are what the scheduler without Grand Central Dispatch can
\* store.
LEMMA FrameWindowsTyped ==
    ASSUME NEW c \in Configs, Sound(c)
    PROVE  WindowsTyped(c)
<1> DEFINE s == Frames[c]
           w == s.windows
           E == [fn : 0 .. Len(s.fns) - 1, bottom : Nat, any : BOOLEAN]
<1>1. /\ w \in Seq(WindowArgs)
      /\ \A i \in 1 .. Len(w) : /\ w[i] \in WindowArgs
                                /\ w[i].fn \in 0 .. Len(s.fns) - 1
  BY FrameFacts DEF Formed
<1>2. \A i \in 1 .. Len(w) : w[i] \in E
  BY <1>1 DEF WindowArgs
<1>3. w \in Seq(E)
  <2> HIDE DEF w, E
  <2>1. w = [i \in 1 .. Len(w) |-> w[i]] /\ Len(w) \in Nat
    BY <1>1, LenProperties
  <2>2. w \in [1 .. Len(w) -> E]
    BY <1>2, <2>1
  <2> QED  BY <2>1, <2>2, FunctionSeq
<1> QED  BY <1>3 DEF WindowsTyped

\* The rows of the tasks with "dep" 0 can run in any order.
LEMMA FrameRowsApart ==
    ASSUME NEW c \in Configs, Sound(c)
    PROVE  RowsApart(c)
<1> DEFINE s == Frames[c]
<1>1. ASSUME NEW j \in 1 .. Len(s.windows), s.windows[j].any PROVE Apart(Fn(s, j))
  BY <1>1, FrameFacts DEF Good, Safe
<1>2. \A j \in 1 .. Len(s.windows) : \A y : Footprint(c, s.windows[j].fn, y) = Fn(s, j)[y]
  BY FrameFacts
<1> HIDE DEF s
<1>3. ASSUME NEW j \in 1 .. Len(s.windows), s.windows[j].any,
             NEW y \in RowSet, NEW z \in RowSet, y # z
      PROVE  ~Conflict(Footprint(c, s.windows[j].fn, y), Footprint(c, s.windows[j].fn, z))
  BY <1>1, <1>2, <1>3 DEF Apart
<1> QED  BY <1>3 DEF RowsApart, s

\* The distances cover the conflicts when they add up.
LEMMA FrameWindowsSuffice ==
    ASSUME NEW c \in Configs, Sound(c)
    PROVE  WindowsSuffice(c)
<1> DEFINE s == Frames[c]
           o == Offset[c]
           l == Len(s.windows)
<1>1. /\ AllClear(s) /\ l \in Nat /\ \A m \in 1 .. l : s.windows[m].bottom \in Nat
      /\ \A i \in 1 .. l : \A y : Footprint(c, s.windows[i].fn, y) = Fn(s, i)[y]
  BY FrameFacts
<1>2. Sums(o, s.windows, l)
  BY <1>1, OffsetSums
<1> HIDE DEF s, o
<1>3. \A n \in 0 .. l : o[n] \in Nat
  BY <1>1, <1>2, SumsNat
<1>4. \A i, j \in 0 .. l : i <= j => o[i] <= o[j]
  BY <1>1, <1>2, SumsGrow
<1>5. \A m \in 1 .. l : o[m] = o[m - 1] + s.windows[m].bottom
  BY <1>1, <1>2 DEF Sums
<1>6. ASSUME NEW j \in 1 .. l, NEW i \in 1 .. j - 1, NEW y \in RowSet, NEW z \in RowSet,
             y > z + (o[j] - o[i])
      PROVE  ~Conflict(Footprint(c, s.windows[i].fn, y), Footprint(c, s.windows[j].fn, z))
  <2>1. y \in Int /\ z \in Int /\ i \in 1 .. l /\ i < j /\ i \in 0 .. l /\ j \in 0 .. l
    BY <1>1, RowsAreInts
  <2>2. ASSUME NEW m \in i + 1 .. j PROVE y > z + Bottom(s, m)
    <3>1. m \in 1 .. l /\ m \in 0 .. l /\ m - 1 \in 0 .. l /\ i <= m - 1 /\ m <= j
      BY <1>1, <2>1
    <3>2. o[i] <= o[m - 1] /\ o[m] <= o[j] /\ o[m] = o[m - 1] + s.windows[m].bottom
      BY <1>4, <1>5, <2>1, <3>1
    <3>3. o[i] \in Nat /\ o[m - 1] \in Nat /\ o[m] \in Nat /\ o[j] \in Nat
          /\ s.windows[m].bottom \in Nat
      BY <1>1, <1>3, <2>1, <3>1
    <3> DEFINE a == o[i]
               d == o[j]
               e == o[m - 1]
               b == s.windows[m].bottom
    <3>4. a <= e /\ e + b <= d /\ y > z + (d - a) /\ a \in Nat /\ d \in Nat /\ e \in Nat /\ b \in Nat
      BY <1>6, <3>2, <3>3
    <3> HIDE DEF a, d, e, b
    <3>5. y > z + b
      BY <2>1, <3>4
    <3> QED  BY <3>5 DEF Bottom, b
  <2>3. Clear(s, i, j, y, z)
    BY <1>1, <2>1 DEF AllClear
  <2>4. ~Conflict(Fn(s, i)[y], Fn(s, j)[z])
    BY <2>2, <2>3 DEF Clear
  <2> QED  BY <1>1, <2>1, <2>4
<1> QED  BY <1>6 DEF WindowsSuffice, s, o
=============================================================================
