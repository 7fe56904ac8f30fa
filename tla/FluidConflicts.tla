--------------------------- MODULE FluidConflicts ---------------------------
(***************************************************************************)
(* Which rows of the tasks of a frame may not be exchanged, and what the   *)
(* arguments of mpCTaskAdd must make the schedulers wait for.              *)
(***************************************************************************)
EXTENDS FluidTasks

CONSTANT Configs        \* the configurations the attributes can have

ASSUME ConfigAssumption == Configs \subseteq Configuration

\* The frame of each configuration.
Frames == [c \in Configs |-> Frame(c)]

\* What function f of configuration c does to row y.
Footprint(c, f, y) == Frames[c].fns[f + 1][y]

\* One of the two writes a cell that the other reads or writes: the order of
\* the two calls matters.
Conflict(a, b) ==
    \/ a.writes \cap (b.reads \cup b.writes) # {}
    \/ a.reads \cap b.writes # {}

\* The rows y of function f that conflict with row z of function g.
Conflicts ==
    [c \in Configs |->
       LET FnIds == 0 .. Len(Frames[c].fns) - 1 IN
       [f \in FnIds |-> [g \in FnIds |-> [z \in RowSet |->
          {y \in RowSet : Conflict(Footprint(c, f, y), Footprint(c, g, z))}]]]]
-----------------------------------------------------------------------------
(* The scheduler of mp_coherence.c begins row z of a task when the one       *)
(* before it has finished the rows up to z + bottom, and so on before that:  *)
(* the distances of the tasks in between add up.                             *)

\* Offset[c][n]: the distances of the first n tasks.
Offset ==
    [c \in Configs |->
       LET w == Frames[c].windows
           o[n \in 0 .. Len(w)] == IF n = 0 THEN 0 ELSE o[n - 1] + w[n].bottom
       IN o]

\* The arguments are what the scheduler can store, and name functions of the table.
WindowsTyped(c) ==
    Frames[c].windows \in
        Seq([fn : 0 .. Len(Frames[c].fns) - 1, bottom : Nat, any : BOOLEAN])

OffsetsAdd(c) ==
    LET w == Frames[c].windows IN
    /\ Offset[c][0] = 0
    /\ \A n \in 1 .. Len(w) : Offset[c][n] = Offset[c][n - 1] + w[n].bottom

\* Row z of task j conflicts with no row of an earlier task i that is farther ahead
\* than those distances.
WindowsSuffice(c) ==
    LET w == Frames[c].windows IN
    \A j \in 1 .. Len(w) : \A i \in 1 .. j - 1 :
       LET ahead == Offset[c][j] - Offset[c][i] IN
       \A y, z \in RowSet :
          y > z + ahead => ~Conflict(Footprint(c, w[i].fn, y), Footprint(c, w[j].fn, z))

\* The rows of a task that are not run in order do not conflict.
RowsApart(c) ==
    LET w == Frames[c].windows IN
    \A j \in 1 .. Len(w) : w[j].any =>
       \A y, z \in RowSet :
          y # z => ~Conflict(Footprint(c, w[j].fn, y), Footprint(c, w[j].fn, z))
=============================================================================
