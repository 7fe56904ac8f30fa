---------------------------- MODULE TaskExternal ----------------------------
(***************************************************************************)
(* matrix_calc of the externals of jit.tml.fluid: it locks its input and   *)
(* output matrices one by one, looking at each, launches the task and      *)
(* waits for its threads, and unlocks the matrices.  tml.jit.swirl.m is    *)
(* compiled for three builds and jit.tml.pressure.m for the other four.    *)
(*                                                                         *)
(* A matrix is one of the list; what makes it unfit (its type, planes or   *)
(* size, or that there is none) is left open.                              *)
(***************************************************************************)
EXTENDS TaskSequence

CONSTANTS FluidCount,   \* x->fluids, of swirl
          Styles,       \* values of the attribute "style"
          MaxLaunches   \* (bound) calls of matrix_calc that are followed

ASSUME ExternalAssumption ==
    /\ FluidCount \in Nat \ {0}
    /\ Styles # {} /\ Styles \subseteq Nat \ {0}
    /\ MaxLaunches \in Nat

VARIABLES host,         \* where matrix_calc is
          i,            \* its loop counter
          locked,       \* the matrices whose lock is set
          before,       \* inLocks, outLocks: what the lock of each was
          launches      \* (bound) calls so far

hostVars == <<host, i, locked, before, launches>>
vars == <<seqVars, hostVars>>

Swirl == build \in {"ADVECTION", "REPOS", "MCCORMACK"}

Inputs ==
    CASE build = "MCCORMACK" -> 2 * FluidCount + 3
      [] build \in {"ADVECTION", "REPOS"} -> FluidCount + 2
      [] build = "GENREPOS" -> 1
      [] OTHER -> 2

Outputs == IF Swirl THEN FluidCount ELSE 1

Input(n) == <<"in", n>>
Output(n) == <<"out", n>>
Matrices == {Input(n) : n \in 0 .. Inputs - 1} \cup {Output(n) : n \in 0 .. Outputs - 1}

Init ==
    /\ SeqInit(Builds)
    /\ host = "idle"
    /\ i = 0
    /\ locked = {}
    /\ before = {}
    /\ launches = 0
-----------------------------------------------------------------------------
Begin ==
    /\ host = "idle"
    /\ launches < MaxLaunches
    /\ launches' = launches + 1
    /\ host' = "inputs"
    /\ i' = 0
    /\ before' = locked
    /\ UNCHANGED <<seqVars, locked>>

\* An input is locked and found fit.
LockInput ==
    /\ host = "inputs"
    /\ i < Inputs
    /\ locked' = locked \cup {Input(i)}
    /\ i' = IF i + 1 = Inputs THEN 0 ELSE i + 1
    /\ host' = IF i + 1 = Inputs THEN "outputs" ELSE "inputs"
    /\ UNCHANGED <<seqVars, before, launches>>

LockOutput ==
    /\ host = "outputs"
    /\ i < Outputs
    /\ locked' = locked \cup {Output(i)}
    /\ i' = IF i + 1 = Outputs THEN 0 ELSE i + 1
    /\ host' = IF i + 1 = Outputs THEN "configure" ELSE "outputs"
    /\ UNCHANGED <<seqVars, before, launches>>

\* The inputs that are unlocked: McCormack locks 2 * fluids + 3 inputs and unlocks fluids + 3 of them.
Unlocks ==
    {Input(n) : n \in 0 .. (IF build = "MCCORMACK" THEN FluidCount + 3 ELSE Inputs) - 1}

\* Input i is missing, or unfit once it is locked: "goto UnlockInputs" with i - 1 or i.
\* swirl unlocks the inputs before that one.
RefuseInput ==
    /\ host = "inputs"
    /\ Swirl
    /\ \E lock \in {{}, {Input(i)}} :
          LET last == IF lock = {} THEN i - 1 ELSE i IN
          locked' = {x \in locked \cup lock :
                        x \in before \/ x \notin {Input(n) : n \in 0 .. last - 1}}
    /\ host' = "idle"
    /\ i' = 0
    /\ UNCHANGED <<seqVars, before, launches>>

\* Output i is missing or unfit: the outputs before it and all inputs are unlocked.
RefuseOutput ==
    /\ host = "outputs"
    /\ Swirl
    /\ \E lock \in {{}, {Output(i)}} :
          LET last == IF lock = {} THEN i - 1 ELSE i IN
          locked' = {x \in locked \cup lock :
                        x \in before \/ x \notin Unlocks \cup {Output(n) : n \in 0 .. last - 1}}
    /\ host' = "idle"
    /\ i' = 0
    /\ UNCHANGED <<seqVars, before, launches>>

\* The other externals unlock their whole lists.  That is sound for the last of the
\* inputs, or the output, once it is locked and found unfit ...
RefuseFetched ==
    /\ ~Swirl
    /\ \/ /\ host = "inputs" /\ i = Inputs - 1
          /\ locked' = {x \in locked \cup {Input(i)} : x \in before \/ x \notin Unlocks}
       \/ /\ host = "outputs"
          /\ locked' = {x \in locked \cup {Output(i)} :
                            x \in before \/ x \notin Unlocks \cup {Output(i)}}
    /\ host' = "idle"
    /\ i' = 0
    /\ UNCHANGED <<seqVars, before, launches>>

\* ... and otherwise reaches a matrix that is missing, or that was never fetched:
\* matrix_output and inLocks are not initialized.  (Bound: what an undefined pointer
\* does to the process is not followed.)
UnlockUnset ==
    /\ host \in {"inputs", "outputs"}
    /\ ~Swirl
    /\ host' = "undefined"
    /\ UNCHANGED <<seqVars, i, locked, before, launches>>

Launch ==
    /\ host = "configure"
    /\ \E n \in 1 .. Cardinality(Threads), s \in Styles : Configure(n, s)
    /\ host' = "create"
    /\ UNCHANGED <<i, locked, before, launches>>

\* The threads start while the others are still being created.
CreateThread ==
    /\ host = "create"
    /\ i < numThreads
    /\ \E t \in Threads : at[t] = "none" /\ Create(t)
    /\ i' = i + 1
    /\ UNCHANGED <<host, locked, before, launches>>

AllCreated ==
    /\ host = "create"
    /\ i = numThreads
    /\ host' = "join"
    /\ i' = 0
    /\ UNCHANGED <<seqVars, locked, before, launches>>

JoinThread ==
    /\ host = "join"
    /\ i < numThreads
    /\ \E t \in Threads : Join(t)
    /\ i' = i + 1
    /\ UNCHANGED <<host, locked, before, launches>>

\* (mutant: launch does not wait for the last thread)
AllButOneJoined == i >= numThreads - 1

AllJoined == i = numThreads

\* (mutant: a lock is cleared, not put back)
UnlockAllCleared ==
    /\ host = "join"
    /\ AllJoined
    /\ locked' = {x \in locked : x \notin Unlocks \cup {Output(n) : n \in 0 .. Outputs - 1}}
    /\ host' = "idle"
    /\ i' = 0
    /\ UNCHANGED <<seqVars, before, launches>>

UnlockAll ==
    /\ host = "join"
    /\ AllJoined
    /\ locked' = {x \in locked :
                    x \in before \/ x \notin Unlocks \cup {Output(n) : n \in 0 .. Outputs - 1}}
    /\ host' = "idle"
    /\ i' = 0
    /\ UNCHANGED <<seqVars, before, launches>>

Return == LockInput \/ LockOutput \/ Launch \/ CreateThread \/ AllCreated \/ JoinThread \/ UnlockAll

Next ==
    \/ Begin
    \/ Return
    \/ RefuseInput
    \/ RefuseOutput
    \/ RefuseFetched
    \/ UnlockUnset
    \/ \E t \in Threads : (ThreadGoesOn(t) \/ Wake(t)) /\ UNCHANGED hostVars

\* The host and the threads run; nothing is assumed of spurious wake-ups.
Fairness ==
    /\ WF_vars(Return)
    /\ \A t \in Threads : WF_vars(ThreadGoesOn(t) /\ UNCHANGED hostVars)

Spec == Init /\ [][Next]_vars /\ Fairness
-----------------------------------------------------------------------------
TypeOK ==
    /\ build \in Builds /\ style \in Styles \cup {1}
    /\ numThreads \in 1 .. Cardinality(Threads)
    /\ curTask \in Nat
    /\ numBlocked \in 0 .. numThreads - 1
    /\ atomic \in Nat
    /\ at \in [Threads -> {"none", "run", "row", "arrive", "asleep", "woken", "exited"}]
    /\ phase \in [Threads -> 1 .. Len(Phases) + 1]
    /\ y \in [Threads -> Nat] /\ task \in [Threads -> Nat]
    /\ iterate \in [Computed -> [Rows -> Nat]]
    /\ host \in {"idle", "inputs", "outputs", "configure", "create", "join", "undefined"}
    /\ i \in Nat
    /\ locked \subseteq Matrices /\ before \subseteq Matrices

\* The iterate that the rows of the output come from.  The last iterate of Viscocity is
\* thrown away when the style is even (its default is 40).
Asked ==
    CASE build = "PRESSURE" -> style
      [] build = "VISCOCITY" -> IF style % 2 = 1 THEN style + 2 ELSE style + 1
      [] build = "GENREPOS" -> 2
      [] OTHER -> 1

\* When the threads are joined every row of the output comes from that iterate, and is
\* computed once: no thread read a buffer that another still filled, took a row twice, or
\* left one out, though the threads are created one by one and their number changes.
OutputComplete ==
    (host = "join" /\ AllJoined) => \A r \in Rows : iterate["out"][r] = Asked

\* The threads run only while the matrices they were given are locked: launch returns
\* after the last of them has left.
LockedWhileRunning ==
    (\E t \in Threads : at[t] \notin {"none", "exited"}) =>
        host \in {"create", "join"} /\ Matrices \subseteq locked

\* A call that went through leaves the locks as it found them, also those that an earlier
\* call, which refused a matrix, left set.  (Not so McCormack: see Unlocks.)
LocksRestored ==
    [][(host = "join" /\ host' = "idle" /\ build # "MCCORMACK") => locked' = before]_vars

\* A launch returns: no thread sleeps in waitForTask for ever.
LaunchReturns == (host = "create") ~> (host = "idle")
=============================================================================
