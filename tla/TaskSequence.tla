---------------------------- MODULE TaskSequence ----------------------------
(***************************************************************************)
(* FXTaskSequence.m: the threads of one launch of a JITTask, and           *)
(* waitForTask, where they meet after every phase.  The rows of a phase    *)
(* are dealt out by the counter atomic, which the last thread to arrive    *)
(* puts back to zero (onTaskCompleted).                                    *)
(*                                                                         *)
(* A row is computed in two steps, the one that takes its number and the   *)
(* one that ends it, so that rows overlap as they do in the program.  The  *)
(* fields hold, of every row, the number of the iterate it comes from.     *)
(***************************************************************************)
EXTENDS TaskPhases, FiniteSets, FiniteSetsExt

CONSTANTS Threads   \* the threads there can be (attribute "CPU")

ASSUME ThreadsAssumption == IsFiniteSet(Threads) /\ Threads # {}

VARIABLES build, style,         \* the external, and the iterations asked for
          numThreads, curTask, numBlocked, atomic,
          at, phase, y, task,   \* of a thread: where it is, its phase, its row, what it waits for
          iterate               \* of a row of a field: the iterate in it

seqVars == <<build, style, numThreads, curTask, numBlocked, atomic, at, phase, y, task, iterate>>
progress == <<build, style, numThreads>>

Phases == Task(build, style)

\* A local variable whose value is no longer used (y after the loop, task after the wait)
\* goes back to what it was, so that states that differ in it only are one.
NoRow == 0

NotComputed == [x \in Computed |-> [r \in Rows |-> 0]]

SeqInit(builds) ==
    /\ build \in builds
    /\ style = 1
    /\ numThreads = 1
    /\ curTask = 0
    /\ numBlocked = 0
    /\ atomic = 0
    /\ at = [t \in Threads |-> "none"]
    /\ phase = [t \in Threads |-> 1]
    /\ y = [t \in Threads |-> NoRow]
    /\ task = [t \in Threads |-> 0]
    /\ iterate = NotComputed
-----------------------------------------------------------------------------
\* The iterate of a row is one more than the oldest it was computed from; the
\* pressure is applied to the velocity that is there.
Oldest(p, r) ==
    IF p.from \in Computed
    THEN Min({iterate[p.from][c[2]] : c \in {c \in Reads(p, r) : c[1] = p.from}})
    ELSE 0

NewIterate(p, r) ==
    CASE p.kind = "once" -> 0
      [] "out" \in p.own -> iterate["out"][r] + Oldest(p, r)
      [] OTHER -> 1 + Oldest(p, r)

\* OSAtomicIncrement32Barrier(&atomic) - 1.
TakeRow(t) ==
    LET p == Phases[phase[t]] IN
    /\ at[t] = "run"
    /\ p.kind # "none"
    /\ atomic' = atomic + 1
    /\ y' = [y EXCEPT ![t] = IF atomic < p.n THEN atomic ELSE NoRow]
    /\ at' = [at EXCEPT ![t] = IF atomic < p.n THEN "row" ELSE "arrive"]
    /\ UNCHANGED <<progress, curTask, numBlocked, phase, task, iterate>>

EndRow(t) ==
    LET p == Phases[phase[t]]
    IN
    /\ at[t] = "row"
    /\ iterate' = [x \in Computed |->
                     IF x \in p.dst
                     THEN [r \in Rows |-> IF <<x, r>> \in Writes(p, y[t])
                                         THEN NewIterate(p, r) ELSE iterate[x][r]]
                     ELSE iterate[x]]
    /\ at' = [at EXCEPT ![t] = IF p.kind = "once" THEN "arrive" ELSE "run"]
    /\ y' = [y EXCEPT ![t] = NoRow]
    /\ UNCHANGED <<progress, curTask, numBlocked, atomic, phase, task>>

Arriving(t) == at[t] = "arrive" \/ (at[t] = "run" /\ Phases[phase[t]].kind = "none")

\* After waitForTask: the next phase, or the end of the thread.
NextPhase(t) == IF phase[t] < Len(Phases) THEN "run" ELSE "exited"

\* (mutant: the last to arrive leaves the counter as it is)
OpensStale(t) ==
    /\ curTask' = curTask + 1
    /\ numBlocked' = 0
    /\ UNCHANGED atomic
    /\ at' = [s \in Threads |-> IF s = t THEN NextPhase(t)
                                ELSE IF at[s] = "asleep" THEN "woken" ELSE at[s]]

\* (mutant: pthread_cond_signal wakes one thread only)
OpensOne(t) ==
    /\ curTask' = curTask + 1
    /\ numBlocked' = 0
    /\ atomic' = 0
    /\ \E s \in Threads :
          /\ (\E u \in Threads : at[u] = "asleep") => at[s] = "asleep"
          /\ at' = [u \in Threads |-> IF u = t THEN NextPhase(t)
                                      ELSE IF u = s /\ at[s] = "asleep" THEN "woken" ELSE at[u]]

\* The last to arrive: onTaskCompleted, and everyone is woken.
Opens(t) ==
    /\ curTask' = curTask + 1
    /\ numBlocked' = 0
    /\ atomic' = 0
    /\ at' = [s \in Threads |-> IF s = t THEN NextPhase(t)
                                ELSE IF at[s] = "asleep" THEN "woken" ELSE at[s]]

\* (mutant: it does not wait for the last thread)
LastOneEarly == numBlocked + 2 >= numThreads

LastOne == numBlocked + 1 = numThreads

\* waitForTask, which holds the mutex to its end ...
WaitForTask(t) ==
    /\ Arriving(t)
    /\ IF LastOne
       THEN Opens(t) /\ phase' = [phase EXCEPT ![t] = @ + 1] /\ UNCHANGED task
       ELSE /\ numBlocked' = numBlocked + 1
            /\ task' = [task EXCEPT ![t] = curTask + 1]
            /\ at' = [at EXCEPT ![t] = "asleep"]
            /\ UNCHANGED <<curTask, atomic, phase>>
    /\ UNCHANGED <<progress, y, iterate>>

\* ... or sleeps in pthread_cond_wait, which may also return for no reason.
Wake(t) ==
    /\ at[t] = "asleep"
    /\ at' = [at EXCEPT ![t] = "woken"]
    /\ UNCHANGED <<progress, curTask, numBlocked, atomic, phase, y, task, iterate>>

LeaveWait(t) ==
    /\ at[t] = "woken"
    /\ IF task[t] # curTask
       THEN at' = [at EXCEPT ![t] = "asleep"] /\ UNCHANGED <<phase, task>>
       ELSE /\ at' = [at EXCEPT ![t] = NextPhase(t)]
            /\ phase' = [phase EXCEPT ![t] = @ + 1]
            /\ task' = [task EXCEPT ![t] = 0]
    /\ UNCHANGED <<progress, curTask, numBlocked, atomic, y, iterate>>

ThreadGoesOn(t) == TakeRow(t) \/ EndRow(t) \/ WaitForTask(t) \/ LeaveWait(t)

\* pthread_create of a thread that runs the task.
Create(t) ==
    /\ at' = [at EXCEPT ![t] = "run"]
    /\ UNCHANGED <<progress, curTask, numBlocked, atomic, phase, y, task, iterate>>

\* Its pthread_join; its local variables are gone.
Join(t) ==
    /\ at[t] = "exited"
    /\ at' = [at EXCEPT ![t] = "none"]
    /\ phase' = [phase EXCEPT ![t] = 1]
    /\ UNCHANGED <<progress, curTask, numBlocked, atomic, y, task, iterate>>

\* setNumberOfThreads, setInputs and the onTaskCompleted of launch.  The matrices are
\* those of a new frame, in which nothing is computed.
Configure(n, s) ==
    /\ numThreads' = n
    /\ style' = s
    /\ atomic' = 0
    /\ iterate' = NotComputed
    /\ UNCHANGED <<build, curTask, numBlocked, at, phase, y, task>>
-----------------------------------------------------------------------------
Working == {t \in Threads : at[t] = "row"}

\* No row is computed while another thread writes what it reads or writes, though the
\* threads go from one phase to the next each at its own pace.
NoRace ==
    \A s, t \in Working : s # t =>
        LET mine == Writes(Phases[phase[s]], y[s])
            other == Phases[phase[t]]
        IN mine \cap (Writes(other, y[t]) \cup Reads(other, y[t])) = {}
=============================================================================
