----------------------------- MODULE TaskWorld -----------------------------
(***************************************************************************)
(* The worker threads of mp_taskWorld.c and how the fluids of a process    *)
(* use them in a build without Grand Central Dispatch.  mpInit makes one   *)
(* world for all: a queue of records for the threads (r_sendQueue), a      *)
(* queue of free records (r_receiveQueue), and the threads, which run      *)
(* mpTaskEngine.  To start a frame the host thread floods the world with   *)
(* one call of fluidMP per worker; to collect it, it pops one token for    *)
(* each from the fluid's queue r_blocker, which is smaller than that.  All *)
(* fluids share the workers.                                               *)
(*                                                                         *)
(* What fluidMP does is CoherenceAtomic; here a frame is finished by any   *)
(* of the calls of fluidMP that run, and all of them return after that.    *)
(* Records are alike, so r_receiveQueue is a number.  mpQueue is the       *)
(* bounded queue that MpQueue implements.                                  *)
(***************************************************************************)
EXTENDS Integers, Sequences, FiniteSets

CONSTANTS Workers,      \* the threads (mpInit(3))
          Fluids,       \* the Jitter objects of the process
          BlockerSize   \* the size of r_blocker (2 in fluidCreate)

ASSUME WorldAssumption ==
    /\ IsFiniteSet(Workers) /\ Workers # {}
    /\ BlockerSize \in Nat \ {0}

VARIABLES world,        \* g_mpTaskWorld # NULL
          r_sendQueue,  \* the fluids the queued records are for
          free,         \* records in r_receiveQueue
          at, job,      \* of a worker: where it is, and the fluid it works for
          frame,        \* of a fluid: "none", "running" or "finished"
          r_blocker,    \* of a fluid: tokens in its queue
          spawned,      \* of a fluid: tokens fluidAdvanceSync pops
          didEnd,       \* of a fluid: what fluidStop looks at
          host, f, i    \* the host thread, the fluid it serves, its loop counter

vars == <<world, r_sendQueue, free, at, job, frame, r_blocker, spawned, didEnd, host, f, i>>
workerVars == <<at, job>>
fluidVars == <<frame, spawned, didEnd>>
hostVars == <<host, f, i>>

m_workers == Cardinality(Workers)
Records == 4 * m_workers
NoFluid == "none"
-----------------------------------------------------------------------------
\* mpInit, by the first object; mpQueueCreate(in_workers * 4) for both queues.
Init ==
    /\ world = TRUE
    /\ r_sendQueue = <<>>
    /\ free = Records
    /\ at = [w \in Workers |-> "pop"]
    /\ job = [w \in Workers |-> NoFluid]
    /\ frame = [g \in Fluids |-> "none"]
    /\ r_blocker = [g \in Fluids |-> 0]
    /\ spawned = [g \in Fluids |-> 0]
    /\ didEnd = [g \in Fluids |-> TRUE]
    /\ host = "idle"
    /\ f = NoFluid
    /\ i = 0

\* mpTaskEngine.
PopRecord(w) ==
    /\ at[w] = "pop"
    /\ r_sendQueue # <<>>
    /\ job' = [job EXCEPT ![w] = Head(r_sendQueue)]
    /\ r_sendQueue' = Tail(r_sendQueue)
    /\ at' = [at EXCEPT ![w] = "work"]
    /\ UNCHANGED <<world, free, r_blocker, fluidVars, hostVars>>

\* fluidMP: a worker runs the rows that are left ...
FinishFrame(w) ==
    /\ at[w] = "work"
    /\ frame[job[w]] = "running"
    /\ frame' = [frame EXCEPT ![job[w]] = "finished"]
    /\ UNCHANGED <<world, r_sendQueue, free, workerVars, r_blocker, spawned, didEnd, hostVars>>

\* ... and leaves.
LeaveFrame(w) ==
    /\ at[w] = "work"
    /\ frame[job[w]] = "finished"
    /\ at' = [at EXCEPT ![w] = "token"]
    /\ UNCHANGED <<world, r_sendQueue, free, job, r_blocker, fluidVars, hostVars>>

\* (mutant: one of the calls ends without a token)
PushTokenOnce(w) ==
    /\ at[w] = "token"
    /\ r_blocker[job[w]] < BlockerSize
    /\ r_blocker' = [r_blocker EXCEPT ![job[w]] = 1]
    /\ at' = [at EXCEPT ![w] = "return"]
    /\ UNCHANGED <<world, r_sendQueue, free, job, fluidVars, hostVars>>

\* x_finally: the token for fluidAdvanceSync, which waits while the queue is full.
PushToken(w) ==
    /\ at[w] = "token"
    /\ r_blocker[job[w]] < BlockerSize
    /\ r_blocker' = [r_blocker EXCEPT ![job[w]] = @ + 1]
    /\ at' = [at EXCEPT ![w] = "return"]
    /\ UNCHANGED <<world, r_sendQueue, free, job, fluidVars, hostVars>>

\* The record goes back by way of g_mpTaskWorld, which mpTerminate clears.
ReturnRecord(w) ==
    /\ at[w] = "return"
    /\ IF world
       THEN at' = [at EXCEPT ![w] = "pop"] /\ free' = free + 1
       ELSE at' = [at EXCEPT ![w] = "crashed"] /\ UNCHANGED free
    /\ job' = [job EXCEPT ![w] = NoFluid]
    /\ UNCHANGED <<world, r_sendQueue, r_blocker, fluidVars, hostVars>>

mpTaskEngine(w) ==
    PopRecord(w) \/ FinishFrame(w) \/ LeaveFrame(w) \/ PushToken(w) \/ ReturnRecord(w)
-----------------------------------------------------------------------------
\* The host thread calls matrix_calc of some object, which begins with
\* fluidFrameEnd, or frees the object (fluidStop).
BeginSync(g, next) ==
    /\ host = "idle"
    /\ world
    /\ f' = g
    /\ i' = 0
    /\ host' = next
    /\ UNCHANGED <<world, r_sendQueue, free, workerVars, r_blocker, fluidVars>>

matrix_calc(g) == BeginSync(g, "sync")

jit_tml_fluid2_free(g) == BeginSync(g, IF didEnd[g] THEN "terminate" ELSE "stop")

\* fluidAdvanceSync pops the tokens of the last flood.
PopToken ==
    /\ host \in {"sync", "stop"}
    /\ i < spawned[f]
    /\ r_blocker[f] > 0
    /\ r_blocker' = [r_blocker EXCEPT ![f] = @ - 1]
    /\ i' = i + 1
    /\ UNCHANGED <<world, r_sendQueue, free, workerVars, fluidVars, host, f>>

\* (mutant: it stops one token early)
AllButOne == i + 1 >= spawned[f]

AllPopped == i = spawned[f]

\* mpCReset; matrix_calc goes on with the inputs, fluidStop frees the fields.
EndSync ==
    /\ host \in {"sync", "stop"}
    /\ AllPopped
    /\ frame' = [frame EXCEPT ![f] = "none"]
    /\ didEnd' = [didEnd EXCEPT ![f] = IF host = "sync" THEN TRUE ELSE @]
    /\ host' = IF host = "sync" THEN "calc" ELSE "terminate"
    /\ UNCHANGED <<world, r_sendQueue, free, workerVars, r_blocker, spawned, f, i>>

\* matrix_calc leaves through "out" when an input does not fit.
LeaveEarly ==
    /\ host = "calc"
    /\ host' = "idle"
    /\ f' = NoFluid
    /\ i' = 0
    /\ UNCHANGED <<world, r_sendQueue, free, workerVars, r_blocker, fluidVars>>

\* fluidFrameStart: fluidAdvanceASync adds the tasks and floods the world.
BeginFlood ==
    /\ host = "calc"
    /\ host' = "flood"
    /\ i' = 0
    /\ frame' = [frame EXCEPT ![f] = "running"]
    /\ UNCHANGED <<world, r_sendQueue, free, workerVars, r_blocker, spawned, didEnd, f>>

\* A free record (mpTaskLaunch waits for one) becomes a message.
mpTaskLaunch ==
    /\ host = "flood"
    /\ i < m_workers
    /\ free > 0
    /\ free' = free - 1
    /\ r_sendQueue' = Append(r_sendQueue, f)
    /\ i' = i + 1
    /\ UNCHANGED <<world, workerVars, r_blocker, fluidVars, host, f>>

EndFlood ==
    /\ host = "flood"
    /\ i = m_workers
    /\ spawned' = [spawned EXCEPT ![f] = m_workers]
    /\ didEnd' = [didEnd EXCEPT ![f] = FALSE]
    /\ host' = "idle"
    /\ f' = NoFluid
    /\ i' = 0
    /\ UNCHANGED <<world, r_sendQueue, free, workerVars, r_blocker, frame>>

\* mpTerminate forgets the world.  (Bound: what the process does after it, with
\* objects that are left or with a new world, is not followed.)
mpTerminate ==
    /\ host = "terminate"
    /\ world' = FALSE
    /\ host' = "idle"
    /\ f' = NoFluid
    /\ i' = 0
    /\ UNCHANGED <<r_sendQueue, free, workerVars, r_blocker, fluidVars>>

HostGoesOn ==
    PopToken \/ EndSync \/ LeaveEarly \/ BeginFlood \/ mpTaskLaunch \/ EndFlood \/ mpTerminate

Next ==
    \/ \E w \in Workers : mpTaskEngine(w)
    \/ \E g \in Fluids : matrix_calc(g) \/ jit_tml_fluid2_free(g)
    \/ HostGoesOn

\* The threads run, and the host finishes what it has begun.
Fairness == WF_vars(HostGoesOn) /\ \A w \in Workers : WF_vars(mpTaskEngine(w))

Spec == Init /\ [][Next]_vars /\ Fairness
-----------------------------------------------------------------------------
TypeOK ==
    /\ world \in BOOLEAN
    /\ r_sendQueue \in Seq(Fluids)
    /\ free \in 0 .. Records
    /\ at \in [Workers -> {"pop", "work", "token", "return", "crashed"}]
    /\ job \in [Workers -> Fluids \cup {NoFluid}]
    /\ frame \in [Fluids -> {"none", "running", "finished"}]
    /\ r_blocker \in [Fluids -> 0 .. BlockerSize]
    /\ spawned \in [Fluids -> {0, m_workers}]
    /\ didEnd \in [Fluids -> BOOLEAN]
    /\ host \in {"idle", "sync", "stop", "calc", "flood", "terminate"}
    /\ f \in Fluids \cup {NoFluid}
    /\ i \in 0 .. m_workers

\* Calls of fluidMP for g that have still to push their token.
Pending(g) ==
    Cardinality({n \in 1 .. Len(r_sendQueue) : r_sendQueue[n] = g})
        + Cardinality({w \in Workers : job[w] = g /\ at[w] \in {"work", "token"}})

\* When fluidAdvanceSync goes on to mpCReset, matrix_calc to the fields of the fluid,
\* or fluidStop to freeing them, no call of fluidMP for that fluid is left that could
\* still touch them, though the workers serve other fluids in between and the queue of
\* tokens is too short for all of them.
SyncCoversFrame ==
    host \in {"calc", "terminate"} => Pending(f) = 0 /\ r_blocker[f] = 0

\* A frame that was started is collected: fluidAdvanceSync returns, however many
\* workers are held up by the tokens of fluids that nobody collects meanwhile.
SyncReturns ==
    \A g \in Fluids :
        (host \in {"sync", "stop"} /\ f = g /\ frame[g] # "none") ~> host \in {"calc", "terminate"}

\* mpx.h:189, "Call mpTerminate to join all threads": no thread of the world is left
\* to use it afterwards.
TerminateJoins == \A w \in Workers : at[w] # "crashed"
=============================================================================
