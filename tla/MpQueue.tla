------------------------------ MODULE MpQueue ------------------------------
(***************************************************************************)
(* The blocking queue of mp_queue.c.  Threads call mpQueuePush, mpQueuePop *)
(* and mpQueueClear on one queue.  Every step below is one critical        *)
(* section of m_mutex: from the lock (or the return of cond_wait) to the   *)
(* unlock (or the next cond_wait).  m_readers and m_writers count stalled  *)
(* threads, but it is the signaller that decrements them, so they are      *)
(* estimates: a thread that wakes by itself and stalls again is counted    *)
(* twice.  POSIX lets a condition wait return without a signal;            *)
(* SpuriousWake is that return.                                            *)
(***************************************************************************)
EXTENDS Naturals, Sequences, FiniteSets

CONSTANTS Threads,      \* the threads that share the queue
          Items,        \* the messages
          NoItem,       \* content of a slot nothing was stored in
          MaxSize,      \* in_maxSize of mpQueueCreate
          MaxSpurious   \* bound: spurious wakeups in a behaviour

ASSUME QueueAssumption ==
    /\ IsFiniteSet(Threads)
    /\ NoItem \notin Items
    /\ MaxSize \in Nat \ {0}
    /\ MaxSpurious \in Nat

VARIABLES m_writerPos, m_readerPos,   \* indices into r_queueData
          r_queueData,                \* the slots
          m_readers, m_writers,       \* stalled threads, as counted by the code
          phase,                      \* where each thread is
          arg,                        \* in_dat of the push a thread is in
          popped,                     \* what the last mpQueuePop returned
          cleared,                    \* did the last call to use the ring clear it?
                                      \* (history variable)
          spurious                    \* spurious wakeups so far

ring == <<m_writerPos, m_readerPos, r_queueData>>
queueVars == <<m_writerPos, m_readerPos, r_queueData, m_readers, m_writers,
          phase, arg, popped, cleared, spurious>>

\* (mutant: maxSize is incremented again for the allocation)
m_queueSizeTwice == MaxSize + 2

\* maxSize++: one slot is never used, so that full and empty differ.
m_queueSize == MaxSize + 1
Slots == 0 .. MaxSize

\* "Stalled" is inside cond_wait; "Woken" has left it and wants the mutex.
Phases == {"idle", "pushStalled", "pushWoken", "popStalled", "popWoken"}
In(p) == {t \in Threads : phase[t] = p}

Empty == m_readerPos = m_writerPos
\* (mutant: the full test forgets that the ring wraps)
FullNoWrap == m_writerPos + 1 = m_readerPos

Full == (m_writerPos + 1) % m_queueSize = m_readerPos
Count == (m_writerPos + m_queueSize - m_readerPos) % m_queueSize
-----------------------------------------------------------------------------
QueueInit ==
    /\ m_writerPos = 0
    /\ m_readerPos = 0
    /\ r_queueData = [s \in Slots |-> NoItem]
    /\ m_readers = 0
    /\ m_writers = 0
    /\ phase = [t \in Threads |-> "idle"]
    /\ arg = [t \in Threads |-> NoItem]
    /\ popped = NoItem
    /\ cleared = FALSE
    /\ spurious = 0

\* cond_signal of a condition whose waiters are in phase "from" of p: one of
\* them, if there is one, goes on to contend for the mutex.
Signal(p, from, to) ==
    \/ /\ \A w \in Threads : p[w] # from
       /\ phase' = p
    \/ \E w \in Threads :
          /\ p[w] = from
          /\ phase' = [p EXCEPT ![w] = to]

\* (mutants: a push signals only when it fills an empty queue; it tests the
\* other counter)
ReaderCountedFirst == Empty /\ m_readers > 0
ReaderCountedSwapped == m_writers > 0

\* A push signals m_readCond iff a reader is counted as stalled.
ReaderCounted == m_readers > 0

\* (mutant: a pop signals only when the queue was full)
WriterCountedFull == Full /\ m_writers > 0

\* A pop signals m_writeCond iff a writer is counted as stalled.
WriterCounted == m_writers > 0

\* The rest of mpQueuePush once the loop found a free slot.
Enqueue(t, v) ==
    LET p == [phase EXCEPT ![t] = "idle"] IN
    /\ r_queueData' = [r_queueData EXCEPT ![m_writerPos] = v]
    /\ m_writerPos' = (m_writerPos + 1) % m_queueSize
    /\ arg' = [arg EXCEPT ![t] = NoItem]
    /\ cleared' = FALSE
    /\ \/ /\ ReaderCounted
          /\ m_readers' = m_readers - 1
          /\ Signal(p, "popStalled", "popWoken")
       \/ /\ ~ReaderCounted
          /\ phase' = p
          /\ UNCHANGED m_readers
    /\ UNCHANGED <<m_readerPos, m_writers, popped, spurious>>

\* The body of the loop: count this thread as stalled and wait.
StallPush(t, v) ==
    /\ m_writers' = m_writers + 1
    /\ phase' = [phase EXCEPT ![t] = "pushStalled"]
    /\ arg' = [arg EXCEPT ![t] = v]
    /\ UNCHANGED <<ring, m_readers, popped, cleared, spurious>>

\* The rest of mpQueuePop once the loop found a message.
Dequeue(t) ==
    LET p == [phase EXCEPT ![t] = "idle"] IN
    /\ popped' = r_queueData[m_readerPos]
    /\ m_readerPos' = (m_readerPos + 1) % m_queueSize
    /\ cleared' = FALSE
    /\ \/ /\ WriterCounted
          /\ m_writers' = m_writers - 1
          /\ Signal(p, "pushStalled", "pushWoken")
       \/ /\ ~WriterCounted
          /\ phase' = p
          /\ UNCHANGED m_writers
    /\ UNCHANGED <<m_writerPos, r_queueData, m_readers, arg, spurious>>

StallPop(t) ==
    /\ m_readers' = m_readers + 1
    /\ phase' = [phase EXCEPT ![t] = "popStalled"]
    /\ UNCHANGED <<ring, m_writers, arg, popped, cleared, spurious>>
-----------------------------------------------------------------------------
mpQueuePush(t, v) ==
    /\ phase[t] = "idle"
    /\ \/ Full /\ StallPush(t, v)
       \/ ~Full /\ Enqueue(t, v)

mpQueuePop(t) ==
    /\ phase[t] = "idle"
    /\ \/ Empty /\ StallPop(t)
       \/ ~Empty /\ Dequeue(t)

\* cond_wait returned with the mutex held: the while condition is tested again.
ResumePush(t) ==
    /\ phase[t] = "pushWoken"
    /\ \/ Full /\ StallPush(t, arg[t])
       \/ ~Full /\ Enqueue(t, arg[t])

ResumePop(t) ==
    /\ phase[t] = "popWoken"
    /\ \/ Empty /\ StallPop(t)
       \/ ~Empty /\ Dequeue(t)

\* k signals of m_writeCond: the sets of stalled writers they may wake.
WokenBy(k) ==
    LET stalled == In("pushStalled") IN
    {W \in SUBSET stalled :
       /\ Cardinality(W) <= k
       /\ W = stalled \/ Cardinality(W) = k}

\* (mutant: the while of mpQueueClear is an if)
ClearWakesOne == WokenBy(IF m_writers > 0 THEN 1 ELSE 0)

\* mpQueueClear signals once per counted writer.
ClearWakes == WokenBy(m_writers)

mpQueueClear(t) ==
    /\ phase[t] = "idle"
    /\ m_readerPos' = 0
    /\ m_writerPos' = 0
    /\ m_writers' = 0
    /\ cleared' = TRUE
    /\ \E W \in ClearWakes :
          phase' = [u \in Threads |-> IF u \in W THEN "pushWoken" ELSE phase[u]]
    /\ UNCHANGED <<r_queueData, m_readers, arg, popped, spurious>>

SpuriousWake(t) ==
    /\ spurious < MaxSpurious
    /\ spurious' = spurious + 1
    /\ \/ /\ phase[t] = "pushStalled"
          /\ phase' = [phase EXCEPT ![t] = "pushWoken"]
       \/ /\ phase[t] = "popStalled"
          /\ phase' = [phase EXCEPT ![t] = "popWoken"]
    /\ UNCHANGED <<ring, m_readers, m_writers, arg, popped, cleared>>

QueueNext ==
    \E t \in Threads :
       \/ \E v \in Items : mpQueuePush(t, v)
       \/ mpQueuePop(t)
       \/ mpQueueClear(t)
       \/ ResumePush(t)
       \/ ResumePop(t)
       \/ SpuriousWake(t)

\* A thread that left cond_wait is eventually granted the mutex.  Nothing
\* makes a thread call an operation.
QueueFairness ==
    \A t \in Threads : WF_queueVars(ResumePush(t)) /\ WF_queueVars(ResumePop(t))

QueueSpec == QueueInit /\ [][QueueNext]_queueVars /\ QueueFairness
-----------------------------------------------------------------------------
QueueTypeOK ==
    /\ m_writerPos \in Slots
    /\ m_readerPos \in Slots
    /\ r_queueData \in [Slots -> Items \cup {NoItem}]
    /\ m_readers \in Nat
    /\ m_writers \in Nat
    /\ phase \in [Threads -> Phases]
    /\ arg \in [Threads -> Items \cup {NoItem}]
    /\ popped \in Items \cup {NoItem}
    /\ cleared \in BOOLEAN
    /\ spurious \in 0 .. MaxSpurious

\* The counters may overestimate the threads inside cond_wait and never
\* underestimate them, although the waiter increments and the signaller
\* decrements: an underestimate would make a push or a pop skip its signal.
CountsCoverStalled ==
    /\ Cardinality(In("popStalled")) <= m_readers
    /\ Cardinality(In("pushStalled")) <= m_writers

\* No wakeup is lost: while a reader is inside cond_wait, every message in
\* the queue has a reader on its way to it, and while a writer is inside
\* cond_wait every free slot has a writer on its way to it.
NoLostWakeup ==
    /\ In("popStalled") # {} => Count <= Cardinality(In("popWoken"))
    /\ In("pushStalled") # {} => MaxSize - Count <= Cardinality(In("pushWoken"))

\* A reader is never stalled on a queue that also stalls a writer, unless one
\* of the two is about to leave: "deadlocks may occur" (mp_queue.c:18) only
\* when every thread waits for the same end of the queue.
NoMutualStall ==
    In("popStalled") # {} /\ In("pushStalled") # {}
       => In("popWoken") \cup In("pushWoken") # {}

\* A thread stalled in mpQueuePop while the queue holds a message returns, or
\* the queue is emptied first.
PopServed ==
    \A t \in Threads :
       phase[t] \in {"popStalled", "popWoken"} /\ ~Empty
          ~> phase[t] = "idle" \/ Empty

\* A thread stalled in mpQueuePush while the queue has room returns, or the
\* queue fills up first.
PushServed ==
    \A t \in Threads :
       phase[t] \in {"pushStalled", "pushWoken"} /\ ~Full
          ~> phase[t] = "idle" \/ Full
-----------------------------------------------------------------------------
\* The messages in the queue, oldest first.
Content ==
    [i \in 1 .. Count |-> r_queueData[(m_readerPos + i - 1) % m_queueSize]]

Fifo == INSTANCE BoundedFifo WITH Capacity <- MaxSize, fifo <- Content

\* The ring of slots, with its stalls and signals, is a bounded FIFO buffer:
\* no message is lost, duplicated, reordered or returned after a clear.
ImplementsFifo == Fifo!Spec
=============================================================================
