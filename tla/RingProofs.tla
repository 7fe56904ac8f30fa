----------------------------- MODULE RingProofs -----------------------------
(***************************************************************************)
(* Proofs about the two ring buffers of the program: the queue of pointers *)
(* of mp_queue.c (MpQueue) and the rings of bytes of the network streams   *)
(* (NetStreams).                                                           *)
(*                                                                         *)
(* The queue, for any finite set of threads, any queue size and any number *)
(* of spurious wakeups.  The inductive invariant is                        *)
(*    QueueTypeOK /\ CountsCoverStalled /\ NoLostWakeup.                   *)
(* CountsCoverStalled is needed for NoLostWakeup: it is why a push finds   *)
(* m_readers > 0 whenever a reader is stalled.                             *)
(*                                                                         *)
(* The streams, for all sizes of the rings and of the messages: neither    *)
(* ring ever overwrites a message that somebody still needs, and the       *)
(* messages come out as they went in.  Both ends use a ring in the same    *)
(* way, so the argument is about Ring, what a ring holds between two of    *)
(* its operations, and there is one lemma for each operation.  The         *)
(* invariant then adds where the two threads are and numbers the messages: *)
(* c of them have been put on the connection, and the receiver has stored  *)
(* those before number r.                                                  *)
(***************************************************************************)
EXTENDS MpQueue, NetStreams, FiniteSetTheorems, SequenceTheorems, TLAPS

(***************************************************************************)
(* The queue of pointers.                                                  *)
(***************************************************************************)

\* The threads in phase p, and how many they are, when f is the phases.
At(f, p) == {t \in Threads : f[t] = p}
Size(f, p) == Cardinality(At(f, p))

PhaseFns == [Threads -> Phases]
-----------------------------------------------------------------------------
\* The number of threads in a phase is a natural number, and zero exactly when
\* no thread is in it.
LEMMA SizeNat ==
    ASSUME NEW f \in PhaseFns, NEW p
    PROVE  /\ IsFiniteSet(At(f, p))
           /\ Size(f, p) \in Nat
           /\ Size(f, p) = 0 <=> At(f, p) = {}
  <1>1. At(f, p) \in SUBSET Threads
    BY DEF At
  <1>2. IsFiniteSet(At(f, p))
    BY <1>1, FS_Subset, QueueAssumption DEF QueueAssumption
  <1> QED
    BY <1>2, FS_CardinalityType, FS_EmptySet DEF Size

\* g has one thread more than f in phase "to", and one fewer in "from".
Moves(f, g, from, to) ==
    /\ Size(g, to) = Size(f, to) + 1
    /\ Size(g, from) = Size(f, from) - 1
    /\ \A p \in Phases \ {from, to} : Size(g, p) = Size(f, p)

\* A thread that moves to another phase leaves its own and enters the new one.
LEMMA SizeMove ==
    ASSUME NEW f \in PhaseFns, NEW t \in Threads, NEW from, NEW to \in Phases,
           f[t] = from, from # to,
           NEW g, g = [f EXCEPT ![t] = to]
    PROVE  g \in PhaseFns /\ Moves(f, g, from, to)
  <1>1. g \in PhaseFns
    BY DEF PhaseFns
  <1>2. Size(g, to) = Size(f, to) + 1
    <2>1. At(g, to) = At(f, to) \cup {t}
      BY DEF At, PhaseFns
    <2>2. t \notin At(f, to)
      BY DEF At
    <2> QED
      BY <2>1, <2>2, SizeNat, FS_AddElement DEF Size
  <1>3. Size(g, from) = Size(f, from) - 1
    <2>1. At(g, from) = At(f, from) \ {t}
      BY DEF At, PhaseFns
    <2>2. t \in At(f, from)
      BY DEF At
    <2> QED
      BY <2>1, <2>2, SizeNat, FS_RemoveElement DEF Size
  <1>4. ASSUME NEW p \in Phases \ {from, to} PROVE Size(g, p) = Size(f, p)
    <2>1. At(g, p) = At(f, p)
      BY <1>4 DEF At, PhaseFns
    <2> QED
      BY <2>1 DEF Size
  <1> QED
    BY <1>1, <1>2, <1>3, <1>4 DEF Moves

\* A signal moves one waiting thread, if there is one, and nobody else.
LEMMA SignalMoves ==
    ASSUME NEW f \in PhaseFns, NEW from \in Phases, NEW to \in Phases, from # to,
           Signal(f, from, to)
    PROVE  /\ phase' \in PhaseFns
           /\ \/ /\ Size(f, from) = 0
                 /\ phase' = f
              \/ Moves(f, phase', from, to)
  <1>1. CASE (\A w \in Threads : f[w] # from) /\ phase' = f
    <2>1. At(f, from) = {}
      BY <1>1 DEF At
    <2> QED
      BY <1>1, <2>1, SizeNat
  <1>2. CASE \E w \in Threads : f[w] = from /\ phase' = [f EXCEPT ![w] = to]
    <2>1. PICK w \in Threads : f[w] = from /\ phase' = [f EXCEPT ![w] = to]
      BY <1>2
    <2> QED
      BY <2>1, SizeMove
  <1> QED
    BY <1>1, <1>2 DEF Signal

\* The two outcomes of an index that advances around the ring.
LEMMA Around ==
    ASSUME NEW s \in Slots
    PROVE  /\ (s + 1) % m_queueSize = IF s = MaxSize THEN 0 ELSE s + 1
           /\ (s + 1) % m_queueSize \in Slots
  BY QueueAssumption DEF QueueAssumption, Slots, m_queueSize

\* The number of messages between two indices, without the remainder.
LEMMA RingCount ==
    ASSUME NEW w \in Slots, NEW r \in Slots
    PROVE  LET n == (w + m_queueSize - r) % m_queueSize IN
           /\ n = IF r <= w THEN w - r ELSE w + MaxSize + 1 - r
           /\ n \in 0 .. MaxSize
           /\ n = 0 <=> r = w
           /\ n = MaxSize <=> (w + 1) % m_queueSize = r
  <1> USE QueueAssumption DEF QueueAssumption, Slots, m_queueSize
  <1>1. (w + m_queueSize - r) % m_queueSize
           = IF r <= w THEN w - r ELSE w + MaxSize + 1 - r
    OBVIOUS
  <1>2. (w + 1) % m_queueSize = IF w = MaxSize THEN 0 ELSE w + 1
    BY Around
  <1> QED
    BY <1>1, <1>2

\* A push fills a slot, a pop frees one.
LEMMA RingStep ==
    ASSUME NEW w \in Slots, NEW r \in Slots
    PROVE  LET n(a, b) == (a + m_queueSize - b) % m_queueSize
               next(a) == (a + 1) % m_queueSize
           IN /\ next(w) # r => n(next(w), r) = n(w, r) + 1
              /\ r # w => n(w, next(r)) = n(w, r) - 1
  <1> DEFINE n(a, b) == (a + m_queueSize - b) % m_queueSize
             next(a) == (a + 1) % m_queueSize
  <1> USE QueueAssumption DEF QueueAssumption, Slots
  <1>1. next(w) = (IF w = MaxSize THEN 0 ELSE w + 1) /\ next(w) \in Slots
    BY Around
  <1>2. next(r) = (IF r = MaxSize THEN 0 ELSE r + 1) /\ next(r) \in Slots
    BY Around
  <1>3. \A a, b \in Slots : n(a, b) = IF b <= a THEN a - b ELSE a + MaxSize + 1 - b
    BY RingCount
  <1> HIDE DEF n, next
  <1>4. next(w) # r => n(next(w), r) = n(w, r) + 1
    BY <1>1, <1>3
  <1>5. r # w => n(w, next(r)) = n(w, r) - 1
    BY <1>2, <1>3
  <1> QED
    BY <1>4, <1>5 DEF n, next
-----------------------------------------------------------------------------
(* Type correctness. *)

\* Finishing a push keeps the types.
LEMMA EnqueueType ==
    ASSUME QueueTypeOK, NEW t \in Threads, NEW v \in Items \cup {NoItem}, Enqueue(t, v)
    PROVE  QueueTypeOK'
  <1> DEFINE p == [phase EXCEPT ![t] = "idle"]
  <1>1. p \in PhaseFns
    BY DEF QueueTypeOK, PhaseFns, Phases
  <1>2. phase' \in PhaseFns /\ m_readers' \in Nat
    <2>1. CASE ReaderCounted /\ m_readers' = m_readers - 1 /\ Signal(p, "popStalled", "popWoken")
      BY <1>1, <2>1, SignalMoves DEF QueueTypeOK, ReaderCounted, Phases
    <2>2. CASE phase' = p /\ UNCHANGED m_readers
      BY <1>1, <2>2 DEF QueueTypeOK
    <2> QED
      BY <2>1, <2>2 DEF Enqueue
  <1>3. m_writerPos' \in Slots
    BY Around DEF QueueTypeOK, Enqueue
  <1>4. r_queueData' \in [Slots -> Items \cup {NoItem}] /\ arg' \in [Threads -> Items \cup {NoItem}]
    BY DEF QueueTypeOK, Enqueue
  <1> QED
    BY <1>2, <1>3, <1>4 DEF QueueTypeOK, Enqueue, PhaseFns

\* Finishing a pop keeps the types.
LEMMA DequeueType ==
    ASSUME QueueTypeOK, NEW t \in Threads, Dequeue(t)
    PROVE  QueueTypeOK'
  <1> DEFINE p == [phase EXCEPT ![t] = "idle"]
  <1>1. p \in PhaseFns
    BY DEF QueueTypeOK, PhaseFns, Phases
  <1>2. phase' \in PhaseFns /\ m_writers' \in Nat
    <2>1. CASE WriterCounted /\ m_writers' = m_writers - 1 /\ Signal(p, "pushStalled", "pushWoken")
      BY <1>1, <2>1, SignalMoves DEF QueueTypeOK, WriterCounted, Phases
    <2>2. CASE phase' = p /\ UNCHANGED m_writers
      BY <1>1, <2>2 DEF QueueTypeOK
    <2> QED
      BY <2>1, <2>2 DEF Dequeue
  <1>3. m_readerPos' \in Slots
    BY Around DEF QueueTypeOK, Dequeue
  <1>4. popped' \in Items \cup {NoItem}
    BY DEF QueueTypeOK, Dequeue
  <1> QED
    BY <1>2, <1>3, <1>4 DEF QueueTypeOK, Dequeue, PhaseFns

\* Stalling keeps the types.
LEMMA StallType ==
    ASSUME QueueTypeOK, NEW t \in Threads,
           StallPop(t) \/ \E v \in Items \cup {NoItem} : StallPush(t, v)
    PROVE  QueueTypeOK'
  <1>1. CASE StallPop(t)
    BY <1>1 DEF QueueTypeOK, StallPop, ring, Phases
  <1>2. ASSUME NEW v \in Items \cup {NoItem}, StallPush(t, v) PROVE QueueTypeOK'
    BY <1>2 DEF QueueTypeOK, StallPush, ring, Phases
  <1> QED
    BY <1>1, <1>2

\* The types hold in every reachable state: QueueSpec => []QueueTypeOK.
THEOREM Typing == QueueSpec => []QueueTypeOK
  <1>1. QueueInit => QueueTypeOK
    <2> SUFFICES ASSUME QueueInit PROVE QueueTypeOK
      OBVIOUS
    <2>1. cleared \in BOOLEAN
      BY DEF QueueInit
    <2> QED
      BY <2>1, QueueAssumption DEF QueueInit, QueueTypeOK, Slots, Phases, QueueAssumption
  <1>2. QueueTypeOK /\ [QueueNext]_queueVars => QueueTypeOK'
    <2> SUFFICES ASSUME QueueTypeOK, [QueueNext]_queueVars PROVE QueueTypeOK'
      OBVIOUS
    <2>1. CASE UNCHANGED queueVars
      BY <2>1 DEF QueueTypeOK, queueVars
    <2>2. ASSUME NEW t \in Threads, NEW v \in Items, mpQueuePush(t, v) PROVE QueueTypeOK'
      BY <2>2, EnqueueType, StallType DEF mpQueuePush
    <2>3. ASSUME NEW t \in Threads, mpQueuePop(t) PROVE QueueTypeOK'
      BY <2>3, DequeueType, StallType DEF mpQueuePop
    <2>4. ASSUME NEW t \in Threads, mpQueueClear(t) PROVE QueueTypeOK'
      <3>1. PICK W \in ClearWakes :
               phase' = [u \in Threads |-> IF u \in W THEN "pushWoken" ELSE phase[u]]
        BY <2>4 DEF mpQueueClear
      <3>2. phase' \in [Threads -> Phases]
        BY <3>1 DEF QueueTypeOK, Phases
      <3> QED
        BY <2>4, <3>2, QueueAssumption DEF mpQueueClear, QueueTypeOK, Slots, QueueAssumption
    <2>5. ASSUME NEW t \in Threads, ResumePush(t) PROVE QueueTypeOK'
      <3>1. arg[t] \in Items \cup {NoItem}
        BY DEF QueueTypeOK
      <3> QED
        BY <2>5, <3>1, EnqueueType, StallType DEF ResumePush
    <2>6. ASSUME NEW t \in Threads, ResumePop(t) PROVE QueueTypeOK'
      BY <2>6, DequeueType, StallType DEF ResumePop
    <2>7. ASSUME NEW t \in Threads, SpuriousWake(t) PROVE QueueTypeOK'
      BY <2>7, QueueAssumption DEF SpuriousWake, QueueTypeOK, ring, Phases, QueueAssumption
    <2> QED
      BY <2>1, <2>2, <2>3, <2>4, <2>5, <2>6, <2>7 DEF QueueNext
  <1> QED
    BY <1>1, <1>2, PTL DEF QueueSpec
-----------------------------------------------------------------------------
(* No wakeup is lost. *)

Inv == CountsCoverStalled /\ NoLostWakeup

\* The two invariants in terms of sizes only, of phases f, counters rs and ws,
\* and a number n of messages.
Covered(f, rs, ws) ==
    /\ Size(f, "popStalled") <= rs
    /\ Size(f, "pushStalled") <= ws
Awake(f, n) ==
    /\ Size(f, "popStalled") # 0 => n <= Size(f, "popWoken")
    /\ Size(f, "pushStalled") # 0 => MaxSize - n <= Size(f, "pushWoken")

LEMMA InvIs ==
    ASSUME QueueTypeOK
    PROVE  Inv <=> Covered(phase, m_readers, m_writers) /\ Awake(phase, Count)
  <1>1. \A p : In(p) = At(phase, p)
    BY DEF In, At
  <1>2. \A p : Size(phase, p) = 0 <=> In(p) = {}
    BY <1>1, SizeNat DEF QueueTypeOK, PhaseFns
  <1> QED
    BY <1>1, <1>2 DEF Inv, CountsCoverStalled, NoLostWakeup, Covered, Awake, Size

LEMMA InvNextIs ==
    ASSUME QueueTypeOK'
    PROVE  Inv' <=> Covered(phase', m_readers', m_writers') /\ Awake(phase', Count')
  <1>1. \A p : In(p)' = At(phase', p)
    BY DEF In, At
  <1>2. \A p : Size(phase', p) = 0 <=> In(p)' = {}
    BY <1>1, SizeNat DEF QueueTypeOK, PhaseFns
  <1> QED
    BY <1>1, <1>2 DEF Inv, CountsCoverStalled, NoLostWakeup, Covered, Awake, Size

\* A thread that returns from an operation leaves the phase it was in.
LEMMA Leaves ==
    ASSUME NEW f \in PhaseFns, NEW t \in Threads,
           NEW g, g = [f EXCEPT ![t] = "idle"]
    PROVE  /\ g \in PhaseFns
           /\ \A p \in Phases \ {"idle", f[t]} : Size(g, p) = Size(f, p)
           /\ f[t] # "idle" => Size(g, f[t]) = Size(f, f[t]) - 1
  <1>1. "idle" \in Phases
    BY DEF Phases
  <1>2. CASE f[t] = "idle"
    <2>1. g = f
      BY <1>2 DEF PhaseFns
    <2> QED
      BY <1>2, <2>1
  <1>3. CASE f[t] # "idle"
    <2>1. g \in PhaseFns /\ Moves(f, g, f[t], "idle")
      BY <1>1, <1>3, SizeMove
    <2> QED
      BY <2>1 DEF Moves
  <1> QED
    BY <1>2, <1>3

\* Finishing a push keeps the invariant: the message it adds comes with a
\* reader woken for it, if any reader is stalled.
LEMMA EnqueueInv ==
    ASSUME QueueTypeOK, QueueTypeOK', Inv, NEW t \in Threads, NEW v,
           phase[t] \in {"idle", "pushWoken"}, ~Full, Enqueue(t, v)
    PROVE  Inv'
  <1> DEFINE p == [phase EXCEPT ![t] = "idle"]
  <1>1. phase \in PhaseFns /\ phase' \in PhaseFns /\ p \in PhaseFns
    BY Leaves DEF QueueTypeOK, PhaseFns
  <1>2. /\ Size(p, "popStalled") = Size(phase, "popStalled")
        /\ Size(p, "popWoken") = Size(phase, "popWoken")
        /\ Size(p, "pushStalled") = Size(phase, "pushStalled")
        /\ Size(p, "pushWoken") >= Size(phase, "pushWoken") - 1
    BY <1>1, Leaves, SizeNat DEF Phases
  <1>3. Count' = Count + 1
    BY RingStep DEF QueueTypeOK, Full, Count, Enqueue
  <1>4. Count \in Nat /\ m_readers \in Nat /\ m_writers \in Nat /\ MaxSize \in Nat
    BY RingCount, QueueAssumption DEF QueueTypeOK, Count, QueueAssumption
  <1>5. Covered(phase, m_readers, m_writers) /\ Awake(phase, Count)
    BY InvIs
  <1>6. m_writers' = m_writers
    BY DEF Enqueue
  <1>7. \A f \in PhaseFns : \A q : Size(f, q) \in Nat
    BY SizeNat
  <1> HIDE DEF p
  <1>8. CASE ReaderCounted /\ m_readers' = m_readers - 1 /\ Signal(p, "popStalled", "popWoken")
    <2>1. CASE Size(p, "popStalled") = 0 /\ phase' = p
      BY <1>1, <1>2, <1>3, <1>4, <1>5, <1>6, <1>7, <1>8, <2>1, InvNextIs
        DEF Covered, Awake, ReaderCounted
    <2>2. CASE Moves(p, phase', "popStalled", "popWoken")
      <3>1. /\ Size(phase', "popWoken") = Size(p, "popWoken") + 1
            /\ Size(phase', "popStalled") = Size(p, "popStalled") - 1
            /\ Size(phase', "pushStalled") = Size(p, "pushStalled")
            /\ Size(phase', "pushWoken") = Size(p, "pushWoken")
        BY <2>2 DEF Moves, Phases
      <3> QED
        BY <1>1, <1>2, <1>3, <1>4, <1>5, <1>6, <1>7, <1>8, <3>1, InvNextIs
          DEF Covered, Awake
    <2> QED
      BY <1>1, <1>8, <2>1, <2>2, SignalMoves DEF Phases
  <1>9. CASE ~ReaderCounted /\ phase' = p /\ m_readers' = m_readers
    <2>1. Size(phase, "popStalled") = 0
      BY <1>1, <1>4, <1>5, <1>7, <1>9 DEF ReaderCounted, Covered
    <2> QED
      BY <1>1, <1>2, <1>3, <1>4, <1>5, <1>6, <1>7, <1>9, <2>1, InvNextIs DEF Covered, Awake
  <1> QED
    BY <1>8, <1>9 DEF Enqueue, p

\* Finishing a pop keeps the invariant: the slot it frees comes with a writer
\* woken for it, if any writer is stalled.
LEMMA DequeueInv ==
    ASSUME QueueTypeOK, QueueTypeOK', Inv, NEW t \in Threads,
           phase[t] \in {"idle", "popWoken"}, ~Empty, Dequeue(t)
    PROVE  Inv'
  <1> DEFINE p == [phase EXCEPT ![t] = "idle"]
  <1>1. phase \in PhaseFns /\ phase' \in PhaseFns /\ p \in PhaseFns
    BY Leaves DEF QueueTypeOK, PhaseFns
  <1>2. /\ Size(p, "pushStalled") = Size(phase, "pushStalled")
        /\ Size(p, "pushWoken") = Size(phase, "pushWoken")
        /\ Size(p, "popStalled") = Size(phase, "popStalled")
        /\ Size(p, "popWoken") >= Size(phase, "popWoken") - 1
    BY <1>1, Leaves, SizeNat DEF Phases
  <1>3. Count' = Count - 1
    BY RingStep DEF QueueTypeOK, Empty, Count, Dequeue
  <1>4. Count \in Nat /\ m_readers \in Nat /\ m_writers \in Nat /\ MaxSize \in Nat
    BY RingCount, QueueAssumption DEF QueueTypeOK, Count, QueueAssumption
  <1>5. Covered(phase, m_readers, m_writers) /\ Awake(phase, Count)
    BY InvIs
  <1>6. m_readers' = m_readers
    BY DEF Dequeue
  <1>7. \A f \in PhaseFns : \A q : Size(f, q) \in Nat
    BY SizeNat
  <1> HIDE DEF p
  <1>8. CASE WriterCounted /\ m_writers' = m_writers - 1 /\ Signal(p, "pushStalled", "pushWoken")
    <2>1. CASE Size(p, "pushStalled") = 0 /\ phase' = p
      BY <1>1, <1>2, <1>3, <1>4, <1>5, <1>6, <1>7, <1>8, <2>1, InvNextIs
        DEF Covered, Awake, WriterCounted
    <2>2. CASE Moves(p, phase', "pushStalled", "pushWoken")
      <3>1. /\ Size(phase', "pushWoken") = Size(p, "pushWoken") + 1
            /\ Size(phase', "pushStalled") = Size(p, "pushStalled") - 1
            /\ Size(phase', "popStalled") = Size(p, "popStalled")
            /\ Size(phase', "popWoken") = Size(p, "popWoken")
        BY <2>2 DEF Moves, Phases
      <3> QED
        BY <1>1, <1>2, <1>3, <1>4, <1>5, <1>6, <1>7, <1>8, <3>1, InvNextIs
          DEF Covered, Awake
    <2> QED
      BY <1>1, <1>8, <2>1, <2>2, SignalMoves DEF Phases
  <1>9. CASE ~WriterCounted /\ phase' = p /\ m_writers' = m_writers
    <2>1. Size(phase, "pushStalled") = 0
      BY <1>1, <1>4, <1>5, <1>7, <1>9 DEF WriterCounted, Covered
    <2> QED
      BY <1>1, <1>2, <1>3, <1>4, <1>5, <1>6, <1>7, <1>9, <2>1, InvNextIs DEF Covered, Awake
  <1> QED
    BY <1>8, <1>9 DEF Dequeue, p
\* A writer that stalls is counted, and the queue has no free slot.
LEMMA StallPushInv ==
    ASSUME QueueTypeOK, QueueTypeOK', Inv, NEW t \in Threads, NEW v,
           phase[t] \in {"idle", "pushWoken"}, Full, StallPush(t, v)
    PROVE  Inv'
  <1>1. phase \in PhaseFns /\ phase' \in PhaseFns
    BY DEF QueueTypeOK, PhaseFns
  <1>2. phase' = [phase EXCEPT ![t] = "pushStalled"] /\ phase[t] # "pushStalled"
    BY DEF StallPush
  <1>3. /\ Size(phase', "pushStalled") = Size(phase, "pushStalled") + 1
        /\ Size(phase', "popStalled") = Size(phase, "popStalled")
        /\ Size(phase', "popWoken") = Size(phase, "popWoken")
    <2>1. "pushStalled" \in Phases
      BY DEF Phases
    <2>2. Moves(phase, phase', phase[t], "pushStalled")
      BY <1>1, <1>2, <2>1, SizeMove
    <2> QED
      BY <2>2 DEF Moves, Phases
  <1>4. m_writers' = m_writers + 1 /\ m_readers' = m_readers /\ Count' = Count
    BY DEF StallPush, ring, Count
  <1>5. Count = MaxSize /\ MaxSize \in Nat /\ m_readers \in Nat /\ m_writers \in Nat
    BY RingCount, QueueAssumption DEF QueueTypeOK, Full, Count, QueueAssumption
  <1>6. Covered(phase, m_readers, m_writers) /\ Awake(phase, Count)
    BY InvIs
  <1>7. \A f \in PhaseFns : \A q : Size(f, q) \in Nat
    BY SizeNat
  <1> QED
    BY <1>1, <1>3, <1>4, <1>5, <1>6, <1>7, InvNextIs DEF Covered, Awake

\* A reader that stalls is counted, and the queue has no message.
LEMMA StallPopInv ==
    ASSUME QueueTypeOK, QueueTypeOK', Inv, NEW t \in Threads,
           phase[t] \in {"idle", "popWoken"}, Empty, StallPop(t)
    PROVE  Inv'
  <1>1. phase \in PhaseFns /\ phase' \in PhaseFns
    BY DEF QueueTypeOK, PhaseFns
  <1>2. phase' = [phase EXCEPT ![t] = "popStalled"] /\ phase[t] # "popStalled"
    BY DEF StallPop
  <1>3. /\ Size(phase', "popStalled") = Size(phase, "popStalled") + 1
        /\ Size(phase', "pushStalled") = Size(phase, "pushStalled")
        /\ Size(phase', "pushWoken") = Size(phase, "pushWoken")
    <2>1. "popStalled" \in Phases
      BY DEF Phases
    <2>2. Moves(phase, phase', phase[t], "popStalled")
      BY <1>1, <1>2, <2>1, SizeMove
    <2> QED
      BY <2>2 DEF Moves, Phases
  <1>4. m_readers' = m_readers + 1 /\ m_writers' = m_writers /\ Count' = Count
    BY DEF StallPop, ring, Count
  <1>5. Count = 0 /\ MaxSize \in Nat /\ m_readers \in Nat /\ m_writers \in Nat
    BY RingCount, QueueAssumption DEF QueueTypeOK, Empty, Count, QueueAssumption
  <1>6. Covered(phase, m_readers, m_writers) /\ Awake(phase, Count)
    BY InvIs
  <1>7. \A f \in PhaseFns : \A q : Size(f, q) \in Nat
    BY SizeNat
  <1> QED
    BY <1>1, <1>3, <1>4, <1>5, <1>6, <1>7, InvNextIs DEF Covered, Awake

\* A clear wakes every stalled writer, because every one of them is counted.
LEMMA ClearInv ==
    ASSUME QueueTypeOK, QueueTypeOK', Inv, NEW t \in Threads, mpQueueClear(t)
    PROVE  Inv'
  <1>1. phase \in PhaseFns /\ phase' \in PhaseFns
    BY DEF QueueTypeOK, PhaseFns
  <1>2. Covered(phase, m_readers, m_writers) /\ Awake(phase, Count)
    BY InvIs
  <1>3. PICK W \in ClearWakes :
           phase' = [u \in Threads |-> IF u \in W THEN "pushWoken" ELSE phase[u]]
    BY DEF mpQueueClear
  <1>4. W = At(phase, "pushStalled")
    <2> DEFINE stalled == At(phase, "pushStalled")
    <2>1. /\ W \in SUBSET stalled
          /\ W = stalled \/ Cardinality(W) = m_writers
      BY <1>3 DEF ClearWakes, WokenBy, In, At
    <2>2. IsFiniteSet(stalled) /\ Cardinality(stalled) <= m_writers
      BY <1>1, <1>2, SizeNat DEF Covered, Size
    <2>3. /\ Cardinality(W) <= Cardinality(stalled)
          /\ Cardinality(stalled) = Cardinality(W) => stalled = W
      BY <2>1, <2>2, FS_Subset
    <2>4. Cardinality(W) \in Nat /\ Cardinality(stalled) \in Nat /\ m_writers \in Nat
      BY <2>1, <2>2, FS_Subset, FS_CardinalityType DEF QueueTypeOK
    <2> QED
      BY <2>1, <2>2, <2>3, <2>4
  <1>5. Size(phase', "pushStalled") = 0
    <2>1. At(phase', "pushStalled") = {}
      BY <1>3, <1>4 DEF At
    <2> QED
      BY <1>1, <2>1, SizeNat
  <1>6. Size(phase', "popStalled") = Size(phase, "popStalled")
    <2>1. At(phase', "popStalled") = At(phase, "popStalled")
      BY <1>3, <1>4 DEF At
    <2> QED
      BY <2>1 DEF Size
  <1>7. Count' = 0 /\ m_writers' = 0 /\ m_readers' = m_readers
    <2>1. Count' = (m_writerPos' + m_queueSize - m_readerPos') % m_queueSize
      BY DEF Count, m_queueSize
    <2>2. m_writerPos' \in Slots /\ m_readerPos' \in Slots /\ m_readerPos' = m_writerPos'
      BY DEF QueueTypeOK, mpQueueClear
    <2>3. (m_writerPos' + m_queueSize - m_readerPos') % m_queueSize = 0
      BY <2>2, RingCount
    <2> QED
      BY <2>1, <2>3 DEF mpQueueClear
  <1>8. \A f \in PhaseFns : \A q : Size(f, q) \in Nat
    BY SizeNat
  <1> QED
    BY <1>1, <1>2, <1>5, <1>6, <1>7, <1>8, InvNextIs DEF Covered, Awake

\* A spurious wakeup leaves fewer threads stalled and more on their way.
LEMMA SpuriousInv ==
    ASSUME QueueTypeOK, QueueTypeOK', Inv, NEW t \in Threads, SpuriousWake(t)
    PROVE  Inv'
  <1>1. phase \in PhaseFns /\ phase' \in PhaseFns
    BY DEF QueueTypeOK, PhaseFns
  <1>2. Covered(phase, m_readers, m_writers) /\ Awake(phase, Count)
    BY InvIs
  <1>3. m_writers' = m_writers /\ m_readers' = m_readers /\ Count' = Count
    BY DEF SpuriousWake, ring, Count
  <1>4. Count \in Nat /\ MaxSize \in Nat /\ m_readers \in Nat /\ m_writers \in Nat
    BY RingCount, QueueAssumption DEF QueueTypeOK, Count, QueueAssumption
  <1>5. \A f \in PhaseFns : \A q : Size(f, q) \in Nat
    BY SizeNat
  <1>6. CASE phase[t] = "pushStalled" /\ phase' = [phase EXCEPT ![t] = "pushWoken"]
    <2>1. /\ Size(phase', "pushWoken") = Size(phase, "pushWoken") + 1
          /\ Size(phase', "pushStalled") = Size(phase, "pushStalled") - 1
          /\ Size(phase', "popStalled") = Size(phase, "popStalled")
          /\ Size(phase', "popWoken") = Size(phase, "popWoken")
      <3>1. "pushWoken" \in Phases
        BY DEF Phases
      <3>2. Moves(phase, phase', "pushStalled", "pushWoken")
        BY <1>1, <1>6, <3>1, SizeMove
      <3> QED
        BY <3>2 DEF Moves, Phases
    <2> QED
      BY <1>1, <1>2, <1>3, <1>4, <1>5, <2>1, InvNextIs DEF Covered, Awake
  <1>7. CASE phase[t] = "popStalled" /\ phase' = [phase EXCEPT ![t] = "popWoken"]
    <2>1. /\ Size(phase', "popWoken") = Size(phase, "popWoken") + 1
          /\ Size(phase', "popStalled") = Size(phase, "popStalled") - 1
          /\ Size(phase', "pushStalled") = Size(phase, "pushStalled")
          /\ Size(phase', "pushWoken") = Size(phase, "pushWoken")
      <3>1. "popWoken" \in Phases
        BY DEF Phases
      <3>2. Moves(phase, phase', "popStalled", "popWoken")
        BY <1>1, <1>7, <3>1, SizeMove
      <3> QED
        BY <3>2 DEF Moves, Phases
    <2> QED
      BY <1>1, <1>2, <1>3, <1>4, <1>5, <2>1, InvNextIs DEF Covered, Awake
  <1> QED
    BY <1>6, <1>7 DEF SpuriousWake

\* The counters cover the stalled threads and no wakeup is lost, in every
\* reachable state.
LEMMA Invariance == QueueSpec => []Inv
  <1>1. QueueInit /\ QueueTypeOK => Inv
    <2> SUFFICES ASSUME QueueInit, QueueTypeOK PROVE Inv
      OBVIOUS
    <2>1. phase \in PhaseFns
      BY DEF QueueTypeOK, PhaseFns
    <2>2. At(phase, "popStalled") = {} /\ At(phase, "pushStalled") = {}
      BY DEF QueueInit, At
    <2>3. Size(phase, "popStalled") = 0 /\ Size(phase, "pushStalled") = 0
      BY <2>1, <2>2, SizeNat
    <2> QED
      BY <2>3, InvIs DEF Covered, Awake, QueueInit
  <1>2. QueueTypeOK /\ QueueTypeOK' /\ Inv /\ [QueueNext]_queueVars => Inv'
    <2> SUFFICES ASSUME QueueTypeOK, QueueTypeOK', Inv, [QueueNext]_queueVars PROVE Inv'
      OBVIOUS
    <2>1. CASE UNCHANGED queueVars
      BY <2>1 DEF queueVars, Inv, CountsCoverStalled, NoLostWakeup, In, Count
    <2>2. ASSUME NEW t \in Threads, NEW v \in Items, mpQueuePush(t, v) PROVE Inv'
      BY <2>2, EnqueueInv, StallPushInv DEF mpQueuePush
    <2>3. ASSUME NEW t \in Threads, mpQueuePop(t) PROVE Inv'
      BY <2>3, DequeueInv, StallPopInv DEF mpQueuePop
    <2>4. ASSUME NEW t \in Threads, mpQueueClear(t) PROVE Inv'
      BY <2>4, ClearInv
    <2>5. ASSUME NEW t \in Threads, ResumePush(t) PROVE Inv'
      BY <2>5, EnqueueInv, StallPushInv DEF ResumePush
    <2>6. ASSUME NEW t \in Threads, ResumePop(t) PROVE Inv'
      BY <2>6, DequeueInv, StallPopInv DEF ResumePop
    <2>7. ASSUME NEW t \in Threads, SpuriousWake(t) PROVE Inv'
      BY <2>7, SpuriousInv
    <2> QED
      BY <2>1, <2>2, <2>3, <2>4, <2>5, <2>6, <2>7 DEF QueueNext
  <1> QED
    BY <1>1, <1>2, Typing, PTL DEF QueueSpec

\* m_readers and m_writers never fall below the number of threads inside
\* cond_wait: QueueSpec => []CountsCoverStalled.
THEOREM CountersCover == QueueSpec => []CountsCoverStalled
  <1>1. Inv => CountsCoverStalled
    BY DEF Inv
  <1> QED
    BY <1>1, Invariance, PTL

\* While a reader sleeps, every message has a reader on its way, and while a
\* writer sleeps, every free slot has a writer on its way:
\* QueueSpec => []NoLostWakeup.
THEOREM WakeupsKept == QueueSpec => []NoLostWakeup
  <1>1. Inv => NoLostWakeup
    BY DEF Inv
  <1> QED
    BY <1>1, Invariance, PTL

\* A queue of at least one slot never keeps a reader and a writer asleep:
\* QueueSpec => []NoMutualStall.
THEOREM NoDeadlock == QueueSpec => []NoMutualStall
  <1>1. QueueTypeOK /\ NoLostWakeup => NoMutualStall
    <2> SUFFICES ASSUME QueueTypeOK, NoLostWakeup,
                        In("popStalled") # {}, In("pushStalled") # {},
                        In("popWoken") = {}, In("pushWoken") = {}
                 PROVE  FALSE
      BY DEF NoMutualStall
    <2>1. Cardinality(In("popWoken")) = 0 /\ Cardinality(In("pushWoken")) = 0
      BY FS_EmptySet
    <2>2. Count <= 0 /\ MaxSize - Count <= 0
      BY <2>1 DEF NoLostWakeup
    <2>3. Count \in 0 .. MaxSize
      BY RingCount DEF QueueTypeOK, Count
    <2> QED
      BY <2>2, <2>3, QueueAssumption DEF QueueAssumption
  <1> QED
    BY <1>1, Typing, WakeupsKept, PTL
-----------------------------------------------------------------------------
(***************************************************************************)
(* The ring of slots of MpQueue, with its stalls and signals, implements   *)
(* BoundedFifo, for every size.  A push or a pop that finds room or a      *)
(* message is the abstract operation; a stall and a wakeup are stuttering  *)
(* steps.  The proof needs the types and that a thread inside mpQueuePush  *)
(* still has the message it was called with.                               *)
(***************************************************************************)

Values == Items \cup {NoItem}

\* The slots from r to w of q, in the order they were filled.
Held(w, r) == (w + m_queueSize - r) % m_queueSize
Slot(r, i) == (r + i - 1) % m_queueSize
Window(q, w, r) == [i \in 1 .. Held(w, r) |-> q[Slot(r, i)]]

\* The slot of the i-th message, without the remainder.
LEMMA SlotIs ==
    ASSUME NEW r \in Slots, NEW i \in 1 .. MaxSize + 1
    PROVE  /\ Slot(r, i) = IF r + i - 1 <= MaxSize THEN r + i - 1 ELSE r + i - 2 - MaxSize
           /\ Slot(r, i) \in Slots
  BY QueueAssumption DEF QueueAssumption, Slots, m_queueSize, Slot

\* A window is a sequence of as many values as it has slots.
LEMMA WindowSeq ==
    ASSUME NEW q \in [Slots -> Values], NEW w \in Slots, NEW r \in Slots
    PROVE  /\ Held(w, r) \in 0 .. MaxSize
           /\ Window(q, w, r) \in Seq(Values)
           /\ Len(Window(q, w, r)) = Held(w, r)
           /\ \A i \in 1 .. Held(w, r) : Window(q, w, r)[i] = q[Slot(r, i)]
  <1>1. Held(w, r) \in 0 .. MaxSize
    BY RingCount DEF Held
  <1>2. Held(w, r) \in Nat /\ MaxSize \in Nat
    BY <1>1, QueueAssumption DEF QueueAssumption
  <1>3. \A i \in 1 .. Held(w, r) : q[Slot(r, i)] \in Values
    <2> SUFFICES ASSUME NEW i \in 1 .. Held(w, r) PROVE q[Slot(r, i)] \in Values
      OBVIOUS
    <2>1. i \in 1 .. MaxSize + 1
      BY <1>1, <1>2
    <2> QED
      BY <2>1, SlotIs
  <1>4. Window(q, w, r) \in [1 .. Held(w, r) -> Values]
    BY <1>3 DEF Window
  <1>5. Window(q, w, r) \in Seq(Values)
    BY <1>2, <1>4, SeqDef
  <1> QED
    BY <1>1, <1>2, <1>4, <1>5, LenProperties DEF Window

\* Storing a value in the slot at w and advancing w appends it.
LEMMA PushWindow ==
    ASSUME NEW q \in [Slots -> Values], NEW w \in Slots, NEW r \in Slots,
           NEW v \in Values, (w + 1) % m_queueSize # r
    PROVE  /\ Held(w, r) < MaxSize
           /\ Window([q EXCEPT ![w] = v], (w + 1) % m_queueSize, r)
                = Append(Window(q, w, r), v)
  <1> DEFINE q2 == [q EXCEPT ![w] = v]
             w2 == (w + 1) % m_queueSize
             n  == Held(w, r)
             old == Window(q, w, r)
             new == Window(q2, w2, r)
  <1>1. q2 \in [Slots -> Values]
    OBVIOUS
  <1>2. w2 \in Slots
    BY Around
  <1>3. Held(w2, r) = n + 1
    BY RingStep DEF Held
  <1>4. MaxSize \in Nat /\ n \in 0 .. MaxSize /\ Held(w2, r) \in 0 .. MaxSize
    BY <1>1, <1>2, WindowSeq, QueueAssumption DEF QueueAssumption
  <1>5. /\ old \in Seq(Values)
        /\ Len(old) = n
        /\ \A i \in 1 .. n : old[i] = q[Slot(r, i)]
    BY WindowSeq
  <1>6. /\ new \in Seq(Values)
        /\ Len(new) = n + 1
        /\ \A i \in 1 .. n + 1 : new[i] = q2[Slot(r, i)]
    <2>1. /\ new \in Seq(Values)
          /\ Len(new) = Held(w2, r)
          /\ \A i \in 1 .. Held(w2, r) : new[i] = q2[Slot(r, i)]
      <3> HIDE DEF q2, w2
      <3> QED
        BY <1>1, <1>2, WindowSeq
    <2> HIDE DEF new, q2, w2, n
    <2> QED
      BY <1>3, <2>1
  <1>7. n = IF r <= w THEN w - r ELSE w + MaxSize + 1 - r
    BY RingCount DEF Held
  <1>8. Slot(r, n + 1) = w
    <2>1. n + 1 \in 1 .. MaxSize + 1
      BY <1>4
    <2>2. Slot(r, n + 1) = IF r + n <= MaxSize THEN r + n ELSE r + n - 1 - MaxSize
      <3>1. Slot(r, n + 1) = IF r + (n + 1) - 1 <= MaxSize THEN r + (n + 1) - 1
                             ELSE r + (n + 1) - 2 - MaxSize
        BY <2>1, SlotIs
      <3> HIDE DEF n
      <3> QED
        BY <1>4, <3>1 DEF Slots
    <2> HIDE DEF n
    <2> QED
      BY <1>4, <1>7, <2>2 DEF Slots
  <1>9. \A i \in 1 .. n : Slot(r, i) \in Slots \ {w}
    <2> SUFFICES ASSUME NEW i \in 1 .. n PROVE Slot(r, i) \in Slots /\ Slot(r, i) # w
      OBVIOUS
    <2>1. i \in 1 .. MaxSize + 1
      BY <1>4
    <2>2. /\ Slot(r, i) = IF r + i - 1 <= MaxSize THEN r + i - 1 ELSE r + i - 2 - MaxSize
          /\ Slot(r, i) \in Slots
      BY <2>1, SlotIs
    <2> HIDE DEF n
    <2> QED
      BY <1>4, <1>7, <2>2 DEF Slots
  <1>10. /\ Append(old, v) \in Seq(Values)
         /\ Len(Append(old, v)) = n + 1
         /\ \A i \in 1 .. n : Append(old, v)[i] = old[i]
         /\ Append(old, v)[n + 1] = v
    BY <1>5, AppendProperties
  <1> HIDE DEF n, old, new, w2
  <1>11. \A i \in 1 .. n + 1 : new[i] = Append(old, v)[i]
    BY <1>4, <1>5, <1>6, <1>8, <1>9, <1>10
  <1>12. new = Append(old, v)
    BY <1>6, <1>10, <1>11, SeqEqual
  <1>13. n < MaxSize
    BY <1>3, <1>4
  <1> QED
    BY <1>12, <1>13 DEF n, old, new, w2

\* Reading the slot at r and advancing r removes the oldest message.
LEMMA PopWindow ==
    ASSUME NEW q \in [Slots -> Values], NEW w \in Slots, NEW r \in Slots, r # w
    PROVE  /\ Window(q, w, r) # <<>>
           /\ Head(Window(q, w, r)) = q[r]
           /\ Window(q, w, (r + 1) % m_queueSize) = Tail(Window(q, w, r))
  <1> DEFINE r2 == (r + 1) % m_queueSize
             n  == Held(w, r)
             old == Window(q, w, r)
             new == Window(q, w, r2)
  <1>1. r2 \in Slots /\ r2 = IF r = MaxSize THEN 0 ELSE r + 1
    BY Around
  <1>2. Held(w, r2) = n - 1
    BY RingStep DEF Held
  <1>3. MaxSize \in Nat /\ n \in 0 .. MaxSize /\ Held(w, r2) \in 0 .. MaxSize
    BY <1>1, WindowSeq, QueueAssumption DEF QueueAssumption
  <1>4. n \in 1 .. MaxSize
    BY <1>2, <1>3
  <1>5. /\ old \in Seq(Values)
        /\ Len(old) = n
        /\ \A i \in 1 .. n : old[i] = q[Slot(r, i)]
    BY WindowSeq
  <1>6. /\ new \in Seq(Values)
        /\ Len(new) = n - 1
        /\ \A i \in 1 .. n - 1 : new[i] = q[Slot(r2, i)]
    BY <1>1, <1>2, WindowSeq
  <1>7. \A i \in 1 .. n - 1 : Slot(r2, i) = Slot(r, i + 1)
    <2> SUFFICES ASSUME NEW i \in 1 .. n - 1 PROVE Slot(r2, i) = Slot(r, i + 1)
      OBVIOUS
    <2>1. i \in 1 .. MaxSize + 1 /\ i + 1 \in 1 .. MaxSize + 1
      BY <1>3
    <2>2. /\ Slot(r2, i) = IF r2 + i - 1 <= MaxSize THEN r2 + i - 1 ELSE r2 + i - 2 - MaxSize
          /\ Slot(r, i + 1) = IF r + (i + 1) - 1 <= MaxSize THEN r + (i + 1) - 1
                              ELSE r + (i + 1) - 2 - MaxSize
      BY <1>1, <2>1, SlotIs
    <2> HIDE DEF n, r2
    <2> QED
      BY <1>1, <1>3, <2>1, <2>2 DEF Slots
  <1>8. Slot(r, 1) = r
    <2>1. 1 \in 1 .. MaxSize + 1
      BY <1>3
    <2> QED
      BY <1>3, <2>1, SlotIs DEF Slots
  <1> HIDE DEF n, old, new, r2
  <1>9. old # <<>>
    BY <1>4, <1>5, EmptySeq
  <1>10. Head(old) = q[r]
    BY <1>4, <1>5, <1>8, <1>9
  <1>11. /\ Tail(old) \in Seq(Values)
         /\ Len(Tail(old)) = n - 1
         /\ \A i \in 1 .. n - 1 : Tail(old)[i] = old[i + 1]
    BY <1>5, <1>9, HeadTailProperties
  <1>12. ASSUME NEW i \in 1 .. n - 1 PROVE new[i] = Tail(old)[i]
    <2>1. i + 1 \in 1 .. n
      BY <1>3
    <2>2. old[i + 1] = q[Slot(r, i + 1)]
      BY <1>5, <2>1
    <2> QED
      BY <1>6, <1>7, <1>11, <2>2
  <1>13. new = Tail(old)
    BY <1>6, <1>11, <1>12, SeqEqual
  <1> QED
    BY <1>9, <1>10, <1>13 DEF old, new, r2

\* Equal indices hold nothing.
LEMMA NoWindow ==
    ASSUME NEW q \in [Slots -> Values], NEW w \in Slots
    PROVE  Window(q, w, w) = <<>>
  <1>1. Held(w, w) = 0
    BY RingCount DEF Held, Slots
  <1>2. Window(q, w, w) \in Seq(Values) /\ Len(Window(q, w, w)) = 0
    BY <1>1, WindowSeq
  <1> QED
    BY <1>2, EmptySeq
-----------------------------------------------------------------------------
\* The buffer the slots stand for, in this state and in the next.
LEMMA ContentIs ==
    /\ Content = Window(r_queueData, m_writerPos, m_readerPos)
    /\ Content' = Window(r_queueData', m_writerPos', m_readerPos')
  BY DEF Content, Count, Window, Held, Slot, m_queueSize

\* A thread inside mpQueuePush has a message to push.
ArgKept ==
    \A t \in Threads : phase[t] \in {"pushStalled", "pushWoken"} => arg[t] \in Items

\* Finishing an operation keeps the messages of the other threads.
LEMMA FinishKeepsArg ==
    ASSUME QueueTypeOK, ArgKept, NEW t \in Threads,
           Dequeue(t) \/ \E v : Enqueue(t, v)
    PROVE  ArgKept'
  <1> DEFINE p == [phase EXCEPT ![t] = "idle"]
  <1>1. p \in PhaseFns
    BY DEF QueueTypeOK, PhaseFns, Phases
  <1>2. \A u \in Threads : p[u] \in {"pushStalled", "pushWoken"} => u # t /\ arg[u] \in Items
    BY DEF ArgKept, QueueTypeOK
  <1>3. \A u \in Threads : u # t => arg'[u] = arg[u]
    BY DEF Dequeue, Enqueue, QueueTypeOK
  <1>4. \A u \in Threads : phase'[u] \in {"pushStalled", "pushWoken"}
                           => p[u] \in {"pushStalled", "pushWoken"}
    <2>1. CASE phase' = p
      BY <2>1
    <2>2. CASE Signal(p, "popStalled", "popWoken")
      BY <1>1, <2>2 DEF Signal, PhaseFns
    <2>3. CASE Signal(p, "pushStalled", "pushWoken")
      BY <1>1, <2>3 DEF Signal, PhaseFns
    <2> QED
      BY <2>1, <2>2, <2>3 DEF Dequeue, Enqueue
  <1> QED
    BY <1>2, <1>3, <1>4 DEF ArgKept

\* A thread inside mpQueuePush keeps its message until it is pushed.
LEMMA ArgInvariance == QueueSpec => []ArgKept
  <1>1. QueueInit => ArgKept
    BY DEF QueueInit, ArgKept
  <1>2. QueueTypeOK /\ ArgKept /\ [QueueNext]_queueVars => ArgKept'
    <2> SUFFICES ASSUME QueueTypeOK, ArgKept, [QueueNext]_queueVars PROVE ArgKept'
      OBVIOUS
    <2>1. CASE UNCHANGED queueVars
      BY <2>1 DEF queueVars, ArgKept
    <2>2. ASSUME NEW t \in Threads, NEW v \in Items, StallPush(t, v) PROVE ArgKept'
      BY <2>2 DEF StallPush, ArgKept, QueueTypeOK
    <2>3. ASSUME NEW t \in Threads, StallPop(t) PROVE ArgKept'
      BY <2>3 DEF StallPop, ArgKept, QueueTypeOK
    <2>4. ASSUME NEW t \in Threads, mpQueueClear(t) PROVE ArgKept'
      <3>1. PICK W \in ClearWakes :
               phase' = [u \in Threads |-> IF u \in W THEN "pushWoken" ELSE phase[u]]
        BY <2>4 DEF mpQueueClear
      <3>2. \A u \in W : u \in Threads /\ phase[u] = "pushStalled"
        BY <3>1 DEF ClearWakes, WokenBy, In
      <3> QED
        BY <2>4, <3>1, <3>2 DEF mpQueueClear, ArgKept
    <2>5. ASSUME NEW t \in Threads, SpuriousWake(t) PROVE ArgKept'
      BY <2>5 DEF SpuriousWake, ArgKept, QueueTypeOK
    <2>6. ASSUME NEW t \in Threads, ResumePush(t) PROVE ArgKept'
      <3>1. arg[t] \in Items
        BY <2>6 DEF ResumePush, ArgKept
      <3> QED
        BY <2>2, <2>6, <3>1, FinishKeepsArg DEF ResumePush
    <2>7. ASSUME NEW t \in Threads, mpQueuePop(t) \/ ResumePop(t) PROVE ArgKept'
      BY <2>3, <2>7, FinishKeepsArg DEF mpQueuePop, ResumePop
    <2>8. ASSUME NEW t \in Threads, NEW v \in Items, mpQueuePush(t, v) PROVE ArgKept'
      BY <2>2, <2>8, FinishKeepsArg DEF mpQueuePush
    <2> QED
      BY <2>1, <2>4, <2>5, <2>6, <2>7, <2>8 DEF QueueNext
  <1> QED
    BY <1>1, <1>2, Typing, PTL DEF QueueSpec

\* A push that finds a free slot is a push on the buffer.
LEMMA EnqueueIsPush ==
    ASSUME QueueTypeOK, NEW t \in Threads, NEW v \in Items, ~Full, Enqueue(t, v)
    PROVE  Fifo!Push(v)
  <1> DEFINE q == r_queueData
             w == m_writerPos
             r == m_readerPos
  <1>1. q \in [Slots -> Values] /\ w \in Slots /\ r \in Slots /\ v \in Values
    BY DEF QueueTypeOK, Values
  <1>2. (w + 1) % m_queueSize # r
    BY DEF Full
  <1>3. r_queueData' = [q EXCEPT ![w] = v] /\ m_writerPos' = (w + 1) % m_queueSize
        /\ m_readerPos' = r
    BY DEF Enqueue
  <1>4. Held(w, r) < MaxSize /\ Content' = Append(Content, v)
    <2> HIDE DEF q, w, r
    <2>1. /\ Held(w, r) < MaxSize
          /\ Window([q EXCEPT ![w] = v], (w + 1) % m_queueSize, r) = Append(Window(q, w, r), v)
      BY <1>1, <1>2, PushWindow
    <2> QED
      BY <1>3, <2>1, ContentIs DEF q, w, r
  <1>5. Len(Content) = Held(w, r)
    BY <1>1, WindowSeq, ContentIs
  <1> QED
    BY <1>4, <1>5 DEF Fifo!Push, Enqueue

\* A pop that finds a message is a pop of the buffer.
LEMMA DequeueIsPop ==
    ASSUME QueueTypeOK, NEW t \in Threads, ~Empty, Dequeue(t)
    PROVE  Fifo!Pop
  <1> DEFINE q == r_queueData
             w == m_writerPos
             r == m_readerPos
  <1>1. q \in [Slots -> Values] /\ w \in Slots /\ r \in Slots /\ r # w
    BY DEF QueueTypeOK, Values, Empty
  <1>2. r_queueData' = q /\ m_writerPos' = w /\ m_readerPos' = (r + 1) % m_queueSize
        /\ popped' = q[r] /\ cleared' = FALSE
    BY DEF Dequeue
  <1>3. Content # <<>> /\ Head(Content) = q[r] /\ Content' = Tail(Content)
    <2> HIDE DEF q, w, r
    <2>1. /\ Window(q, w, r) # <<>>
          /\ Head(Window(q, w, r)) = q[r]
          /\ Window(q, w, (r + 1) % m_queueSize) = Tail(Window(q, w, r))
      BY <1>1, PopWindow
    <2> QED
      BY <1>2, <2>1, ContentIs DEF q, w, r
  <1> QED
    BY <1>2, <1>3 DEF Fifo!Pop

\* The ring of slots, with its stalls and signals, is a bounded FIFO buffer:
\* no message is lost, duplicated, reordered or returned after a clear
\* (QueueSpec => ImplementsFifo).
THEOREM RingIsFifo == QueueSpec => ImplementsFifo
  <1>1. QueueInit => Fifo!Init
    <2> SUFFICES ASSUME QueueInit PROVE Content = <<>> /\ popped = NoItem /\ cleared = FALSE
      BY DEF Fifo!Init
    <2>1. /\ r_queueData \in [Slots -> Values]
          /\ m_writerPos = 0 /\ m_readerPos = 0 /\ 0 \in Slots
      BY QueueAssumption DEF QueueInit, Slots, Values, QueueAssumption
    <2>2. Window(r_queueData, 0, 0) = <<>>
      BY <2>1, NoWindow
    <2> QED
      BY <2>1, <2>2, ContentIs DEF QueueInit
  <1>2. QueueTypeOK /\ ArgKept /\ [QueueNext]_queueVars => [Fifo!Next]_<<Content, popped, cleared>>
    <2> SUFFICES ASSUME QueueTypeOK, ArgKept, [QueueNext]_queueVars
                 PROVE  Fifo!Next \/ UNCHANGED <<Content, popped, cleared>>
      OBVIOUS
    <2>1. ASSUME UNCHANGED <<ring, popped, cleared>>
          PROVE  UNCHANGED <<Content, popped, cleared>>
      BY <2>1, ContentIs DEF ring
    <2>2. CASE UNCHANGED queueVars
      BY <2>1, <2>2 DEF queueVars, ring
    <2>3. ASSUME NEW t \in Threads, NEW v \in Items, mpQueuePush(t, v)
          PROVE  Fifo!Next \/ UNCHANGED <<Content, popped, cleared>>
      <3>1. CASE Full /\ StallPush(t, v)
        BY <2>1, <3>1 DEF StallPush
      <3>2. CASE ~Full /\ Enqueue(t, v)
        BY <3>2, EnqueueIsPush DEF Fifo!Next
      <3> QED
        BY <2>3, <3>1, <3>2 DEF mpQueuePush
    <2>4. ASSUME NEW t \in Threads, mpQueuePop(t) \/ ResumePop(t)
          PROVE  Fifo!Next \/ UNCHANGED <<Content, popped, cleared>>
      <3>1. CASE Empty /\ StallPop(t)
        BY <2>1, <3>1 DEF StallPop
      <3>2. CASE ~Empty /\ Dequeue(t)
        BY <3>2, DequeueIsPop DEF Fifo!Next
      <3> QED
        BY <2>4, <3>1, <3>2 DEF mpQueuePop, ResumePop
    <2>5. ASSUME NEW t \in Threads, ResumePush(t)
          PROVE  Fifo!Next \/ UNCHANGED <<Content, popped, cleared>>
      <3>1. arg[t] \in Items
        BY <2>5 DEF ResumePush, ArgKept
      <3>2. CASE Full /\ StallPush(t, arg[t])
        BY <2>1, <3>2 DEF StallPush
      <3>3. CASE ~Full /\ Enqueue(t, arg[t])
        BY <3>1, <3>3, EnqueueIsPush DEF Fifo!Next
      <3> QED
        BY <2>5, <3>2, <3>3 DEF ResumePush
    <2>6. ASSUME NEW t \in Threads, mpQueueClear(t) PROVE Fifo!Next
      <3>1. /\ r_queueData' \in [Slots -> Values]
            /\ m_writerPos' = 0 /\ m_readerPos' = 0 /\ 0 \in Slots
            /\ cleared' = TRUE /\ UNCHANGED popped
        BY <2>6, QueueAssumption
          DEF mpQueueClear, QueueTypeOK, Slots, Values, QueueAssumption
      <3>2. Window(r_queueData', 0, 0) = <<>>
        BY <3>1, NoWindow
      <3> QED
        BY <3>1, <3>2, ContentIs DEF Fifo!Next, Fifo!Clear
    <2>7. ASSUME NEW t \in Threads, SpuriousWake(t) PROVE UNCHANGED <<Content, popped, cleared>>
      BY <2>1, <2>7 DEF SpuriousWake
    <2> QED
      BY <2>2, <2>3, <2>4, <2>5, <2>6, <2>7 DEF QueueNext
  <1> QED
    BY <1>1, <1>2, Typing, ArgInvariance, PTL DEF QueueSpec, ImplementsFifo, Fifo!Spec, Fifo!fifoVars
(***************************************************************************)
(* The rings of the network streams.                                       *)
(***************************************************************************)

Msg == [id : Nat, size : Sizes]
Span(x) == x.size + Header

\* The bytes from p to e are those of the message number i.
Message(buf, p, e, i) ==
    /\ buf[p] \in Msg
    /\ buf[p].id = i
    /\ e = p + Span(buf[p])
    /\ \A q \in p .. e - 1 : buf[q] = buf[p]

\* The bytes from a to b are the messages first, ..., next - 1, in that order:
\* number i begins at at[i].
Chain(buf, a, b, first, next) ==
    /\ first <= next
    /\ \E at \in [first .. next -> Nat] :
          /\ at[first] = a /\ at[next] = b
          /\ \A i, j \in first .. next : i <= j => at[i] <= at[j]
          /\ \A i \in first .. next - 1 : Message(buf, at[i], at[i + 1], i)

\* A ring of the given size holds the messages first, ..., next - 1: those of
\* [s, e), then, once the writer has wrapped, those of [0, w).
Ring(buf, size, s, e, w, first, next) ==
    /\ DOMAIN buf = 0 .. size - 1
    /\ s \in Nat /\ e \in 0 .. size /\ w \in Nat
    /\ \E k \in Nat :
          /\ Chain(buf, s, e, first, k)
          /\ \/ w = e /\ k = next
             \/ w < e /\ w <= s /\ Chain(buf, 0, w, k, next)

\* There is room for x where the writer stands, and none of it is in use.
Room(size, s, e, w, x) == IF w = e THEN w + Span(x) <= size ELSE w + Span(x) < s

\* x has been written there.
Written(buf, w, x) == \A q \in w .. w + Span(x) - 1 : buf[q] = x

Fill(buf, w, x) ==
    [q \in DOMAIN buf |-> IF q \in w .. w + Span(x) - 1 THEN x ELSE buf[q]]
-----------------------------------------------------------------------------
\* A message has bytes, whatever its size.
LEMMA SpanPositive == ASSUME NEW x \in Msg PROVE Span(x) \in Nat /\ 0 < Span(x)
  <1>1. Header \in Nat \ {0} /\ x.size \in Nat BY StreamsAssumption DEF Msg
  <1>. QED BY <1>1 DEF Span

\* Between two equal positions there is no message.
LEMMA ChainEmpty ==
    ASSUME NEW buf, NEW a \in Nat, NEW k \in Nat
    PROVE  Chain(buf, a, a, k, k)
  <1> DEFINE at == [i \in k .. k |-> a]
  <1>1. at \in [k .. k -> Nat] OBVIOUS
  <1>2. at[k] = a OBVIOUS
  <1>3. \A i, j \in k .. k : i <= j => at[i] <= at[j] OBVIOUS
  <1>4. \A i \in k .. k - 1 : Message(buf, at[i], at[i + 1], i) OBVIOUS
  <1>. QED BY <1>1, <1>2, <1>3, <1>4 DEF Chain

\* A chain goes forward, and is empty when its ends meet; the first message of
\* one that is not empty is whole.
LEMMA ChainHead ==
    ASSUME NEW buf, NEW a, NEW b, NEW first \in Nat, NEW next \in Nat,
           Chain(buf, a, b, first, next)
    PROVE  /\ a \in Nat /\ b \in Nat /\ a <= b
           /\ a < b \/ first = next
           /\ (a < b) => /\ first < next
                         /\ Message(buf, a, a + Span(buf[a]), first)
                         /\ Span(buf[a]) \in Nat /\ 0 < Span(buf[a])
                         /\ a + Span(buf[a]) <= b
  <1>1. PICK at \in [first .. next -> Nat] :
          /\ at[first] = a /\ at[next] = b
          /\ \A i, j \in first .. next : i <= j => at[i] <= at[j]
          /\ \A i \in first .. next - 1 : Message(buf, at[i], at[i + 1], i)
    BY DEF Chain
  <1>2. first <= next BY DEF Chain
  <1>3. a \in Nat /\ b \in Nat /\ a <= b BY <1>1, <1>2
  <1>4. CASE first = next
    <2>1. ~(a < b) BY <1>1, <1>3, <1>4
    <2>. QED BY <1>3, <1>4, <2>1
  <1>5. CASE first < next
    <2>1. Message(buf, a, at[first + 1], first) BY <1>1, <1>5
    <2>2. at[first + 1] = a + Span(buf[a]) /\ Span(buf[a]) \in Nat /\ 0 < Span(buf[a])
      BY <2>1, SpanPositive DEF Message
    <2>3. at[first + 1] <= b BY <1>1, <1>5
    <2>. QED BY <1>3, <1>5, <2>1, <2>2, <2>3
  <1>. QED BY <1>2, <1>4, <1>5

\* The other messages follow the first one.
LEMMA ChainTail ==
    ASSUME NEW buf, NEW a, NEW b, NEW first \in Nat, NEW next \in Nat,
           Chain(buf, a, b, first, next), a < b
    PROVE  Chain(buf, a + Span(buf[a]), b, first + 1, next)
  <1>1. PICK at \in [first .. next -> Nat] :
          /\ at[first] = a /\ at[next] = b
          /\ \A i, j \in first .. next : i <= j => at[i] <= at[j]
          /\ \A i \in first .. next - 1 : Message(buf, at[i], at[i + 1], i)
    BY DEF Chain
  <1>2. first < next BY ChainHead
  <1>3. Message(buf, a, at[first + 1], first) BY <1>1, <1>2
  <1>4. at[first + 1] = a + Span(buf[a]) BY <1>3 DEF Message
  <1> DEFINE rest == [i \in first + 1 .. next |-> at[i]]
  <1>5. rest \in [first + 1 .. next -> Nat] BY <1>1
  <1>6. rest[first + 1] = a + Span(buf[a]) /\ rest[next] = b BY <1>1, <1>2, <1>4
  <1>7. \A i, j \in first + 1 .. next : i <= j => rest[i] <= rest[j] BY <1>1
  <1>8. \A i \in first + 1 .. next - 1 : Message(buf, rest[i], rest[i + 1], i)
    <2>1. TAKE i \in first + 1 .. next - 1
    <2>2. i \in first .. next - 1 /\ rest[i] = at[i] /\ rest[i + 1] = at[i + 1]
      BY <2>1
    <2>. QED BY <1>1, <2>2
  <1>9. first + 1 <= next BY <1>2
  <1> HIDE DEF rest
  <1>. QED BY <1>5, <1>6, <1>7, <1>8, <1>9 DEF Chain

\* A message written behind a chain is its last.
LEMMA ChainAppend ==
    ASSUME NEW buf, NEW a, NEW b, NEW e, NEW first \in Nat, NEW next \in Nat,
           Chain(buf, a, b, first, next), Message(buf, b, e, next)
    PROVE  Chain(buf, a, e, first, next + 1)
  <1>1. PICK at \in [first .. next -> Nat] :
          /\ at[first] = a /\ at[next] = b
          /\ \A i, j \in first .. next : i <= j => at[i] <= at[j]
          /\ \A i \in first .. next - 1 : Message(buf, at[i], at[i + 1], i)
    BY DEF Chain
  <1>2. first <= next BY DEF Chain
  <1>3. e \in Nat /\ b <= e
    <2>1. e = b + Span(buf[b]) /\ Span(buf[b]) \in Nat BY SpanPositive DEF Message
    <2>. QED BY <1>1, <1>2, <2>1
  <1> DEFINE more == [i \in first .. next + 1 |-> IF i = next + 1 THEN e ELSE at[i]]
  <1>4. more \in [first .. next + 1 -> Nat] BY <1>1, <1>3
  <1>5. more[first] = a /\ more[next + 1] = e BY <1>1, <1>2
  <1>6. \A i, j \in first .. next + 1 : i <= j => more[i] <= more[j]
    <2>1. \A i \in first .. next : at[i] <= b /\ at[i] \in Nat BY <1>1, <1>2
    <2>. QED BY <1>1, <1>2, <1>3, <2>1
  <1>7. \A i \in first .. next : Message(buf, more[i], more[i + 1], i)
    <2>1. TAKE i \in first .. next
    <2>2. CASE i = next BY <1>1, <1>2, <2>2
    <2>3. CASE i # next
      <3>1. i \in first .. next - 1 /\ more[i] = at[i] /\ more[i + 1] = at[i + 1]
        BY <2>1, <2>3
      <3>. QED BY <1>1, <3>1
    <2>. QED BY <2>2, <2>3
  <1>8. first <= next + 1 /\ next + 1 - 1 = next BY <1>2
  <1> HIDE DEF more
  <1>9. \A i \in first .. (next + 1) - 1 : Message(buf, more[i], more[i + 1], i)
    BY <1>7, <1>8
  <1>. QED BY <1>4, <1>5, <1>6, <1>8, <1>9, Zenon DEF Chain

\* What happens outside a chain's bytes does not touch it.
LEMMA ChainFrame ==
    ASSUME NEW buf, NEW after, NEW a, NEW b, NEW first \in Nat, NEW next \in Nat,
           Chain(buf, a, b, first, next),
           \A q \in a .. b - 1 : after[q] = buf[q]
    PROVE  Chain(after, a, b, first, next)
  <1>1. PICK at \in [first .. next -> Nat] :
          /\ at[first] = a /\ at[next] = b
          /\ \A i, j \in first .. next : i <= j => at[i] <= at[j]
          /\ \A i \in first .. next - 1 : Message(buf, at[i], at[i + 1], i)
    BY DEF Chain
  <1>2. first <= next BY DEF Chain
  <1>3. ASSUME NEW i \in first .. next - 1
        PROVE  Message(after, at[i], at[i + 1], i)
    <2>1. a <= at[i] /\ at[i + 1] <= b /\ at[i] \in Nat /\ at[i + 1] \in Nat
      BY <1>1, <1>2, <1>3
    <2>2. Message(buf, at[i], at[i + 1], i) BY <1>1, <1>3
    <2>3. /\ at[i + 1] = at[i] + Span(buf[at[i]])
          /\ Span(buf[at[i]]) \in Nat /\ 0 < Span(buf[at[i]])
      BY <2>2, SpanPositive DEF Message
    <2>4. \A q \in at[i] .. at[i + 1] - 1 : after[q] = buf[q]
      <3>1. a \in Nat /\ b \in Nat BY <1>1, <1>2
      <3>. QED BY <2>1, <3>1
    <2>5. after[at[i]] = buf[at[i]] BY <2>1, <2>3, <2>4
    <2>. QED BY <2>2, <2>4, <2>5 DEF Message
  <1>. QED BY <1>1, <1>2, <1>3 DEF Chain
-----------------------------------------------------------------------------
\* The first unread message of a ring is whole and inside it.
LEMMA RingHead ==
    ASSUME NEW buf, NEW size \in Nat, NEW s, NEW e, NEW w,
           NEW first \in Nat, NEW next \in Nat,
           Ring(buf, size, s, e, w, first, next)
    PROVE  /\ s <= e /\ w <= e
           /\ s < e => /\ Message(buf, s, s + Span(buf[s]), first)
                       /\ Span(buf[s]) \in Nat /\ 0 < Span(buf[s])
                       /\ s + Span(buf[s]) <= e
           /\ s < e \/ w < e \/ first = next
  <1>1. PICK k \in Nat :
          /\ Chain(buf, s, e, first, k)
          /\ \/ w = e /\ k = next
             \/ w < e /\ w <= s /\ Chain(buf, 0, w, k, next)
    BY DEF Ring
  <1>2. w \in Nat /\ e \in Nat /\ s \in Nat BY DEF Ring
  <1>3. /\ s <= e
        /\ s < e \/ first = k
        /\ s < e => /\ Message(buf, s, s + Span(buf[s]), first)
                    /\ Span(buf[s]) \in Nat /\ 0 < Span(buf[s])
                    /\ s + Span(buf[s]) <= e
    BY <1>1, ChainHead
  <1>. QED BY <1>1, <1>2, <1>3

\* Its bytes are given back.
LEMMA RingTake ==
    ASSUME NEW buf, NEW size \in Nat, NEW s, NEW e, NEW w,
           NEW first \in Nat, NEW next \in Nat,
           Ring(buf, size, s, e, w, first, next), s < e
    PROVE  Ring(buf, size, s + Span(buf[s]), e, w, first + 1, next)
  <1>1. PICK k \in Nat :
          /\ Chain(buf, s, e, first, k)
          /\ \/ w = e /\ k = next
             \/ w < e /\ w <= s /\ Chain(buf, 0, w, k, next)
    BY DEF Ring
  <1>2. /\ w \in Nat /\ s \in Nat /\ e \in 0 .. size
        /\ DOMAIN buf = 0 .. size - 1
    BY DEF Ring
  <1>3. Span(buf[s]) \in Nat /\ Chain(buf, s + Span(buf[s]), e, first + 1, k)
    BY <1>1, ChainHead, ChainTail
  <1>4. s + Span(buf[s]) \in Nat /\ s <= s + Span(buf[s]) BY <1>2, <1>3
  <1>5. w <= s => w <= s + Span(buf[s]) BY <1>2, <1>4
  <1>. QED BY <1>1, <1>2, <1>3, <1>4, <1>5 DEF Ring

\* When nothing is left in front of e, the range follows the writer to 0.
LEMMA RingFold ==
    ASSUME NEW buf, NEW size \in Nat, NEW e, NEW w,
           NEW first \in Nat, NEW next \in Nat,
           Ring(buf, size, e, e, w, first, next), w # e
    PROVE  Ring(buf, size, 0, w, w, first, next)
  <1>1. PICK k \in Nat :
          /\ Chain(buf, e, e, first, k)
          /\ w < e /\ Chain(buf, 0, w, k, next)
    BY DEF Ring
  <1>2. e < e \/ first = k BY <1>1, ChainHead
  <1>3. first = k /\ w \in 0 .. size /\ DOMAIN buf = 0 .. size - 1
    BY <1>1, <1>2 DEF Ring
  <1>. QED BY <1>1, <1>3 DEF Ring

\* An empty ring begins again at 0.
LEMMA RingReset ==
    ASSUME NEW buf, NEW size \in Nat, NEW e,
           NEW first \in Nat, NEW next \in Nat,
           Ring(buf, size, e, e, e, first, next)
    PROVE  Ring(buf, size, 0, 0, 0, first, next)
  <1>1. first = next
    <2>1. e \in Nat /\ Chain(buf, e, e, first, next) BY DEF Ring
    <2>2. e < e \/ first = next BY <2>1, ChainHead
    <2>. QED BY <2>1, <2>2
  <1>2. Chain(buf, 0, 0, first, first) BY ChainEmpty
  <1>3. 0 \in 0 .. size /\ DOMAIN buf = 0 .. size - 1 BY DEF Ring
  <1>. QED BY <1>1, <1>2, <1>3 DEF Ring

\* The writer goes back to the front.
LEMMA RingWrap ==
    ASSUME NEW buf, NEW size \in Nat, NEW s, NEW e,
           NEW first \in Nat, NEW next \in Nat,
           Ring(buf, size, s, e, e, first, next), e # 0
    PROVE  Ring(buf, size, s, e, 0, first, next)
  <1>1. Chain(buf, s, e, first, next) BY DEF Ring
  <1>2. Chain(buf, 0, 0, next, next) BY ChainEmpty
  <1>3. /\ s \in Nat /\ e \in 0 .. size /\ 0 < e /\ 0 <= s
        /\ DOMAIN buf = 0 .. size - 1
    BY DEF Ring
  <1>. QED BY <1>1, <1>2, <1>3 DEF Ring

\* The bytes of a message are written where there is room for it: the messages
\* of the ring stay as they are, the first one of them too.
LEMMA RingFill ==
    ASSUME NEW buf, NEW size \in Nat, NEW s, NEW e, NEW w,
           NEW first \in Nat, NEW next \in Nat, NEW x \in Msg,
           Ring(buf, size, s, e, w, first, next), Room(size, s, e, w, x)
    PROVE  /\ Ring(Fill(buf, w, x), size, s, e, w, first, next)
           /\ Written(Fill(buf, w, x), w, x)
           /\ s < e => Fill(buf, w, x)[s] = buf[s]
  <1> DEFINE after == Fill(buf, w, x)
  <1>1. PICK k \in Nat :
          /\ Chain(buf, s, e, first, k)
          /\ \/ w = e /\ k = next
             \/ w < e /\ w <= s /\ Chain(buf, 0, w, k, next)
    BY DEF Ring
  <1>2. /\ w \in Nat /\ s \in Nat /\ e \in Nat /\ e <= size /\ s <= e
        /\ e \in 0 .. size /\ DOMAIN buf = 0 .. size - 1
    <2>1. s <= e BY RingHead
    <2>. QED BY <2>1 DEF Ring
  <1>3. Span(x) \in Nat BY SpanPositive
  <1>4. DOMAIN after = 0 .. size - 1 BY <1>2 DEF Fill
  <1>5. \A q \in 0 .. size - 1 :
          after[q] = IF q \in w .. w + Span(x) - 1 THEN x ELSE buf[q]
    BY <1>2 DEF Fill
  <1>6. w + Span(x) <= size BY <1>2, <1>3 DEF Room
  <1>7. Written(after, w, x)
    <2>1. SUFFICES ASSUME NEW q \in w .. w + Span(x) - 1 PROVE after[q] = x
      BY DEF Written
    <2>2. q \in 0 .. size - 1 BY <1>2, <1>3, <1>6, <2>1
    <2>. QED BY <1>5, <2>1, <2>2
  <1>8. \A q \in s .. e - 1 : after[q] = buf[q]
    <2>1. TAKE q \in s .. e - 1
    <2>2. q \in 0 .. size - 1 BY <1>2, <2>1
    <2>3. q \notin w .. w + Span(x) - 1 BY <1>2, <1>3, <2>1 DEF Room
    <2>. QED BY <1>5, <2>2, <2>3
  <1>9. w < e => \A q \in 0 .. w - 1 : after[q] = buf[q]
    <2>1. HAVE w < e
    <2>2. TAKE q \in 0 .. w - 1
    <2>3. q \in 0 .. size - 1 /\ q \notin w .. w + Span(x) - 1
      BY <1>2, <1>3, <2>1, <2>2
    <2>. QED BY <1>5, <2>3
  <1> HIDE DEF after
  <1>10. Chain(after, s, e, first, k) BY <1>1, <1>8, ChainFrame
  <1>11. w < e /\ Chain(buf, 0, w, k, next) => Chain(after, 0, w, k, next)
    BY <1>9, ChainFrame
  <1>12. Ring(after, size, s, e, w, first, next)
    BY <1>1, <1>2, <1>4, <1>10, <1>11 DEF Ring
  <1>13. s < e => after[s] = buf[s] BY <1>2, <1>8
  <1>. QED BY <1>7, <1>12, <1>13 DEF after

\* The message that has been written joins the ring, as its last one.
LEMMA RingPublish ==
    ASSUME NEW buf, NEW size \in Nat, NEW s, NEW e, NEW w,
           NEW first \in Nat, NEW next \in Nat, NEW x \in Msg,
           Ring(buf, size, s, e, w, first, next), Room(size, s, e, w, x),
           Written(buf, w, x), x.id = next
    PROVE  /\ w = e => Ring(buf, size, s, e + Span(x), w + Span(x), first, next + 1)
           /\ w # e => Ring(buf, size, s, e, w + Span(x), first, next + 1)
  <1>1. PICK k \in Nat :
          /\ Chain(buf, s, e, first, k)
          /\ \/ w = e /\ k = next
             \/ w < e /\ w <= s /\ Chain(buf, 0, w, k, next)
    BY DEF Ring
  <1>2. /\ w \in Nat /\ s \in Nat /\ e \in Nat /\ e <= size /\ s <= e
        /\ e \in 0 .. size /\ DOMAIN buf = 0 .. size - 1
    <2>1. s <= e BY RingHead
    <2>. QED BY <2>1 DEF Ring
  <1>3. Span(x) \in Nat /\ 0 < Span(x) BY SpanPositive
  <1>4. Message(buf, w, w + Span(x), next)
    <2>1. \A q \in w .. (w + Span(x)) - 1 : buf[q] = x
      <3>1. (w + Span(x)) - 1 = w + Span(x) - 1 BY <1>2, <1>3
      <3>. QED BY <3>1 DEF Written
    <2>2. buf[w] = x BY <1>2, <1>3, <2>1
    <2>. QED BY <2>1, <2>2 DEF Message
  <1>5. w = e => Ring(buf, size, s, e + Span(x), w + Span(x), first, next + 1)
    <2>1. HAVE w = e
    <2>2. Chain(buf, s, w, first, next) BY <1>1, <1>2, <2>1
    <2>3. Chain(buf, s, w + Span(x), first, next + 1) BY <1>4, <2>2, ChainAppend
    <2>4. e + Span(x) \in 0 .. size /\ w + Span(x) = e + Span(x) /\ w + Span(x) \in Nat
      BY <1>2, <1>3, <2>1 DEF Room
    <2>5. next + 1 \in Nat OBVIOUS
    <2>. QED BY <1>2, <2>3, <2>4, <2>5 DEF Ring
  <1>6. w # e => Ring(buf, size, s, e, w + Span(x), first, next + 1)
    <2>1. HAVE w # e
    <2>2. Chain(buf, 0, w, k, next) BY <1>1, <2>1
    <2>3. Chain(buf, 0, w + Span(x), k, next + 1) BY <1>4, <2>2, ChainAppend
    <2>4. w + Span(x) < s /\ w + Span(x) < e /\ w + Span(x) <= s /\ w + Span(x) \in Nat
      BY <1>2, <1>3, <2>1 DEF Room
    <2>. QED BY <1>1, <1>2, <2>3, <2>4 DEF Ring
  <1>. QED BY <1>5, <1>6
-----------------------------------------------------------------------------
\* The number of the message at oStart, when c have been put on the connection,
\* and that of the next one the owner writes.
Unsent(c) == IF oThread = "sent" THEN c ELSE c + 1
Upcoming == IF oOwner = "idle" THEN oMessage.id + 1 ELSE oMessage.id

\* What the thread of the sender works on, which no lock protects.
Sending(c) ==
    oThread \in {"sending", "sent"} =>
      /\ oFrom = oStart
      /\ oStart \in Nat
      /\ Message(oBuffer, oStart, oStart + Span(oBuffer[oStart]), Unsent(c))
      /\ oStart + Span(oBuffer[oStart]) <= OutSize

\* What its owner works on, until the stream is being freed.
Filling(c) ==
    /\ oMessage.id \in Nat
    /\ oOwner # "idle" => oMessage \in Msg
    /\ Ring(oBuffer, OutSize, oStart, oEnd, oWrite, Unsent(c), Upcoming)
    /\ oThread \in {"sending", "sent"} => oStart < oEnd
    /\ oWrite # oEnd => oStart < oEnd
    /\ oOwner \in {"fill", "filled"} => Room(OutSize, oStart, oEnd, oWrite, oMessage)
    /\ oOwner = "filled" => Written(oBuffer, oWrite, oMessage)

OutInv(c) ==
    /\ Sending(c)
    /\ IF oOwner = "joining" THEN oWrite = -1 ELSE Filling(c)

\* The receiver stores message r, and its owner reads message got + 1.
InInv(r) ==
    /\ got \in Nat
    /\ Ring(iBuffer, InSize, iStart, iEnd, iWrite, got + 1, r)
    /\ iThread \in {"locked", "waiting", "store", "stored"} =>
         iMessage \in Msg /\ iMessage.id = r
    /\ iThread \in {"store", "stored"} => Room(InSize, iStart, iEnd, iWrite, iMessage)
    /\ iThread = "stored" => Written(iBuffer, iWrite, iMessage)
    /\ held # I!Nothing => iStart < iEnd /\ held = iBuffer[iStart]

\* What is on its way: the messages from r on, up to c unless some are lost.
Taken == IF iThread = "stored" THEN 1 ELSE 0

WireInv(r, c) ==
    /\ wire \in Seq(Msg)
    /\ \A n \in 1 .. Len(wire) : wire[n].id = r + Taken + (n - 1)
    /\ up => r + Taken + Len(wire) = c + 1

\* A receiver that is being freed reads nothing any more.
StreamsInv ==
    \E c, r \in Nat : OutInv(c) /\ (iOwner = "idle" => InInv(r) /\ WireInv(r, c))
-----------------------------------------------------------------------------
\* Both rings exist, and each of them holds any message.
LEMMA RingSizes ==
    /\ OutSize \in Nat /\ InSize \in Nat
    /\ \A x \in Msg : Span(x) < OutSize /\ Span(x) <= InSize
  <1>1. OutSize \in Nat /\ InSize \in Nat BY StreamsAssumption
  <1>2. ASSUME NEW x \in Msg PROVE Span(x) < OutSize /\ Span(x) <= InSize
    <2>1. x.size \in Sizes BY DEF Msg
    <2>2. OutSize > x.size + Header /\ InSize >= 2 * (x.size + Header)
      BY <2>1, StreamsAssumption
    <2>3. Span(x) \in Nat /\ Span(x) = x.size + Header BY SpanPositive DEF Span
    <2>. QED BY <1>1, <2>2, <2>3
  <1>. QED BY <1>1, <1>2

\* netOutStreamBuffer, at its first attempt and after each wait: when it goes on
\* there is room, and what is not sent yet stays where it is.
LEMMA ReserveKeeps ==
    ASSUME NEW first \in Nat, NEW next \in Nat, NEW x \in Msg, NEW w, NEW step,
           Ring(oBuffer, OutSize, oStart, oEnd, oWrite, first, next),
           oWrite # oEnd => oStart < oEnd,
           \/ step = "first" /\ w = IF O!Wraps(Span(x)) THEN 0 ELSE oWrite
           \/ step = "waiting" /\ w = oWrite,
           O!Reserve(Span(x), w, step)
    PROVE  /\ Ring(oBuffer, OutSize, oStart', oEnd', oWrite', first, next)
           /\ oWrite' # oEnd' => oStart' < oEnd'
           /\ oOwner' \in {"waiting", "fill"}
           /\ oOwner' = "fill" => Room(OutSize, oStart', oEnd', oWrite', x)
           /\ oStart < oEnd => oStart' = oStart /\ oEnd' = oEnd
  <1>1. /\ OutSize \in Nat /\ Span(x) \in Nat /\ 0 < Span(x) /\ Span(x) < OutSize
    BY RingSizes, SpanPositive
  <1>2. oStart <= oEnd /\ oWrite <= oEnd BY <1>1, RingHead
  <1>3. oStart \in Nat /\ oEnd \in Nat /\ oWrite \in Nat BY <1>1 DEF Ring
  <1>4. CASE (w # oEnd \/ step = "waiting") /\ oEnd = oStart
    <2>1. oWrite = oEnd BY <1>3, <1>4
    <2>2. /\ oStart' = 0 /\ oEnd' = 0 /\ oWrite' = 0 /\ oOwner' = "fill"
      BY <1>1, <1>4 DEF O!Reserve, O!Drained, O!MustWait
    <2>3. Ring(oBuffer, OutSize, 0, 0, 0, first, next)
      <3>1. Ring(oBuffer, OutSize, oEnd, oEnd, oEnd, first, next) BY <1>4, <2>1
      <3>. QED BY <1>1, <3>1, RingReset
    <2>4. Room(OutSize, 0, 0, 0, x) BY <1>1 DEF Room
    <2>. QED BY <1>3, <1>4, <2>2, <2>3, <2>4
  <1>5. CASE (w # oEnd \/ step = "waiting") /\ oEnd # oStart
    <2>1. oStart < oEnd BY <1>2, <1>3, <1>5
    <2>2. /\ oStart' = oStart /\ oEnd' = oEnd /\ oWrite' = w
          /\ oOwner' = IF O!MustWait(Span(x), oStart, oEnd, w) THEN "waiting" ELSE "fill"
      BY <1>5 DEF O!Reserve, O!Drained
    <2>3. Ring(oBuffer, OutSize, oStart, oEnd, w, first, next) /\ w \in Nat
      <3>1. CASE w = oWrite BY <1>3, <3>1
      <3>2. CASE w # oWrite
        <4>1. w = 0 /\ oWrite = oEnd BY <3>2 DEF O!Wraps
        <4>2. Ring(oBuffer, OutSize, oStart, oEnd, oEnd, first, next) BY <4>1
        <4>3. oEnd # 0 BY <1>3, <2>1
        <4>. QED BY <1>1, <4>1, <4>2, <4>3, RingWrap
      <3>. QED BY <3>1, <3>2
    <2>4. oOwner' = "fill" => Room(OutSize, oStart, oEnd, w, x)
      <3>1. HAVE oOwner' = "fill"
      <3>2. w + Span(x) < oStart BY <1>1, <1>3, <2>1, <2>2, <2>3, <3>1 DEF O!MustWait
      <3>. QED BY <1>1, <1>3, <2>1, <2>3, <3>2 DEF Room
    <2>. QED BY <2>1, <2>2, <2>3, <2>4
  <1>6. CASE w = oEnd /\ step # "waiting"
    <2>1. oStart' = oStart /\ oEnd' = oEnd /\ oWrite' = w /\ oOwner' = "fill"
      BY <1>6 DEF O!Reserve
    <2>2. w = IF O!Wraps(Span(x)) THEN 0 ELSE oWrite BY <1>6
    <2>3. ~O!Wraps(Span(x)) BY <1>1, <1>3, <1>6, <2>2 DEF O!Wraps
    <2>4. w = oWrite BY <2>2, <2>3
    <2>5. w + Span(x) <= OutSize BY <1>1, <1>3, <1>6, <2>3, <2>4 DEF O!Wraps
    <2>. QED BY <1>6, <2>1, <2>4, <2>5 DEF Room
  <1>. QED BY <1>4, <1>5, <1>6

\* A step of the owner that reserves space for message x, begun or resumed.
LEMMA ReserveInv ==
    ASSUME NEW c \in Nat, OutInv(c), oOwner # "joining",
           NEW x \in Msg, x.id = Upcoming, oMessage' = x, NEW w, NEW step,
           \/ step = "first" /\ w = IF O!Wraps(Span(x)) THEN 0 ELSE oWrite
           \/ step = "waiting" /\ w = oWrite,
           O!Reserve(Span(x), w, step),
           UNCHANGED <<oBuffer, oThread, oFrom>>
    PROVE  OutInv(c)'
  <1>1. Sending(c) /\ Filling(c) BY DEF OutInv
  <1>2. Unsent(c) \in Nat /\ Unsent(c)' = Unsent(c) BY DEF Unsent
  <1>3. x.id \in Nat BY DEF Msg
  <1>4. /\ Ring(oBuffer, OutSize, oStart', oEnd', oWrite', Unsent(c), Upcoming)
        /\ oWrite' # oEnd' => oStart' < oEnd'
        /\ oOwner' \in {"waiting", "fill"}
        /\ oOwner' = "fill" => Room(OutSize, oStart', oEnd', oWrite', x)
        /\ oStart < oEnd => oStart' = oStart /\ oEnd' = oEnd
    <2>1. /\ Ring(oBuffer, OutSize, oStart, oEnd, oWrite, Unsent(c), Upcoming)
          /\ oWrite # oEnd => oStart < oEnd
          /\ Upcoming \in Nat
      BY <1>1, <1>3 DEF Filling
    <2>. QED BY <1>2, <2>1, ReserveKeeps
  <1>5. Upcoming' = Upcoming BY <1>4 DEF Upcoming
  <1>6. Sending(c)' BY <1>1, <1>2, <1>4 DEF Sending, Filling
  <1>7. Filling(c)' BY <1>1, <1>2, <1>3, <1>4, <1>5 DEF Filling
  <1>. QED BY <1>4, <1>6, <1>7 DEF OutInv

LEMMA BufferInv ==
    ASSUME NEW c \in Nat, OutInv(c), NEW s \in Sizes, O!netOutStreamBuffer(s)
    PROVE  OutInv(c)'
  <1>1. oOwner = "idle" /\ oMessage' = [id |-> oMessage.id + 1, size |-> s]
    BY DEF O!netOutStreamBuffer
  <1>2. Filling(c) BY <1>1 DEF OutInv
  <1>3. /\ oMessage' \in Msg /\ oMessage'.id = Upcoming
        /\ Span(oMessage') = s + Header
    BY <1>1, <1>2, StreamsAssumption DEF Filling, Msg, Upcoming, Span
  <1>4. /\ O!Reserve(s + Header, IF O!Wraps(s + Header) THEN 0 ELSE oWrite, "first")
        /\ UNCHANGED <<oBuffer, oThread, oFrom>>
    BY DEF O!netOutStreamBuffer
  <1>5. \E w : /\ w = IF O!Wraps(s + Header) THEN 0 ELSE oWrite
               /\ O!Reserve(s + Header, w, "first")
    BY <1>4
  <1>. QED BY <1>1, <1>3, <1>4, <1>5, ReserveInv

LEMMA ResumeInv ==
    ASSUME NEW c \in Nat, OutInv(c), O!ResumeBuffer
    PROVE  OutInv(c)'
  <1>1. /\ oOwner = "woken" /\ oMessage' = oMessage
        /\ O!Reserve(O!Len4(oMessage), oWrite, "waiting")
        /\ UNCHANGED <<oBuffer, oThread, oFrom>>
    BY DEF O!ResumeBuffer
  <1>2. Filling(c) BY <1>1 DEF OutInv
  <1>3. oMessage \in Msg /\ oMessage.id = Upcoming
    BY <1>1, <1>2 DEF Filling, Upcoming
  <1>4. O!Reserve(Span(oMessage), oWrite, "waiting") BY <1>1 DEF O!Len4, Span
  <1>. QED BY <1>1, <1>3, <1>4, ReserveInv

\* The owner fills bytes that nobody reads, the thread no less than the ring.
LEMMA FillInv ==
    ASSUME NEW c \in Nat, OutInv(c), O!FillBuffer
    PROVE  OutInv(c)'
  <1>1. /\ oOwner = "fill" /\ oOwner' = "filled"
        /\ UNCHANGED <<oStart, oEnd, oWrite, oThread, oFrom, oMessage>>
    BY DEF O!FillBuffer, O!range
  <1>2. oBuffer' = Fill(oBuffer, oWrite, oMessage)
    BY DEF O!FillBuffer, O!Bytes, O!Len4, Fill, Span
  <1>3. Filling(c) /\ Sending(c) BY <1>1 DEF OutInv
  <1>4. /\ oMessage \in Msg
        /\ Ring(oBuffer, OutSize, oStart, oEnd, oWrite, Unsent(c), Upcoming)
        /\ Room(OutSize, oStart, oEnd, oWrite, oMessage)
    BY <1>1, <1>3 DEF Filling
  <1>5. /\ Unsent(c) \in Nat /\ Unsent(c)' = Unsent(c)
        /\ Upcoming \in Nat /\ Upcoming' = Upcoming
        /\ OutSize \in Nat
    BY <1>1, <1>3, RingSizes DEF Unsent, Upcoming, Filling
  <1>6. /\ Ring(oBuffer', OutSize, oStart, oEnd, oWrite, Unsent(c), Upcoming)
        /\ Written(oBuffer', oWrite, oMessage)
        /\ oStart < oEnd => oBuffer'[oStart] = oBuffer[oStart]
    BY <1>2, <1>4, <1>5, RingFill
  <1>7. Filling(c)' BY <1>1, <1>3, <1>4, <1>5, <1>6 DEF Filling
  <1>8. Sending(c)'
    <2>1. SUFFICES ASSUME oThread \in {"sending", "sent"} PROVE Sending(c)'
      BY <1>1 DEF Sending
    <2>2. oStart < oEnd BY <1>3, <2>1 DEF Filling
    <2>3. /\ Message(oBuffer', oStart, oStart + Span(oBuffer'[oStart]), Unsent(c))
          /\ oStart + Span(oBuffer'[oStart]) <= oEnd
          /\ Span(oBuffer'[oStart]) \in Nat
      BY <1>5, <1>6, <2>2, RingHead
    <2>4. oEnd \in 0 .. OutSize /\ oStart \in Nat BY <1>4 DEF Ring
    <2>5. oStart + Span(oBuffer'[oStart]) <= OutSize BY <1>5, <2>3, <2>4
    <2>. QED BY <1>1, <1>3, <1>5, <2>1, <2>3, <2>4, <2>5 DEF Sending
  <1>. QED BY <1>1, <1>7, <1>8 DEF OutInv

\* netOutStreamSend hands the message over.
LEMMA SendInv ==
    ASSUME NEW c \in Nat, OutInv(c), O!netOutStreamSend
    PROVE  OutInv(c)'
  <1>1. /\ oOwner = "filled" /\ oOwner' = "idle"
        /\ UNCHANGED <<oStart, oBuffer, oFrom, oMessage>>
        /\ oThread' = O!WakeWriter
    BY DEF O!netOutStreamSend
  <1>2. Filling(c) /\ Sending(c) BY <1>1 DEF OutInv
  <1>3. /\ oMessage \in Msg /\ oMessage.id = Upcoming /\ Upcoming \in Nat
        /\ Ring(oBuffer, OutSize, oStart, oEnd, oWrite, Unsent(c), Upcoming)
        /\ Room(OutSize, oStart, oEnd, oWrite, oMessage)
        /\ Written(oBuffer, oWrite, oMessage)
    BY <1>1, <1>2 DEF Filling, Upcoming
  <1>4. Span(oMessage) \in Nat /\ 0 < Span(oMessage) BY <1>3, SpanPositive
  <1>5. oStart \in Nat /\ oEnd \in Nat /\ oWrite \in Nat BY <1>3 DEF Ring
  <1>6. oBuffer[oWrite] = oMessage BY <1>3, <1>4, <1>5 DEF Written
  <1>7. /\ oEnd' = IF oEnd = oWrite THEN oEnd + Span(oMessage) ELSE oEnd
        /\ oWrite' = oWrite + Span(oMessage)
    BY <1>6 DEF O!netOutStreamSend, O!Len4, Span
  <1>8. /\ oThread' \in {"sending", "sent"} <=> oThread \in {"sending", "sent"}
        /\ oThread' = "sent" <=> oThread = "sent"
    BY <1>1 DEF O!WakeWriter
  <1>9. Unsent(c) \in Nat /\ Unsent(c)' = Unsent(c) /\ Upcoming' = Upcoming + 1
    BY <1>1, <1>3, <1>8 DEF Unsent, Upcoming
  <1>10. Ring(oBuffer, OutSize, oStart, oEnd', oWrite', Unsent(c), Upcoming + 1)
    <2>1. OutSize \in Nat BY RingSizes
    <2>2. /\ oWrite = oEnd => Ring(oBuffer, OutSize, oStart, oEnd + Span(oMessage),
                                   oWrite + Span(oMessage), Unsent(c), Upcoming + 1)
          /\ oWrite # oEnd => Ring(oBuffer, OutSize, oStart, oEnd,
                                   oWrite + Span(oMessage), Unsent(c), Upcoming + 1)
      BY <1>3, <1>9, <2>1, RingPublish
    <2>. QED BY <1>7, <2>2
  <1>11. /\ oStart < oEnd => oStart < oEnd'
         /\ oWrite' # oEnd' => oStart < oEnd'
    BY <1>2, <1>4, <1>5, <1>7 DEF Filling
  <1>12. Sending(c)' BY <1>1, <1>2, <1>8, <1>9 DEF Sending
  <1>13. Filling(c)'
    <2>1. oMessage'.id \in Nat /\ oStart' = oStart BY <1>1, <1>3
    <2>. QED BY <1>1, <1>2, <1>8, <1>9, <1>10, <1>11, <2>1 DEF Filling
  <1>. QED BY <1>1, <1>12, <1>13 DEF OutInv

\* netOutStreamWriter takes the first message of the ring.
LEMMA TakeInv ==
    ASSUME NEW c \in Nat, OutInv(c), O!TakeMessage
    PROVE  OutInv(c)'
  <1>1. /\ oThread = "locked"
        /\ UNCHANGED <<oStart, oEnd, oWrite, oBuffer, oOwner, oMessage>>
        /\ oThread' = IF oWrite = -1 THEN "ended"
                      ELSE IF O!Drained THEN "waiting" ELSE "sending"
        /\ oFrom' = IF oThread' = "sending" THEN oStart ELSE oFrom
    BY DEF O!TakeMessage, O!range
  <1>2. oThread' # "sent" /\ (oThread' = "sending" => oEnd # oStart /\ oWrite # -1)
    BY <1>1 DEF O!Drained
  <1>3. Unsent(c) = c + 1 /\ Unsent(c)' = c + 1 /\ Upcoming' = Upcoming
    BY <1>1, <1>2 DEF Unsent, Upcoming
  <1>4. CASE oOwner = "joining"
    <2>1. oWrite = -1 BY <1>4 DEF OutInv
    <2>. QED BY <1>1, <1>2, <1>4, <2>1 DEF OutInv, Sending
  <1>5. CASE oOwner # "joining"
    <2>1. Filling(c) BY <1>5 DEF OutInv
    <2>2. /\ Ring(oBuffer, OutSize, oStart, oEnd, oWrite, c + 1, Upcoming)
          /\ Upcoming \in Nat /\ c + 1 \in Nat /\ OutSize \in Nat
      BY <1>3, <2>1, RingSizes DEF Filling, Upcoming
    <2>3. /\ oStart <= oEnd
          /\ oStart < oEnd =>
               /\ Message(oBuffer, oStart, oStart + Span(oBuffer[oStart]), c + 1)
               /\ Span(oBuffer[oStart]) \in Nat
               /\ oStart + Span(oBuffer[oStart]) <= oEnd
      BY <2>2, RingHead
    <2>4. oStart \in Nat /\ oEnd \in Nat /\ oEnd <= OutSize BY <2>2 DEF Ring
    <2>5. oThread' = "sending" => oStart < oEnd BY <1>2, <2>3, <2>4
    <2>6. Sending(c)' BY <1>1, <1>2, <1>3, <2>2, <2>3, <2>4, <2>5 DEF Sending
    <2>7. Filling(c)' BY <1>1, <1>2, <1>3, <2>1, <2>2, <2>5 DEF Filling
    <2>. QED BY <1>1, <1>5, <2>6, <2>7 DEF OutInv
  <1>. QED BY <1>4, <1>5

\* Its message is number c + 1, and becomes number c of those that are sent.
LEMMA SendBytesInv ==
    ASSUME NEW c \in Nat, OutInv(c), O!SendBytes
    PROVE  /\ OutInv(c + 1)'
           /\ up /\ up' /\ wire' = Append(wire, oBuffer[oFrom])
           /\ oBuffer[oFrom] \in Msg /\ oBuffer[oFrom].id = c + 1
  <1>1. /\ oThread = "sending" /\ oThread' = "sent" /\ up /\ up'
        /\ wire' = Append(wire, oBuffer[oFrom])
        /\ UNCHANGED <<oStart, oEnd, oWrite, oBuffer, oFrom, oOwner, oMessage>>
    BY DEF O!SendBytes, O!range
  <1>2. Unsent(c) = c + 1 /\ Unsent(c + 1)' = c + 1 /\ Upcoming' = Upcoming
    BY <1>1 DEF Unsent, Upcoming
  <1>3. Sending(c) BY DEF OutInv
  <1>4. oBuffer[oFrom] \in Msg /\ oBuffer[oFrom].id = c + 1
    BY <1>1, <1>2, <1>3 DEF Sending, Message
  <1>5. Sending(c + 1)' BY <1>1, <1>2, <1>3 DEF Sending
  <1>6. CASE oOwner = "joining" BY <1>1, <1>4, <1>5, <1>6 DEF OutInv
  <1>7. CASE oOwner # "joining"
    <2>1. Filling(c) BY <1>7 DEF OutInv
    <2>2. Filling(c + 1)' BY <1>1, <1>2, <2>1 DEF Filling
    <2>. QED BY <1>1, <1>4, <1>5, <1>7, <2>2 DEF OutInv
  <1>. QED BY <1>6, <1>7

\* A thread that fails leaves its message in the ring.
LEMMA SendFailsInv ==
    ASSUME NEW c \in Nat, OutInv(c), O!SendFails
    PROVE  OutInv(c)'
  <1>1. /\ oThread = "sending" /\ oThread' = "failed"
        /\ UNCHANGED <<oStart, oEnd, oWrite, oBuffer, oFrom, oOwner, oMessage>>
    BY DEF O!SendFails, O!range
  <1>2. Unsent(c)' = Unsent(c) /\ Upcoming' = Upcoming
    BY <1>1 DEF Unsent, Upcoming
  <1>3. Sending(c)' BY <1>1 DEF Sending
  <1>4. CASE oOwner = "joining" BY <1>1, <1>3, <1>4 DEF OutInv
  <1>5. CASE oOwner # "joining"
    <2>1. Filling(c) BY <1>5 DEF OutInv
    <2>2. Filling(c)' BY <1>1, <1>2, <2>1 DEF Filling
    <2>. QED BY <1>1, <1>3, <1>5, <2>2 DEF OutInv
  <1>. QED BY <1>4, <1>5

\* A return from cond_wait without a signal changes no byte and no position.
LEMMA OutWakeInv ==
    ASSUME NEW c \in Nat, OutInv(c), O!SpuriousWake
    PROVE  OutInv(c)'
  <1>1. /\ oThread' = oThread \/ (oThread = "waiting" /\ oThread' = "locked")
        /\ oOwner' = oOwner \/ (oOwner = "waiting" /\ oOwner' = "woken")
        /\ UNCHANGED <<oStart, oEnd, oWrite, oBuffer, oFrom, oMessage>>
    BY DEF O!SpuriousWake, O!range
  <1>2. Unsent(c)' = Unsent(c) /\ Upcoming' = Upcoming
    BY <1>1 DEF Unsent, Upcoming
  <1>3. Sending(c)' BY <1>1, <1>2 DEF OutInv, Sending
  <1>4. CASE oOwner = "joining" BY <1>1, <1>3, <1>4 DEF OutInv
  <1>5. CASE oOwner # "joining"
    <2>1. Filling(c) BY <1>5 DEF OutInv
    <2>2. Filling(c)' BY <1>1, <1>2, <2>1 DEF Filling
    <2>. QED BY <1>1, <1>3, <1>5, <2>2 DEF OutInv
  <1>. QED BY <1>4, <1>5

\* The bytes are free again, and the range may follow the owner to the front:
\* an owner that fills bytes there still has room.
LEMMA ReleaseInv ==
    ASSUME NEW c \in Nat, OutInv(c), O!ReleaseBytes
    PROVE  OutInv(c)'
  <1> DEFINE s == oStart + Span(oBuffer[oStart])
  <1>1. /\ oThread = "sent" /\ oThread' = "locked"
        /\ UNCHANGED <<oWrite, oBuffer, oMessage>>
        /\ oOwner' = IF oOwner = "waiting" THEN "woken" ELSE oOwner
    BY DEF O!ReleaseBytes
  <1>2. Sending(c) /\ oFrom = oStart BY <1>1 DEF OutInv, Sending
  <1>3. IF O!Wrapped(s) THEN oStart' = 0 /\ oEnd' = oWrite
        ELSE oStart' = s /\ oEnd' = oEnd
    BY <1>2 DEF O!ReleaseBytes, O!Len4, Span
  <1>4. Sending(c)' BY <1>1 DEF Sending
  <1>5. CASE oOwner = "joining" BY <1>1, <1>4, <1>5 DEF OutInv
  <1>6. CASE oOwner # "joining"
    <2>1. Filling(c) BY <1>6 DEF OutInv
    <2>2. /\ Unsent(c) = c /\ Unsent(c)' = c + 1 /\ Upcoming' = Upcoming
          /\ Upcoming \in Nat /\ OutSize \in Nat
      BY <1>1, <2>1, RingSizes DEF Unsent, Upcoming, Filling
    <2>3. Ring(oBuffer, OutSize, oStart, oEnd, oWrite, c, Upcoming) /\ oStart < oEnd
      BY <1>1, <2>1, <2>2 DEF Filling
    <2>4. Ring(oBuffer, OutSize, s, oEnd, oWrite, c + 1, Upcoming)
      BY <2>2, <2>3, RingTake
    <2>5. oStart < s /\ s <= oEnd
      <3>1. /\ Span(oBuffer[oStart]) \in Nat /\ 0 < Span(oBuffer[oStart])
            /\ oStart + Span(oBuffer[oStart]) <= oEnd
        BY <2>2, <2>3, RingHead
      <3>2. oStart \in Nat BY <2>3 DEF Ring
      <3>. QED BY <3>1, <3>2
    <2>6. /\ oStart \in Nat /\ oEnd \in Nat /\ oEnd <= OutSize /\ oWrite \in Nat
          /\ s \in Nat
      BY <2>3, <2>4 DEF Ring
    <2> HIDE DEF s
    <2>7. /\ Ring(oBuffer, OutSize, oStart', oEnd', oWrite, c + 1, Upcoming)
          /\ oWrite # oEnd' => oStart' < oEnd'
          /\ oOwner \in {"fill", "filled"} =>
               Room(OutSize, oStart', oEnd', oWrite, oMessage)
      <3>1. oOwner \in {"fill", "filled"} =>
              /\ Room(OutSize, oStart, oEnd, oWrite, oMessage)
              /\ Span(oMessage) \in Nat
        BY <2>1, SpanPositive DEF Filling
      <3>2. CASE O!Wrapped(s)
        <4>1. s = oEnd /\ oWrite # oEnd BY <3>2 DEF O!Wrapped
        <4>2. Ring(oBuffer, OutSize, oEnd, oEnd, oWrite, c + 1, Upcoming)
          BY <2>4, <4>1
        <4>3. Ring(oBuffer, OutSize, 0, oWrite, oWrite, c + 1, Upcoming)
          BY <2>2, <4>1, <4>2, RingFold
        <4>4. oStart' = 0 /\ oEnd' = oWrite BY <1>3, <3>2
        <4>5. oOwner \in {"fill", "filled"} => Room(OutSize, 0, oWrite, oWrite, oMessage)
          BY <2>2, <2>3, <2>6, <3>1, <4>1 DEF Room
        <4>. QED BY <4>3, <4>4, <4>5
      <3>3. CASE ~O!Wrapped(s)
        <4>1. oStart' = s /\ oEnd' = oEnd BY <1>3, <3>3
        <4>2. oWrite # oEnd => s < oEnd BY <2>5, <2>6, <3>3 DEF O!Wrapped
        <4>3. oOwner \in {"fill", "filled"} => Room(OutSize, s, oEnd, oWrite, oMessage)
          BY <2>2, <2>5, <2>6, <3>1 DEF Room
        <4>. QED BY <2>4, <4>1, <4>2, <4>3
      <3>. QED BY <3>2, <3>3
    <2>8. Filling(c)'
      <3>1. /\ oOwner' \in {"fill", "filled"} <=> oOwner \in {"fill", "filled"}
            /\ oOwner' = "idle" <=> oOwner = "idle"
            /\ oOwner' = "filled" <=> oOwner = "filled"
        BY <1>1
      <3>. QED BY <1>1, <2>1, <2>2, <2>7, <3>1 DEF Filling
    <2>. QED BY <1>1, <1>4, <1>6, <2>8 DEF OutInv
  <1>. QED BY <1>5, <1>6

LEMMA OutFreeInv ==
    ASSUME NEW c \in Nat, OutInv(c), O!netOutStreamOnFree
    PROVE  OutInv(c)'
  <1>1. /\ oOwner' = "joining" /\ oWrite' = -1
        /\ UNCHANGED <<oStart, oBuffer, oFrom>>
        /\ oThread' = O!WakeWriter
    BY DEF O!netOutStreamOnFree
  <1>2. /\ oThread' \in {"sending", "sent"} <=> oThread \in {"sending", "sent"}
        /\ oThread' = "sent" <=> oThread = "sent"
    BY <1>1 DEF O!WakeWriter
  <1>3. Sending(c)' BY <1>1, <1>2 DEF Sending, OutInv, Unsent
  <1>. QED BY <1>1, <1>3 DEF OutInv
-----------------------------------------------------------------------------
\* The sender's steps leave the receiver alone, whose part of the invariant is
\* the same, and the receiver's leave the sender alone.
LEMMA InFrame ==
    ASSUME NEW r \in Nat, InInv(r), UNCHANGED inVars
    PROVE  InInv(r)' /\ Taken' = Taken
  BY DEF InInv, Taken, inVars

LEMMA OutFrame ==
    ASSUME NEW c \in Nat, OutInv(c), UNCHANGED outVars
    PROVE  OutInv(c)'
  BY DEF OutInv, Sending, Filling, Unsent, Upcoming, outVars

\* netInStreamReader begins to receive message r.
LEMMA ReceiveInv ==
    ASSUME NEW c \in Nat, NEW r \in Nat, InInv(r), WireInv(r, c), I!ReceiveSize
    PROVE  InInv(r)' /\ WireInv(r, c)'
  <1>1. /\ iThread = "receive" /\ iThread' = "locked"
        /\ wire # <<>> /\ iMessage' = Head(wire)
        /\ UNCHANGED <<iStart, iEnd, iWrite, iBuffer, held, got, iOwner, wire, up>>
    BY DEF I!ReceiveSize, I!range
  <1>2. Taken = 0 /\ Taken' = 0 BY <1>1 DEF Taken
  <1>3. iMessage' \in Msg /\ iMessage'.id = r
    <2>1. wire \in Seq(Msg) /\ Len(wire) \in Nat /\ Len(wire) # 0
      BY <1>1, EmptySeq, LenProperties DEF WireInv
    <2>2. Head(wire) = wire[1] /\ wire[1] \in Msg BY <1>1, <2>1, ElementOfSeq
    <2>3. wire[1].id = r + Taken + (1 - 1) BY <2>1 DEF WireInv
    <2>. QED BY <1>1, <1>2, <2>2, <2>3
  <1>4. InInv(r)' BY <1>1, <1>3 DEF InInv
  <1>5. WireInv(r, c)' BY <1>1, <1>2 DEF WireInv
  <1>. QED BY <1>4, <1>5

\* It looks for room, and wraps when there is none behind what it has stored.
LEMMA FindInv ==
    ASSUME NEW c \in Nat, NEW r \in Nat, InInv(r), WireInv(r, c), I!FindSpace
    PROVE  InInv(r)' /\ WireInv(r, c)'
  <1>1. /\ iThread = "locked"
        /\ UNCHANGED <<iStart, iEnd, iBuffer, iMessage, held, got, iOwner, wire, up>>
    BY DEF I!FindSpace
  <1>2. /\ iMessage \in Msg /\ iMessage.id = r
        /\ Ring(iBuffer, InSize, iStart, iEnd, iWrite, got + 1, r)
    BY <1>1 DEF InInv
  <1>3. /\ Span(iMessage) \in Nat /\ Span(iMessage) <= InSize /\ InSize \in Nat
        /\ iStart \in Nat /\ iEnd \in Nat /\ iWrite \in Nat
        /\ got + 1 \in Nat
    BY <1>2, RingSizes, SpanPositive DEF Ring, InInv
  <1> DEFINE w == IF I!Wraps THEN 0 ELSE iWrite
  <1>4. /\ iWrite' = w
        /\ iThread' = IF I!MustWait(w) THEN "waiting" ELSE "store"
    BY <1>3 DEF I!FindSpace
  <1>5. Ring(iBuffer, InSize, iStart, iEnd, w, got + 1, r) /\ w \in Nat /\ w <= iEnd
    <2>1. CASE I!Wraps
      <3>1. w = 0 /\ iWrite = iEnd /\ iEnd # 0
        BY <1>3, <2>1 DEF I!Wraps, I!Len4, Span
      <3>2. Ring(iBuffer, InSize, iStart, iEnd, iEnd, got + 1, r) BY <1>2, <3>1
      <3>3. Ring(iBuffer, InSize, iStart, iEnd, 0, got + 1, r)
        BY <1>3, <3>1, <3>2, RingWrap
      <3>. QED BY <1>3, <3>1, <3>3
    <2>2. CASE ~I!Wraps
      <3>1. w = iWrite BY <2>2
      <3>2. iWrite <= iEnd BY <1>2, <1>3, RingHead
      <3>. QED BY <1>2, <1>3, <3>1, <3>2
    <2>. QED BY <2>1, <2>2
  <1>6. ~I!MustWait(w) => Room(InSize, iStart, iEnd, w, iMessage)
    <2>1. HAVE ~I!MustWait(w)
    <2>2. w # iEnd => w + Span(iMessage) < iStart
      <3>1. HAVE w # iEnd
      <3>2. w < iEnd BY <1>3, <1>5, <3>1
      <3> HIDE DEF w
      <3>. QED BY <1>3, <1>5, <2>1, <3>2 DEF I!MustWait, I!Len4, Span
    <2>3. w = iEnd => w + Span(iMessage) <= InSize
      BY <1>3 DEF I!Wraps, I!Len4, Span
    <2>. QED BY <2>2, <2>3 DEF Room
  <1> HIDE DEF w
  <1>7. InInv(r)'
    <2>1. iThread' \in {"waiting", "store"} BY <1>4
    <2>2. iThread' = "store" => Room(InSize, iStart, iEnd, w, iMessage) BY <1>4, <1>6
    <2>. QED BY <1>1, <1>2, <1>4, <1>5, <2>1, <2>2 DEF InInv
  <1>8. Taken = 0 /\ Taken' = 0 BY <1>1, <1>4 DEF Taken
  <1>9. WireInv(r, c)' BY <1>1, <1>8 DEF WireInv
  <1>. QED BY <1>7, <1>9

\* It stores the bytes where the owner does not look.
LEMMA StoreInv ==
    ASSUME NEW c \in Nat, NEW r \in Nat, InInv(r), WireInv(r, c), I!StoreBytes
    PROVE  InInv(r)' /\ WireInv(r, c)'
  <1>1. /\ iThread = "store" /\ iThread' = "stored"
        /\ wire # <<>> /\ wire' = Tail(wire)
        /\ UNCHANGED <<iStart, iEnd, iWrite, iMessage, held, got, iOwner, up>>
    BY DEF I!StoreBytes, I!range
  <1>2. iBuffer' = Fill(iBuffer, iWrite, iMessage)
    BY DEF I!StoreBytes, I!Bytes, I!Len4, Fill, Span
  <1>3. /\ iMessage \in Msg /\ got + 1 \in Nat /\ InSize \in Nat
        /\ Ring(iBuffer, InSize, iStart, iEnd, iWrite, got + 1, r)
        /\ Room(InSize, iStart, iEnd, iWrite, iMessage)
    BY <1>1, RingSizes DEF InInv
  <1>4. /\ Ring(iBuffer', InSize, iStart, iEnd, iWrite, got + 1, r)
        /\ Written(iBuffer', iWrite, iMessage)
        /\ iStart < iEnd => iBuffer'[iStart] = iBuffer[iStart]
    BY <1>2, <1>3, RingFill
  <1>5. InInv(r)' BY <1>1, <1>3, <1>4 DEF InInv
  <1>6. WireInv(r, c)'
    <2>1. Taken = 0 /\ Taken' = 1 BY <1>1 DEF Taken
    <2>2. /\ wire \in Seq(Msg) /\ wire' \in Seq(Msg) /\ Len(wire) \in Nat
          /\ Len(wire') = Len(wire) - 1
          /\ \A n \in 1 .. Len(wire') : wire'[n] = wire[n + 1]
      BY <1>1, HeadTailProperties, LenProperties DEF WireInv
    <2>3. ASSUME NEW n \in 1 .. Len(wire')
          PROVE  wire'[n].id = r + Taken' + (n - 1)
      <3>1. n + 1 \in 1 .. Len(wire) BY <2>2
      <3>2. wire[n + 1].id = r + Taken + ((n + 1) - 1) BY <3>1 DEF WireInv
      <3>. QED BY <2>1, <2>2, <3>2
    <2>4. up' => r + Taken' + Len(wire') = c + 1 BY <1>1, <2>1, <2>2 DEF WireInv
    <2>. QED BY <2>2, <2>3, <2>4 DEF WireInv
  <1>. QED BY <1>5, <1>6

LEMMA ReceiveFailsInv ==
    ASSUME NEW c \in Nat, NEW r \in Nat, InInv(r), WireInv(r, c), I!ReceiveFails
    PROVE  InInv(r)' /\ WireInv(r, c)'
  <1>1. /\ iThread # "stored" /\ iThread' = "failed"
        /\ UNCHANGED <<iStart, iEnd, iWrite, iBuffer, iMessage, held, got, iOwner>>
        /\ UNCHANGED <<wire, up>>
    BY DEF I!ReceiveFails, I!range
  <1>2. Taken = 0 /\ Taken' = 0 BY <1>1 DEF Taken
  <1>. QED BY <1>1, <1>2 DEF InInv, WireInv

LEMMA InWakeInv ==
    ASSUME NEW c \in Nat, NEW r \in Nat, InInv(r), WireInv(r, c), I!SpuriousWake
    PROVE  InInv(r)' /\ WireInv(r, c)'
  <1>1. /\ iThread = "waiting" /\ iThread' = "locked"
        /\ UNCHANGED <<iStart, iEnd, iWrite, iBuffer, iMessage, held, got, iOwner>>
        /\ UNCHANGED <<wire, up>>
    BY DEF I!SpuriousWake, I!range
  <1>2. Taken = 0 /\ Taken' = 0 BY <1>1 DEF Taken
  <1>. QED BY <1>1, <1>2 DEF InInv, WireInv

\* Message r joins the ring, and the next one is number r + 1.
LEMMA PublishInv ==
    ASSUME NEW c \in Nat, NEW r \in Nat, InInv(r), WireInv(r, c), I!Publish
    PROVE  InInv(r + 1)' /\ WireInv(r + 1, c)'
  <1>1. /\ iThread = "stored" /\ iThread' = "receive"
        /\ iEnd' = IF iWrite = iEnd THEN iEnd + Span(iMessage) ELSE iEnd
        /\ iWrite' = iWrite + Span(iMessage)
        /\ UNCHANGED <<iStart, iBuffer, held, got, iOwner, wire, up>>
    BY DEF I!Publish, I!Len4, Span
  <1>2. /\ iMessage \in Msg /\ iMessage.id = r /\ got + 1 \in Nat /\ InSize \in Nat
        /\ Ring(iBuffer, InSize, iStart, iEnd, iWrite, got + 1, r)
        /\ Room(InSize, iStart, iEnd, iWrite, iMessage)
        /\ Written(iBuffer, iWrite, iMessage)
    BY <1>1, RingSizes DEF InInv
  <1>3. Ring(iBuffer, InSize, iStart, iEnd', iWrite', got + 1, r + 1)
    <2>1. /\ iWrite = iEnd => Ring(iBuffer, InSize, iStart, iEnd + Span(iMessage),
                                   iWrite + Span(iMessage), got + 1, r + 1)
          /\ iWrite # iEnd => Ring(iBuffer, InSize, iStart, iEnd,
                                   iWrite + Span(iMessage), got + 1, r + 1)
      BY <1>2, RingPublish
    <2>. QED BY <1>1, <2>1
  <1>4. iStart < iEnd => iStart < iEnd'
    BY <1>1, <1>2, SpanPositive DEF Ring
  <1>5. InInv(r + 1)' BY <1>1, <1>3, <1>4 DEF InInv
  <1>6. Taken = 1 /\ Taken' = 0 BY <1>1 DEF Taken
  <1>7. WireInv(r + 1, c)' BY <1>1, <1>6 DEF WireInv
  <1>. QED BY <1>5, <1>7

\* netInStreamRead gives its owner the first message, at the front when the
\* thread has wrapped.
LEMMA ReadInv ==
    ASSUME NEW c \in Nat, NEW r \in Nat, InInv(r), WireInv(r, c), I!netInStreamRead
    PROVE  InInv(r)' /\ WireInv(r, c)'
  <1>1. /\ iStart' = IF I!Loops THEN 0 ELSE iStart
        /\ iEnd' = IF I!Loops THEN iWrite ELSE iEnd
        /\ held' = IF iStart' < iEnd' THEN iBuffer[iStart'] ELSE I!Nothing
        /\ UNCHANGED <<iWrite, iBuffer, iThread, iMessage, got, iOwner, wire, up>>
    BY DEF I!netInStreamRead
  <1>2. /\ got + 1 \in Nat /\ InSize \in Nat
        /\ Ring(iBuffer, InSize, iStart, iEnd, iWrite, got + 1, r)
    BY RingSizes DEF InInv
  <1>3. /\ iStart \in Nat /\ iEnd \in Nat /\ iEnd <= InSize /\ iWrite \in Nat
    BY <1>2 DEF Ring
  <1>4. Ring(iBuffer, InSize, iStart', iEnd', iWrite, got + 1, r)
    <2>1. CASE I!Loops
      <3>1. Ring(iBuffer, InSize, iEnd, iEnd, iWrite, got + 1, r) /\ iWrite # iEnd
        BY <1>2, <1>3, <2>1 DEF I!Loops
      <3>2. Ring(iBuffer, InSize, 0, iWrite, iWrite, got + 1, r)
        BY <1>2, <3>1, RingFold
      <3>. QED BY <1>1, <2>1, <3>2
    <2>2. CASE ~I!Loops BY <1>1, <1>2, <2>2
    <2>. QED BY <2>1, <2>2
  <1>5. iThread \in {"store", "stored"} => Room(InSize, iStart', iEnd', iWrite, iMessage)
    <2>1. HAVE iThread \in {"store", "stored"}
    <2>2. Room(InSize, iStart, iEnd, iWrite, iMessage) /\ Span(iMessage) \in Nat
      BY <2>1, SpanPositive DEF InInv
    <2>. QED BY <1>1, <1>2, <1>3, <2>2 DEF Room, I!Loops
  <1>6. InInv(r)' BY <1>1, <1>4, <1>5 DEF InInv
  <1>7. WireInv(r, c)' BY <1>1 DEF WireInv, Taken
  <1>. QED BY <1>6, <1>7

\* netInStreamDoneRead gives its bytes back.
LEMMA DoneReadInv ==
    ASSUME NEW c \in Nat, NEW r \in Nat, InInv(r), WireInv(r, c),
           I!netInStreamDoneRead
    PROVE  InInv(r)' /\ WireInv(r, c)'
  <1>1. /\ held # I!Nothing /\ held' = I!Nothing /\ got' = got + 1
        /\ iStart' = iStart + Span(iBuffer[iStart])
        /\ iThread' = I!WakeReader
        /\ UNCHANGED <<iEnd, iWrite, iBuffer, iMessage, iOwner, wire, up>>
    BY DEF I!netInStreamDoneRead, I!Len4, Span
  <1>2. /\ got \in Nat /\ got + 1 \in Nat /\ InSize \in Nat /\ iStart < iEnd
        /\ Ring(iBuffer, InSize, iStart, iEnd, iWrite, got + 1, r)
    BY <1>1, RingSizes DEF InInv
  <1>3. Ring(iBuffer, InSize, iStart', iEnd, iWrite, (got + 1) + 1, r)
    BY <1>1, <1>2, RingTake
  <1>4. /\ Span(iBuffer[iStart]) \in Nat /\ iStart \in Nat /\ iWrite \in Nat
        /\ iStart <= iStart'
    <2>1. Span(iBuffer[iStart]) \in Nat BY <1>2, RingHead
    <2>2. iStart \in Nat /\ iWrite \in Nat BY <1>2 DEF Ring
    <2>. QED BY <1>1, <2>1, <2>2
  <1>5. /\ iThread' \in {"store", "stored"} <=> iThread \in {"store", "stored"}
        /\ iThread' = "stored" <=> iThread = "stored"
        /\ iThread' \in {"locked", "waiting", "store", "stored"} <=>
             iThread \in {"locked", "waiting", "store", "stored"}
    BY <1>1 DEF I!WakeReader
  <1>6. iThread \in {"store", "stored"} => Room(InSize, iStart', iEnd, iWrite, iMessage)
    <2>1. HAVE iThread \in {"store", "stored"}
    <2>2. Room(InSize, iStart, iEnd, iWrite, iMessage) /\ Span(iMessage) \in Nat
      BY <2>1, SpanPositive DEF InInv
    <2>3. iStart' \in Nat BY <1>3 DEF Ring
    <2>. QED BY <1>4, <2>2, <2>3 DEF Room
  <1>7. InInv(r)' BY <1>1, <1>2, <1>3, <1>5, <1>6 DEF InInv
  <1>8. Taken' = Taken BY <1>5 DEF Taken
  <1>9. WireInv(r, c)' BY <1>1, <1>8 DEF WireInv
  <1>. QED BY <1>7, <1>9
-----------------------------------------------------------------------------
\* Both rings are empty and nothing has been sent: c = 0 and r = 1.
LEMMA StreamsInit == Init => StreamsInv
  <1>1. SUFFICES ASSUME Init PROVE OutInv(0) /\ InInv(1) /\ WireInv(1, 0)
    BY DEF StreamsInv
  <1>2. /\ oStart = 0 /\ oEnd = 0 /\ oWrite = 0 /\ oThread = "locked" /\ oOwner = "idle"
        /\ oBuffer = [b \in 0 .. OutSize - 1 |-> O!Nothing] /\ oMessage = O!Nothing
        /\ iStart = 0 /\ iEnd = 0 /\ iWrite = 0 /\ iThread = "receive"
        /\ iBuffer = [b \in 0 .. InSize - 1 |-> I!Nothing]
        /\ held = I!Nothing /\ got = 0 /\ wire = <<>> /\ up = TRUE
    BY <1>1 DEF Init, O!Init, I!Init
  <1>3. OutSize \in Nat /\ InSize \in Nat BY RingSizes
  <1>4. Ring(oBuffer, OutSize, 0, 0, 0, 1, 1)
    BY <1>2, <1>3, ChainEmpty DEF Ring
  <1>5. Ring(iBuffer, InSize, 0, 0, 0, 1, 1)
    BY <1>2, <1>3, ChainEmpty DEF Ring
  <1>6. OutInv(0)
    <2>1. Unsent(0) = 1 /\ Upcoming = 1 /\ oMessage.id = 0
      BY <1>2 DEF Unsent, Upcoming, O!Nothing
    <2>. QED BY <1>2, <1>4, <2>1 DEF OutInv, Sending, Filling
  <1>7. InInv(1) BY <1>2, <1>5 DEF InInv
  <1>8. WireInv(1, 0)
    <2>1. wire \in Seq(Msg) /\ Len(wire) = 0 BY <1>2, EmptySeq
    <2>. QED BY <1>2, <2>1 DEF WireInv, Taken
  <1>. QED BY <1>6, <1>7, <1>8

\* The sender's part of a step: it appends at most message c + 1.
LEMMA SenderStep ==
    ASSUME NEW c \in Nat, NEW r \in Nat, OutInv(c),
           iOwner = "idle" => InInv(r) /\ WireInv(r, c),
           O!OutNext, UNCHANGED inVars
    PROVE  StreamsInv'
  <1>1. CASE O!SendBytes
    <2>1. /\ OutInv(c + 1)' /\ up /\ up'
          /\ wire' = Append(wire, oBuffer[oFrom])
          /\ oBuffer[oFrom] \in Msg /\ oBuffer[oFrom].id = c + 1
      BY <1>1, SendBytesInv
    <2>2. ASSUME iOwner' = "idle" PROVE InInv(r)' /\ WireInv(r, c + 1)'
      <3>1. InInv(r) /\ WireInv(r, c) BY <2>2 DEF inVars
      <3>2. InInv(r)' /\ Taken' = Taken /\ Taken \in Nat BY <3>1, InFrame DEF Taken
      <3>3. /\ wire \in Seq(Msg) /\ Len(wire) \in Nat /\ wire' \in Seq(Msg)
            /\ Len(wire') = Len(wire) + 1
            /\ \A n \in 1 .. Len(wire) : wire'[n] = wire[n]
            /\ wire'[Len(wire) + 1] = oBuffer[oFrom]
        BY <2>1, <3>1, AppendProperties, LenProperties DEF WireInv
      <3>4. r + Taken + Len(wire) = c + 1 BY <2>1, <3>1 DEF WireInv
      <3>5. ASSUME NEW n \in 1 .. Len(wire')
            PROVE  wire'[n].id = r + Taken' + (n - 1)
        <4>1. CASE n \in 1 .. Len(wire) BY <3>1, <3>2, <3>3, <4>1 DEF WireInv
        <4>2. CASE n = Len(wire) + 1
          <5>1. wire'[n].id = c + 1 BY <2>1, <3>3, <4>2
          <5>2. r + Taken' + (n - 1) = c + 1 BY <3>2, <3>3, <3>4, <4>2
          <5>. QED BY <5>1, <5>2
        <4>. QED BY <3>3, <4>1, <4>2
      <3>6. r + Taken' + Len(wire') = (c + 1) + 1 BY <3>2, <3>3, <3>4
      <3>. QED BY <3>2, <3>3, <3>5, <3>6 DEF WireInv
    <2>3. c + 1 \in Nat OBVIOUS
    <2>. QED BY <2>1, <2>2, <2>3 DEF StreamsInv
  <1>2. CASE ~O!SendBytes
    <2>1. OutInv(c)'
      BY <1>2, BufferInv, ResumeInv, FillInv, SendInv, TakeInv, SendFailsInv, ReleaseInv,
         OutWakeInv, OutFreeInv
      DEF O!OutNext, O!OwnerStep, O!netOutStreamWriter
    <2>2. UNCHANGED <<wire, up>>
      BY <1>2 DEF O!OutNext, O!OwnerStep, O!SpuriousWake, O!netOutStreamWriter,
        O!netOutStreamBuffer,
         O!ResumeBuffer, O!FillBuffer, O!netOutStreamSend, O!TakeMessage, O!SendFails,
         O!ReleaseBytes, O!netOutStreamOnFree
    <2>3. ASSUME iOwner' = "idle" PROVE InInv(r)' /\ WireInv(r, c)'
      <3>1. InInv(r) /\ WireInv(r, c) BY <2>3 DEF inVars
      <3>2. InInv(r)' /\ Taken' = Taken BY <3>1, InFrame
      <3>. QED BY <2>2, <3>1, <3>2 DEF WireInv
    <2>. QED BY <2>1, <2>3 DEF StreamsInv
  <1>. QED BY <1>1, <1>2

\* The receiver's part: it stores at most message r.
LEMMA ReceiverStep ==
    ASSUME NEW c \in Nat, NEW r \in Nat, OutInv(c),
           iOwner = "idle" => InInv(r) /\ WireInv(r, c),
           I!InNext, UNCHANGED outVars
    PROVE  StreamsInv'
  <1>1. OutInv(c)' BY OutFrame
  <1>2. CASE iOwner' # "idle" BY <1>1, <1>2 DEF StreamsInv
  <1>3. CASE iOwner' = "idle"
    <2>1. iOwner = "idle" /\ ~I!netInStreamOnFree
      BY <1>3 DEF I!InNext, I!SpuriousWake, I!netInStreamReader, I!netInStreamOnFree,
        I!netInStreamRead,
         I!netInStreamDoneRead, I!ReceiveSize, I!FindSpace, I!StoreBytes, I!ReceiveFails,
         I!Publish
    <2>2. InInv(r) /\ WireInv(r, c) BY <2>1
    <2>3. CASE I!Publish
      <3>1. InInv(r + 1)' /\ WireInv(r + 1, c)' /\ r + 1 \in Nat
        BY <2>2, <2>3, PublishInv
      <3>. QED BY <1>1, <3>1 DEF StreamsInv
    <2>4. CASE ~I!Publish
      <3>1. InInv(r)' /\ WireInv(r, c)'
        BY <2>1, <2>2, <2>4, ReceiveInv, FindInv, StoreInv, ReceiveFailsInv, ReadInv,
           InWakeInv, DoneReadInv
        DEF I!InNext, I!netInStreamReader
      <3>. QED BY <1>1, <3>1 DEF StreamsInv
    <2>. QED BY <2>3, <2>4
  <1>. QED BY <1>2, <1>3

\* The connection breaks or is closed: what is left on it stays in order.
LEMMA ConnectionStep ==
    ASSUME NEW c \in Nat, NEW r \in Nat, OutInv(c),
           iOwner = "idle" => InInv(r) /\ WireInv(r, c),
           Break \/ Close
    PROVE  StreamsInv'
  <1>1. UNCHANGED outVars /\ UNCHANGED inVars /\ up' = FALSE BY DEF Break, Close
  <1>2. OutInv(c)' BY <1>1, OutFrame
  <1>3. ASSUME iOwner' = "idle" PROVE InInv(r)' /\ WireInv(r, c)'
    <2>1. InInv(r) /\ WireInv(r, c) BY <1>1, <1>3 DEF inVars
    <2>2. InInv(r)' /\ Taken' = Taken BY <1>1, <2>1, InFrame
    <2>3. wire \in Seq(Msg) /\ Len(wire) \in Nat BY <2>1, LenProperties DEF WireInv
    <2>4. \E n \in 0 .. Len(wire) : wire' = SubSeq(wire, 1, n)
      <3>1. CASE Break BY <3>1 DEF Break
      <3>2. CASE Close
        <4>1. wire = SubSeq(wire, 1, Len(wire)) BY <2>3, SubSeqFull
        <4>2. wire' = wire /\ Len(wire) \in 0 .. Len(wire) BY <2>3, <3>2 DEF Close
        <4>. QED BY <4>1, <4>2
      <3>. QED BY <3>1, <3>2
    <2>5. PICK n \in 0 .. Len(wire) : wire' = SubSeq(wire, 1, n) BY <2>4
    <2>6. /\ wire' \in Seq(Msg) /\ Len(wire') = n
          /\ \A i \in 1 .. n : wire'[i] = wire[i]
      BY <2>3, <2>5
    <2>7. \A i \in 1 .. Len(wire') : wire'[i].id = r + Taken' + (i - 1)
      <3>1. TAKE i \in 1 .. Len(wire')
      <3>2. i \in 1 .. Len(wire) /\ wire'[i] = wire[i] BY <2>3, <2>6
      <3>. QED BY <2>1, <2>2, <3>2 DEF WireInv
    <2>. QED BY <1>1, <2>2, <2>6, <2>7 DEF WireInv
  <1>. QED BY <1>2, <1>3 DEF StreamsInv

LEMMA StreamsStep == StreamsInv /\ [Next]_vars => StreamsInv'
  <1>1. SUFFICES ASSUME StreamsInv, [Next]_vars PROVE StreamsInv' OBVIOUS
  <1>2. PICK c \in Nat, r \in Nat :
          OutInv(c) /\ (iOwner = "idle" => InInv(r) /\ WireInv(r, c))
    BY <1>1 DEF StreamsInv
  <1>3. CASE O!OutNext /\ UNCHANGED inVars BY <1>2, <1>3, SenderStep
  <1>4. CASE I!InNext /\ UNCHANGED outVars BY <1>2, <1>4, ReceiverStep
  <1>5. CASE Break \/ Close BY <1>2, <1>5, ConnectionStep
  <1>6. CASE UNCHANGED vars
    <2>1. UNCHANGED outVars /\ UNCHANGED inVars /\ UNCHANGED <<wire, up>>
      BY <1>6 DEF vars
    <2>2. OutInv(c)' BY <1>2, <2>1, OutFrame
    <2>3. ASSUME iOwner' = "idle" PROVE InInv(r)' /\ WireInv(r, c)'
      <3>1. InInv(r) /\ WireInv(r, c) BY <1>2, <2>1, <2>3 DEF inVars
      <3>2. InInv(r)' /\ Taken' = Taken BY <2>1, <3>1, InFrame
      <3>. QED BY <2>1, <3>1, <3>2 DEF WireInv
    <2>. QED BY <2>2, <2>3 DEF StreamsInv
  <1>. QED BY <1>1, <1>3, <1>4, <1>5, <1>6 DEF Next

\* What both rings hold, in every state of every behaviour.
THEOREM StreamsInvariant == Spec => []StreamsInv
  <1>. QED BY StreamsInit, StreamsStep, PTL DEF Spec
-----------------------------------------------------------------------------
\* What the sender's thread sends without its lock is one whole message, which
\* the owner does not overwrite while it fills the next ones.
THEOREM SentWhole == Spec => []SentIntact
  <1>1. StreamsInv => SentIntact
    <2>1. SUFFICES ASSUME StreamsInv, oThread = "sending"
                   PROVE  /\ oBuffer[oFrom] # O!Nothing
                          /\ \A b \in O!Bytes(oFrom, oBuffer[oFrom]) :
                               b < OutSize /\ oBuffer[b] = oBuffer[oFrom]
      BY DEF SentIntact
    <2>2. PICK c \in Nat : Sending(c) BY <2>1 DEF StreamsInv, OutInv
    <2>3. /\ oFrom \in Nat
          /\ Message(oBuffer, oFrom, oFrom + Span(oBuffer[oFrom]), Unsent(c))
          /\ oFrom + Span(oBuffer[oFrom]) <= OutSize
      BY <2>1, <2>2 DEF Sending
    <2>4. oBuffer[oFrom] \in Msg /\ Span(oBuffer[oFrom]) \in Nat
      BY <2>3, SpanPositive DEF Message
    <2>5. oBuffer[oFrom] # O!Nothing
      BY <2>4, StreamsAssumption DEF Msg, O!Nothing
    <2>6. ASSUME NEW b \in O!Bytes(oFrom, oBuffer[oFrom])
          PROVE  b < OutSize /\ oBuffer[b] = oBuffer[oFrom]
      <3>1. b \in oFrom .. oFrom + Span(oBuffer[oFrom]) - 1
        BY <2>6 DEF O!Bytes, O!Len4, Span
      <3>2. b \in oFrom .. (oFrom + Span(oBuffer[oFrom])) - 1 BY <2>3, <2>4, <3>1
      <3>3. OutSize \in Nat BY RingSizes
      <3>. QED BY <2>3, <2>4, <3>2, <3>3 DEF Message
    <2>. QED BY <2>5, <2>6
  <1>. QED BY <1>1, StreamsInvariant, PTL

\* What the receiver's owner is given is the next message that was sent, and it
\* stays whole until it is given back, while the thread stores others.
THEOREM ReadWhole == Spec => []ReadIntact
  <1>1. StreamsInv => ReadIntact
    <2>1. SUFFICES ASSUME StreamsInv, held # I!Nothing, iOwner = "idle"
                   PROVE  /\ held.id = got + 1
                          /\ \A b \in I!Bytes(iStart, held) :
                               b < InSize /\ iBuffer[b] = held
      BY DEF ReadIntact
    <2>2. PICK r \in Nat : InInv(r) BY <2>1 DEF StreamsInv
    <2>3. /\ held = iBuffer[iStart] /\ iStart < iEnd /\ got + 1 \in Nat /\ InSize \in Nat
          /\ Ring(iBuffer, InSize, iStart, iEnd, iWrite, got + 1, r)
      BY <2>1, <2>2, RingSizes DEF InInv
    <2>4. /\ Message(iBuffer, iStart, iStart + Span(held), got + 1)
          /\ Span(held) \in Nat
          /\ iStart + Span(held) <= iEnd
      BY <2>3, RingHead
    <2>5. iStart \in Nat /\ iEnd \in Nat /\ iEnd <= InSize BY <2>3 DEF Ring
    <2>6. ASSUME NEW b \in I!Bytes(iStart, held)
          PROVE  b < InSize /\ iBuffer[b] = held
      <3>1. b \in iStart .. iStart + Span(held) - 1
        BY <2>6 DEF I!Bytes, I!Len4, Span
      <3>2. b \in iStart .. (iStart + Span(held)) - 1 BY <2>4, <2>5, <3>1
      <3>. QED BY <2>3, <2>4, <2>5, <3>2 DEF Message
    <2>7. held.id = got + 1 BY <2>3, <2>4 DEF Message
    <2>. QED BY <2>6, <2>7
  <1>. QED BY <1>1, StreamsInvariant, PTL
-----------------------------------------------------------------------------
\* Type correctness.  While a stream is in use its positions follow from the
\* rings; while it is being freed its thread may still take a step.
TypeInv ==
    /\ TypeOK
    /\ wire \in Seq(O!Messages)
    /\ oOwner \in {"waiting", "woken", "fill", "filled"} => oMessage \in O!Messages
    /\ iThread \in {"locked", "waiting", "store", "stored"} => iMessage \in O!Messages
    /\ iThread \in {"store", "stored"} /\ iWrite = iEnd =>
         iEnd + Span(iMessage) <= InSize

LEMMA MessagesAreMsg ==
    /\ O!Messages \subseteq Msg
    /\ O!Nothing \notin Msg
    /\ O!Nothing = I!Nothing
  BY StreamsAssumption DEF O!Messages, Msg, O!Nothing, I!Nothing

\* Where the positions and the messages are, by the rings.
InPlace ==
    /\ oOwner = "joining" => oWrite = -1
    /\ oOwner # "joining" =>
         oStart \in 0 .. OutSize /\ oEnd \in 0 .. OutSize /\ oWrite \in 0 .. OutSize
    /\ iOwner = "idle" =>
         iStart \in 0 .. InSize /\ iEnd \in 0 .. InSize /\ iWrite \in 0 .. InSize
    /\ oThread \in {"sending", "sent"} =>
         /\ oFrom = oStart /\ oFrom \in 0 .. OutSize - 1
         /\ oBuffer[oFrom] \in Msg
         /\ oFrom + Span(oBuffer[oFrom]) \in 0 .. OutSize
    /\ iOwner = "idle" /\ held # I!Nothing =>
         /\ iStart \in 0 .. InSize - 1
         /\ held = iBuffer[iStart] /\ held \in Msg /\ held.id = got + 1

LEMMA Positions == StreamsInv => InPlace
  <1> SUFFICES ASSUME StreamsInv PROVE InPlace OBVIOUS
  <1>1. PICK c \in Nat, r \in Nat : OutInv(c) /\ (iOwner = "idle" => InInv(r))
    BY DEF StreamsInv
  <1>2. OutSize \in Nat /\ InSize \in Nat BY RingSizes
  <1>3. oOwner = "joining" => oWrite = -1 BY <1>1 DEF OutInv
  <1>4. oOwner # "joining" =>
          oStart \in 0 .. OutSize /\ oEnd \in 0 .. OutSize /\ oWrite \in 0 .. OutSize
    <2>1. HAVE oOwner # "joining"
    <2>2. /\ Ring(oBuffer, OutSize, oStart, oEnd, oWrite, Unsent(c), Upcoming)
          /\ Unsent(c) \in Nat /\ Upcoming \in Nat
      BY <1>1, <2>1 DEF OutInv, Filling, Unsent, Upcoming
    <2>3. oStart <= oEnd /\ oWrite <= oEnd BY <1>2, <2>2, RingHead
    <2>4. oStart \in Nat /\ oEnd \in 0 .. OutSize /\ oWrite \in Nat BY <2>2 DEF Ring
    <2>. QED BY <1>2, <2>3, <2>4
  <1>5. iOwner = "idle" =>
          /\ Ring(iBuffer, InSize, iStart, iEnd, iWrite, got + 1, r)
          /\ got + 1 \in Nat
          /\ held # I!Nothing => iStart < iEnd /\ held = iBuffer[iStart]
    BY <1>1 DEF InInv
  <1>6. iOwner = "idle" =>
          iStart \in 0 .. InSize /\ iEnd \in 0 .. InSize /\ iWrite \in 0 .. InSize
    <2>1. HAVE iOwner = "idle"
    <2>2. iStart <= iEnd /\ iWrite <= iEnd BY <1>2, <1>5, <2>1, RingHead
    <2>3. iStart \in Nat /\ iEnd \in 0 .. InSize /\ iWrite \in Nat
      BY <1>5, <2>1 DEF Ring
    <2>. QED BY <1>2, <2>2, <2>3
  <1>7. oThread \in {"sending", "sent"} =>
          /\ oFrom = oStart /\ oFrom \in 0 .. OutSize - 1
          /\ oBuffer[oFrom] \in Msg
          /\ oFrom + Span(oBuffer[oFrom]) \in 0 .. OutSize
    <2>1. HAVE oThread \in {"sending", "sent"}
    <2>2. /\ oFrom = oStart /\ oFrom \in Nat /\ oBuffer[oFrom] \in Msg
          /\ oFrom + Span(oBuffer[oFrom]) <= OutSize
      BY <1>1, <2>1 DEF OutInv, Sending, Message
    <2>3. Span(oBuffer[oFrom]) \in Nat /\ 0 < Span(oBuffer[oFrom])
      BY <2>2, SpanPositive
    <2>. QED BY <1>2, <2>2, <2>3
  <1>8. iOwner = "idle" /\ held # I!Nothing =>
          /\ iStart \in 0 .. InSize - 1
          /\ held = iBuffer[iStart] /\ held \in Msg /\ held.id = got + 1
    <2>1. HAVE iOwner = "idle" /\ held # I!Nothing
    <2>2. Message(iBuffer, iStart, iStart + Span(iBuffer[iStart]), got + 1)
      BY <1>2, <1>5, <2>1, RingHead
    <2>3. held = iBuffer[iStart] /\ iStart < iEnd BY <1>5, <2>1
    <2>. QED BY <1>2, <1>6, <2>1, <2>2, <2>3 DEF Message
  <1>. QED BY <1>3, <1>4, <1>6, <1>7, <1>8 DEF InPlace

LEMMA TypeInit == Init => TypeInv
  <1>1. SUFFICES ASSUME Init PROVE TypeInv OBVIOUS
  <1>2. wire = <<>> /\ wire \in Seq(O!Messages) BY <1>1, EmptySeq DEF Init, O!Init
  <1>3. {OutSize, InSize, MaxMessages} \subseteq Nat BY StreamsAssumption
  <1>4. TypeOK
    BY <1>1, <1>3, MessagesAreMsg DEF Init, O!Init, I!Init, TypeOK, Pc
  <1>. QED BY <1>1, <1>2, <1>4 DEF TypeInv, Init, O!Init, I!Init

\* The sender's steps.
LEMMA TypeSender ==
    ASSUME TypeInv, InPlace, InPlace', O!OutNext, UNCHANGED inVars
    PROVE  TypeInv'
  <1> USE DEF O!range
  <1>0. OutSize \in Nat /\ MaxMessages \in Nat BY StreamsAssumption
  <1>1. /\ oStart' \in 0 .. OutSize
        /\ oEnd' \in -1 .. OutSize
        /\ oWrite' \in -1 .. OutSize
        /\ -1 \in {oEnd', oWrite'} => oOwner' = "joining"
    <2>1. CASE oOwner' # "joining"
      <3>1. oStart' \in 0 .. OutSize /\ oEnd' \in 0 .. OutSize /\ oWrite' \in 0 .. OutSize
        BY <2>1 DEF InPlace
      <3>. QED BY <1>0, <3>1
    <2>2. CASE oOwner' = "joining"
      <3>1. oWrite' = -1 BY <2>2 DEF InPlace
      <3>2. oStart' \in 0 .. OutSize /\ oEnd' \in -1 .. OutSize
        <4>1. CASE O!ReleaseBytes
          <5>1. /\ oThread = "sent"
                /\ \/ oStart' = 0 /\ oEnd' = oWrite
                   \/ oStart' = oStart + Span(oBuffer[oFrom]) /\ oEnd' = oEnd
            BY <4>1 DEF O!ReleaseBytes, O!Len4, Span
          <5>2. oFrom = oStart /\ oFrom + Span(oBuffer[oFrom]) \in 0 .. OutSize
            BY <5>1 DEF InPlace
          <5>3. oEnd \in -1 .. OutSize /\ oWrite \in -1 .. OutSize
            BY DEF TypeInv, TypeOK
          <5>. QED BY <1>0, <5>1, <5>2, <5>3
        <4>2. CASE ~O!ReleaseBytes
          <5>1. oStart' = oStart /\ oEnd' = oEnd
            BY <2>2, <4>2 DEF O!OutNext, O!OwnerStep, O!SpuriousWake, O!netOutStreamWriter,
               O!netOutStreamBuffer, O!ResumeBuffer, O!FillBuffer, O!netOutStreamSend,
               O!TakeMessage, O!SendBytes, O!SendFails, O!netOutStreamOnFree, O!Reserve
          <5>. QED BY <5>1 DEF TypeInv, TypeOK
        <4>. QED BY <4>1, <4>2
      <3>. QED BY <1>0, <2>2, <3>1, <3>2
    <2>. QED BY <2>1, <2>2
  <1>2. /\ oOwner' \in {"idle", "waiting", "woken", "fill", "filled", "joining"}
        /\ oMessage' \in O!Messages \cup {O!Nothing}
        /\ oOwner' \in {"waiting", "woken", "fill", "filled"} => oMessage' \in O!Messages
    <2>1. ASSUME NEW s \in Sizes, O!netOutStreamBuffer(s)
          PROVE  oMessage' \in O!Messages /\ oOwner' \in {"waiting", "fill"}
      <3>1. oMessage.id \in Nat /\ oMessage.id < MaxMessages
        BY <2>1, StreamsAssumption
        DEF TypeInv, TypeOK, O!netOutStreamBuffer, O!Messages, O!Nothing
      <3>2. oMessage' = [id |-> oMessage.id + 1, size |-> s]
        BY <2>1 DEF O!netOutStreamBuffer
      <3>3. oMessage' \in O!Messages BY <1>0, <3>1, <3>2 DEF O!Messages
      <3>4. oOwner' \in {"waiting", "fill"} BY <2>1 DEF O!netOutStreamBuffer, O!Reserve
      <3>. QED BY <3>3, <3>4
    <2>2. ASSUME ~\E s \in Sizes : O!netOutStreamBuffer(s)
          PROVE  /\ oMessage' = oMessage
                 /\ oOwner' \in {"idle", "joining", "waiting", "woken", "fill", "filled"}
                 /\ oOwner' \in {"waiting", "woken", "fill", "filled"} =>
                      oOwner \in {"waiting", "woken", "fill", "filled"}
      <3>1. oOwner \in {"idle", "joining", "waiting", "woken", "fill", "filled"}
        BY DEF TypeInv, TypeOK
      <3>. QED BY <2>2, <3>1 DEF O!OutNext, O!OwnerStep, O!SpuriousWake,
        O!netOutStreamWriter,
           O!ResumeBuffer, O!FillBuffer, O!netOutStreamSend, O!TakeMessage, O!SendBytes,
           O!SendFails, O!ReleaseBytes, O!netOutStreamOnFree, O!Reserve
    <2>3. CASE \E s \in Sizes : O!netOutStreamBuffer(s) BY <2>1, <2>3
    <2>4. CASE ~\E s \in Sizes : O!netOutStreamBuffer(s)
      BY <2>2, <2>4 DEF TypeInv, TypeOK
    <2>. QED BY <2>3, <2>4
  <1>3. oBuffer' \in [0 .. OutSize - 1 -> O!Messages \cup {O!Nothing}]
    <2>1. CASE O!FillBuffer BY <2>1 DEF O!FillBuffer, TypeInv, TypeOK
    <2>2. CASE ~O!FillBuffer
      <3>1. oBuffer' = oBuffer
        BY <2>2 DEF O!OutNext, O!OwnerStep, O!SpuriousWake, O!netOutStreamWriter,
          O!netOutStreamBuffer,
           O!ResumeBuffer, O!netOutStreamSend, O!TakeMessage, O!SendBytes, O!SendFails,
           O!ReleaseBytes, O!netOutStreamOnFree
      <3>. QED BY <3>1 DEF TypeInv, TypeOK
    <2>. QED BY <2>1, <2>2
  <1>4. oThread' \in Pc({"sending", "sent"})
    BY DEF TypeInv, TypeOK, Pc, O!OutNext, O!OwnerStep, O!SpuriousWake,
      O!netOutStreamWriter,
       O!netOutStreamBuffer, O!ResumeBuffer, O!FillBuffer, O!netOutStreamSend,
       O!TakeMessage, O!SendBytes, O!SendFails, O!ReleaseBytes, O!netOutStreamOnFree,
       O!WakeWriter
  <1>5. wire' \in Seq(O!Messages)
    <2>1. CASE O!SendBytes
      <3>1. oThread = "sending" /\ wire' = Append(wire, oBuffer[oFrom])
        BY <2>1 DEF O!SendBytes
      <3>2. oBuffer[oFrom] \in Msg /\ oFrom \in 0 .. OutSize - 1 BY <3>1 DEF InPlace
      <3>3. oBuffer[oFrom] \in O!Messages
        BY <3>2, MessagesAreMsg DEF TypeInv, TypeOK
      <3>. QED BY <3>1, <3>3, AppendProperties DEF TypeInv
    <2>2. CASE ~O!SendBytes
      <3>1. wire' = wire
        BY <2>2 DEF O!OutNext, O!OwnerStep, O!SpuriousWake, O!netOutStreamWriter,
          O!netOutStreamBuffer,
           O!ResumeBuffer, O!FillBuffer, O!netOutStreamSend, O!TakeMessage, O!SendFails,
           O!ReleaseBytes, O!netOutStreamOnFree
      <3>. QED BY <3>1 DEF TypeInv
    <2>. QED BY <2>1, <2>2
  <1>. QED BY <1>1, <1>2, <1>3, <1>4, <1>5 DEF TypeInv, TypeOK, inVars

\* The receiver's.
LEMMA TypeReceiver ==
    ASSUME TypeInv, InPlace, InPlace', StreamsInv', I!InNext, UNCHANGED outVars
    PROVE  TypeInv'
  <1> USE DEF I!range
  <1>0. InSize \in Nat /\ MaxMessages \in Nat BY StreamsAssumption
  <1>1. /\ iOwner' \in {"idle", "joining"}
        /\ iOwner' = "idle" => iOwner = "idle"
        /\ iThread' \in Pc({"receive", "store", "stored"})
    BY DEF TypeInv, TypeOK, Pc, I!InNext, I!SpuriousWake, I!netInStreamReader,
      I!ReceiveSize, I!FindSpace,
       I!StoreBytes, I!ReceiveFails, I!Publish, I!netInStreamRead, I!netInStreamDoneRead,
       I!netInStreamOnFree, I!WakeReader
  <1>2. /\ wire' \in Seq(O!Messages)
        /\ iThread' \in {"locked", "waiting", "store", "stored"} => iMessage' \in O!Messages
    <2>1. wire \in Seq(O!Messages) BY DEF TypeInv
    <2>2. CASE I!ReceiveSize
      <3>1. wire' = wire /\ wire # <<>> /\ iMessage' = Head(wire) BY <2>2 DEF I!ReceiveSize
      <3>. QED BY <2>1, <3>1, HeadTailProperties
    <2>3. CASE I!StoreBytes
      <3>1. /\ wire' = Tail(wire) /\ wire # <<>> /\ iMessage' = iMessage
            /\ iThread = "store"
        BY <2>3 DEF I!StoreBytes
      <3>. QED BY <2>1, <3>1, HeadTailProperties DEF TypeInv
    <2>4. CASE I!FindSpace \/ I!ReceiveFails \/ I!Publish \/ I!netInStreamRead
               \/ I!netInStreamDoneRead \/ I!netInStreamOnFree \/ I!SpuriousWake
      <3>1. /\ wire' = wire
            /\ iThread' \in {"locked", "waiting", "store", "stored"} =>
                 /\ iThread \in {"locked", "waiting", "store", "stored"}
                 /\ iMessage' = iMessage
        BY <2>4 DEF I!FindSpace, I!SpuriousWake, I!ReceiveFails, I!Publish,
          I!netInStreamRead,
           I!netInStreamDoneRead, I!netInStreamOnFree, I!WakeReader
      <3>. QED BY <2>1, <3>1 DEF TypeInv
    <2>. QED BY <2>2, <2>3, <2>4 DEF I!InNext, I!netInStreamReader
  <1>3. iBuffer' \in [0 .. InSize - 1 -> O!Messages \cup {O!Nothing}]
    <2>1. CASE I!StoreBytes BY <2>1 DEF I!StoreBytes, TypeInv, TypeOK
    <2>2. CASE ~I!StoreBytes
      <3>1. iBuffer' = iBuffer
        BY <2>2 DEF I!InNext, I!SpuriousWake, I!netInStreamReader, I!ReceiveSize,
          I!FindSpace,
           I!ReceiveFails, I!Publish, I!netInStreamRead, I!netInStreamDoneRead,
           I!netInStreamOnFree
      <3>. QED BY <3>1 DEF TypeInv, TypeOK
    <2>. QED BY <2>1, <2>2
  <1>4. /\ iStart' \in 0 .. InSize /\ iEnd' \in 0 .. InSize
        /\ iOwner' = "idle" => iWrite' \in 0 .. InSize
    <2>1. CASE iOwner' = "idle" BY <2>1 DEF InPlace
    <2>2. CASE iOwner' # "idle"
      <3>1. iStart \in 0 .. InSize /\ iEnd \in 0 .. InSize BY DEF TypeInv, TypeOK
      <3>2. CASE I!Publish
        <4>1. /\ iThread = "stored" /\ iStart' = iStart
              /\ iEnd' = IF iWrite = iEnd THEN iEnd + Span(iMessage) ELSE iEnd
          BY <3>2 DEF I!Publish, I!Len4, Span
        <4>2. /\ iWrite = iEnd => iEnd + Span(iMessage) <= InSize
              /\ Span(iMessage) \in Nat
          BY <4>1, SpanPositive, MessagesAreMsg DEF TypeInv
        <4>. QED BY <1>0, <2>2, <3>1, <4>1, <4>2
      <3>3. CASE ~I!Publish
        <4>1. iStart' = iStart /\ iEnd' = iEnd
          BY <2>2, <3>3 DEF I!InNext, I!SpuriousWake, I!netInStreamReader, I!ReceiveSize,
            I!FindSpace,
             I!StoreBytes, I!ReceiveFails, I!netInStreamRead, I!netInStreamDoneRead,
             I!netInStreamOnFree
        <4>. QED BY <2>2, <3>1, <4>1
      <3>. QED BY <3>2, <3>3
    <2>. QED BY <2>1, <2>2
  <1>5. got' \in 0 .. MaxMessages
    <2>1. CASE I!netInStreamDoneRead
      <3>1. iOwner = "idle" /\ held # I!Nothing /\ got' = got + 1
        BY <2>1 DEF I!netInStreamDoneRead
      <3>2. /\ iStart \in 0 .. InSize - 1 /\ held = iBuffer[iStart]
            /\ held \in Msg /\ held.id = got + 1
        BY <3>1 DEF InPlace
      <3>3. held \in O!Messages BY <3>2, MessagesAreMsg DEF TypeInv, TypeOK
      <3>4. held.id \in 1 .. MaxMessages BY <3>3 DEF O!Messages
      <3>. QED BY <1>0, <3>1, <3>2, <3>4
    <2>2. CASE ~I!netInStreamDoneRead
      <3>1. got' = got
        BY <2>2 DEF I!InNext, I!SpuriousWake, I!netInStreamReader, I!ReceiveSize,
          I!FindSpace,
           I!StoreBytes, I!ReceiveFails, I!Publish, I!netInStreamRead, I!netInStreamOnFree
      <3>. QED BY <3>1 DEF TypeInv, TypeOK
    <2>. QED BY <2>1, <2>2
  <1>6. iThread' \in {"store", "stored"} /\ iWrite' = iEnd' =>
          iEnd' + Span(iMessage') <= InSize
    <2>1. iEnd \in 0 .. InSize BY DEF TypeInv, TypeOK
    <2>2. CASE I!FindSpace
      <3>1. HAVE iThread' \in {"store", "stored"} /\ iWrite' = iEnd'
      <3>2. /\ iThread = "locked" /\ iEnd' = iEnd /\ iMessage' = iMessage
            /\ iWrite' = IF I!Wraps THEN 0 ELSE iWrite
        BY <2>2, <3>1 DEF I!FindSpace
      <3>3. iMessage \in Msg BY <3>2, MessagesAreMsg DEF TypeInv
      <3>4. Span(iMessage) \in Nat /\ Span(iMessage) <= InSize
        BY <3>3, SpanPositive, RingSizes
      <3>5. CASE I!Wraps BY <1>0, <3>1, <3>2, <3>4, <3>5
      <3>6. CASE ~I!Wraps
        BY <1>0, <2>1, <3>1, <3>2, <3>4, <3>6 DEF I!Wraps, I!Len4, Span
      <3>. QED BY <3>5, <3>6
    <2>3. CASE \/ I!netInStreamOnFree \/ I!ReceiveSize \/ I!ReceiveFails \/ I!Publish
               \/ I!SpuriousWake
      <3>1. \/ iThread' \notin {"store", "stored"}
            \/ iWrite' = -1 /\ iEnd' = iEnd
        BY <2>3 DEF I!netInStreamOnFree, I!ReceiveSize, I!ReceiveFails, I!Publish,
           I!SpuriousWake
      <3>. QED BY <2>1, <3>1
    <2>4. CASE I!StoreBytes
      <3>1. /\ iThread = "store"
            /\ UNCHANGED <<iWrite, iEnd, iMessage>>
        BY <2>4 DEF I!StoreBytes
      <3>. QED BY <3>1 DEF TypeInv
    <2>5. CASE I!netInStreamRead \/ I!netInStreamDoneRead
      <3>1. iOwner' = "idle"
        BY <2>5 DEF I!netInStreamRead, I!netInStreamDoneRead
      <3>2. iThread' \in {"store", "stored"} /\ iWrite' = iEnd' =>
              iEnd' + Span(iMessage') <= InSize
        <4>1. PICK r \in Nat : InInv(r)'
          BY <3>1 DEF StreamsInv
        <4>. QED BY <4>1 DEF InInv, Room
      <3>. QED BY <3>2
    <2>. QED BY <2>2, <2>3, <2>4, <2>5 DEF I!InNext, I!netInStreamReader
  <1>. QED BY <1>1, <1>2, <1>3, <1>4, <1>5, <1>6 DEF TypeInv, TypeOK, outVars

LEMMA TypeConnection ==
    ASSUME TypeInv, Break \/ Close
    PROVE  TypeInv'
  <1>1. UNCHANGED outVars /\ UNCHANGED inVars BY DEF Break, Close
  <1>2. wire' \in Seq(O!Messages)
    <2>1. wire \in Seq(O!Messages) /\ Len(wire) \in Nat BY LenProperties DEF TypeInv
    <2>2. CASE Break
      <3>1. PICK n \in 0 .. Len(wire) : wire' = SubSeq(wire, 1, n) BY <2>2 DEF Break
      <3>. QED BY <2>1, <3>1
    <2>3. CASE Close BY <2>1, <2>3 DEF Close
    <2>. QED BY <2>2, <2>3
  <1>. QED BY <1>1, <1>2 DEF TypeInv, TypeOK, outVars, inVars

\* Type correctness: the positions are in their rings, in use and while a
\* stream is being freed, and only messages are ever on the connection.
THEOREM StreamsTyping == Spec => []TypeOK
  <1>1. TypeInv /\ InPlace /\ InPlace' /\ StreamsInv' /\ [Next]_vars => TypeInv'
    <2>1. SUFFICES ASSUME TypeInv, InPlace, InPlace', StreamsInv', [Next]_vars
                   PROVE  TypeInv'
      OBVIOUS
    <2>2. CASE O!OutNext /\ UNCHANGED inVars BY <2>1, <2>2, TypeSender
    <2>3. CASE I!InNext /\ UNCHANGED outVars BY <2>1, <2>3, TypeReceiver
    <2>4. CASE Break \/ Close BY <2>1, <2>4, TypeConnection
    <2>5. CASE UNCHANGED vars
      BY <2>1, <2>5 DEF TypeInv, TypeOK, vars, outVars, inVars
    <2>. QED BY <2>1, <2>2, <2>3, <2>4, <2>5 DEF Next
  <1>2. TypeInv => TypeOK BY DEF TypeInv
  <1>. QED BY <1>1, <1>2, Positions, TypeInit, StreamsInvariant, PTL DEF Spec
=============================================================================
