---------------------------- MODULE NetOutStream ----------------------------
(***************************************************************************)
(* The sending end of a network stream, netOutStream.c: a ring of bytes    *)
(* that the owner fills one message at a time (netOutStreamBuffer, then    *)
(* netOutStreamSend) and that a thread of the stream (netOutStreamWriter)  *)
(* sends.  The bytes [nBuffStart, nBuffEnd) are ready to be sent.  When a  *)
(* message does not fit behind nBuffEnd the owner wraps: nBuffWrite        *)
(* returns to 0, and what it writes there is not part of the range until   *)
(* the thread has sent the rest and moves the range to [0, nBuffWrite).    *)
(*                                                                         *)
(* A message is a number and a size; it fills Header bytes, which hold its *)
(* size, and the bytes after them.  wire is the connection, in the order   *)
(* of its bytes.  up tells whether it still works.                         *)
(***************************************************************************)
EXTENDS Integers, Sequences

CONSTANTS OutSize,      \* in_buffSize
          Sizes,        \* the sizes the owner asks for
          Header,       \* sizeof(int)
          MaxMessages,  \* bound: messages of a run
          MaxWire       \* bound: messages the connection buffers

VARIABLES nBuffStart, nBuffEnd, nBuffWrite,
          r_buffer,   \* the message each byte belongs to
          thread,     \* where netOutStreamWriter is
          writeStart, \* its local
          owner,      \* where the owner is
          m,          \* the message the owner works on
          wire, up

range == <<nBuffStart, nBuffEnd, nBuffWrite>>
outVars == <<nBuffStart, nBuffEnd, nBuffWrite, r_buffer, thread, writeStart, owner, m>>

Nothing == [id |-> 0, size |-> 0]
Messages == [id : 1 .. MaxMessages, size : Sizes]
Len4(msg) == msg.size + Header
Bytes(at, msg) == at .. at + Len4(msg) - 1
-----------------------------------------------------------------------------
\* netOutStreamCreate.
Init ==
    /\ nBuffStart = 0 /\ nBuffEnd = 0 /\ nBuffWrite = 0
    /\ r_buffer = [b \in 0 .. OutSize - 1 |-> Nothing]
    /\ thread = "locked"
    /\ writeStart = 0
    /\ owner = "idle"
    /\ m = Nothing
    /\ wire = <<>>
    /\ up = TRUE

\* netOutStreamBuffer, up to where it may have to wait.
Drained == nBuffEnd = nBuffStart

Wraps(len) == nBuffWrite = nBuffEnd /\ nBuffEnd + len > OutSize

\* (mutant: the header is left out)
MustWaitShort(len, s, e, w) == w + len - Header > s /\ (s # 0 \/ e # 0)

MustWait(len, s, e, w) == w + len >= s /\ (s # 0 \/ e # 0)

Reserve(len, w, next) ==
    IF w # nBuffEnd \/ next = "waiting"
    THEN LET reset == Drained
             s == IF reset THEN 0 ELSE nBuffStart
             e == IF reset THEN 0 ELSE nBuffEnd
             p == IF reset THEN 0 ELSE w
         IN /\ nBuffStart' = s /\ nBuffEnd' = e /\ nBuffWrite' = p
            /\ owner' = IF MustWait(len, s, e, p) THEN "waiting" ELSE "fill"
    ELSE nBuffWrite' = w /\ owner' = "fill" /\ UNCHANGED <<nBuffStart, nBuffEnd>>

netOutStreamBuffer(size) ==
    /\ owner = "idle"
    /\ m.id < MaxMessages
    /\ m' = [id |-> m.id + 1, size |-> size]
    /\ Reserve(size + Header, IF Wraps(size + Header) THEN 0 ELSE nBuffWrite, "first")
    /\ UNCHANGED <<r_buffer, thread, writeStart, wire, up>>

\* The wait for r_writeCond returns after a message has been sent.
ResumeBuffer ==
    /\ owner = "woken"
    /\ Reserve(Len4(m), nBuffWrite, "waiting")
    /\ UNCHANGED <<r_buffer, thread, writeStart, m, wire, up>>

\* The size is stored, and the owner fills the bytes: no lock is held.
FillBuffer ==
    /\ owner = "fill"
    /\ r_buffer' = [b \in DOMAIN r_buffer |->
                      IF b \in Bytes(nBuffWrite, m) THEN m ELSE r_buffer[b]]
    /\ owner' = "filled"
    /\ UNCHANGED <<range, thread, writeStart, m, wire, up>>

\* (mutant: r_cond is not signalled)
WriterSleeps == thread

WakeWriter == IF thread = "waiting" THEN "locked" ELSE thread

netOutStreamSend ==
    /\ owner = "filled"
    /\ LET len == Len4(r_buffer[nBuffWrite])
       IN /\ nBuffEnd' = IF nBuffEnd = nBuffWrite THEN nBuffEnd + len ELSE nBuffEnd
          /\ nBuffWrite' = nBuffWrite + len
    /\ thread' = WakeWriter
    /\ owner' = "idle"
    /\ UNCHANGED <<nBuffStart, r_buffer, writeStart, m, wire, up>>
-----------------------------------------------------------------------------
\* netOutStreamWriter.  With the lock: wait for a message or take the next one.
TakeMessage ==
    /\ thread = "locked"
    /\ thread' = IF nBuffWrite = -1 THEN "ended"
                 ELSE IF Drained THEN "waiting" ELSE "sending"
    /\ writeStart' = IF thread' = "sending" THEN nBuffStart ELSE writeStart
    /\ UNCHANGED <<range, r_buffer, owner, m, wire, up>>

\* Without it: send the bytes the header at writeStart announces.
SendBytes ==
    /\ thread = "sending"
    /\ up
    /\ Len(wire) < MaxWire
    /\ wire' = Append(wire, r_buffer[writeStart])
    /\ thread' = "sent"
    /\ UNCHANGED <<range, r_buffer, writeStart, owner, m, up>>

\* netClientSendBinary raises an error, which ends the thread (x_catch).
SendFails ==
    /\ thread = "sending"
    /\ ~up
    /\ thread' = "failed"
    /\ UNCHANGED <<range, r_buffer, writeStart, owner, m, wire, up>>

\* With the lock again: the bytes are free, and the range may wrap.
Wrapped(s) == s = nBuffEnd /\ nBuffWrite # s

ReleaseBytes ==
    /\ thread = "sent"
    /\ LET s == nBuffStart + Len4(r_buffer[writeStart])
       IN IF Wrapped(s)
          THEN nBuffStart' = 0 /\ nBuffEnd' = nBuffWrite
          ELSE nBuffStart' = s /\ UNCHANGED nBuffEnd
    /\ owner' = IF owner = "waiting" THEN "woken" ELSE owner
    /\ thread' = "locked"
    /\ UNCHANGED <<nBuffWrite, r_buffer, writeStart, m, wire, up>>

netOutStreamWriter == TakeMessage \/ SendBytes \/ SendFails \/ ReleaseBytes

\* netOutStreamOnFree, up to the join.
netOutStreamOnFree ==
    /\ owner = "idle"
    /\ nBuffWrite' = -1
    /\ thread' = WakeWriter
    /\ owner' = "joining"
    /\ UNCHANGED <<nBuffStart, nBuffEnd, r_buffer, writeStart, m, wire, up>>

\* cond_wait returns without a signal, in the thread or in the owner.
SpuriousWake ==
    /\ \/ thread = "waiting" /\ thread' = "locked" /\ UNCHANGED owner
       \/ owner = "waiting" /\ owner' = "woken" /\ UNCHANGED thread
    /\ UNCHANGED <<range, r_buffer, writeStart, m, wire, up>>

OwnerStep ==
    \/ \E s \in Sizes : netOutStreamBuffer(s)
    \/ ResumeBuffer
    \/ FillBuffer
    \/ netOutStreamSend

OutNext == OwnerStep \/ netOutStreamWriter \/ SpuriousWake \/ netOutStreamOnFree
=============================================================================
