---------------------------- MODULE NetInStream -----------------------------
(***************************************************************************)
(* The receiving end of a network stream, netInStream.c: a thread of the   *)
(* stream (netInStreamReader) stores the messages of the connection in a   *)
(* ring of bytes, and the owner looks at the first one (netInStreamRead)   *)
(* and gives its bytes back (netInStreamDoneRead).  The owner may read     *)
(* [nBuffStart, nBuffEnd).  When a message does not fit behind nBuffEnd    *)
(* the thread wraps to 0, and the owner moves the range to [0, nBuffWrite) *)
(* once it has read the rest.                                              *)
(***************************************************************************)
EXTENDS Integers, Sequences

CONSTANTS InSize,       \* in_buffSize
          Header,       \* sizeof(int)
          MaxMessages   \* bound: messages of a run

VARIABLES nBuffStart, nBuffEnd, nBuffWrite,
          r_buffer,  \* the message each byte belongs to
          thread,    \* where netInStreamReader is
          msg,       \* the message it receives
          held,      \* the message the owner has been given, or Nothing
          got,       \* how many the owner is done with
          owner,     \* where the owner is
          wire, up

range == <<nBuffStart, nBuffEnd, nBuffWrite>>
inVars == <<nBuffStart, nBuffEnd, nBuffWrite, r_buffer, thread, msg, held, got, owner>>

Nothing == [id |-> 0, size |-> 0]
Len4(x) == x.size + Header
Bytes(at, x) == at .. at + Len4(x) - 1
-----------------------------------------------------------------------------
\* netInStreamCreate.
Init ==
    /\ nBuffStart = 0 /\ nBuffEnd = 0 /\ nBuffWrite = 0
    /\ r_buffer = [b \in 0 .. InSize - 1 |-> Nothing]
    /\ thread = "receive"
    /\ msg = Nothing
    /\ held = Nothing
    /\ got = 0
    /\ owner = "idle"
    /\ wire = <<>>
    /\ up = TRUE

\* netInStreamReader.  A call of netClientGetBinary that times out is retried; on
\* a connection that was closed it returns 0 as well, and the thread asks again for ever.
ReceiveSize ==
    /\ thread = "receive"
    /\ wire # <<>>
    /\ msg' = Head(wire)
    /\ thread' = "locked"
    /\ UNCHANGED <<range, r_buffer, held, got, owner, wire, up>>

\* (mutant: the header is left out)
MustWaitShort(w) == w < nBuffEnd /\ w + msg.size > nBuffStart

\* With the lock: the message must fit in front of what is unread.
MustWait(w) == w < nBuffEnd /\ w + Len4(msg) >= nBuffStart

Wraps == nBuffWrite = nBuffEnd /\ nBuffWrite + Len4(msg) > InSize

FindSpace ==
    /\ thread = "locked"
    /\ IF nBuffWrite = -1
       THEN thread' = "ended" /\ UNCHANGED nBuffWrite
       ELSE LET w == IF Wraps THEN 0 ELSE nBuffWrite
            IN nBuffWrite' = w /\ thread' = IF MustWait(w) THEN "waiting" ELSE "store"
    /\ UNCHANGED <<nBuffStart, nBuffEnd, r_buffer, msg, held, got, owner, wire, up>>

\* Without it: the size and the data go where nBuffWrite points.
StoreBytes ==
    /\ thread = "store"
    /\ wire # <<>>
    /\ r_buffer' = [b \in DOMAIN r_buffer |->
                      IF b \in Bytes(nBuffWrite, msg) THEN msg ELSE r_buffer[b]]
    /\ wire' = Tail(wire)
    /\ thread' = "stored"
    /\ UNCHANGED <<range, msg, held, got, owner, up>>

\* Or the connection ended in the middle of a message, or with an error:
\* netClientGetBinary raises, which ends the thread (x_catch).
ReceiveFails ==
    /\ thread \in {"receive", "store"}
    /\ ~up
    /\ thread' = "failed"
    /\ UNCHANGED <<range, r_buffer, msg, held, got, owner, wire, up>>

Publish ==
    /\ thread = "stored"
    /\ nBuffEnd' = IF nBuffWrite = nBuffEnd THEN nBuffEnd + Len4(msg) ELSE nBuffEnd
    /\ nBuffWrite' = nBuffWrite + Len4(msg)
    /\ thread' = "receive"
    /\ msg' = Nothing
    /\ UNCHANGED <<nBuffStart, r_buffer, held, got, owner, wire, up>>

netInStreamReader == ReceiveSize \/ FindSpace \/ StoreBytes \/ Publish
-----------------------------------------------------------------------------
\* (mutant: the thread is not woken)
WakeLost == thread

WakeReader == IF thread = "waiting" THEN "locked" ELSE thread

\* The range follows the thread to the front.
Loops == nBuffStart = nBuffEnd /\ nBuffWrite < nBuffEnd

netInStreamRead ==
    /\ owner = "idle"
    /\ held = Nothing
    /\ LET s == IF Loops THEN 0 ELSE nBuffStart
           e == IF Loops THEN nBuffWrite ELSE nBuffEnd
       IN /\ nBuffStart' = s
          /\ nBuffEnd' = e
          /\ held' = IF s < e THEN r_buffer[s] ELSE Nothing
    /\ UNCHANGED <<nBuffWrite, r_buffer, thread, msg, got, owner, wire, up>>

netInStreamDoneRead ==
    /\ owner = "idle"
    /\ held # Nothing
    /\ nBuffStart' = nBuffStart + Len4(r_buffer[nBuffStart])
    /\ thread' = WakeReader
    /\ held' = Nothing
    /\ got' = got + 1
    /\ UNCHANGED <<nBuffEnd, nBuffWrite, r_buffer, msg, owner, wire, up>>

\* netInStreamOnFree, up to the join.  A thread that is between its two locks
\* adds to the -1, and does not see it.
netInStreamOnFree ==
    /\ owner = "idle"
    /\ nBuffWrite' = -1
    /\ thread' = WakeReader
    /\ owner' = "joining"
    /\ UNCHANGED <<nBuffStart, nBuffEnd, r_buffer, msg, held, got, wire, up>>

\* cond_wait returns without a signal.
SpuriousWake ==
    /\ thread = "waiting"
    /\ thread' = "locked"
    /\ UNCHANGED <<range, r_buffer, msg, held, got, owner, wire, up>>

InNext ==
    \/ netInStreamReader
    \/ ReceiveFails
    \/ SpuriousWake
    \/ netInStreamRead
    \/ netInStreamDoneRead
    \/ netInStreamOnFree
=============================================================================
