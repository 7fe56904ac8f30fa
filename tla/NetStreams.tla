----------------------------- MODULE NetStreams -----------------------------
(***************************************************************************)
(* Two programs joined by a connection: one end sends through a            *)
(* NetOutStream, the other receives through a NetInStream.  The connection *)
(* keeps the order of the bytes, and may break; what was on its way and    *)
(* has not arrived is then lost.                                           *)
(***************************************************************************)
EXTENDS Integers, Sequences

CONSTANTS OutSize, InSize, Sizes, Header, MaxMessages, MaxWire

VARIABLES oStart, oEnd, oWrite, oBuffer, oThread, oFrom, oOwner, oMessage,
          iStart, iEnd, iWrite, iBuffer, iThread, iMessage, held, got, iOwner,
          wire, up

O == INSTANCE NetOutStream WITH
        nBuffStart <- oStart, nBuffEnd <- oEnd, nBuffWrite <- oWrite, r_buffer <- oBuffer,
        thread <- oThread, writeStart <- oFrom, owner <- oOwner, m <- oMessage

I == INSTANCE NetInStream WITH
        nBuffStart <- iStart, nBuffEnd <- iEnd, nBuffWrite <- iWrite, r_buffer <- iBuffer,
        thread <- iThread, msg <- iMessage, owner <- iOwner

outVars == <<oStart, oEnd, oWrite, oBuffer, oThread, oFrom, oOwner, oMessage>>
inVars == <<iStart, iEnd, iWrite, iBuffer, iThread, iMessage, held, got, iOwner>>
vars == <<outVars, inVars, wire, up>>

\* Every message fits the sender's ring, as netOutStreamBuffer asserts.  The
\* receiver's ring holds two of the largest messages, which netInStreamCreate
\* does not ask for: with less, a message that has to wrap can wait for bytes
\* in front of itself that are free, and that nobody tells it of.
ASSUME StreamsAssumption ==
    /\ Header \in Nat \ {0}
    /\ Sizes \subseteq Nat \ {0}
    /\ {OutSize, InSize, MaxMessages, MaxWire} \subseteq Nat
    /\ \A s \in Sizes : OutSize > s + Header /\ InSize >= 2 * (s + Header)
-----------------------------------------------------------------------------
Init == O!Init /\ I!Init

\* The network between the two, which no code of the repository controls.
Break ==
    /\ up
    /\ up' = FALSE
    /\ \E n \in 0 .. Len(wire) : wire' = SubSeq(wire, 1, n)
    /\ UNCHANGED <<outVars, inVars>>

\* A stream closes its end of the connection when it has joined its thread.
Close ==
    /\ up
    /\ \/ oOwner = "joining" /\ oThread = "ended" /\ wire = <<>>
       \/ iOwner = "joining" /\ iThread = "ended"
    /\ up' = FALSE
    /\ UNCHANGED <<outVars, inVars, wire>>

Next ==
    \/ O!OutNext /\ UNCHANGED inVars
    \/ I!InNext /\ UNCHANGED outVars
    \/ Break
    \/ Close

\* The threads run, a program that has begun a message finishes it, and the
\* receiving one goes on reading.
Fairness ==
    /\ WF_vars(O!netOutStreamWriter /\ UNCHANGED inVars)
    /\ WF_vars((O!ResumeBuffer \/ O!FillBuffer \/ O!netOutStreamSend) /\ UNCHANGED inVars)
    /\ WF_vars(I!netInStreamReader /\ UNCHANGED outVars)
    /\ WF_vars(I!netInStreamRead /\ UNCHANGED outVars)
    /\ WF_vars(I!netInStreamDoneRead /\ UNCHANGED outVars)
    /\ WF_vars(Close)

Spec == Init /\ [][Next]_vars /\ Fairness
-----------------------------------------------------------------------------
Pc(S) == S \cup {"waiting", "locked", "failed", "ended"}

\* Every position is inside its ring, until the stream is being freed: -1 marks
\* that, and a reader between its two locks then counts on from -1 (past the
\* ring, as long as its nBuffWrite does not meet nBuffEnd again).
TypeOK ==
    /\ oStart \in 0 .. OutSize /\ oEnd \in -1 .. OutSize /\ oWrite \in -1 .. OutSize
    /\ iStart \in 0 .. InSize /\ iEnd \in 0 .. InSize
    /\ iOwner = "idle" => iWrite \in 0 .. InSize
    /\ -1 \in {oEnd, oWrite} => oOwner = "joining"
    /\ oBuffer \in [0 .. OutSize - 1 -> O!Messages \cup {O!Nothing}]
    /\ iBuffer \in [0 .. InSize - 1 -> O!Messages \cup {O!Nothing}]
    /\ oThread \in Pc({"sending", "sent"})
    /\ iThread \in Pc({"receive", "store", "stored"})
    /\ oOwner \in {"idle", "waiting", "woken", "fill", "filled", "joining"}
    /\ iOwner \in {"idle", "joining"}
    /\ oMessage \in O!Messages \cup {O!Nothing}
    /\ got \in 0 .. MaxMessages

\* While the thread sends a message the owner fills the next ones without a
\* lock: every byte the thread is about to send belongs to the message whose
\* size it has read, and none has been overwritten.
SentIntact ==
    oThread = "sending" =>
      /\ oBuffer[oFrom] # O!Nothing
      /\ \A b \in O!Bytes(oFrom, oBuffer[oFrom]) :
           b < OutSize /\ oBuffer[b] = oBuffer[oFrom]

\* What netInStreamRead returns is the next message that was sent, whole, and
\* it stays so until netInStreamDoneRead, while the thread stores others.
ReadIntact ==
    held # I!Nothing /\ iOwner = "idle" =>
      /\ held.id = got + 1
      /\ \A b \in I!Bytes(iStart, held) : b < InSize /\ iBuffer[b] = held

\* Every message that is sent is read, unless the connection breaks or a
\* stream is freed: neither end waits for bytes that are free, and no signal
\* is lost.
Delivered ==
    \A n \in 1 .. MaxMessages :
        (oMessage.id = n) ~>
          (got >= n \/ ~up \/ iOwner = "joining" \/ oOwner = "joining")

\* netOutStreamOnFree joins its thread: it does not wait for ever, as long as
\* the other end keeps its stream (a reader that misses the -1 of its own
\* netInStreamOnFree neither reads on nor closes the connection).
FreeReturns ==
    (oOwner = "joining") ~> (oThread \in {"ended", "failed"} \/ iOwner = "joining")
=============================================================================
