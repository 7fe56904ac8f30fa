----------------------------- MODULE FieldClient ----------------------------
(***************************************************************************)
(* The sending end of a field, field_client.c: a program offers frames     *)
(* (fieldClientSend, or fieldClientLock, drawing into the field, and       *)
(* fieldClientUnlock) and a thread of the client sends them, one at a      *)
(* time; what is offered while it is busy is dropped.  allSent says what   *)
(* the thread does: 0 it waits for a frame, 1 it has one, 2 it sends, 10   *)
(* and more there is no connection and the calls are counted until it is   *)
(* time to try again, -1 the client is being freed.                        *)
(*                                                                         *)
(* A frame is its number; a field that is being drawn into has that of the *)
(* new frame.  link is the connection: its state, what is on its way to    *)
(* the server, and the latency replies on their way back.                  *)
(***************************************************************************)
EXTENDS Integers, Sequences

CONSTANTS MaxFrames,   \* bound: frames offered and, with them, sent without being offered
          MaxSpurious, \* bound: waits for a frame that return without a signal
          MaxWire,     \* bound: packets the connection buffers
          Retry,       \* 100 (fieldClientSend), 5000 (fieldClientLock)
          Unread       \* 3: frames sent before replies are read

VARIABLES allSent,
          thread,       \* where fieldClientThread is
          fld_sending,  \* the frame in the field that is sent
          count,        \* its local: frames sent on this connection
          unasked,      \* history: it sends, though nobody had given it a frame
          spurious,     \* such returns so far
          app, offered, \* the program: where it is, frames so far
          link

clientVars == <<allSent, thread, fld_sending, count, unasked, spurious, app, offered>>

NoLink == [state |-> "closed", in |-> <<>>, replies |-> 0]
NewLink == [NoLink EXCEPT !.state = "pending"]
Usable == link.state \in {"pending", "accepted"}

\* One end leaves the connection: "left" and "dropped" tell which is still there.
Left == IF link.state = "dropped" THEN NoLink ELSE [link EXCEPT !.state = "left"]
-----------------------------------------------------------------------------
\* fieldClientCreateFloat, fieldClientCreateChar.
Init ==
    /\ allSent = 10
    /\ thread = "connect"
    /\ fld_sending = 0
    /\ count = 0
    /\ unasked = FALSE
    /\ spurious = 0
    /\ app = "idle"
    /\ offered = 0
    /\ link = NoLink

\* (mutant: the thread is not told of a frame)
SignalRetry == IF thread = "retryWait" THEN "retryWoken" ELSE thread

\* x_pthread_cond_signal(cnd): the thread waits in one of two places.
Signal ==
    CASE thread = "wait" -> "woken"
      [] thread = "retryWait" -> "retryWoken"
      [] OTHER -> thread

\* fieldClientThread: connect, or wait until the program has called often enough.
Connect ==
    /\ thread = "connect"
    /\ link.state = "closed"
    /\ link' = NewLink
    /\ allSent' = 2
    /\ count' = 0
    /\ thread' = "restart"
    /\ UNCHANGED <<fld_sending, unasked, spurious, app, offered>>

ConnectFails ==
    /\ thread = "connect"
    /\ thread' = "retry"
    /\ UNCHANGED <<allSent, fld_sending, count, unasked, spurious, app, offered, link>>

WaitToRetry ==
    /\ thread = "retry"
    /\ thread' = "retryWait"
    /\ UNCHANGED <<allSent, fld_sending, count, unasked, spurious, app, offered, link>>

RetryWoken ==
    /\ thread = "retryWoken"
    /\ thread' = IF allSent = -1 THEN "ended" ELSE "connect"
    /\ UNCHANGED <<allSent, fld_sending, count, unasked, spurious, app, offered, link>>

\* restart: ready for a frame.  This also clears the -1 of fieldClientOnFree.
Restart ==
    /\ thread = "restart"
    /\ allSent' = 0
    /\ thread' = "wait"
    /\ UNCHANGED <<fld_sending, count, unasked, spurious, app, offered, link>>

\* cond_wait returns without a signal, as POSIX allows.
SpuriousWake ==
    /\ \/ /\ thread = "wait"
          /\ spurious < MaxSpurious /\ offered + spurious < MaxFrames
          /\ spurious' = spurious + 1
          /\ thread' = "woken"
       \/ /\ thread = "retryWait"
          /\ thread' = "retryWoken"
          /\ UNCHANGED spurious
    /\ UNCHANGED <<allSent, fld_sending, count, unasked, app, offered, link>>

\* What it woke for is not tested, apart from -1: it sends what the field holds.
Woken ==
    /\ thread = "woken"
    /\ IF allSent = -1
       THEN thread' = "ended" /\ link' = Left /\ UNCHANGED allSent
       ELSE thread' = "sendHead" /\ allSent' = 2 /\ UNCHANGED link
    /\ unasked' = (allSent = 0)
    /\ UNCHANGED <<fld_sending, count, spurious, app, offered>>

Send(packet, next) ==
    /\ Usable
    /\ Len(link.in) < MaxWire
    /\ link' = [link EXCEPT !.in = Append(@, packet)]
    /\ thread' = next
    /\ UNCHANGED <<allSent, fld_sending, app, offered>>

\* The header and the description of the matrix, then its data.
SendHead ==
    /\ thread = "sendHead"
    /\ Send(<<"JMTX", fld_sending>>, "sendData")
    /\ UNCHANGED <<count, unasked, spurious>>

SendData ==
    /\ thread = "sendData"
    /\ Send(<<"data", fld_sending>>, IF count < Unread THEN "restart" ELSE "reply")
    /\ count' = IF count < Unread THEN count + 1 ELSE count
    /\ unasked' = FALSE
    /\ UNCHANGED spurious

\* A reply, or 90 seconds without one, or the end of the connection: what
\* netClientGetBinary returns is not looked at.
ReadReply ==
    /\ thread = "reply"
    /\ link' = IF link.replies > 0 THEN [link EXCEPT !.replies = @ - 1] ELSE link
    /\ thread' = "restart"
    /\ UNCHANGED <<allSent, fld_sending, count, unasked, spurious, app, offered>>

\* x_catch: the connection is given up, and with it count; the thread starts over.
LoseConnection ==
    /\ thread \in {"sendHead", "sendData", "reply"}
    /\ ~Usable
    /\ link' = Left
    /\ allSent' = 11
    /\ thread' = "connect"
    /\ count' = 0
    /\ unasked' = FALSE
    /\ UNCHANGED <<fld_sending, spurious, app, offered>>

fieldClientThread ==
    \/ Connect \/ WaitToRetry \/ RetryWoken
    \/ Restart \/ Woken \/ SendHead \/ SendData
    \/ ReadReply \/ LoseConnection
-----------------------------------------------------------------------------
CallsDue == allSent + 1 = 10 + Retry

\* A call without a connection: every Retry-th of them wakes the thread.
CountCall ==
    /\ allSent >= 10
    /\ IF CallsDue
       THEN allSent' = 10 /\ thread' = Signal
       ELSE allSent' = allSent + 1 /\ UNCHANGED thread
    /\ UNCHANGED <<fld_sending, count, unasked, spurious, app, offered, link>>

Offer ==
    /\ allSent' = 1
    /\ thread' = Signal
    /\ UNCHANGED <<count, unasked, spurious, link>>

\* A frame is taken while the thread waits for one, and dropped otherwise.
fieldClientSend ==
    /\ app = "idle"
    /\ allSent = 0
    /\ offered + spurious < MaxFrames
    /\ offered' = offered + 1
    /\ fld_sending' = offered + 1
    /\ Offer
    /\ UNCHANGED app

CanLock == allSent = 0

\* The program is given the field that is sent, and draws into it without the lock.
fieldClientLock ==
    /\ app = "idle"
    /\ CanLock
    /\ offered + spurious < MaxFrames
    /\ offered' = offered + 1
    /\ fld_sending' = offered + 1
    /\ app' = "drawing"
    /\ UNCHANGED <<allSent, thread, count, unasked, spurious, link>>

fieldClientUnlock ==
    /\ app = "drawing"
    /\ app' = "idle"
    /\ IF allSent = 0
       THEN Offer
       ELSE UNCHANGED <<allSent, thread, count, unasked, spurious, link>>
    /\ UNCHANGED <<fld_sending, offered>>

\* fieldClientOnFree, up to the join.
fieldClientOnFree ==
    /\ app = "idle"
    /\ allSent' = -1
    /\ thread' = Signal
    /\ app' = "joining"
    /\ UNCHANGED <<fld_sending, count, unasked, spurious, offered, link>>

AppCall ==
    \/ app = "idle" /\ CountCall
    \/ fieldClientSend
    \/ fieldClientLock
    \/ fieldClientUnlock

ClientNext ==
    \/ fieldClientThread \/ ConnectFails \/ SpuriousWake
    \/ AppCall \/ fieldClientOnFree
=============================================================================
