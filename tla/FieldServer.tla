----------------------------- MODULE FieldServer ----------------------------
(***************************************************************************)
(* The receiving end of a field, field_server.c, with the server socket    *)
(* under it, netServer.c.  netServerThread accepts one connection at a     *)
(* time and starts a thread for it, which runs fieldServerOnConnect: it    *)
(* receives a frame into fld_net, sets needSwap, and waits with the next   *)
(* one until the program, which works on fld_local between                 *)
(* fieldServerLock and fieldServerUnlock, has swapped the two.  Messages   *)
(* go through the ring msg_loop.                                           *)
(*                                                                         *)
(* All frames have one size, so fieldResize changes nothing.  A call of    *)
(* netClientGetBinary that gets no byte in ten seconds, or finds the       *)
(* connection ended, returns 0; none of its callers here looks at that.    *)
(***************************************************************************)
EXTENDS Integers, Sequences

CONSTANTS Slots,       \* the size of msg_loop (8)
          MaxReplies   \* bound: replies on their way

VARIABLES field,               \* what the two fields hold: frame numbers
          fld_net, fld_local,  \* which is which
          needSwap,
          server,              \* the pointer to the netServer is not NULL
          handler,             \* where the connection's thread is
          d,                   \* its local: the field it receives into
          missed,              \* history: a frame's data did not come
          hasLatency,          \* its local
          m_socket, m_client, m_runningThreads,  \* of the netServer
          curReadMsg, curWriteMsg,  \* of msg_loop; what a message says is left out
          held,                \* the slot the program reads, or -1
          user,                \* the program: where it is
          link

msgVars == <<curReadMsg, curWriteMsg, held>>
fieldVars == <<field, fld_net, fld_local, needSwap, missed>>
netVars == <<m_socket, m_client, m_runningThreads>>
serverVars == <<fieldVars, server, handler, d, hasLatency, netVars, msgVars, user>>

Torn == -1
NoLink == [state |-> "closed", in |-> <<>>, replies |-> 0]
-----------------------------------------------------------------------------
\* fieldServerFinishInit, netServerCreate.
Init ==
    /\ field = [b \in {1, 2} |-> 0]
    /\ fld_net = 1 /\ fld_local = 2
    /\ needSwap = 0
    /\ server = TRUE
    /\ handler = "none"
    /\ d = 1
    /\ missed = FALSE
    /\ hasLatency = FALSE
    /\ m_socket = TRUE /\ m_client = FALSE /\ m_runningThreads = 0
    /\ curReadMsg = 0 /\ curWriteMsg = 0
    /\ held = -1
    /\ user = "idle"
    /\ link = NoLink

\* netServerThread: the slot for a new client is free, and no thread runs.
MayAccept == m_socket /\ ~m_client /\ m_runningThreads = 0

Accept ==
    /\ MayAccept
    /\ link.state = "pending"
    /\ link' = [link EXCEPT !.state = "accepted"]
    /\ m_client' = TRUE
    /\ m_runningThreads' = m_runningThreads + 1
    /\ handler' = "begin"
    /\ UNCHANGED <<fieldVars, server, d, hasLatency, m_socket, msgVars, user>>

\* netServerConnection: it takes the client from the slot and calls
\* fieldServerOnConnect.
BeginConnection ==
    /\ handler = "begin"
    /\ m_client' = FALSE
    /\ handler' = "header"
    /\ UNCHANGED <<fieldVars, server, d, hasLatency, m_socket, m_runningThreads, msgVars, user, link>>

\* x_free(cur), and the thread counts itself out (hasLatency ended with the handler).
EndConnection ==
    /\ handler = "end"
    /\ link' = IF link.state = "left" THEN NoLink
               ELSE [NoLink EXCEPT !.state = "dropped"]
    /\ m_runningThreads' = m_runningThreads - 1
    /\ hasLatency' = FALSE
    /\ handler' = "none"
    /\ UNCHANGED <<fieldVars, server, d, m_socket, m_client, msgVars, user>>
-----------------------------------------------------------------------------
\* fieldServerOnConnect.
HandlerOnly == UNCHANGED <<fieldVars, server, netVars, msgVars, user>>

RestOfLink == [link EXCEPT !.in = Tail(@)]

\* nextPacket: a packet of a kind it does not know ends the connection, and so
\* does a header that did not come: ntohl turns round the one that is left in the
\* variable.  (Little-endian machines; elsewhere the old header counts again.)
ReadHeader ==
    /\ handler = "header"
    /\ IF link.in = <<>>
       THEN /\ handler' = "end"
            /\ UNCHANGED link
       ELSE /\ link' = RestOfLink
            /\ handler' = CASE Head(link.in)[1] = "JMTX" -> "wait"
                            [] Head(link.in)[1] = "JMMP" -> "message"
                            [] OTHER -> "end"
    /\ UNCHANGED <<d, hasLatency>>
    /\ HandlerOnly

\* (mutant: it does not wait for the swap)
NeverWaits == FALSE

MustWait == needSwap = 1

\* With the lock: wait until the program has taken the last frame.
WaitForSwap ==
    /\ handler \in {"wait", "woken"}
    /\ IF handler = "woken" /\ ~server
       THEN handler' = "end" /\ UNCHANGED d
       ELSE IF MustWait THEN handler' = "waiting" /\ UNCHANGED d
       ELSE handler' = "receive" /\ d' = fld_net
    /\ UNCHANGED <<hasLatency, link>>
    /\ HandlerOnly

\* The data; or none, and the field keeps the frame it held before ...
Receive ==
    /\ handler = "receive"
    /\ handler' = "publish"
    /\ IF link.in = <<>>
       THEN /\ missed' = TRUE
            /\ UNCHANGED <<field, link>>
       ELSE /\ field' = [field EXCEPT ![d] = Head(link.in)[2]]
            /\ link' = RestOfLink
            /\ UNCHANGED missed
    /\ UNCHANGED <<fld_net, fld_local, needSwap, server, d, hasLatency, netVars, msgVars, user>>

\* ... or a part of it, which is an error and ends the connection.
ReceivePart ==
    /\ handler = "receive"
    /\ handler' = "end"
    /\ field' = [field EXCEPT ![d] = Torn]
    /\ UNCHANGED <<fld_net, fld_local, needSwap, missed, server, d, hasLatency, netVars, msgVars,
                   user, link>>

\* With the lock: the program may take the frame.
Publish ==
    /\ handler = "publish"
    /\ needSwap' = 1
    /\ handler' = IF ~server THEN "end" ELSE IF hasLatency THEN "reply" ELSE "header"
    /\ hasLatency' = (hasLatency \/ server)
    /\ UNCHANGED <<field, fld_net, fld_local, missed, server, d, netVars, msgVars, user, link>>

\* Sending to a client that has left raises an error.
Reply ==
    /\ handler = "reply"
    /\ IF link.state = "accepted"
       THEN /\ link.replies < MaxReplies
            /\ link' = [link EXCEPT !.replies = @ + 1]
            /\ handler' = "header"
       ELSE handler' = "end" /\ UNCHANGED link
    /\ UNCHANGED <<d, hasLatency>>
    /\ HandlerOnly

Stalls == (curWriteMsg + 2) % Slots = curReadMsg

\* A message: with the lock, wait for a slot; without it, receive into it.
WaitForSlot ==
    /\ handler \in {"message", "slotWoken"}
    /\ handler' = IF handler = "slotWoken" /\ ~server THEN "end"
                  ELSE IF Stalls THEN "slotWaiting" ELSE "receiveMsg"
    /\ UNCHANGED <<d, hasLatency, link>>
    /\ HandlerOnly

\* A message that is too long or makes no sense is an error, and ends the connection.
fieldMsgReceive ==
    /\ handler = "receiveMsg"
    /\ handler' \in {"addMsg", "end"}
    /\ UNCHANGED <<d, hasLatency, link>>
    /\ HandlerOnly

AddMessage ==
    /\ handler = "addMsg"
    /\ curWriteMsg' = (curWriteMsg + 1) % Slots
    /\ handler' = "header"
    /\ UNCHANGED <<fieldVars, server, d, hasLatency, netVars, curReadMsg, held,
                   user, link>>

\* cond_wait returns without a signal.
SpuriousWake ==
    /\ handler \in {"waiting", "slotWaiting"}
    /\ handler' = IF handler = "waiting" THEN "woken" ELSE "slotWoken"
    /\ UNCHANGED <<d, hasLatency, link>>
    /\ HandlerOnly

HandlerStep ==
    \/ BeginConnection \/ WaitForSwap \/ Publish \/ Reply
    \/ WaitForSlot \/ fieldMsgReceive \/ AddMessage \/ EndConnection
-----------------------------------------------------------------------------
\* The program: one pass of fluidServerOnFrame, and the messages before it.
Idle == user = "idle"

fieldServerLock ==
    /\ Idle
    /\ user' = "locked"
    /\ held' = -1
    /\ UNCHANGED <<fieldVars, server, handler, d, hasLatency, netVars, curReadMsg, curWriteMsg,
                   link>>

\* (mutant: it swaps whether there is a frame or not)
SwapAlways == <<fld_local, fld_net>>

Swap == IF needSwap = 1 THEN <<fld_local, fld_net>> ELSE <<fld_net, fld_local>>

fieldServerUnlock ==
    /\ user = "locked"
    /\ user' = "idle"
    /\ fld_net' = Swap[1] /\ fld_local' = Swap[2]
    /\ needSwap' = 0
    /\ handler' = IF needSwap = 1 /\ handler = "waiting" THEN "woken" ELSE handler
    /\ UNCHANGED <<field, missed, server, d, hasLatency, netVars, msgVars, link>>

fieldServerNextMessage ==
    /\ Idle
    /\ curReadMsg # curWriteMsg
    /\ held' = curReadMsg
    /\ curReadMsg' = (curReadMsg + 1) % Slots
    /\ handler' = IF handler = "slotWaiting" THEN "slotWoken" ELSE handler
    /\ UNCHANGED <<fieldVars, server, d, hasLatency, netVars, curWriteMsg, user, link>>

\* fieldServerFree: with the lock, server becomes NULL and both conditions are
\* signalled; netServerFree then closes the socket and waits for the thread.
fieldServerFree ==
    /\ Idle
    /\ server' = FALSE
    /\ m_socket' = FALSE
    /\ held' = -1
    /\ handler' = CASE handler = "waiting" -> "woken"
                    [] handler = "slotWaiting" -> "slotWoken"
                    [] OTHER -> handler
    /\ user' = "freeing"
    /\ UNCHANGED <<fieldVars, d, hasLatency, m_client, m_runningThreads, curReadMsg,
                   curWriteMsg, link>>

netServerFree ==
    /\ user = "freeing"
    /\ m_runningThreads = 0
    /\ user' = "freed"
    /\ UNCHANGED <<fieldVars, server, handler, d, hasLatency, netVars, msgVars, link>>

ServerNext ==
    \/ Accept \/ HandlerStep \/ ReadHeader \/ Receive \/ ReceivePart \/ SpuriousWake
    \/ fieldServerLock \/ fieldServerUnlock \/ fieldServerNextMessage
    \/ fieldServerFree \/ netServerFree
=============================================================================
