------------------------------ MODULE FieldLink -----------------------------
(***************************************************************************)
(* A program that sends frames through a FieldClient, and one that         *)
(* receives them through a FieldServer.  Between the packets of the client *)
(* the connection may carry messages, as Jitter's jit.net.send sends them. *)
(* Either program may stop, and the network may lose the connection.       *)
(***************************************************************************)
EXTENDS Integers, Sequences

CONSTANTS MaxFrames, MaxWire, MaxSpurious, Retry, Unread, Slots, MaxReplies

ASSUME LinkAssumption ==
    /\ Retry \in Nat /\ Retry > 1
    /\ Slots \in Nat /\ Slots > 2
    /\ {MaxFrames, MaxSpurious, Unread} \subseteq Nat
    /\ MaxReplies > 0

VARIABLES allSent, thread, fld_sending, count, unasked, spurious, app, offered,
          field, fld_net, fld_local, needSwap, server, handler, d, missed, hasLatency,
          m_socket, m_client, m_runningThreads, curReadMsg, curWriteMsg, held, user,
          link

C == INSTANCE FieldClient
S == INSTANCE FieldServer

clientVars == <<allSent, thread, fld_sending, count, unasked, spurious, app, offered>>
serverVars == <<field, fld_net, fld_local, needSwap, server, handler, d, missed, hasLatency,
                m_socket, m_client, m_runningThreads, curReadMsg, curWriteMsg, held, user>>
vars == <<clientVars, serverVars, link>>
-----------------------------------------------------------------------------
Init == C!Init /\ S!Init

\* A sender such as jit.net.send sends a message between two frames.
SendMessage ==
    /\ link.state \in {"pending", "accepted"}
    /\ thread \in {"restart", "wait"}
    /\ Len(link.in) < MaxWire
    /\ link' = [link EXCEPT !.in = Append(@, <<"JMMP", 0>>)]
    /\ UNCHANGED <<clientVars, serverVars>>

\* The connection is lost, or a socket that is closed does not accept it.
Break ==
    /\ link.state = "accepted" \/ (link.state = "pending" /\ ~m_socket)
    /\ link' = IF link.state = "accepted" THEN [link EXCEPT !.state = "broken"]
               ELSE [link EXCEPT !.state = "dropped", !.in = <<>>]
    /\ UNCHANGED <<clientVars, serverVars>>

Next ==
    \/ C!ClientNext /\ UNCHANGED serverVars
    \/ S!ServerNext /\ UNCHANGED clientVars
    \/ SendMessage
    \/ Break

\* The threads run; the sending program finishes the frame it draws, and the
\* receiving one goes on with its frames and reads its messages.
Fairness ==
    /\ WF_vars(C!fieldClientThread /\ UNCHANGED serverVars)
    /\ WF_vars(C!fieldClientUnlock /\ UNCHANGED serverVars)
    /\ WF_vars((S!Accept \/ S!HandlerStep) /\ UNCHANGED clientVars)
    /\ WF_vars((S!ReadHeader \/ S!Receive) /\ UNCHANGED clientVars
                 /\ (link.in # <<>> \/ link.state # "accepted"))
    /\ SF_vars(S!fieldServerLock /\ UNCHANGED clientVars)
    /\ WF_vars(S!fieldServerUnlock /\ UNCHANGED clientVars)
    /\ SF_vars(S!fieldServerNextMessage /\ UNCHANGED clientVars)

Spec == Init /\ [][Next]_vars /\ Fairness
-----------------------------------------------------------------------------
TypeOK ==
    /\ allSent \in {-1, 0, 1, 2} \cup (10 .. 9 + Retry)
    /\ thread \in {"connect", "retry", "retryWait", "retryWoken", "restart", "wait", "woken",
                   "sendHead", "sendData", "reply", "ended"}
    /\ app \in {"idle", "drawing", "joining"} /\ unasked \in BOOLEAN
    /\ spurious \in 0 .. MaxSpurious
    /\ fld_sending \in 0 .. MaxFrames /\ offered \in 0 .. MaxFrames /\ count \in 0 .. Unread
    /\ field \in [{1, 2} -> S!Torn .. MaxFrames]
    /\ {fld_net, fld_local} = {1, 2}
    /\ d \in {1, 2} /\ needSwap \in {0, 1}
    /\ {server, missed, hasLatency, m_socket, m_client} \subseteq BOOLEAN
    /\ m_runningThreads \in 0 .. 1
    /\ curReadMsg \in 0 .. Slots - 1 /\ curWriteMsg \in 0 .. Slots - 1
    /\ held \in -1 .. Slots - 1
    /\ user \in {"idle", "locked", "freeing", "freed"}
    /\ link.state \in {"closed", "pending", "accepted", "broken", "left", "dropped"}

\* The field the client's thread sends is not drawn into, without a lock on
\* either side: the program gets it only while the thread waits for a frame.
\* Hypothesis: the thread was given the frame it sends.  cond_wait may return on
\* its own, and the thread does not look whether there is a frame (LockedAlone).
SendAlone == thread \in {"sendHead", "sendData"} /\ ~unasked => app # "drawing"

\* field.h:106, "Lock the field buffer so we can send it": between fieldClientLock
\* and fieldClientUnlock the field belongs to the program.
LockedAlone == app = "drawing" => thread \notin {"sendHead", "sendData"}

\* The field the server receives into is not the one the program works on,
\* nor one that is to be swapped under the receiver: the swap and the thread
\* agree by needSwap alone, and the receiver keeps its pointer outside the lock.
ReceiveAlone ==
    handler \in {"receive", "publish"} => d = fld_net /\ (handler = "receive" => needSwap = 0)

\* The program sees frames in the order they were sent, over lost and new
\* connections, frames cut short and frames sent again because cond_wait returned
\* on its own, as long as every frame that is announced has data (if one has none,
\* an old frame is shown as the new one).  Of frames sent while they are drawn
\* (LockedAlone) the number is that of the newest part.
FramesForward == [][~missed' => field'[fld_local'] >= field[fld_local]]_vars

\* The message the program was given is not overwritten while it reads it.
MessageAlone == handler = "receiveMsg" => curWriteMsg # held

\* No buffer is filled by one thread while another one uses it, on either side.
BuffersApart == SendAlone /\ ReceiveAlone /\ MessageAlone

\* A frame that was taken is shown (or a later one is), if the connection
\* lasts and both programs do.
FrameShown ==
    \A n \in 1 .. MaxFrames :
        (allSent = 1 /\ fld_sending = n) ~>
          \/ field[fld_local] >= n
          \/ link.state # "accepted"
          \/ app = "joining" \/ ~server
=============================================================================
