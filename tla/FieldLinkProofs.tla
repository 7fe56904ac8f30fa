--------------------------- MODULE FieldLinkProofs --------------------------
(***************************************************************************)
(* Proofs about FieldLink, for any number of frames, sizes of the message  *)
(* ring and of the connection's buffer, and periods of the retries.  LInv  *)
(* is the inductive invariant: when the program of the client draws, which *)
(* of the two fields of the server belongs to its thread, and how what the *)
(* thread expects next follows what the client has sent.                   *)
(***************************************************************************)
EXTENDS FieldLink, SequenceTheorems, TLAPS

Kinds == {"JMTX", "data", "JMMP"}
Packet == Kinds \X (0 .. MaxFrames)

HandlerStates ==
    {"none", "begin", "header", "wait", "waiting", "woken", "receive", "publish", "reply",
     "message", "slotWaiting", "slotWoken", "receiveMsg", "addMsg", "end"}

ClientTyped ==
    /\ allSent \in {-1, 0, 1, 2} \cup (10 .. 9 + Retry)
    /\ thread \in {"connect", "retry", "retryWait", "retryWoken", "restart", "wait", "woken",
                   "sendHead", "sendData", "reply", "ended"}
    /\ app \in {"idle", "drawing", "joining"}
    /\ unasked \in BOOLEAN /\ spurious \in 0 .. MaxSpurious
    /\ fld_sending \in 0 .. MaxFrames /\ offered \in 0 .. MaxFrames /\ count \in 0 .. Unread

FieldTyped ==
    /\ field \in [{1, 2} -> -1 .. MaxFrames]
    /\ (fld_net = 1 /\ fld_local = 2) \/ (fld_net = 2 /\ fld_local = 1)
    /\ d \in {1, 2} /\ needSwap \in {0, 1}

ServerTyped ==
    /\ handler \in HandlerStates
    /\ server \in BOOLEAN /\ missed \in BOOLEAN /\ hasLatency \in BOOLEAN
    /\ m_socket \in BOOLEAN /\ m_client \in BOOLEAN
    /\ curReadMsg \in 0 .. Slots - 1 /\ curWriteMsg \in 0 .. Slots - 1
    /\ held \in -1 .. Slots - 1
    /\ user \in {"idle", "locked", "freeing", "freed"}

LinkTyped ==
    link \in [state : {"closed", "pending", "accepted", "broken", "left", "dropped"},
              in : Seq(Packet), replies : Int]

Typed == ClientTyped /\ FieldTyped /\ ServerTyped /\ LinkTyped

\* The client: while allSent is 0 its thread waits for a frame, or has just stopped waiting;
\* it is given one when the program does not draw.
ClientInv ==
    /\ allSent = 0 => thread \in {"wait", "woken"}
    /\ thread \in {"wait", "woken"} => allSent \in {-1, 0, 1}
    /\ allSent = 1 => app # "drawing"
    /\ thread \in {"sendHead", "sendData"} /\ app = "drawing" => unasked
    /\ fld_sending <= offered

\* The connection as its two ends see it.
Connected == {"restart", "wait", "woken", "sendHead", "sendData", "reply"}

LinkInv ==
    /\ thread \in Connected => link.state \in {"pending", "accepted", "broken", "dropped"}
    /\ thread \in {"connect", "retry", "retryWait", "retryWoken"} => link.state \in {"closed", "left"}
    /\ handler # "none" => link.state \in {"accepted", "broken", "left"}
    /\ link.state \in {"accepted", "broken"} => handler # "none"
    /\ link.state = "left" /\ handler = "none" => thread = "ended"
    /\ link.state \in {"closed", "dropped"} => link.in = <<>>
    /\ m_runningThreads = IF handler = "none" THEN 0 ELSE 1

\* Between the lock and the swap the connection's thread has its field to itself.
FieldInv == handler \in {"receive", "publish"} => d = fld_net /\ needSwap = 0

\* There is a free slot behind the message that is received.
RingInv ==
    /\ (curWriteMsg + 1) % Slots # curReadMsg
    /\ held # -1 => (held + 1) % Slots = curReadMsg
    /\ handler \in {"receiveMsg", "addMsg"} => (curWriteMsg + 2) % Slots # curReadMsg

\* The thread has read the header of a frame, and not its data.
HeadRead == {"wait", "waiting", "woken", "receive"}
IsHead(p) == p[1] = "JMTX"
IsData(p) == p[1] = "data"

\* A header is the last that the thread can know of.
Open == IF link.in = <<>> THEN handler \in HeadRead ELSE IsHead(link.in[Len(link.in)])

\* As long as the connection's thread goes on and no data was missed, the data of a frame
\* follow its header ...
Alternate ==
    \A i \in 1 .. Len(link.in) :
        IsData(link.in[i]) <=> IF i = 1 THEN handler \in HeadRead ELSE IsHead(link.in[i - 1])

Follows ==
    ~missed /\ handler # "end" =>
        /\ Alternate
        /\ link.state \in {"pending", "accepted"} => (thread = "sendData" <=> Open)

\* ... and what is on its way is not older than what has arrived.
Newer(i) ==
    /\ field[1] <= link.in[i][2] /\ field[2] <= link.in[i][2]
    /\ link.in[i][2] <= fld_sending
    /\ \A j \in i .. Len(link.in) : IsData(link.in[j]) => link.in[i][2] <= link.in[j][2]

Ordered == ~missed => \A i \in 1 .. Len(link.in) : IsData(link.in[i]) => Newer(i)

WireInv == Follows /\ Ordered

OrderInv ==
    ~missed =>
        /\ field[1] <= fld_sending /\ field[2] <= fld_sending
        /\ handler = "publish" \/ needSwap = 1 => field[fld_local] <= field[fld_net]

LInv == Typed /\ ClientInv /\ LinkInv /\ FieldInv /\ RingInv /\ WireInv /\ OrderInv
-----------------------------------------------------------------------------
(* Lemmas. *)

LEMMA LinkConstants ==
    /\ Retry \in Nat /\ Retry > 1 /\ Slots \in Nat /\ Slots > 2
    /\ MaxFrames \in Nat /\ MaxSpurious \in Nat /\ Unread \in Nat
  BY LinkAssumption DEF LinkAssumption

\* One and two slots further around the ring of messages.
LEMMA Around ==
    ASSUME NEW s \in 0 .. Slots - 1
    PROVE  /\ (s + 1) % Slots = IF s = Slots - 1 THEN 0 ELSE s + 1
           /\ (s + 2) % Slots = IF s = Slots - 1 THEN 1 ELSE IF s = Slots - 2 THEN 0 ELSE s + 2
  BY LinkConstants

ClientSteps == C!ClientNext /\ UNCHANGED serverVars
ServerSteps == S!ServerNext /\ UNCHANGED clientVars

LEMMA ClientKept == ASSUME LInv, [Next]_vars  PROVE ClientInv'
  <1> USE LinkConstants DEF LInv, Typed, ClientTyped, ClientInv
  <1>1. CASE C!ClientNext
    <2>1. CASE C!fieldClientThread
      <3>1. CASE C!Woken
        <4>1. unasked' <=> allSent = 0
          BY <3>1 DEF C!Woken
        <4>2. /\ thread' = "ended" \/ (thread' = "sendHead" /\ allSent' = 2 /\ allSent # -1)
              /\ thread' = "ended" => allSent = -1 /\ allSent' = -1
              /\ UNCHANGED <<app, fld_sending, offered>>
              /\ allSent \in {-1, 0, 1}
          BY <3>1 DEF C!Woken
        <4> QED
          BY <4>1, <4>2
      <3>2. CASE ~C!Woken
        BY <2>1, <3>2 DEF C!fieldClientThread, C!Connect, C!WaitToRetry, C!RetryWoken, C!Restart,
           C!SendHead, C!SendData, C!Send, C!ReadReply, C!LoseConnection
      <3> QED
        BY <3>1, <3>2
    <2>2. CASE C!ConnectFails \/ C!SpuriousWake
      BY <2>2 DEF C!ConnectFails, C!SpuriousWake
    <2>3. CASE C!AppCall \/ C!fieldClientOnFree
      BY <2>3 DEF C!AppCall, C!CountCall, C!Signal, C!fieldClientSend, C!Offer, C!fieldClientLock,
         C!CanLock, C!fieldClientUnlock, C!fieldClientOnFree
    <2> QED
      BY <1>1, <2>1, <2>2, <2>3 DEF C!ClientNext
  <1>2. CASE UNCHANGED clientVars
    BY <1>2 DEF clientVars
  <1> QED
    BY <1>1, <1>2 DEF Next, vars, SendMessage, Break

LEMMA FieldKept == ASSUME LInv, [Next]_vars  PROVE FieldInv'
  <1> USE DEF LInv, Typed, FieldTyped, FieldInv
  <1>1. CASE S!ServerNext
    <2>1. CASE S!HandlerStep \/ S!Accept
      BY <2>1 DEF S!HandlerStep, S!Accept, S!BeginConnection, S!WaitForSwap, S!MustWait, S!Publish,
         S!Reply, S!WaitForSlot, S!fieldMsgReceive, S!AddMessage, S!EndConnection, S!HandlerOnly,
         S!fieldVars
    <2>2. CASE S!ReadHeader \/ S!Receive \/ S!ReceivePart \/ S!SpuriousWake
      BY <2>2 DEF S!ReadHeader, S!Receive, S!ReceivePart, S!SpuriousWake, S!HandlerOnly, S!fieldVars
    <2>3. CASE S!fieldServerUnlock
      BY <2>3 DEF S!fieldServerUnlock, S!Swap
    <2>4. CASE \/ S!fieldServerLock \/ S!fieldServerNextMessage \/ S!fieldServerFree
               \/ S!netServerFree
      BY <2>4 DEF S!fieldServerLock, S!fieldServerNextMessage, S!fieldServerFree, S!netServerFree,
         S!fieldVars
    <2> QED
      BY <1>1, <2>1, <2>2, <2>3, <2>4 DEF S!ServerNext
  <1>2. CASE UNCHANGED serverVars
    BY <1>2 DEF serverVars
  <1> QED
    BY <1>1, <1>2 DEF Next, vars, SendMessage, Break

LEMMA RingKept == ASSUME LInv, [Next]_vars  PROVE RingInv'
  <1> USE DEF LInv, Typed, ServerTyped
  <1>1. CASE UNCHANGED <<curReadMsg, curWriteMsg>> /\ held' \in {held, -1}
             /\ (handler' \in {"receiveMsg", "addMsg"} =>
                    handler \in {"receiveMsg", "addMsg"} \/ ~S!Stalls)
    BY <1>1 DEF RingInv, S!Stalls
  <1>2. CASE S!ServerNext
    <2>1. CASE S!HandlerStep \/ S!Accept
      <3>1. CASE S!AddMessage
        <4> DEFINE w2 == (curWriteMsg + 1) % Slots
        <4>1. /\ curWriteMsg' = w2 /\ handler' = "header" /\ UNCHANGED <<curReadMsg, held>>
              /\ handler = "addMsg"
          BY <3>1 DEF S!AddMessage
        <4>2. w2 \in 0 .. Slots - 1 /\ (w2 + 1) % Slots = (curWriteMsg + 2) % Slots
          <5>1. /\ curWriteMsg \in 0 .. Slots - 1
                /\ w2 = IF curWriteMsg = Slots - 1 THEN 0 ELSE curWriteMsg + 1
            BY Around
          <5>2. w2 \in 0 .. Slots - 1
            BY <5>1, LinkConstants
          <5> HIDE DEF w2
          <5>3. (w2 + 1) % Slots = IF w2 = Slots - 1 THEN 0 ELSE w2 + 1
            BY <5>2, Around
          <5>4. (curWriteMsg + 2) % Slots = IF curWriteMsg = Slots - 1 THEN 1
                                            ELSE IF curWriteMsg = Slots - 2 THEN 0 ELSE curWriteMsg + 2
            BY <5>1, Around
          <5> QED
            BY <5>1, <5>2, <5>3, <5>4, LinkConstants
        <4> QED
          BY <4>1, <4>2 DEF RingInv
      <3>2. CASE ~S!AddMessage
        BY <1>1, <2>1, <3>2 DEF S!HandlerStep, S!Accept, S!BeginConnection, S!WaitForSwap, S!Publish,
           S!Reply, S!WaitForSlot, S!fieldMsgReceive, S!EndConnection, S!HandlerOnly, S!msgVars
      <3> QED
        BY <3>1, <3>2
    <2>2. CASE S!ReadHeader \/ S!Receive \/ S!ReceivePart \/ S!SpuriousWake
      BY <1>1, <2>2 DEF S!ReadHeader, S!Receive, S!ReceivePart, S!SpuriousWake, S!HandlerOnly,
         S!msgVars
    <2>3. CASE S!fieldServerUnlock \/ S!fieldServerLock \/ S!fieldServerFree \/ S!netServerFree
      BY <1>1, <2>3 DEF S!fieldServerLock, S!fieldServerUnlock, S!fieldServerFree, S!netServerFree,
         S!msgVars
    <2>4. CASE S!fieldServerNextMessage
      <3> DEFINE r2 == (curReadMsg + 1) % Slots
      <3>1. /\ curReadMsg # curWriteMsg /\ held' = curReadMsg /\ curReadMsg' = r2
            /\ curWriteMsg' = curWriteMsg
            /\ handler' \in {"receiveMsg", "addMsg"} => handler \in {"receiveMsg", "addMsg"}
        BY <2>4 DEF S!fieldServerNextMessage
      <3>2. /\ curReadMsg \in 0 .. Slots - 1 /\ curWriteMsg \in 0 .. Slots - 1
            /\ r2 = IF curReadMsg = Slots - 1 THEN 0 ELSE curReadMsg + 1
            /\ (curWriteMsg + 1) % Slots = IF curWriteMsg = Slots - 1 THEN 0 ELSE curWriteMsg + 1
            /\ (curWriteMsg + 2) % Slots = IF curWriteMsg = Slots - 1 THEN 1
                                           ELSE IF curWriteMsg = Slots - 2 THEN 0 ELSE curWriteMsg + 2
        BY Around
      <3> HIDE DEF r2
      <3>3. (curWriteMsg + 1) % Slots # r2
        BY <3>1, <3>2, LinkConstants
      <3>4. (curWriteMsg + 2) % Slots # r2
        <4>1. (curWriteMsg + 1) % Slots # curReadMsg
          BY DEF RingInv
        <4> QED
          BY <3>1, <3>2, <4>1, LinkConstants
      <3> QED
        BY <3>1, <3>3, <3>4 DEF RingInv, r2
    <2> QED
      BY <1>2, <2>1, <2>2, <2>3, <2>4 DEF S!ServerNext
  <1>3. CASE UNCHANGED serverVars
    BY <1>1, <1>3 DEF serverVars
  <1> QED
    BY <1>2, <1>3 DEF Next, vars, SendMessage, Break

LEMMA LinkKept == ASSUME LInv, [Next]_vars  PROVE LinkInv'
  <1> USE DEF LInv, Typed, LinkTyped, LinkInv, Connected
  <1>1. CASE C!ClientNext /\ UNCHANGED serverVars
    <2> USE DEF serverVars, C!NoLink, C!NewLink, C!Left, C!Usable
    <2>1. CASE C!Connect \/ C!Woken \/ C!LoseConnection
      BY <1>1, <2>1 DEF C!Connect, C!Woken, C!LoseConnection
    <2>2. CASE \/ C!WaitToRetry \/ C!RetryWoken \/ C!Restart \/ C!SendHead \/ C!SendData
               \/ C!ReadReply \/ C!ConnectFails \/ C!SpuriousWake
      BY <1>1, <2>2 DEF C!WaitToRetry, C!RetryWoken, C!Restart, C!SendHead, C!SendData, C!Send,
         C!ReadReply, C!ConnectFails, C!SpuriousWake
    <2>3. CASE C!AppCall \/ C!fieldClientOnFree
      BY <1>1, <2>3 DEF C!AppCall, C!CountCall, C!Signal, C!fieldClientSend, C!Offer, C!fieldClientLock,
         C!CanLock, C!fieldClientUnlock, C!fieldClientOnFree
    <2> QED
      BY <1>1, <2>1, <2>2, <2>3 DEF C!ClientNext, C!fieldClientThread
  <1>2. CASE S!ServerNext /\ UNCHANGED clientVars
    <2> USE DEF clientVars, S!NoLink, S!netVars
    <2>1. CASE S!Accept
      BY <1>2, <2>1 DEF S!Accept, S!MayAccept
    <2>5. CASE S!EndConnection
      BY <1>2, <2>5 DEF S!EndConnection
    <2>2. CASE \/ S!BeginConnection \/ S!WaitForSwap \/ S!Publish \/ S!Reply \/ S!WaitForSlot
               \/ S!fieldMsgReceive \/ S!AddMessage \/ S!SpuriousWake
      BY <1>2, <2>2 DEF S!BeginConnection, S!WaitForSwap, S!MustWait, S!Publish,
         S!Reply, S!WaitForSlot, S!fieldMsgReceive, S!AddMessage, S!SpuriousWake, S!HandlerOnly
    <2>3. CASE S!ReadHeader \/ S!Receive \/ S!ReceivePart
      BY <1>2, <2>3 DEF S!ReadHeader, S!Receive, S!ReceivePart, S!HandlerOnly, S!RestOfLink
    <2>4. CASE \/ S!fieldServerLock \/ S!fieldServerUnlock \/ S!fieldServerNextMessage
               \/ S!fieldServerFree \/ S!netServerFree
      BY <1>2, <2>4 DEF S!fieldServerLock, S!fieldServerUnlock, S!fieldServerNextMessage,
         S!fieldServerFree, S!netServerFree
    <2> QED
      BY <1>2, <2>1, <2>2, <2>3, <2>4, <2>5 DEF S!ServerNext, S!HandlerStep
  <1>3. CASE SendMessage \/ Break
    BY <1>3 DEF SendMessage, Break, clientVars, serverVars
  <1>4. CASE UNCHANGED vars
    BY <1>4 DEF vars, clientVars, serverVars
  <1> QED
    BY <1>1, <1>2, <1>3, <1>4 DEF Next

\* The packets after one more was sent.
LEMMA Sent ==
    ASSUME Typed, NEW p \in Packet, link'.in = Append(link.in, p)
    PROVE  /\ link'.in \in Seq(Packet) /\ Len(link.in) \in Nat
           /\ Len(link'.in) = Len(link.in) + 1 /\ link'.in # <<>>
           /\ \A i \in 1 .. Len(link.in) : link'.in[i] = link.in[i]
           /\ link'.in[Len(link.in) + 1] = p
           /\ link.in # <<>> => Len(link.in) \in 1 .. Len(link.in)
           /\ link.in = <<>> => Len(link.in) = 0
  <1>1. link.in \in Seq(Packet)
    BY DEF Typed, LinkTyped
  <1>2. /\ link'.in \in Seq(Packet) /\ Len(link.in) \in Nat
        /\ Len(link'.in) = Len(link.in) + 1
        /\ \A i \in 1 .. Len(link.in) : link'.in[i] = link.in[i]
        /\ link'.in[Len(link.in) + 1] = p
        /\ link.in # <<>> => Len(link.in) \in 1 .. Len(link.in)
        /\ link.in = <<>> => Len(link.in) = 0
    BY <1>1
  <1>3. Len(<<>>) = 0
    OBVIOUS
  <1> QED
    BY <1>2, <1>3

\* The packets after the first one was read.
LEMMA Read ==
    ASSUME Typed, link.in # <<>>, link'.in = Tail(link.in)
    PROVE  /\ link'.in \in Seq(Packet) /\ Len(link.in) \in Nat \ {0}
           /\ Len(link'.in) = Len(link.in) - 1
           /\ Head(link.in) = link.in[1] /\ Head(link.in) \in Packet
           /\ \A i \in 1 .. Len(link'.in) : link'.in[i] = link.in[i + 1] /\ i + 1 \in 2 .. Len(link.in)
           /\ link'.in = <<>> <=> Len(link.in) = 1
  <1>1. link.in \in Seq(Packet)
    BY DEF Typed, LinkTyped
  <1>2. /\ link'.in \in Seq(Packet) /\ Len(link.in) \in Nat \ {0}
        /\ Len(link'.in) = Len(link.in) - 1
        /\ Head(link.in) = link.in[1] /\ Head(link.in) \in Packet
    BY <1>1
  <1>3. \A i \in 1 .. Len(link'.in) : link'.in[i] = link.in[i + 1] /\ i + 1 \in 2 .. Len(link.in)
    BY <1>1, <1>2
  <1>4. link'.in = <<>> <=> Len(link'.in) = 0
    <2>1. ASSUME NEW t \in Seq(Packet)  PROVE t = <<>> <=> Len(t) = 0
      OBVIOUS
    <2> QED
      BY <1>2, <2>1
  <1> QED
    BY <1>2, <1>3, <1>4

LEMMA PacketParts ==
    \A p \in Packet : p[1] \in Kinds /\ p[2] \in 0 .. MaxFrames
  BY DEF Packet

LEMMA ClientTypes == ASSUME LInv, [Next]_vars  PROVE ClientTyped'
  <1> USE LinkConstants DEF LInv, Typed, ClientTyped, ClientInv
  <1>1. CASE C!fieldClientThread
    <2>1. unasked' \in BOOLEAN
      BY <1>1 DEF C!fieldClientThread, C!Connect, C!WaitToRetry, C!RetryWoken, C!Restart, C!Woken,
         C!SendHead, C!SendData, C!ReadReply, C!LoseConnection
    <2>2. spurious' = spurious /\ app' = app /\ fld_sending' = fld_sending /\ offered' = offered
      BY <1>1 DEF C!fieldClientThread, C!Connect, C!WaitToRetry, C!RetryWoken, C!Restart, C!Woken,
         C!SendHead, C!SendData, C!Send, C!ReadReply, C!LoseConnection
    <2>3. ClientTyped' \/ ~(unasked' \in BOOLEAN)
      BY <1>1, <2>2 DEF C!fieldClientThread, C!Connect, C!WaitToRetry, C!RetryWoken, C!Restart,
         C!Woken, C!SendHead, C!SendData, C!Send, C!ReadReply, C!LoseConnection
    <2> QED
      BY <2>1, <2>3
  <1>2. CASE C!ConnectFails \/ C!SpuriousWake
    BY <1>2 DEF C!ConnectFails, C!SpuriousWake
  <1>3. CASE C!AppCall \/ C!fieldClientOnFree
    BY <1>3 DEF C!AppCall, C!CountCall, C!CallsDue, C!Signal, C!fieldClientSend, C!Offer,
       C!fieldClientLock, C!CanLock, C!fieldClientUnlock, C!fieldClientOnFree
  <1>4. CASE UNCHANGED clientVars
    BY <1>4 DEF clientVars
  <1> QED
    BY <1>1, <1>2, <1>3, <1>4 DEF Next, C!ClientNext, SendMessage, Break, vars

LEMMA FieldTypes == ASSUME LInv, [Next]_vars  PROVE FieldTyped'
  <1> USE LinkConstants DEF LInv, Typed, FieldTyped
  <1>1. CASE S!HandlerStep \/ S!Accept
    BY <1>1 DEF S!HandlerStep, S!Accept, S!BeginConnection, S!WaitForSwap, S!MustWait, S!Publish,
       S!Reply, S!WaitForSlot, S!fieldMsgReceive, S!AddMessage, S!EndConnection, S!HandlerOnly,
       S!fieldVars
  <1>2. CASE S!ReadHeader \/ S!SpuriousWake
    BY <1>2 DEF S!ReadHeader, S!SpuriousWake, S!HandlerOnly, S!fieldVars
  <1>3. CASE S!Receive
    <2>1. link.in # <<>> => Head(link.in)[2] \in -1 .. MaxFrames
      <3>1. link.in # <<>> => Head(link.in) \in Packet
        BY DEF LinkTyped
      <3> QED
        BY <3>1, PacketParts
    <2> QED
      BY <1>3, <2>1 DEF S!Receive
  <1>4. CASE S!ReceivePart
    BY <1>4 DEF S!ReceivePart, S!Torn
  <1>5. CASE S!fieldServerUnlock
    BY <1>5 DEF S!fieldServerUnlock, S!Swap
  <1>6. CASE S!fieldServerLock \/ S!fieldServerNextMessage \/ S!fieldServerFree \/ S!netServerFree
    BY <1>6 DEF S!fieldServerLock, S!fieldServerNextMessage, S!fieldServerFree, S!netServerFree,
       S!fieldVars
  <1>7. CASE UNCHANGED serverVars
    BY <1>7 DEF serverVars
  <1> QED
    BY <1>1, <1>2, <1>3, <1>4, <1>5, <1>6, <1>7 DEF Next, S!ServerNext, SendMessage, Break, vars

LEMMA ServerTypes == ASSUME LInv, [Next]_vars  PROVE ServerTyped'
  <1> USE LinkConstants DEF LInv, Typed, ServerTyped, HandlerStates
  <1>1. CASE \/ S!Accept \/ S!BeginConnection \/ S!WaitForSwap \/ S!Publish \/ S!Reply
             \/ S!WaitForSlot \/ S!fieldMsgReceive \/ S!EndConnection
    BY <1>1 DEF S!Accept, S!BeginConnection, S!WaitForSwap, S!MustWait, S!Publish,
       S!Reply, S!WaitForSlot, S!fieldMsgReceive, S!EndConnection, S!HandlerOnly,
       S!fieldVars, S!netVars, S!msgVars
  <1>2. CASE S!AddMessage
    BY <1>2, Around DEF S!AddMessage, S!fieldVars, S!netVars
  <1>3. CASE S!ReadHeader \/ S!Receive \/ S!ReceivePart \/ S!SpuriousWake
    BY <1>3 DEF S!ReadHeader, S!Receive, S!ReceivePart, S!SpuriousWake, S!HandlerOnly,
       S!fieldVars, S!netVars, S!msgVars
  <1>4. CASE S!fieldServerLock \/ S!netServerFree
    BY <1>4 DEF S!fieldServerLock, S!netServerFree, S!fieldVars, S!netVars, S!msgVars
  <1>7. CASE S!fieldServerUnlock
    BY <1>7 DEF S!fieldServerUnlock, S!fieldVars, S!netVars, S!msgVars
  <1>8. CASE S!fieldServerFree
    <2>1. handler' \in HandlerStates
      BY <1>8 DEF S!fieldServerFree
    <2>2. /\ server' = FALSE /\ m_socket' = FALSE /\ held' = -1 /\ user' = "freeing"
          /\ UNCHANGED <<missed, hasLatency, m_client, curReadMsg, curWriteMsg>>
      BY <1>8 DEF S!fieldServerFree, S!fieldVars
    <2>3. -1 \in -1 .. Slots - 1
      BY LinkConstants
    <2> QED
      BY <2>1, <2>2, <2>3
  <1>5. CASE S!fieldServerNextMessage
    BY <1>5, Around DEF S!fieldServerNextMessage, S!fieldVars, S!netVars
  <1>6. CASE UNCHANGED serverVars
    BY <1>6 DEF serverVars
  <1> QED
    BY <1>1, <1>2, <1>3, <1>4, <1>5, <1>6, <1>7, <1>8
       DEF Next, S!ServerNext, S!HandlerStep, SendMessage, Break, vars

LEMMA LinkTypes == ASSUME LInv, [Next]_vars  PROVE LinkTyped'
  <1>0. /\ link \in [state : {"closed", "pending", "accepted", "broken", "left", "dropped"},
                     in : Seq(Packet), replies : Int]
        /\ <<>> \in Seq(Packet)
        /\ C!NoLink = [state |-> "closed", in |-> <<>>, replies |-> 0]
        /\ C!NewLink = [state |-> "pending", in |-> <<>>, replies |-> 0]
    BY DEF LInv, Typed, LinkTyped, C!NoLink, C!NewLink
  <1>1. CASE C!Connect
    BY <1>0, <1>1 DEF LinkTyped, C!Connect
  <1>15. CASE C!Woken \/ C!LoseConnection
    <2>1. link' \in {C!NoLink, [link EXCEPT !.state = "left"], link}
      BY <1>15 DEF C!Woken, C!LoseConnection, C!Left
    <2>2. CASE link' = C!NoLink
      BY <1>0, <2>2 DEF LinkTyped
    <2>3. CASE link' = [link EXCEPT !.state = "left"]
      BY <1>0, <2>3 DEF LinkTyped
    <2>4. CASE link' = link
      BY <1>0, <2>4 DEF LinkTyped
    <2> QED
      BY <2>1, <2>2, <2>3, <2>4
  <1>16. CASE C!ReadReply
    BY <1>0, <1>16 DEF LinkTyped, C!ReadReply
  <1>2. ASSUME NEW p \in Packet, link' = [link EXCEPT !.in = Append(link.in, p)]  PROVE LinkTyped'
    <2>1. Append(link.in, p) \in Seq(Packet)
      BY <1>0
    <2> QED
      BY <1>0, <1>2, <2>1 DEF LinkTyped
  <1>3. CASE C!SendHead
    <2>1. <<"JMTX", fld_sending>> \in Packet
      BY DEF Packet, Kinds, LInv, Typed, ClientTyped
    <2> QED
      BY <1>2, <1>3, <2>1 DEF C!SendHead, C!Send
  <1>4. CASE C!SendData
    <2>1. <<"data", fld_sending>> \in Packet
      BY DEF Packet, Kinds, LInv, Typed, ClientTyped
    <2> QED
      BY <1>2, <1>4, <2>1 DEF C!SendData, C!Send
  <1>5. CASE SendMessage
    <2>1. <<"JMMP", 0>> \in Packet
      BY LinkConstants DEF Packet, Kinds
    <2> QED
      BY <1>2, <1>5, <2>1 DEF SendMessage
  <1>6. CASE UNCHANGED link
    BY <1>0, <1>6 DEF LinkTyped
  <1>7. CASE C!WaitToRetry \/ C!RetryWoken \/ C!Restart \/ C!ConnectFails \/ C!SpuriousWake
    BY <1>6, <1>7 DEF C!WaitToRetry, C!RetryWoken, C!Restart, C!ConnectFails, C!SpuriousWake
  <1>8. CASE C!AppCall \/ C!fieldClientOnFree
    BY <1>6, <1>8 DEF C!AppCall, C!CountCall, C!fieldClientSend, C!Offer, C!fieldClientLock,
       C!fieldClientUnlock, C!fieldClientOnFree
  <1>9. CASE S!Accept
    BY <1>0, <1>9 DEF LinkTyped, S!Accept
  <1>17. CASE S!EndConnection
    <2>1. link' \in {S!NoLink, [S!NoLink EXCEPT !.state = "dropped"]}
      BY <1>17 DEF S!EndConnection
    <2>2. link' \in {S!NoLink, [state |-> "dropped", in |-> <<>>, replies |-> 0]}
      BY <2>1 DEF S!NoLink
    <2>3. CASE link' = S!NoLink
      BY <1>0, <2>3 DEF LinkTyped, S!NoLink
    <2>4. CASE link' = [state |-> "dropped", in |-> <<>>, replies |-> 0]
      BY <1>0, <2>4 DEF LinkTyped
    <2> QED
      BY <2>2, <2>3, <2>4
  <1>10. CASE S!ReadHeader \/ S!Receive
    <2>1. link.in # <<>> => Tail(link.in) \in Seq(Packet)
      BY <1>0
    <2> QED
      BY <1>0, <1>10, <2>1 DEF LinkTyped, S!ReadHeader, S!Receive, S!RestOfLink
  <1>11. CASE S!Reply
    BY <1>0, <1>11 DEF LinkTyped, S!Reply
  <1>12. CASE \/ S!BeginConnection \/ S!WaitForSwap \/ S!Publish \/ S!WaitForSlot
              \/ S!fieldMsgReceive \/ S!AddMessage \/ S!ReceivePart \/ S!SpuriousWake
    BY <1>6, <1>12 DEF S!BeginConnection, S!WaitForSwap, S!Publish, S!WaitForSlot,
       S!fieldMsgReceive, S!AddMessage, S!ReceivePart, S!SpuriousWake
  <1>13. CASE \/ S!fieldServerLock \/ S!fieldServerUnlock \/ S!fieldServerNextMessage
              \/ S!fieldServerFree \/ S!netServerFree
    BY <1>6, <1>13 DEF S!fieldServerLock, S!fieldServerUnlock, S!fieldServerNextMessage,
       S!fieldServerFree, S!netServerFree
  <1>14. CASE Break
    BY <1>0, <1>14 DEF LinkTyped, Break
  <1> QED
    BY <1>1, <1>3, <1>4, <1>5, <1>6, <1>7, <1>8, <1>9, <1>10, <1>11, <1>12, <1>13, <1>14, <1>15,
     <1>16, <1>17
       DEF Next, C!ClientNext, C!fieldClientThread, S!ServerNext, S!HandlerStep, vars

LEMMA TypesKept == ASSUME LInv, [Next]_vars  PROVE Typed'
  BY ClientTypes, FieldTypes, ServerTypes, LinkTypes DEF Typed
-----------------------------------------------------------------------------
(* What is on its way. *)

\* Nothing is.
LEMMA WireEmpty ==
    ASSUME link'.in = <<>>, handler' \notin HeadRead,
           link'.state \in {"pending", "accepted"} => thread' # "sendData"
    PROVE  WireInv'
  BY DEF WireInv, Follows, Alternate, Open, Ordered

\* The same packets as before.
LEMMA WireSame ==
    ASSUME LInv, link'.in = link.in, missed' = missed, field' = field,
           fld_sending' \in Nat, fld_sending' >= fld_sending,
           handler' # "end" => handler # "end" /\ (handler' \in HeadRead <=> handler \in HeadRead),
           link'.state \in {"pending", "accepted"} =>
               link.state \in {"pending", "accepted"} /\ (thread' = "sendData" <=> thread = "sendData")
    PROVE  WireInv'
  <1>1. Follows'
    BY DEF LInv, WireInv, Follows, Alternate, Open
  <1>2. Ordered'
    <2> SUFFICES ASSUME ~missed, NEW i \in 1 .. Len(link.in), IsData(link.in[i])
                 PROVE  Newer(i)'
      BY DEF Ordered
    <2>1. Newer(i)
      BY DEF LInv, WireInv, Ordered
    <2>2. link.in[i] \in Packet
      BY DEF LInv, Typed, LinkTyped
    <2>3. link.in[i][2] \in 0 .. MaxFrames /\ fld_sending \in Nat
      BY <2>2, PacketParts, LinkConstants DEF LInv, Typed, ClientTyped
    <2> QED
      BY <2>1, <2>3 DEF Newer
  <1> QED
    BY <1>1, <1>2 DEF WireInv

\* One packet more: a header while none is open, the data of an open one, or a message.
LEMMA WireSent ==
    ASSUME LInv, NEW p \in Packet, link'.in = Append(link.in, p), link'.state = link.state,
           link.state \in {"pending", "accepted"},
           UNCHANGED <<handler, missed, field, fld_sending>>,
           IsData(p) <=> thread = "sendData", thread' = "sendData" <=> IsHead(p),
           IsData(p) => p[2] = fld_sending
    PROVE  WireInv'
  <1> DEFINE n == Len(link.in)
  <1>0. /\ n \in Nat /\ Len(link'.in) = n + 1 /\ link'.in # <<>>
        /\ \A i \in 1 .. n : link'.in[i] = link.in[i]
        /\ link'.in[n + 1] = p
        /\ link.in # <<>> => n \in 1 .. n
        /\ link.in = <<>> => n = 0
    BY Sent DEF LInv
  <1> HIDE DEF n
  <1>1. Follows'
    <2> SUFFICES ASSUME ~missed, handler # "end"
                 PROVE  Alternate' /\ (thread' = "sendData" <=> Open')
      BY DEF Follows
    <2>1. Alternate /\ (thread = "sendData" <=> Open)
      BY DEF LInv, WireInv, Follows
    <2>2. Alternate'
      <3> SUFFICES ASSUME NEW i \in 1 .. n + 1
                   PROVE  IsData(link'.in[i]) <=>
                              IF i = 1 THEN handler \in HeadRead ELSE IsHead(link'.in[i - 1])
        BY <1>0 DEF Alternate
      <3>1. CASE i \in 1 .. n
        <4>1. link'.in[i] = link.in[i] /\ (i # 1 => link'.in[i - 1] = link.in[i - 1])
          BY <1>0, <3>1
        <4> QED
          BY <2>1, <3>1, <4>1 DEF Alternate, n
      <3>2. CASE i = n + 1
        <4>1. IsData(link'.in[i]) <=> Open
          BY <1>0, <2>1, <3>2
        <4>2. CASE link.in = <<>>
          BY <1>0, <3>2, <4>1, <4>2 DEF Open
        <4>3. CASE link.in # <<>>
          <5>1. i # 1 /\ link'.in[i - 1] = link.in[n]
            BY <1>0, <3>2, <4>3
          <5> QED
            BY <4>1, <4>3, <5>1 DEF Open, n
        <4> QED
          BY <4>2, <4>3
      <3> QED
        BY <1>0, <3>1, <3>2
    <2>3. thread' = "sendData" <=> Open'
      BY <1>0 DEF Open
    <2> QED
      BY <2>2, <2>3
  <1>2. Ordered'
    <2> SUFFICES ASSUME ~missed, NEW i \in 1 .. n + 1, IsData(link'.in[i])  PROVE Newer(i)'
      BY <1>0 DEF Ordered
    <2>1. /\ fld_sending \in Nat /\ field[1] <= fld_sending /\ field[2] <= fld_sending
          /\ IsData(p) => p[2] = fld_sending
      BY LinkConstants DEF LInv, Typed, ClientTyped, OrderInv
    <2>2. CASE i \in 1 .. n
      <3>1. link'.in[i] = link.in[i] /\ Newer(i)
        BY <1>0, <2>2 DEF LInv, WireInv, Ordered, n
      <3>2. ASSUME NEW j \in i .. n + 1, IsData(link'.in[j])  PROVE link'.in[i][2] <= link'.in[j][2]
        <4>1. CASE j \in i .. n
          <5>1. link'.in[j] = link.in[j]
            BY <1>0, <2>2, <4>1
          <5> QED
            BY <3>1, <3>2, <4>1, <5>1 DEF Newer, n
        <4>2. CASE j = n + 1
          BY <1>0, <2>1, <3>1, <3>2, <4>2 DEF Newer
        <4> QED
          BY <1>0, <2>2, <4>1, <4>2
      <3> QED
        BY <1>0, <3>1, <3>2 DEF Newer
    <2>3. CASE i = n + 1
      <3>1. link'.in[i] = p /\ p[2] = fld_sending
        BY <1>0, <2>1, <2>3
      <3>2. \A j \in i .. n + 1 : j = i
        BY <1>0, <2>3
      <3> QED
        BY <1>0, <2>1, <3>1, <3>2 DEF Newer
    <2> QED
      BY <1>0, <2>2, <2>3
  <1> QED
    BY <1>1, <1>2 DEF WireInv

\* One packet less; if it was the data of a frame, a field may hold it.
Kept(b) ==
    \/ field'[b] = field[b]
    \/ missed
    \/ IsData(link.in[1]) /\ field'[b] = link.in[1][2]

LEMMA WireRead ==
    ASSUME LInv, link.in # <<>>, link'.in = Tail(link.in), link'.state = link.state,
           UNCHANGED <<missed, thread, fld_sending>>,
           handler # "end",
           ~missed /\ handler' # "end" => (handler' \in HeadRead <=> IsHead(link.in[1])),
           Kept(1) /\ Kept(2)
    PROVE  WireInv'
  <1> DEFINE n == Len(link.in)
  <1>0. /\ n \in Nat \ {0} /\ Len(link'.in) = n - 1
        /\ \A i \in 1 .. n - 1 : link'.in[i] = link.in[i + 1] /\ i + 1 \in 2 .. n
        /\ link'.in = <<>> <=> n = 1
    <2>1. Typed
      BY DEF LInv
    <2>2. /\ n \in Nat \ {0} /\ Len(link'.in) = n - 1
          /\ \A i \in 1 .. Len(link'.in) : link'.in[i] = link.in[i + 1] /\ i + 1 \in 2 .. n
          /\ link'.in = <<>> <=> Len(link'.in) = 0
      BY <2>1, Read
    <2> QED
      BY <2>2
  <1> HIDE DEF n
  <1>1. Follows'
    <2> SUFFICES ASSUME ~missed, handler' # "end"
                 PROVE  /\ Alternate'
                        /\ link.state \in {"pending", "accepted"} => (thread = "sendData" <=> Open')
      BY DEF Follows
    <2>1. /\ Alternate /\ (handler' \in HeadRead <=> IsHead(link.in[1]))
          /\ link.state \in {"pending", "accepted"} => (thread = "sendData" <=> Open)
      BY DEF LInv, WireInv, Follows
    <2>2. Alternate'
      <3> SUFFICES ASSUME NEW i \in 1 .. n - 1
                   PROVE  IsData(link'.in[i]) <=>
                              IF i = 1 THEN handler' \in HeadRead ELSE IsHead(link'.in[i - 1])
        BY <1>0 DEF Alternate
      <3>1. /\ link'.in[i] = link.in[i + 1] /\ i + 1 \in 1 .. n /\ i + 1 # 1 /\ (i + 1) - 1 = i
            /\ i # 1 => link'.in[i - 1] = link.in[i]
        <4>1. i + 1 \in 1 .. n /\ i + 1 # 1 /\ (i + 1) - 1 = i
          BY <1>0
        <4>2. i # 1 => i - 1 \in 1 .. n - 1 /\ (i - 1) + 1 = i
          BY <1>0
        <4> QED
          BY <1>0, <4>1, <4>2
      <3>2. IsData(link.in[i + 1]) <=> IsHead(link.in[i])
        BY <2>1, <3>1 DEF Alternate, n
      <3> QED
        BY <2>1, <3>1, <3>2
    <2>3. Open' <=> Open
      <3>1. CASE n = 1
        BY <1>0, <2>1, <3>1 DEF Open, n
      <3>2. CASE n # 1
        <4>1. link'.in # <<>> /\ link'.in[n - 1] = link.in[n]
          BY <1>0, <3>2
        <4> QED
          BY <1>0, <4>1 DEF Open, n
      <3> QED
        BY <3>1, <3>2
    <2> QED
      BY <2>1, <2>2, <2>3
  <1>2. Ordered'
    <2> SUFFICES ASSUME ~missed, NEW i \in 1 .. n - 1, IsData(link'.in[i])  PROVE Newer(i)'
      BY <1>0 DEF Ordered
    <2>1. link'.in[i] = link.in[i + 1] /\ i + 1 \in 1 .. n
      BY <1>0
    <2>2. Newer(i + 1)
      BY <2>1 DEF LInv, WireInv, Ordered, n
    <2>3. \A b \in {1, 2} : field'[b] <= link'.in[i][2]
      <3> TAKE b \in {1, 2}
      <3>0. Kept(b)
        OBVIOUS
      <3>1. CASE field'[b] = field[b]
        BY <2>1, <2>2, <3>1 DEF Newer
      <3>2. CASE IsData(link.in[1]) /\ field'[b] = link.in[1][2]
        <4>1. Newer(1)
          BY <1>0, <3>2 DEF LInv, WireInv, Ordered, n
        <4> QED
          BY <1>0, <2>1, <3>2, <4>1 DEF Newer, n
      <3> QED
        BY <3>0, <3>1, <3>2 DEF Kept
    <2>4. ASSUME NEW j \in i .. n - 1, IsData(link'.in[j])  PROVE link'.in[i][2] <= link'.in[j][2]
      <3>1. link'.in[j] = link.in[j + 1] /\ j + 1 \in i + 1 .. n
        BY <1>0
      <3> QED
        BY <2>1, <2>2, <2>4, <3>1 DEF Newer, n
    <2> QED
      BY <1>0, <2>1, <2>2, <2>3, <2>4 DEF Newer
  <1> QED
    BY <1>1, <1>2 DEF WireInv

LEMMA WireOfClient == ASSUME LInv, ClientSteps  PROVE WireInv'
  <1> USE DEF ClientSteps, serverVars, C!Usable
  <1>0. /\ fld_sending \in Nat /\ offered \in Nat /\ fld_sending <= offered
        /\ link.state \in {"closed", "dropped"} => link.in = <<>>
        /\ handler # "none" => link.state \in {"accepted", "broken", "left"}
    BY LinkConstants DEF LInv, Typed, ClientTyped, ClientInv, LinkInv
  <1>1. CASE C!Connect
    <2>1. link' = C!NewLink /\ thread' = "restart" /\ link.state = "closed" /\ handler' = handler
      BY <1>1 DEF C!Connect
    <2>2. handler = "none" /\ link'.in = <<>>
      BY <1>0, <2>1 DEF C!NewLink, C!NoLink
    <2> QED
      BY <2>1, <2>2, WireEmpty DEF HeadRead
  <1>2. CASE C!SendHead
    <2> DEFINE p == <<"JMTX", fld_sending>>
    <2>1. /\ p \in Packet /\ IsHead(p) /\ ~IsData(p)
      BY DEF Packet, Kinds, IsHead, IsData, LInv, Typed, ClientTyped
    <2>2. /\ link'.in = Append(link.in, p) /\ link'.state = link.state
          /\ link.state \in {"pending", "accepted"}
          /\ UNCHANGED <<handler, missed, field, fld_sending>>
          /\ thread = "sendHead" /\ thread' = "sendData"
      BY <1>2 DEF C!SendHead, C!Send, LInv, Typed, LinkTyped
    <2> HIDE DEF p
    <2> QED
      BY <2>1, <2>2, WireSent
  <1>3. CASE C!SendData
    <2> DEFINE p == <<"data", fld_sending>>
    <2>1. /\ p \in Packet /\ ~IsHead(p) /\ IsData(p) /\ p[2] = fld_sending
      BY DEF Packet, Kinds, IsHead, IsData, LInv, Typed, ClientTyped
    <2>2. /\ link'.in = Append(link.in, p) /\ link'.state = link.state
          /\ link.state \in {"pending", "accepted"}
          /\ UNCHANGED <<handler, missed, field, fld_sending>>
          /\ thread = "sendData" /\ thread' # "sendData"
      BY <1>3 DEF C!SendData, C!Send, LInv, Typed, LinkTyped
    <2> HIDE DEF p
    <2> QED
      BY <2>1, <2>2, WireSent
  <1>4. CASE C!Woken \/ C!LoseConnection
    <2>1. /\ link' \in {C!Left, link}
          /\ link' = C!Left \/ (thread = "woken" /\ thread' = "sendHead")
          /\ UNCHANGED <<fld_sending, handler, missed, field>>
      BY <1>4 DEF C!Woken, C!LoseConnection
    <2>2. CASE link' = C!Left
      <3>1. link'.in = link.in /\ link'.state \in {"closed", "left"}
        BY <1>0, <2>2 DEF C!Left, C!NoLink, LInv, Typed, LinkTyped
      <3> QED
        BY <1>0, <2>1, <3>1, WireSame
    <2>3. CASE link' = link /\ thread = "woken" /\ thread' = "sendHead"
      BY <1>0, <2>1, <2>3, WireSame
    <2> QED
      BY <2>1, <2>2, <2>3
  <1>5. CASE \/ C!WaitToRetry \/ C!RetryWoken \/ C!Restart \/ C!ConnectFails \/ C!ReadReply
             \/ C!SpuriousWake
    <2>1. /\ link'.in = link.in /\ link'.state = link.state
          /\ UNCHANGED <<fld_sending, handler, missed, field>>
          /\ thread # "sendData" /\ thread' # "sendData"
      BY <1>5 DEF C!WaitToRetry, C!RetryWoken, C!Restart, C!ConnectFails, C!ReadReply,
         C!SpuriousWake, LInv, Typed, LinkTyped
    <2> QED
      BY <1>0, <2>1, WireSame
  <1>6. CASE C!AppCall \/ C!fieldClientOnFree
    <2>1. /\ link' = link /\ UNCHANGED <<handler, missed, field>>
          /\ thread' = "sendData" <=> thread = "sendData"
          /\ fld_sending' \in {fld_sending, offered, offered + 1}
      BY <1>6 DEF C!AppCall, C!CountCall, C!Signal, C!fieldClientSend, C!Offer, C!fieldClientLock,
         C!fieldClientUnlock, C!fieldClientOnFree
    <2>2. fld_sending' \in Nat /\ fld_sending' >= fld_sending
      BY <1>0, <2>1
    <2> QED
      BY <2>1, <2>2, WireSame
  <1> QED
    BY <1>1, <1>2, <1>3, <1>4, <1>5, <1>6 DEF C!ClientNext, C!fieldClientThread

LEMMA WireOfServer == ASSUME LInv, ServerSteps  PROVE WireInv'
  <1> USE DEF ServerSteps, clientVars
  <1>0. fld_sending \in Nat /\ fld_sending >= fld_sending
    BY LinkConstants DEF LInv, Typed, ClientTyped
  <1>1. CASE S!EndConnection
    <2>1. link'.in = <<>> /\ link'.state \in {"closed", "dropped"} /\ handler' = "none"
      BY <1>1 DEF S!EndConnection, S!NoLink
    <2> QED
      BY <2>1, WireEmpty DEF HeadRead
  <1>2. CASE S!ReceivePart
    <2>1. /\ handler' = "end" /\ field' = [field EXCEPT ![d] = -1] /\ link' = link
          /\ UNCHANGED <<missed, fld_sending>>
      BY <1>2 DEF S!ReceivePart, S!Torn
    <2>2. Ordered'
      <3> SUFFICES ASSUME ~missed, NEW i \in 1 .. Len(link.in), IsData(link.in[i])
                   PROVE  Newer(i)'
        BY <2>1 DEF Ordered
      <3>1. Newer(i) /\ link.in[i] \in Packet
        BY DEF LInv, Typed, LinkTyped, WireInv, Ordered
      <3>2. link.in[i][2] \in 0 .. MaxFrames
        BY <3>1, PacketParts
      <3>3. field'[1] \in {field[1], -1} /\ field'[2] \in {field[2], -1}
        BY <2>1 DEF LInv, Typed, FieldTyped
      <3> QED
        BY <2>1, <3>1, <3>2, <3>3, LinkConstants DEF Newer
    <2> QED
      BY <2>1, <2>2 DEF WireInv, Follows
  <1>3. CASE S!Receive
    <2>1. CASE link.in = <<>>
      BY <1>3, <2>1 DEF S!Receive, WireInv, Follows, Ordered
    <2>2. CASE link.in # <<>>
      <3>1. /\ field' = [field EXCEPT ![d] = Head(link.in)[2]]
            /\ link'.in = Tail(link.in) /\ link'.state = link.state
            /\ UNCHANGED <<missed, thread, fld_sending>>
            /\ handler = "receive" /\ handler' = "publish"
        BY <1>3, <2>2 DEF S!Receive, S!RestOfLink, LInv, Typed, LinkTyped
      <3>2. Head(link.in) = link.in[1] /\ 1 \in 1 .. Len(link.in)
        BY <2>2, <3>1, Read DEF LInv
      <3>3. \A b \in {1, 2} : field'[b] = field[b] \/ field'[b] = link.in[1][2]
        BY <3>1, <3>2 DEF LInv, Typed, FieldTyped
      <3>4. ~missed => IsData(link.in[1])
        BY <3>1, <3>2 DEF LInv, WireInv, Follows, Alternate, HeadRead
      <3>5. handler' \notin HeadRead /\ (~missed => ~IsHead(link.in[1]))
        BY <3>1, <3>4 DEF IsData, IsHead, HeadRead
      <3>6. Kept(1) /\ Kept(2)
        BY <3>3, <3>4 DEF Kept
      <3>7. ~missed /\ handler' # "end" => (handler' \in HeadRead <=> IsHead(link.in[1]))
        BY <3>5
      <3> QED
        BY <2>2, <3>1, <3>6, <3>7, WireRead
    <2> QED
      BY <2>1, <2>2
  <1>4. CASE S!ReadHeader
    <2>1. CASE link.in = <<>>
      BY <1>0, <1>4, <2>1, WireSame DEF S!ReadHeader, S!HandlerOnly, S!fieldVars
    <2>2. CASE link.in # <<>>
      <3>1. /\ link'.in = Tail(link.in) /\ link'.state = link.state
            /\ UNCHANGED <<missed, thread, fld_sending, field>>
            /\ handler = "header"
            /\ handler' = CASE Head(link.in)[1] = "JMTX" -> "wait"
                            [] Head(link.in)[1] = "JMMP" -> "message"
                            [] OTHER -> "end"
        BY <1>4, <2>2 DEF S!ReadHeader, S!RestOfLink, S!HandlerOnly, S!fieldVars, LInv, Typed, LinkTyped
      <3>2. Head(link.in) = link.in[1]
        BY <2>2, <3>1, Read DEF LInv
      <3>3. handler' # "end" => (handler' \in HeadRead <=> IsHead(link.in[1]))
        BY <3>1, <3>2 DEF HeadRead, IsHead
      <3>4. Kept(1) /\ Kept(2)
        BY <3>1 DEF Kept
      <3> QED
        BY <2>2, <3>1, <3>3, <3>4, WireRead
    <2> QED
      BY <2>1, <2>2
  <1>5. CASE \/ S!Accept \/ S!BeginConnection \/ S!WaitForSwap \/ S!Publish \/ S!Reply
             \/ S!WaitForSlot \/ S!fieldMsgReceive \/ S!AddMessage \/ S!SpuriousWake
    <2>1. /\ link'.in = link.in /\ UNCHANGED <<missed, field, thread, fld_sending>>
          /\ link'.state \in {"pending", "accepted"} => link.state \in {"pending", "accepted"}
      BY <1>5 DEF S!Accept, S!BeginConnection, S!WaitForSwap, S!Publish, S!Reply, S!WaitForSlot,
         S!fieldMsgReceive, S!AddMessage, S!SpuriousWake, S!HandlerOnly, S!fieldVars, LInv, Typed,
         LinkTyped
    <2>2. handler' # "end" => handler # "end" /\ (handler' \in HeadRead <=> handler \in HeadRead)
      <3>1. CASE S!Accept
        BY <3>1 DEF S!Accept, S!MayAccept, LInv, LinkInv, HeadRead
      <3>2. CASE ~S!Accept
        BY <1>5, <3>2 DEF S!BeginConnection, S!WaitForSwap, S!Publish, S!Reply, S!WaitForSlot,
           S!fieldMsgReceive, S!AddMessage, S!SpuriousWake, HeadRead
      <3> QED
        BY <3>1, <3>2
    <2> QED
      BY <1>0, <2>1, <2>2, WireSame
  <1>6. CASE \/ S!fieldServerLock \/ S!fieldServerUnlock \/ S!fieldServerNextMessage
             \/ S!fieldServerFree \/ S!netServerFree
    <2>1. /\ link' = link /\ UNCHANGED <<missed, field, thread, fld_sending>>
          /\ handler' # "end" => handler # "end"
          /\ handler' \in HeadRead <=> handler \in HeadRead
      BY <1>6 DEF S!fieldServerLock, S!fieldServerUnlock, S!fieldServerNextMessage,
         S!fieldServerFree, S!netServerFree, S!fieldVars, HeadRead
    <2> QED
      BY <1>0, <2>1, WireSame
  <1> QED
    BY <1>1, <1>2, <1>3, <1>4, <1>5, <1>6 DEF S!ServerNext, S!HandlerStep

LEMMA WireKept == ASSUME LInv, [Next]_vars  PROVE WireInv'
  <1>0. fld_sending \in Nat
    BY LinkConstants DEF LInv, Typed, ClientTyped
  <1>1. CASE SendMessage
    <2> DEFINE p == <<"JMMP", 0>>
    <2>1. /\ p \in Packet /\ ~IsHead(p) /\ ~IsData(p)
      BY LinkConstants DEF Packet, Kinds, IsHead, IsData
    <2>2. /\ link'.in = Append(link.in, p) /\ link'.state = link.state
          /\ link.state \in {"pending", "accepted"}
          /\ UNCHANGED <<handler, missed, field, fld_sending>>
          /\ thread # "sendData" /\ thread' = thread
      BY <1>1 DEF SendMessage, clientVars, serverVars, LInv, Typed, LinkTyped
    <2> HIDE DEF p
    <2> QED
      BY <2>1, <2>2, WireSent
  <1>2. CASE Break
    <2> USE DEF Break, clientVars, serverVars
    <2>1. CASE link.state = "accepted"
      <3>1. link'.in = link.in /\ link'.state = "broken"
        BY <1>2, <2>1 DEF LInv, Typed, LinkTyped
      <3> QED
        BY <1>0, <1>2, <3>1, WireSame
    <2>2. CASE link.state # "accepted"
      <3>1. link'.in = <<>> /\ link'.state = "dropped" /\ handler' = "none"
        BY <1>2, <2>2 DEF LInv, Typed, LinkTyped, LinkInv
      <3> QED
        BY <3>1, WireEmpty DEF HeadRead
    <2> QED
      BY <2>1, <2>2
  <1>3. CASE UNCHANGED vars
    BY <1>0, <1>3, WireSame DEF vars, clientVars, serverVars
  <1> QED
    BY <1>1, <1>2, <1>3, WireOfClient, WireOfServer DEF Next, ClientSteps, ServerSteps
-----------------------------------------------------------------------------
(* The order of the frames. *)

LEMMA OrderKept == ASSUME LInv, [Next]_vars  PROVE OrderInv'
  <1>0. /\ fld_sending \in Nat /\ offered \in Nat /\ fld_sending <= offered
        /\ field \in [{1, 2} -> -1 .. MaxFrames] /\ MaxFrames \in Nat
        /\ (fld_net = 1 /\ fld_local = 2) \/ (fld_net = 2 /\ fld_local = 1)
        /\ field[1] \in Int /\ field[2] \in Int
        /\ handler \in {"receive", "publish"} => d = fld_net /\ needSwap = 0
    BY LinkConstants DEF LInv, Typed, ClientTyped, ClientInv, FieldTyped, FieldInv
  <1>1. CASE ClientSteps
    <2>1. /\ fld_sending' \in {fld_sending, offered, offered + 1}
          /\ UNCHANGED <<field, fld_net, fld_local, handler, needSwap, missed>>
      BY <1>1 DEF ClientSteps, serverVars, C!ClientNext, C!fieldClientThread, C!Connect, C!WaitToRetry,
         C!RetryWoken, C!Restart, C!Woken, C!SendHead, C!SendData, C!Send, C!ReadReply,
         C!LoseConnection, C!ConnectFails, C!SpuriousWake, C!AppCall, C!CountCall, C!fieldClientSend, C!Offer,
         C!fieldClientLock, C!fieldClientUnlock, C!fieldClientOnFree
    <2>2. fld_sending' \in Int /\ fld_sending' >= fld_sending
      BY <1>0, <2>1
    <2> QED
      BY <1>0, <2>1, <2>2 DEF LInv, OrderInv
  <1>2. CASE ServerSteps
    <2> USE DEF ServerSteps, clientVars
    <2>1. CASE S!Receive /\ link.in # <<>>
      <3>1. SUFFICES ASSUME ~missed  PROVE OrderInv'
        BY <2>1 DEF OrderInv, S!Receive
      <3>2. Head(link.in) = link.in[1] /\ Head(link.in) \in Packet /\ 1 \in 1 .. Len(link.in)
        BY <2>1, Read DEF LInv, S!Receive, S!RestOfLink, Typed, LinkTyped
      <3>3. IsData(link.in[1])
        BY <2>1, <3>1, <3>2 DEF S!Receive, LInv, WireInv, Follows, Alternate, HeadRead
      <3>4. Newer(1)
        BY <3>1, <3>2, <3>3 DEF LInv, WireInv, Ordered
      <3> DEFINE v == link.in[1][2]
      <3>5. v \in Int /\ field[1] <= v /\ field[2] <= v /\ v <= fld_sending
        BY <3>2, <3>4, PacketParts, LinkConstants DEF Newer
      <3>6. /\ field' = [field EXCEPT ![fld_net] = v]
            /\ UNCHANGED <<fld_net, fld_local, needSwap, missed, fld_sending>>
        BY <1>0, <1>2, <2>1, <3>2 DEF S!Receive
      <3> HIDE DEF v
      <3>7. /\ field'[1] <= fld_sending /\ field'[2] <= fld_sending
            /\ field'[fld_local] <= field'[fld_net]
        BY <1>0, <3>5, <3>6 DEF LInv, OrderInv
      <3> QED
        BY <3>6, <3>7 DEF OrderInv
    <2>2. CASE S!Receive /\ link.in = <<>>
      BY <2>2 DEF S!Receive, OrderInv
    <2>3. CASE S!ReceivePart
      <3>1. /\ handler' = "end" /\ needSwap' = 0 /\ field' = [field EXCEPT ![fld_net] = -1]
            /\ UNCHANGED <<missed, fld_sending>>
        BY <1>0, <1>2, <2>3 DEF S!ReceivePart, S!Torn
      <3>2. field'[1] \in {field[1], -1} /\ field'[2] \in {field[2], -1}
        BY <1>0, <3>1
      <3> QED
        BY <1>0, <3>1, <3>2 DEF LInv, OrderInv
    <2>4. CASE S!Publish
      BY <1>2, <2>4 DEF S!Publish, LInv, OrderInv
    <2>5. CASE S!fieldServerUnlock
      <3>1. /\ needSwap' = 0 /\ UNCHANGED <<missed, field, fld_sending>>
            /\ handler' = "publish" => handler = "publish"
            /\ needSwap = 0 => UNCHANGED <<fld_net, fld_local>>
        BY <1>2, <2>5 DEF S!fieldServerUnlock, S!Swap, LInv, Typed, FieldTyped
      <3> QED
        BY <1>0, <3>1 DEF LInv, OrderInv
    <2>6. CASE \/ S!Accept \/ S!BeginConnection \/ S!WaitForSwap \/ S!Reply \/ S!WaitForSlot
               \/ S!fieldMsgReceive \/ S!AddMessage \/ S!EndConnection \/ S!ReadHeader
               \/ S!fieldServerLock \/ S!fieldServerNextMessage \/ S!fieldServerFree
               \/ S!netServerFree \/ S!SpuriousWake
      <3>1. /\ UNCHANGED <<missed, field, fld_net, fld_local, needSwap, fld_sending>>
            /\ handler' = "publish" => handler = "publish"
        BY <1>2, <2>6 DEF S!Accept, S!BeginConnection, S!WaitForSwap, S!Reply, S!WaitForSlot,
           S!fieldMsgReceive, S!AddMessage, S!EndConnection, S!ReadHeader, S!fieldServerLock,
           S!fieldServerNextMessage, S!fieldServerFree, S!netServerFree, S!SpuriousWake,
           S!HandlerOnly, S!fieldVars
      <3> QED
        BY <3>1 DEF LInv, OrderInv
    <2> QED
      BY <1>2, <2>1, <2>2, <2>3, <2>4, <2>5, <2>6 DEF S!ServerNext, S!HandlerStep
  <1>3. CASE SendMessage \/ Break \/ UNCHANGED vars
    BY <1>3 DEF SendMessage, Break, vars, clientVars, serverVars, LInv, OrderInv
  <1> QED
    BY <1>1, <1>2, <1>3 DEF Next, ClientSteps, ServerSteps
-----------------------------------------------------------------------------
(* The theorems. *)

LEMMA InitHolds == Init => LInv
  <1> SUFFICES ASSUME Init  PROVE LInv
    OBVIOUS
  <1> USE LinkConstants DEF Init, C!Init, S!Init, C!NoLink, S!NoLink
  <1>0. <<>> \in Seq(Packet) /\ Len(<<>>) = 0
    OBVIOUS
  <1>1. ClientTyped /\ FieldTyped
    <2>1. unasked \in BOOLEAN
      OBVIOUS
    <2>2. FieldTyped
      BY DEF FieldTyped
    <2> QED
      BY <2>1, <2>2 DEF ClientTyped
  <1>2. ServerTyped
    <2>1. 0 \in 0 .. Slots - 1 /\ -1 \in -1 .. Slots - 1
      OBVIOUS
    <2>2. /\ handler = "none" /\ user = "idle" /\ server = TRUE /\ missed = FALSE
          /\ hasLatency = FALSE /\ m_socket = TRUE /\ m_client = FALSE
          /\ curReadMsg = 0 /\ curWriteMsg = 0 /\ held = -1
      OBVIOUS
    <2> QED
      BY <2>1, <2>2 DEF ServerTyped, HandlerStates
  <1>6. LinkTyped
    BY <1>0 DEF LinkTyped
  <1>3. ClientInv /\ LinkInv /\ FieldInv
    BY DEF ClientInv, LinkInv, FieldInv, Connected
  <1>4. RingInv
    BY Around DEF RingInv
  <1>5. WireInv /\ OrderInv
    BY <1>0 DEF WireInv, Follows, Alternate, Open, Ordered, OrderInv, HeadRead
  <1> QED
    BY <1>1, <1>2, <1>3, <1>4, <1>5, <1>6 DEF LInv, Typed

\* LInv holds in every state two programs and their connection can be in.
THEOREM LinkInvariant == Spec => []LInv
  <1>1. LInv /\ [Next]_vars => LInv'
    BY TypesKept, ClientKept, FieldKept, LinkKept, RingKept, WireKept, OrderKept DEF LInv
  <1> QED
    BY InitHolds, <1>1, PTL DEF Spec

\* The counters of the calls, the buffers and the indices of the ring stay in their ranges.
THEOREM LinkTyping == Spec => []TypeOK
  <1>1. LInv => TypeOK
    <2> SUFFICES ASSUME LInv  PROVE TypeOK
      OBVIOUS
    <2>1. ClientTyped /\ FieldTyped /\ ServerTyped /\ LinkTyped
      BY DEF LInv, Typed
    <2>2. m_runningThreads \in 0 .. 1
      BY DEF LInv, LinkInv
    <2>3. {fld_net, fld_local} = {1, 2}
      BY <2>1 DEF FieldTyped
    <2>4. {server, missed, hasLatency, m_socket, m_client} \subseteq BOOLEAN
      BY <2>1 DEF ServerTyped
    <2> QED
      BY <2>1, <2>2, <2>3, <2>4
         DEF TypeOK, ClientTyped, FieldTyped, ServerTyped, LinkTyped, S!Torn
  <1> QED
    BY LinkInvariant, <1>1, PTL

\* No buffer is filled by one thread while another uses it: the field that is drawn into, the
\* one that is received into and the message that is read are all used without a lock
\* (fieldClientLock, fieldServerOnConnect, fieldServerNextMessage).  For the field that is
\* drawn into this has a hypothesis, ~unasked: the client's thread was given what it sends,
\* and did not wake on its own.
THEOREM BuffersStayApart == Spec => []BuffersApart
  <1>1. LInv => BuffersApart
    <2> SUFFICES ASSUME LInv  PROVE BuffersApart
      OBVIOUS
    <2>1. SendAlone
      BY DEF LInv, ClientInv, SendAlone
    <2>2. ReceiveAlone
      BY DEF LInv, FieldInv, ReceiveAlone
    <2>3. MessageAlone
      <3> SUFFICES ASSUME handler = "receiveMsg", curWriteMsg = held  PROVE FALSE
        BY DEF MessageAlone
      <3>1. held # -1
        BY LinkConstants DEF LInv, Typed, ServerTyped
      <3> QED
        BY <3>1 DEF LInv, RingInv
    <2> QED
      BY <2>1, <2>2, <2>3 DEF BuffersApart
  <1> QED
    BY LinkInvariant, <1>1, PTL

\* The program never goes back to an older frame, whatever connections were lost and frames
\* cut short, as long as no header comes without its data.
THEOREM FramesGoForward == Spec => FramesForward
  <1>1. LInv /\ [Next]_vars => [~missed' => field'[fld_local'] >= field[fld_local]]_vars
    <2> SUFFICES ASSUME LInv, [Next]_vars, ~missed'
                 PROVE  field'[fld_local'] >= field[fld_local]
      OBVIOUS
    <2>0. /\ field \in [{1, 2} -> -1 .. MaxFrames] /\ field[1] \in Int /\ field[2] \in Int
          /\ (fld_net = 1 /\ fld_local = 2) \/ (fld_net = 2 /\ fld_local = 1)
          /\ handler \in {"receive", "publish"} => d = fld_net
      BY LinkConstants DEF LInv, Typed, FieldTyped, FieldInv
    <2>1. CASE S!Receive \/ S!ReceivePart
      <3>1. fld_local' = fld_local /\ \E v : field' = [field EXCEPT ![d] = v] \/ field' = field
        BY <2>1 DEF S!Receive, S!ReceivePart
      <3>2. d = fld_net
        BY <2>0, <2>1 DEF S!Receive, S!ReceivePart
      <3>3. field'[fld_local] = field[fld_local]
        BY <2>0, <3>1, <3>2
      <3> QED
        BY <2>0, <3>1, <3>3
    <2>2. CASE S!fieldServerUnlock
      <3>1. /\ UNCHANGED <<missed, field>> /\ needSwap \in {0, 1}
            /\ needSwap = 0 => fld_local' = fld_local
            /\ needSwap = 1 => fld_local' = fld_net
        BY <2>2 DEF S!fieldServerUnlock, S!Swap, LInv, Typed, FieldTyped
      <3>2. needSwap = 1 => field[fld_local] <= field[fld_net]
        BY <3>1 DEF LInv, OrderInv
      <3> QED
        BY <2>0, <3>1, <3>2
    <2>3. CASE \/ S!Accept \/ S!HandlerStep \/ S!ReadHeader \/ S!fieldServerLock
               \/ S!fieldServerNextMessage \/ S!fieldServerFree \/ S!netServerFree
               \/ S!SpuriousWake
      <3>1. UNCHANGED <<field, fld_local>>
        BY <2>3 DEF S!HandlerStep, S!Accept, S!BeginConnection, S!WaitForSwap, S!Publish, S!Reply,
           S!WaitForSlot, S!fieldMsgReceive, S!AddMessage, S!EndConnection, S!ReadHeader,
           S!fieldServerLock, S!fieldServerNextMessage, S!fieldServerFree, S!netServerFree,
           S!SpuriousWake, S!HandlerOnly, S!fieldVars
      <3> QED
        BY <2>0, <3>1
    <2>4. CASE UNCHANGED serverVars
      BY <2>0, <2>4 DEF serverVars
    <2> QED
      BY <2>1, <2>2, <2>3, <2>4 DEF Next, S!ServerNext, SendMessage, Break, vars
  <1> QED
    BY LinkInvariant, <1>1, PTL DEF Spec, FramesForward
=============================================================================
