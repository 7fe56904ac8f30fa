---------------------------- MODULE BoundedFifo ----------------------------
(***************************************************************************)
(* What the message queue of mpx.h:30-49 promises its callers: a bounded   *)
(* first-in first-out buffer.  A push appends, a pop removes the oldest    *)
(* message, a clear drops every message; nothing else changes the buffer.  *)
(***************************************************************************)
EXTENDS Naturals, Sequences

CONSTANTS Items,      \* the messages
          NoItem,     \* what a pop has returned before the first pop
          Capacity    \* the number of messages the buffer holds (in_maxSize)

VARIABLES fifo,       \* the messages pushed and not yet popped, oldest first
          popped,     \* the message the last pop returned
          cleared     \* was the last operation a clear?  (Who pushes or pops must
                      \* not drop messages under the name of a clear.)

fifoVars == <<fifo, popped, cleared>>

Init ==
    /\ fifo = <<>>
    /\ popped = NoItem
    /\ cleared = FALSE

Push(v) ==
    /\ Len(fifo) < Capacity
    /\ fifo' = Append(fifo, v)
    /\ cleared' = FALSE
    /\ UNCHANGED popped

Pop ==
    /\ fifo # <<>>
    /\ popped' = Head(fifo)
    /\ fifo' = Tail(fifo)
    /\ cleared' = FALSE

Clear ==
    /\ fifo' = <<>>
    /\ cleared' = TRUE
    /\ UNCHANGED popped

Next == Pop \/ Clear \/ \E v \in Items : Push(v)

Spec == Init /\ [][Next]_fifoVars
=============================================================================
