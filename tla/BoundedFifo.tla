----------------------------- MODULE BoundedFifo -----------------------------
(***************************************************************************)
(* What JdMessageQueue promises: a bounded first-in first-out queue.  Every *)
(* message delivered is one that was sent, once, in the order it was sent.  *)
(***************************************************************************)
EXTENDS Naturals, Sequences

CONSTANTS Messages, Capacity

VARIABLES
    buffer,     \* sent and not delivered yet
    delivered   \* what the readers have been given, in order

fifoVars == <<buffer, delivered>>

FifoInit ==
    /\ buffer = <<>>
    /\ delivered = <<>>

Send(m) ==
    /\ Len(buffer) < Capacity
    /\ buffer' = Append(buffer, m)
    /\ UNCHANGED delivered

Receive ==
    /\ buffer # <<>>
    /\ delivered' = Append(delivered, Head(buffer))
    /\ buffer' = Tail(buffer)

FifoNext == Receive \/ \E m \in Messages : Send(m)

FifoSpec == FifoInit /\ [][FifoNext]_fifoVars
=============================================================================
