-------------------------- MODULE MCJdMessageQueue --------------------------
(* A ring of two slots: two producers can both be blocked on a full ring,   *)
(* and four or five tickets go round it twice.                              *)
EXTENDS JdMessageQueue, TLC

CONSTANTS p1, p2, c1, c2, none

OneProducer == {p1}
TwoProducers == {p1, p2}
OneConsumer == {c1}
TwoConsumers == {c1, c2}

UntimedPush == {"Push"}
AnyPush == {"Push", "TimedPush"}
RawReads == {"Claim", "Wait"}
Pops == {"Pop", "PopWait"}

\* Nothing ever written to a fresh deque's memory is a sequence number to come.
NoStaleFront == {0}
=============================================================================
