----------------------- MODULE MCJdMessageQueueReader ------------------------
(* The single reader, that waits with or without a time-out: a queue is     *)
(* read in one of the two ways (limited: with one), as the initial state    *)
(* says.  Five tickets go round a ring of two slots twice.                  *)
EXTENDS JdMessageQueue, TLC

CONSTANTS p1, p2, c1, none

VARIABLE limited

TwoProducers == {p1, p2}
OneConsumer == {c1}
UntimedPush == {"Push"}
UntimedReads == {"Claim", "Wait"}
NoStaleFront == {0}

Timed == INSTANCE JdMessageQueue WITH ConsumerOps <- {"TimedWait"}, MaxTicket <- 4

ReaderInit == limited \in BOOLEAN /\ Init

ReaderNext ==
    /\ UNCHANGED limited
    /\ \/ ~ limited /\ Next
       \/ limited /\ Timed!Next

ReaderSpec ==
    /\ ReaderInit
    /\ [][ReaderNext]_<<vars, limited>>
    /\ \A p \in Producers : WF_vars(~ Crashed /\ CommitStep(p))
    /\ WF_vars(~ Crashed /\ \E c \in Consumers :
                 \/ ~ limited /\ ConsumerStep(c)
                 \/ limited /\ Timed!ConsumerStep(c))
=============================================================================
