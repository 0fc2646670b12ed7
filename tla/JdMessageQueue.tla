--------------------------- MODULE JdMessageQueue ---------------------------
(***************************************************************************)
(* concurrent/JdMessageQueue.hpp: the ring buffer every mailbox of the      *)
(* library is made of (task pool, thread ports, marshalling, the logger).   *)
(*                                                                          *)
(* A producer draws a ticket from insertSequence, waits until the ticket is *)
(* within one ring of claimSequence, writes the slot, waits for its turn to *)
(* advance commitSequence, and then counts the message in m_signalCount,    *)
(* waking the reader through m_signal when the count was negative.  Readers *)
(* take from the count, read slots from claimSequence on and advance it.    *)
(*                                                                          *)
(* A message is named by the ticket of the Push that sent it; 0 is T (), the *)
(* value of an empty slot.  seq_t has 64 bits and the constructor starts at *)
(* 1, so sequences are natural numbers.  m_signal is a counter of permits.  *)
(* Each access to shared memory that another thread can interleave with is  *)
(* an action; so is the gap between testing for space and sleeping.         *)
(***************************************************************************)
EXTENDS Integers, Sequences, FiniteSets

CONSTANTS
    Producers, Consumers,
    QueueSize,      \* m_queue.size (), a power of two
    MaxTicket,      \* bound: tickets drawn in a run
    ProducerOps,    \* which of Push, TimedPush the producers call
    ConsumerOps,    \* which reading calls the consumers make
    SpuriousWakeups,\* whether a condition variable may wake for no reason
    StaleFront,     \* what front () of an empty deque may read
    NoThread

PopOps == {"Pop", "PopWait", "TimedPopWait"}    \* under m_consumerLock
RawOps == {"Claim", "Wait", "TimedWait"}        \* the single reader's calls
TimedOps == {"TimedPopWait", "TimedWait"}

ASSUME QueueSizeAssumption == QueueSize \in Nat \ {0}
ASSUME MaxTicketAssumption == MaxTicket \in Nat
ASSUME ThreadsAssumption ==
    /\ IsFiniteSet(Producers)
    /\ Producers \cap Consumers = {}
    /\ NoThread \notin Producers \cup Consumers
ASSUME OpsAssumption ==
    /\ ProducerOps \subseteq {"Push", "TimedPush"}
    /\ ConsumerOps \subseteq PopOps \cup RawOps
\* "multiple writer - single reader": the calls without a lock are one thread's.
ASSUME SingleReaderAssumption ==
    ConsumerOps \cap RawOps # {} => \A c1, c2 \in Consumers : c1 = c2
\* d_jdAssert (m_acquiredPending == 0, "implement") in WaitForMessages: timed and
\* untimed waits are not to be mixed.
ASSUME NoMixedWaitsAssumption ==
    ConsumerOps \cap TimedOps # {} => ConsumerOps \cap {"Claim", "Wait", "PopWait"} = {}
ASSUME FlagsAssumption == SpuriousWakeups \in BOOLEAN /\ StaleFront \subseteq Nat

VARIABLES
    insertSeq, commitSeq, claimSeq,     \* JdThreadPortPathway's sequences
    queue,              \* m_queue
    signalCount,        \* m_signalCount
    permits,            \* m_signal
    acquiredPending,    \* m_acquiredPending
    failedSeqs,         \* m_failedSequences
    consumerLock,       \* who holds m_consumerLock
    ppc, ticket,        \* producer: where it is, its sequence number
    timed, tried,       \*   whether it gives up, whether it has slept once
    cpc, cop,           \* consumer: where it is, which call it is in
    avail,              \*   its local copy of the count
    left, viewed,       \*   messages granted and unreleased; of these, viewed
    flushing,           \*   whether ReleaseMessage returns into the flush
    delivered           \* every message handed to a caller, in order

sharedVars == <<commitSeq, queue, signalCount, permits, failedSeqs>>
writerVars == <<insertSeq, ppc, ticket, timed, tried>>
callVars == <<cop, avail, left, viewed, flushing>>
readerVars == <<claimSeq, acquiredPending, consumerLock, cpc, callVars, delivered>>
vars == <<sharedVars, writerVars, readerVars>>

Empty == 0
Slot(seq) == seq % QueueSize
Lesser(a, b) == IF a < b THEN a ELSE b

ProducerPlaces ==
    {"idle", "check", "enter", "asleep", "woken", "noslot", "write", "commit", "count",
     "signal", "crashed"}
ConsumerPlaces ==
    {"idle", "lock", "flush", "flushCommit", "flushCount", "load", "take", "wait",
     "asleep", "view", "reset", "advance", "notify"}

TypeOK ==
    /\ insertSeq \in Nat /\ commitSeq \in Nat /\ claimSeq \in Nat
    /\ queue \in [0 .. QueueSize - 1 -> Nat]
    /\ signalCount \in Int /\ permits \in Nat /\ acquiredPending \in Int
    /\ failedSeqs \in Seq(Nat)
    /\ consumerLock \in Consumers \cup {NoThread}
    /\ ppc \in [Producers -> ProducerPlaces]
    /\ ticket \in [Producers -> Nat]
    /\ timed \in [Producers -> BOOLEAN] /\ tried \in [Producers -> BOOLEAN]
    /\ cpc \in [Consumers -> ConsumerPlaces]
    /\ cop \in [Consumers -> PopOps \cup RawOps]
    /\ avail \in [Consumers -> Int] /\ left \in [Consumers -> Int]
    /\ viewed \in [Consumers -> Int] /\ flushing \in [Consumers -> BOOLEAN]
    /\ delivered \in Seq(Nat)

Init ==
    /\ insertSeq = 1 /\ commitSeq = 1 /\ claimSeq = 1
    /\ queue = [i \in 0 .. QueueSize - 1 |-> Empty]
    /\ signalCount = 0 /\ permits = 0 /\ acquiredPending = 0
    /\ failedSeqs = <<>>
    /\ consumerLock = NoThread
    /\ ppc = [p \in Producers |-> "idle"]
    /\ ticket = [p \in Producers |-> 0]
    /\ timed = [p \in Producers |-> FALSE]
    /\ tried = [p \in Producers |-> FALSE]
    /\ cpc = [c \in Consumers |-> "idle"]
    /\ cop = [c \in Consumers |-> "Pop"]
    /\ avail = [c \in Consumers |-> 0]
    /\ left = [c \in Consumers |-> 0]
    /\ viewed = [c \in Consumers |-> 0]
    /\ flushing = [c \in Consumers |-> FALSE]
    /\ delivered = <<>>

PMove(p, from, to) == ppc[p] = from /\ ppc' = [ppc EXCEPT ![p] = to]
CMove(c, from, to) == cpc[c] = from /\ cpc' = [cpc EXCEPT ![c] = to]

-----------------------------------------------------------------------------
(* Producers: AcquireMessageSlot, the copy into the slot, CommitMessage.    *)

\* Draw a ticket; it can not be given back.
Push(p, op) ==
    /\ PMove(p, "idle", "check")
    /\ insertSeq <= MaxTicket
    /\ ticket' = [ticket EXCEPT ![p] = insertSeq]
    /\ insertSeq' = insertSeq + 1
    /\ timed' = [timed EXCEPT ![p] = (op = "TimedPush")]
    /\ UNCHANGED <<sharedVars, tried, readerVars>>

\* Mutant: one slot too many, "offset <= maxSequenceOffset".
HasSpaceOffByOne(p) == ticket[p] - claimSeq \in 0 .. QueueSize

\* The offset is computed modulo 2^64, so a ticket behind claimSeq is far away.
HasSpace(p) == ticket[p] - claimSeq \in 0 .. QueueSize - 1

CheckSpace(p) ==
    /\ PMove(p, "check", IF HasSpace(p) THEN "write" ELSE "enter")
    /\ UNCHANGED <<sharedVars, insertSeq, ticket, timed, tried, readerVars>>

Sleep(p) ==
    /\ PMove(p, "enter", "asleep")
    /\ UNCHANGED <<sharedVars, insertSeq, ticket, timed, tried, readerVars>>

\* wait_for returns without a notification.  Push without a timeout waits for
\* 2^31 ms, taken as for ever.
WakeUnnotified(p) ==
    /\ timed[p] \/ SpuriousWakeups
    /\ PMove(p, "asleep", "woken")
    /\ UNCHANGED <<sharedVars, insertSeq, ticket, timed, tried, readerVars>>

\* The second time the loop gives up without looking at the offset again.
Woken(p) ==
    /\ PMove(p, "woken", IF tried[p] THEN "noslot" ELSE "check")
    /\ tried' = [tried EXCEPT ![p] = TRUE]
    /\ UNCHANGED <<sharedVars, insertSeq, ticket, timed, readerVars>>

\* The locals of a finished AcquireMessageSlot are dead.
ForgetTicket(p) ==
    /\ ticket' = [ticket EXCEPT ![p] = 0]
    /\ tried' = [tried EXCEPT ![p] = FALSE]

\* A timed Push leaves its ticket to the next Pop and returns false.
GiveUpRecording(p, failed) ==
    /\ timed[p]
    /\ consumerLock = NoThread
    /\ PMove(p, "noslot", "idle")
    /\ failedSeqs' = failed
    /\ ForgetTicket(p)
    /\ UNCHANGED <<insertSeq, commitSeq, queue, signalCount, permits, timed, readerVars>>

\* Mutant: the ticket of a Push that timed out is dropped.
GiveUpSilently(p) == GiveUpRecording(p, failedSeqs)

GiveUp(p) == GiveUpRecording(p, Append(failedSeqs, ticket[p]))

\* A Push without a timeout copies to the null slot: the process ends.
WriteToNull(p) ==
    /\ ~ timed[p]
    /\ PMove(p, "noslot", "crashed")
    /\ UNCHANGED <<sharedVars, insertSeq, ticket, timed, tried, readerVars>>

WriteSlot(p) ==
    /\ PMove(p, "write", "commit")
    /\ queue' = [queue EXCEPT ![Slot(ticket[p])] = ticket[p]]
    /\ UNCHANGED <<insertSeq, commitSeq, signalCount, permits, failedSeqs,
                   ticket, timed, tried, readerVars>>

CommitWhen(p, turn) ==
    /\ PMove(p, "commit", "count")
    /\ turn
    /\ commitSeq' = commitSeq + 1
    /\ ForgetTicket(p)
    /\ UNCHANGED <<insertSeq, queue, signalCount, permits, failedSeqs, timed, readerVars>>

\* Mutant: commitSequence is incremented without waiting for one's turn.
CommitByIncrement(p) == CommitWhen(p, TRUE)

\* commitSequence.Update spins until every earlier ticket has been committed.
Commit(p) == CommitWhen(p, commitSeq = ticket[p])

\* m_signalCount++, and whether its previous value calls for a signal.
CountAndSignal(p, signalled) ==
    /\ PMove(p, "count", IF signalled THEN "signal" ELSE "idle")
    /\ signalCount' = signalCount + 1
    /\ UNCHANGED <<insertSeq, commitSeq, queue, permits, failedSeqs,
                   ticket, timed, tried, readerVars>>

\* Mutant: the new value is tested instead of the previous one.
CountMessageTestingNew(p) == CountAndSignal(p, signalCount + 1 < 0)

\* Mutant: the reader is signalled when the queue was empty, "previous <= 0".
CountMessageSignalOnEmpty(p) == CountAndSignal(p, signalCount <= 0)

CountMessage(p) == CountAndSignal(p, signalCount < 0)

Signal(p) ==
    /\ PMove(p, "signal", "idle")
    /\ permits' = permits + 1
    /\ UNCHANGED <<insertSeq, commitSeq, queue, signalCount, failedSeqs,
                   ticket, timed, tried, readerVars>>

-----------------------------------------------------------------------------
(* Consumers.                                                               *)

\* The call ends: the Pop calls release m_consumerLock.
Return(c, from) ==
    /\ CMove(c, from, "idle")
    /\ consumerLock' = IF cop[c] \in PopOps THEN NoThread ELSE consumerLock

Call(c, op) ==
    /\ CMove(c, "idle", IF op \in PopOps THEN "lock" ELSE "load")
    /\ cop' = [cop EXCEPT ![c] = op]
    /\ UNCHANGED <<sharedVars, writerVars, claimSeq, acquiredPending, consumerLock,
                   avail, left, viewed, flushing, delivered>>

Lock(c) ==
    /\ consumerLock = NoThread
    /\ consumerLock' = c
    /\ CMove(c, "lock", IF failedSeqs # <<>> THEN "flush" ELSE "load")
    /\ UNCHANGED <<sharedVars, writerVars, claimSeq, acquiredPending, callVars, delivered>>

\* FlushQueueOverflows: its loop does not ask whether the deque is empty.
FlushFront == IF failedSeqs # <<>> THEN {Head(failedSeqs)} ELSE StaleFront

FlushTest(c) ==
    /\ \E front \in FlushFront :
         CMove(c, "flush", IF front = claimSeq THEN "flushCommit" ELSE "load")
    /\ UNCHANGED <<sharedVars, writerVars, claimSeq, acquiredPending, consumerLock,
                   callVars, delivered>>

FlushCommit(c) ==
    /\ CMove(c, "flushCommit", "flushCount")
    /\ commitSeq = claimSeq
    /\ commitSeq' = commitSeq + 1
    /\ UNCHANGED <<queue, signalCount, permits, failedSeqs, writerVars, claimSeq,
                   acquiredPending, consumerLock, callVars, delivered>>

FlushCount(c) ==
    /\ CMove(c, "flushCount", "reset")
    /\ signalCount' = signalCount + 1
    /\ permits' = IF signalCount < 0 THEN permits + 1 ELSE permits
    /\ flushing' = [flushing EXCEPT ![c] = TRUE]
    /\ UNCHANGED <<commitSeq, queue, failedSeqs, writerVars, claimSeq, acquiredPending,
                   consumerLock, cop, avail, left, viewed, delivered>>

\* How many messages a call asks for, given the count it has read: at least one
\* when it waits, at most i_maxMessages, one in the Pop calls.
Wanted(op, count) ==
    CASE op = "Claim" -> {Lesser(count, max) : max \in 1 .. QueueSize}
      [] op \in {"Wait", "TimedWait"} ->
            {Lesser(IF count = 0 THEN 1 ELSE count, max) : max \in 1 .. QueueSize}
      [] op \in {"PopWait", "TimedPopWait"} -> {Lesser(IF count = 0 THEN 1 ELSE count, 1)}
      [] OTHER -> {1}

\* Pop and a timed wait of no duration return at once when the count is zero; a
\* timed wait that timed out before still has its share of the count.
LoadCount(c) ==
    /\ cpc[c] = "load"
    /\ \/ /\ cop[c] \in TimedOps /\ acquiredPending # 0
          /\ CMove(c, "load", "wait")
          /\ avail' = [avail EXCEPT ![c] = acquiredPending]
          /\ UNCHANGED consumerLock
       \/ /\ cop[c] \in TimedOps => acquiredPending = 0
          /\ cop[c] \in TimedOps \cup {"Pop"} /\ signalCount = 0
          /\ Return(c, "load")
          /\ UNCHANGED avail
       \/ /\ cop[c] \in TimedOps => acquiredPending = 0
          /\ cop[c] = "Pop" => signalCount # 0
          /\ CMove(c, "load", "take")
          /\ \E n \in Wanted(cop[c], signalCount) : avail' = [avail EXCEPT ![c] = n]
          /\ UNCHANGED consumerLock
    /\ UNCHANGED <<sharedVars, writerVars, claimSeq, acquiredPending,
                   cop, left, viewed, flushing, delivered>>

\* What the caller goes on with: the Pop calls take one message whatever
\* WaitForMessages returned.
Grant(c) ==
    /\ left' = [left EXCEPT ![c] = IF cop[c] \in PopOps THEN 1 ELSE avail[c]]
    /\ avail' = [avail EXCEPT ![c] = 0]

\* fetch_sub; a call that must wait goes to the semaphore if it took too much.
MustWait(c) == cop[c] \notin {"Pop", "Claim"} /\ signalCount < avail[c]

TakeFromCount(c, amount) ==
    /\ cpc[c] = "take"
    /\ signalCount' = signalCount - amount
    /\ IF MustWait(c)
       THEN CMove(c, "take", "wait") /\ UNCHANGED <<left, avail>>
       ELSE /\ CMove(c, "take", IF cop[c] = "Claim" /\ avail[c] = 0 THEN "idle" ELSE "view")
            /\ Grant(c)
    /\ UNCHANGED <<commitSeq, queue, permits, failedSeqs, writerVars, claimSeq,
                   acquiredPending, consumerLock, cop, viewed, flushing, delivered>>

\* Mutant: one message is taken from the count whatever the batch.
TakeCountOfOne(c) == TakeFromCount(c, 1)

\* Mutant: a call that need not wait leaves the count alone.
TakeCountIfWaiting(c) == TakeFromCount(c, IF MustWait(c) THEN avail[c] ELSE 0)

TakeCount(c) == TakeFromCount(c, avail[c])

\* m_signal gives a permit, before or after sleeping.
UsePermit(c) ==
    /\ permits' = permits - 1
    /\ CMove(c, "wait", "view") \/ CMove(c, "asleep", "view")
    /\ Grant(c)
    /\ acquiredPending' = 0
    /\ UNCHANGED <<commitSeq, queue, signalCount, failedSeqs, writerVars, claimSeq,
                   consumerLock, cop, viewed, flushing, delivered>>

\* Mutant: the semaphore is decremented without looking at its count.
AcquireSignalUnchecked(c) == UsePermit(c)

AcquireSignal(c) == permits > 0 /\ UsePermit(c)

SleepTimed(c) ==
    /\ cop[c] \in TimedOps
    /\ permits = 0
    /\ CMove(c, "wait", "asleep")
    /\ UNCHANGED <<sharedVars, writerVars, claimSeq, acquiredPending, consumerLock,
                   callVars, delivered>>

TimeOutKeeping(c, share) ==
    /\ Return(c, "asleep")
    /\ acquiredPending' = share
    /\ avail' = [avail EXCEPT ![c] = 0]
    /\ UNCHANGED <<sharedVars, writerVars, claimSeq, cop, left, viewed, flushing, delivered>>

\* Mutant: what was taken from the count is forgotten.
TimeOutForgetting(c) == TimeOutKeeping(c, 0)

\* The time-out is believed even if a permit has come since; what was taken from
\* the count is kept for the next call.
TimeOut(c) == TimeOutKeeping(c, avail[c])

ViewMessage(c) ==
    /\ cpc[c] = "view"
    /\ viewed[c] < left[c]
    /\ delivered' = Append(delivered, queue[Slot(claimSeq + viewed[c])])
    /\ viewed' = [viewed EXCEPT ![c] = @ + 1]
    /\ UNCHANGED <<sharedVars, writerVars, claimSeq, acquiredPending, consumerLock,
                   cpc, cop, avail, left, flushing>>

\* ReleaseMessage, the only way of the Pop calls: reset, advance, notify.
ReleaseMessage(c) ==
    /\ viewed[c] > 0
    /\ CMove(c, "view", "reset")
    /\ UNCHANGED <<sharedVars, writerVars, claimSeq, acquiredPending, consumerLock,
                   callVars, delivered>>

ResetTo(c, message) ==
    /\ CMove(c, "reset", "advance")
    /\ queue' = [queue EXCEPT ![Slot(claimSeq)] = message]
    /\ UNCHANGED <<commitSeq, signalCount, permits, failedSeqs, writerVars, claimSeq,
                   acquiredPending, consumerLock, callVars, delivered>>

\* Mutant: the slot keeps its message, as in ReleaseMessages.
ResetNothing(c) == ResetTo(c, queue[Slot(claimSeq)])

ResetSlot(c) == ResetTo(c, Empty)

\* claimSequence.Acquire (n), of n messages viewed.
Advance(c, n) ==
    /\ claimSeq' = claimSeq + n
    /\ IF flushing[c]
       THEN UNCHANGED <<left, viewed>>
       ELSE /\ left' = [left EXCEPT ![c] = @ - n]
            /\ viewed' = [viewed EXCEPT ![c] = @ - n]
    /\ UNCHANGED <<sharedVars, writerVars, acquiredPending, consumerLock,
                   cop, avail, flushing, delivered>>

AdvanceClaim(c) == CMove(c, "advance", "notify") /\ Advance(c, 1)

\* ReleaseMessages (n) after a batch: the slots keep their messages.
ReleaseMessages(c) ==
    /\ cop[c] \in RawOps
    /\ viewed[c] > 0 /\ viewed[c] = left[c]
    /\ CMove(c, "view", "notify")
    /\ Advance(c, left[c])

\* m_condition.notify_all, without m_conditionLock: only sleepers hear it.
NotifyAll(c) ==
    /\ ppc' = [p \in Producers |-> IF ppc[p] = "asleep" THEN "woken" ELSE ppc[p]]
    /\ \/ /\ flushing[c]
          /\ CMove(c, "notify", "flush")
          /\ failedSeqs' = IF failedSeqs # <<>> THEN Tail(failedSeqs) ELSE failedSeqs
          /\ UNCHANGED consumerLock
       \/ /\ ~ flushing[c]
          /\ IF left[c] > 0
             THEN CMove(c, "notify", "view") /\ UNCHANGED consumerLock
             ELSE Return(c, "notify")
          /\ UNCHANGED failedSeqs
    /\ flushing' = [flushing EXCEPT ![c] = FALSE]
    /\ UNCHANGED <<commitSeq, queue, signalCount, permits, insertSeq, ticket, timed, tried,
                   claimSeq, acquiredPending, cop, avail, left, viewed, delivered>>

-----------------------------------------------------------------------------
Crashed == \E p \in Producers : ppc[p] = "crashed"

CommitStep(p) == WriteSlot(p) \/ Commit(p) \/ CountMessage(p) \/ Signal(p)

ProducerStep(p) ==
    \/ \E op \in ProducerOps : Push(p, op)
    \/ CheckSpace(p) \/ Sleep(p) \/ WakeUnnotified(p) \/ Woken(p)
    \/ GiveUp(p) \/ WriteToNull(p)
    \/ CommitStep(p)

ConsumerStep(c) ==
    \/ \E op \in ConsumerOps : Call(c, op)
    \/ Lock(c) \/ FlushTest(c) \/ FlushCommit(c) \/ FlushCount(c)
    \/ LoadCount(c) \/ TakeCount(c)
    \/ AcquireSignal(c) \/ SleepTimed(c) \/ TimeOut(c)
    \/ ViewMessage(c) \/ ReleaseMessage(c) \/ ReleaseMessages(c)
    \/ ResetSlot(c) \/ AdvanceClaim(c) \/ NotifyAll(c)

Next ==
    /\ ~ Crashed
    /\ \/ \E p \in Producers : ProducerStep(p)
       \/ \E c \in Consumers : ConsumerStep(c)

Spec == Init /\ [][Next]_vars

\* The library's threads keep running; what a caller does between two calls, and
\* whether it makes another Push, is its own affair.  Readers keep reading.
Fairness ==
    /\ \A p \in Producers : WF_vars(~ Crashed /\ CommitStep(p))
    /\ WF_vars(~ Crashed /\ \E c \in Consumers : ConsumerStep(c))

FairSpec == Spec /\ Fairness

-----------------------------------------------------------------------------
(* Vocabulary of the properties.                                            *)

\* p holds a ticket that commitSequence has not passed.
HoldsTicket(p) ==
    ppc[p] \in {"check", "enter", "asleep", "woken", "noslot", "write", "commit", "crashed"}
Writing(p) == ppc[p] \in {"write", "commit"}
Uncounted == Cardinality({p \in Producers : ppc[p] = "count"})
Waiting(c) == cpc[c] \in {"wait", "asleep"}
Granted(c) == cpc[c] \in {"view", "reset", "advance", "notify"}
\* What has been taken from m_signalCount for messages not released yet.
Owed(c) ==
    IF Waiting(c) THEN avail[c] ELSE IF Granted(c) THEN left[c] ELSE acquiredPending
InUse(c) == Waiting(c) \/ Granted(c)

-----------------------------------------------------------------------------
(* Safety, for Push without a timeout.                                      *)

\* First in, first out, nothing lost, nothing twice and nothing that was not
\* sent: the i-th message handed out is the one of ticket i.
DeliveredInOrder == \A i \in DOMAIN delivered : delivered[i] = i

\* m_signalCount is exact: with what readers have taken for themselves and what
\* producers have committed but not counted it makes up the messages in the ring.
CountIsExact ==
    /\ \A c \in Consumers :
         InUse(c) => signalCount + Owed(c) + Uncounted = commitSeq - claimSeq
    /\ (\A c \in Consumers : ~ InUse(c))
         => signalCount + acquiredPending + Uncounted = commitSeq - claimSeq

\* A writer's slot is its own: free of every message a reader may still view, and
\* no other writer's.
WriterOwnsSlot ==
    \A p \in Producers : Writing(p) =>
        /\ ticket[p] >= commitSeq
        /\ ticket[p] - claimSeq \in 0 .. QueueSize - 1
        /\ \A q \in Producers \ {p} : Writing(q) => Slot(ticket[q]) # Slot(ticket[p])

\* No wake-up of a reader is lost: once the message it waits for is counted, a
\* permit is there or about to be, and never more than one.
WaiterIsSignalled ==
    LET signalling == {p \in Producers : ppc[p] = "signal"}
    IN  /\ permits + Cardinality(signalling) <= 1
        /\ \A c \in Consumers : Waiting(c) /\ signalCount >= 0
             => permits + Cardinality(signalling) = 1

\* The ring is a bounded FIFO queue: a message is sent when commitSequence passes
\* its ticket and received when it is viewed.
Fifo == INSTANCE BoundedFifo WITH
    Messages <- 1 .. MaxTicket,
    Capacity <- QueueSize,
    buffer <- [i \in 1 .. commitSeq - 1 - Len(delivered) |-> queue[Slot(Len(delivered) + i)]]

ImplementsBoundedFifo == Fifo!FifoSpec

\* Every committed message is handed out, unless the process has ended.
CommittedIsDelivered ==
    \A s \in 1 .. MaxTicket : (commitSeq > s) ~> (Len(delivered) >= s \/ Crashed)

-----------------------------------------------------------------------------
(* Safety that also holds with timed Push.                                  *)

\* A reader that a flush let run ahead of the writers views slots that are not written, or
\* written too late for their turn: it may get an empty message for one that was sent, or a
\* message out of its order, but never the same message twice.
NothingTwice ==
    \A i, j \in DOMAIN delivered : delivered[i] = delivered[j] /\ delivered[i] # Empty => i = j

\* A ticket not yet committed is in some producer's hands or on record as failed;
\* one that is in neither place stops every later producer for ever.
NoTicketLost ==
    \A s \in commitSeq .. insertSeq - 1 :
        \/ \E p \in Producers : HoldsTicket(p) /\ ticket[p] = s
        \/ \E i \in DOMAIN failedSeqs : failedSeqs[i] = s

-----------------------------------------------------------------------------
(* What a comment of the source says and the code does not do.              *)

\* Lines 81-82, "spin/sleep-loop check it against the 'claim' sequence": a writer
\* does not sleep on while its slot is free and no reader is about to notify it.
SleeperHasNoSpace ==
    \A p \in Producers :
        ppc[p] = "asleep" /\ HasSpace(p) => \E c \in Consumers : cpc[c] = "notify"
=============================================================================
