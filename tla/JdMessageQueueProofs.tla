------------------------ MODULE JdMessageQueueProofs ------------------------
(***************************************************************************)
(* The queue with Push and without time-outs, for any number of producers, *)
(* of consumers in Pop and PopWait (or one reader in WaitForMessages), any *)
(* ring size and any number of messages: m_signalCount is exact, a writer's *)
(* slot is its own, and messages are handed out in order, each once.  The   *)
(* last two sections are about Push and reading calls that time out.        *)
(***************************************************************************)
EXTENDS JdMessageQueue, FiniteSetTheorems, SequenceTheorems, TLAPS

\* The use of the queue the theorems are about.
UntimedUse == ProducerOps \subseteq {"Push"} /\ ConsumerOps \cap TimedOps = {}

Busy(c) == cpc[c] \notin {"idle", "lock"}
Called == \A c \in Consumers : cpc[c] # "idle" => cop[c] \in ConsumerOps
Signalling(p) == ppc[p] = "signal"

\* Nothing of the timed calls is ever in use.
NothingTimed ==
    /\ failedSeqs = <<>>
    /\ acquiredPending = 0
    /\ \A p \in Producers : ~ timed[p]
    /\ \A c \in Consumers :
        /\ ~ flushing[c]
        /\ cpc[c] \notin {"flush", "flushCommit", "flushCount", "asleep"}
        /\ cpc[c] # "idle" => cop[c] \in ConsumerOps

\* A Pop call past its lock holds it, so there is one reader at a time.
OneReader ==
    \A c \in Consumers : Busy(c) /\ cop[c] \in PopOps => consumerLock = c

\* claimSeq, commitSeq and insertSeq, and the tickets between the last two.
Tickets ==
    /\ 1 <= claimSeq /\ claimSeq <= commitSeq /\ commitSeq <= insertSeq
    /\ commitSeq <= claimSeq + QueueSize
    /\ insertSeq <= MaxTicket + 1
    /\ \A p \in Producers :
        /\ HoldsTicket(p) => commitSeq <= ticket[p] /\ ticket[p] < insertSeq
        /\ Writing(p) => ticket[p] < claimSeq + QueueSize
        /\ \A q \in Producers \ {p} :
             HoldsTicket(p) /\ HoldsTicket(q) => ticket[p] # ticket[q]

\* A written slot holds its ticket until ReleaseMessage resets it.
Slots ==
    /\ \A p \in Producers : ppc[p] = "commit" => queue[Slot(ticket[p])] = ticket[p]
    /\ \A s \in claimSeq .. commitSeq - 1 :
        \/ queue[Slot(s)] = s
        \/ s = claimSeq /\ \E c \in Consumers : cpc[c] = "advance"

\* What a reader has been granted, at each place in its call.
Grants ==
    \A c \in Consumers :
        /\ viewed[c] \in 0 .. left[c]
        /\ ~ Granted(c) => left[c] = 0
        /\ cpc[c] = "view" => left[c] > 0
        /\ cpc[c] \in {"reset", "advance"} => viewed[c] > 0
        /\ cop[c] \in PopOps => left[c] <= 1
        /\ cpc[c] = "take" =>
            /\ cop[c] = "Pop" => avail[c] = 1 /\ signalCount >= 1
            /\ cop[c] = "Claim" => avail[c] \in 0 .. signalCount
            /\ cop[c] \in {"Wait", "PopWait"} =>
                 avail[c] >= 1 /\ (avail[c] <= signalCount \/ avail[c] = 1)
            /\ cop[c] = "PopWait" => avail[c] = 1
        /\ cpc[c] = "wait" => avail[c] = 1

\* The semaphore: a waiting reader has made the count negative, or it has been
\* counted in and one permit is there or on its way.
Signals ==
    /\ signalCount >= -1 /\ permits <= 1
    /\ \A p, q \in Producers : Signalling(p) /\ Signalling(q) => p = q
    /\ permits = 1 => \A p \in Producers : ~ Signalling(p)
    /\ \/ /\ signalCount = -1
          /\ permits = 0 /\ \A p \in Producers : ~ Signalling(p)
          /\ \E c \in Consumers : Waiting(c)
       \/ /\ signalCount >= 0
          /\ permits = 1 \/ (\E p \in Producers : Signalling(p))
          /\ \E c \in Consumers : Waiting(c)
       \/ /\ signalCount >= 0
          /\ permits = 0 /\ \A p \in Producers : ~ Signalling(p)
          /\ \A c \in Consumers : ~ Waiting(c)

\* What has been handed out: everything released, and what the reader has viewed.
Deliveries ==
    /\ DeliveredInOrder
    /\ \A c \in Consumers : Granted(c) => Len(delivered) = claimSeq - 1 + viewed[c]
    /\ (\A c \in Consumers : ~ Granted(c)) => Len(delivered) = claimSeq - 1

IInv ==
    /\ TypeOK /\ NothingTimed /\ OneReader
    /\ Tickets /\ Slots /\ Grants /\ CountIsExact /\ Signals /\ Deliveries

-----------------------------------------------------------------------------
(* Arithmetic of the ring.                                                  *)

LEMMA DivMod ==
    ASSUME NEW n \in Nat \ {0}, NEW a \in Nat
    PROVE  /\ a = n * (a \div n) + (a % n)
           /\ a \div n \in Nat
           /\ a % n \in 0 .. n - 1
  BY SMT

LEMMA AtLeastOnce ==
    ASSUME NEW n \in Nat \ {0}, NEW q \in Int, q >= 1
    PROVE  n * q >= n
  BY SMT

\* Two different numbers less than a ring apart are in different slots.
LEMMA DifferentSlots ==
    ASSUME NEW a \in Nat, NEW b \in Nat, a < b, b < a + QueueSize
    PROVE  Slot(a) # Slot(b)
<1> DEFINE n == QueueSize
           q == (b \div n) - (a \div n)
<1> SUFFICES ASSUME a % n = b % n PROVE FALSE
  BY DEF Slot
<1>0. n \in Nat \ {0}
  BY QueueSizeAssumption
<1>1. a = n * (a \div n) + (a % n) /\ a \div n \in Nat /\ a % n \in 0 .. n - 1
  BY <1>0, DivMod
<1>2. b = n * (b \div n) + (b % n) /\ b \div n \in Nat /\ b % n \in 0 .. n - 1
  BY <1>0, DivMod
<1> HIDE DEF n
<1>3. q \in Int /\ b - a = n * (b \div n) - n * (a \div n)
  BY <1>0, <1>1, <1>2
<1>4. n * (b \div n) - n * (a \div n) = n * q
  BY <1>0, <1>1, <1>2
<1>5. b - a < n
  BY <1>0 DEF n
<1> HIDE DEF q
<1>6. CASE q >= 1
  BY <1>0, <1>3, <1>4, <1>5, <1>6, AtLeastOnce
<1>7. CASE q <= 0
  <2>1. n * q <= 0
    BY <1>0, <1>3, <1>7
  <2> QED
    BY <2>1, <1>3, <1>4
<1> QED
  BY <1>3, <1>6, <1>7

LEMMA SlotInRing ==
    ASSUME NEW a \in Int
    PROVE  Slot(a) \in 0 .. QueueSize - 1
  BY QueueSizeAssumption DEF Slot

-----------------------------------------------------------------------------
(* Types: of every step, the timed ones too.                                *)

LEMMA ProducerTypes ==
    ASSUME TypeOK, NEW p \in Producers, ProducerStep(p)
    PROVE  TypeOK'
<1> USE DEF TypeOK, PMove, ProducerPlaces, sharedVars, readerVars, callVars
<1>1. ASSUME NEW op \in ProducerOps, Push(p, op) PROVE TypeOK'
  BY <1>1 DEF Push
<1>2. CASE CheckSpace(p)
  BY <1>2 DEF CheckSpace
<1>3. CASE Sleep(p)
  BY <1>3 DEF Sleep
<1>4. CASE WakeUnnotified(p)
  BY <1>4 DEF WakeUnnotified
<1>5. CASE Woken(p)
  BY <1>5 DEF Woken
<1>6. CASE GiveUp(p)
  BY <1>6 DEF GiveUp, GiveUpRecording, ForgetTicket
<1>7. CASE WriteToNull(p)
  BY <1>7 DEF WriteToNull
<1>8. CASE WriteSlot(p)
  BY <1>8, SlotInRing DEF WriteSlot
<1>9. CASE Commit(p)
  BY <1>9 DEF Commit, CommitWhen, ForgetTicket
<1>10. CASE CountMessage(p)
  BY <1>10 DEF CountMessage, CountAndSignal
<1>11. CASE Signal(p)
  BY <1>11 DEF Signal
<1> QED
  BY <1>1, <1>2, <1>3, <1>4, <1>5, <1>6, <1>7, <1>8, <1>9, <1>10, <1>11
     DEF ProducerStep, CommitStep

LEMMA WantedIsInt ==
    ASSUME NEW op, NEW n \in Int, NEW w \in Wanted(op, n)
    PROVE  w \in Int
  BY QueueSizeAssumption DEF Wanted, Lesser

LEMMA ConsumerTypes ==
    ASSUME TypeOK, NEW c \in Consumers, ConsumerStep(c)
    PROVE  TypeOK'
<1> USE DEF TypeOK, CMove, sharedVars, writerVars, callVars, PopOps, RawOps
<1>1. ASSUME NEW op \in ConsumerOps, Call(c, op) PROVE TypeOK'
  BY <1>1, OpsAssumption DEF Call, ConsumerPlaces
<1>2. CASE Lock(c)
  BY <1>2 DEF Lock, ConsumerPlaces
<1>3. CASE FlushTest(c)
  BY <1>3 DEF FlushTest, ConsumerPlaces
<1>4. CASE FlushCommit(c)
  BY <1>4 DEF FlushCommit, ConsumerPlaces
<1>5. CASE FlushCount(c)
  BY <1>5 DEF FlushCount, ConsumerPlaces
<1>6. CASE LoadCount(c)
  <2>1. avail' \in [Consumers -> Int]
    BY <1>6, WantedIsInt DEF LoadCount
  <2> QED
    BY <1>6, <2>1 DEF LoadCount, Return, ConsumerPlaces
<1>7. CASE TakeCount(c)
  <2>1. left' \in [Consumers -> Int] /\ avail' \in [Consumers -> Int]
    BY <1>7 DEF TakeCount, TakeFromCount, Grant
  <2>2. cpc' \in [Consumers -> ConsumerPlaces]
    BY <1>7 DEF TakeCount, TakeFromCount, ConsumerPlaces
  <2>3. signalCount' \in Int
    BY <1>7 DEF TakeCount, TakeFromCount
  <2>4. UNCHANGED <<commitSeq, queue, permits, failedSeqs, writerVars, claimSeq,
                    acquiredPending, consumerLock, cop, viewed, flushing, delivered>>
    BY ONLY <1>7 DEF TakeCount, TakeFromCount
  <2> QED
    BY <2>1, <2>2, <2>3, <2>4
<1>8. CASE AcquireSignal(c)
  <2>1. left' \in [Consumers -> Int] /\ avail' \in [Consumers -> Int]
    BY <1>8 DEF AcquireSignal, UsePermit, Grant
  <2>2. cpc' \in [Consumers -> ConsumerPlaces]
    BY <1>8 DEF AcquireSignal, UsePermit, ConsumerPlaces
  <2>3. permits' \in Nat
    BY <1>8 DEF AcquireSignal, UsePermit
  <2> QED
    BY <1>8, <2>1, <2>2, <2>3 DEF AcquireSignal, UsePermit
<1>9. CASE SleepTimed(c)
  BY <1>9 DEF SleepTimed, ConsumerPlaces
<1>10. CASE TimeOut(c)
  BY <1>10 DEF TimeOut, TimeOutKeeping, Return, ConsumerPlaces
<1>11. CASE ViewMessage(c)
  <2>1. claimSeq + viewed[c] \in Int
    OBVIOUS
  <2>2. queue[Slot(claimSeq + viewed[c])] \in Nat
    BY <2>1, SlotInRing
  <2>3. delivered' \in Seq(Nat)
    BY <1>11, <2>2 DEF ViewMessage
  <2>4. viewed' \in [Consumers -> Int]
    BY <1>11 DEF ViewMessage
  <2> QED
    BY <1>11, <2>3, <2>4 DEF ViewMessage
<1>12. CASE ReleaseMessage(c)
  BY <1>12 DEF ReleaseMessage, ConsumerPlaces
<1>13. CASE ReleaseMessages(c)
  BY <1>13 DEF ReleaseMessages, Advance, ConsumerPlaces
<1>14. CASE ResetSlot(c)
  BY <1>14, SlotInRing DEF ResetSlot, ResetTo, Empty, ConsumerPlaces
<1>15. CASE AdvanceClaim(c)
  <2>1. cpc' \in [Consumers -> ConsumerPlaces]
    BY <1>15 DEF AdvanceClaim, ConsumerPlaces
  <2>2. left' \in [Consumers -> Int] /\ viewed' \in [Consumers -> Int] /\ claimSeq' \in Nat
    BY <1>15 DEF AdvanceClaim, Advance
  <2> QED
    BY <1>15, <2>1, <2>2, SMTT(20) DEF AdvanceClaim, Advance
<1>16. CASE NotifyAll(c)
  <2>1. ppc' \in [Producers -> ProducerPlaces]
    BY <1>16 DEF NotifyAll, ProducerPlaces
  <2>2. cpc' \in [Consumers -> ConsumerPlaces]
    BY <1>16 DEF NotifyAll, Return, ConsumerPlaces
  <2>3. failedSeqs' \in Seq(Nat)
    <3>1. failedSeqs # <<>> => Tail(failedSeqs) \in Seq(Nat)
      OBVIOUS
    <3> QED
      BY <1>16, <3>1 DEF NotifyAll
  <2>4. consumerLock' \in Consumers \cup {NoThread}
    BY <1>16 DEF NotifyAll, Return
  <2> QED
    BY <1>16, <2>1, <2>2, <2>3, <2>4 DEF NotifyAll
<1> QED
  BY <1>1, <1>2, <1>3, <1>4, <1>5, <1>6, <1>7, <1>8, <1>9, <1>10, <1>11, <1>12,
     <1>13, <1>14, <1>15, <1>16 DEF ConsumerStep

LEMMA TypeStep == TypeOK /\ [Next]_vars => TypeOK'
<1>1. TypeOK /\ UNCHANGED vars => TypeOK'
  BY DEF TypeOK, vars, sharedVars, writerVars, readerVars, callVars
<1> QED
  BY <1>1, ProducerTypes, ConsumerTypes DEF Next

LEMMA InitTypes == Init => TypeOK
  BY DEF Init, TypeOK, PopOps, Empty, ProducerPlaces, ConsumerPlaces

\* TypeOK, of the whole specification: every variable keeps its range, whichever
\* of the calls the threads make.
THEOREM TypeCorrect == Spec => []TypeOK
  BY InitTypes, TypeStep, PTL DEF Spec

-----------------------------------------------------------------------------
(* The steps that are left when no timed call is made.                      *)

ProducerMove(p) ==
    \/ Push(p, "Push") \/ CheckSpace(p) \/ Sleep(p) \/ WakeUnnotified(p) \/ Woken(p)
    \/ WriteToNull(p) \/ WriteSlot(p) \/ Commit(p) \/ CountMessage(p) \/ Signal(p)

ReaderMove(c) ==
    \/ \E op \in ConsumerOps : Call(c, op)
    \/ Lock(c) \/ LoadCount(c) \/ TakeCount(c) \/ AcquireSignal(c)
    \/ ViewMessage(c) \/ ReleaseMessage(c) \/ ReleaseMessages(c)
    \/ ResetSlot(c) \/ AdvanceClaim(c) \/ NotifyAll(c)

LEMMA UntimedSteps ==
    ASSUME UntimedUse, NothingTimed, Next
    PROVE  \/ \E p \in Producers : ProducerMove(p)
           \/ \E c \in Consumers : ReaderMove(c)
<1>1. ASSUME NEW p \in Producers, ProducerStep(p) PROVE ProducerMove(p)
  BY <1>1 DEF ProducerStep, CommitStep, ProducerMove, UntimedUse, NothingTimed,
     GiveUp, GiveUpRecording
<1>2. ASSUME NEW c \in Consumers, ConsumerStep(c) PROVE ReaderMove(c)
  <2>1. ~ FlushTest(c) /\ ~ FlushCommit(c) /\ ~ FlushCount(c) /\ ~ TimeOut(c)
    BY DEF NothingTimed, FlushTest, FlushCommit, FlushCount, TimeOut, TimeOutKeeping,
       Return, CMove
  <2>2. ~ SleepTimed(c)
    BY DEF NothingTimed, SleepTimed, CMove, UntimedUse
  <2> QED
    BY <1>2, <2>1, <2>2 DEF ConsumerStep, ReaderMove
<1> QED
  BY <1>1, <1>2 DEF Next

\* Two threads are never both inside a reading call and past its lock.
LEMMA OneCaller ==
    ASSUME Called, OneReader,
           NEW c1 \in Consumers, NEW c2 \in Consumers, Busy(c1), Busy(c2)
    PROVE  c1 = c2
<1>1. cop[c1] \in ConsumerOps /\ cop[c2] \in ConsumerOps
  BY DEF Called, Busy
<1>2. CASE cop[c1] \in PopOps /\ cop[c2] \in PopOps
  BY <1>2 DEF OneReader
<1>3. CASE ~ (cop[c1] \in PopOps /\ cop[c2] \in PopOps)
  BY <1>1, <1>3, SingleReaderAssumption, OpsAssumption
<1> QED
  BY <1>2, <1>3

LEMMA OneBusy ==
    ASSUME NothingTimed, OneReader,
           NEW c1 \in Consumers, NEW c2 \in Consumers, Busy(c1), Busy(c2)
    PROVE  c1 = c2
<1>1. Called
  BY DEF NothingTimed, Called
<1> QED
  BY <1>1, OneCaller

LEMMA NothingTimedStep ==
    ASSUME UntimedUse, TypeOK, NothingTimed,
           \/ \E p \in Producers : ProducerMove(p)
           \/ \E c \in Consumers : ReaderMove(c)
    PROVE  NothingTimed'
<1> USE DEF NothingTimed, TypeOK, PMove, CMove, sharedVars, readerVars, writerVars, callVars
<1>1. ASSUME NEW p \in Producers, ProducerMove(p) PROVE NothingTimed'
  <2>1. UNCHANGED <<failedSeqs, acquiredPending, flushing, cpc, cop>>
    BY <1>1 DEF ProducerMove, Push, CheckSpace, Sleep, WakeUnnotified, Woken, WriteToNull,
       WriteSlot, Commit, CommitWhen, CountMessage, CountAndSignal, Signal
  <2>2. \A q \in Producers : ~ timed'[q]
    BY <1>1 DEF ProducerMove, Push, CheckSpace, Sleep, WakeUnnotified, Woken, WriteToNull,
       WriteSlot, Commit, CommitWhen, CountMessage, CountAndSignal, Signal
  <2> QED
    BY <2>1, <2>2
<1>2. ASSUME NEW c \in Consumers, ReaderMove(c) PROVE NothingTimed'
  <2>1. failedSeqs' = <<>> /\ acquiredPending' = 0 /\ timed' = timed
    BY <1>2 DEF ReaderMove, Call, Lock, LoadCount, TakeCount, TakeFromCount, AcquireSignal,
       UsePermit, ViewMessage, ReleaseMessage, ReleaseMessages, ResetSlot, ResetTo, AdvanceClaim,
       Advance, NotifyAll
  <2>2. \A d \in Consumers : ~ flushing'[d]
    <3>1. CASE NotifyAll(c)
      BY <3>1 DEF NotifyAll
    <3>2. CASE Lock(c) \/ \E op \in ConsumerOps : Call(c, op)
      BY <3>2 DEF Lock, Call
    <3>3. CASE LoadCount(c) \/ TakeCount(c) \/ AcquireSignal(c)
      BY <3>3 DEF LoadCount, TakeCount, TakeFromCount, AcquireSignal, UsePermit
    <3>4. CASE ViewMessage(c) \/ ReleaseMessage(c) \/ ReleaseMessages(c)
      BY <3>4 DEF ViewMessage, ReleaseMessage, ReleaseMessages, Advance
    <3>5. CASE ResetSlot(c) \/ AdvanceClaim(c)
      BY <3>5 DEF ResetSlot, ResetTo, AdvanceClaim, Advance
    <3> QED
      BY <1>2, <3>1, <3>2, <3>3, <3>4, <3>5 DEF ReaderMove
  <2>3. \A d \in Consumers : cpc'[d] \notin {"flush", "flushCommit", "flushCount", "asleep"}
    BY <1>2, SMTT(20) DEF ReaderMove, Call, Lock, LoadCount, TakeCount, TakeFromCount, AcquireSignal,
       UsePermit, ViewMessage, ReleaseMessage, ReleaseMessages, ResetSlot, ResetTo, AdvanceClaim,
       Advance, NotifyAll, Return
  <2>4. \A d \in Consumers : cpc'[d] # "idle" => cop'[d] \in ConsumerOps
    <3>1. ASSUME NEW op \in ConsumerOps, Call(c, op)
          PROVE  \A d \in Consumers : cpc'[d] # "idle" => cop'[d] \in ConsumerOps
      BY <3>1 DEF Call
    <3>2. ASSUME cop' = cop, cpc[c] # "idle", \A d \in Consumers \ {c} : cpc'[d] = cpc[d]
          PROVE  \A d \in Consumers : cpc'[d] # "idle" => cop'[d] \in ConsumerOps
      BY <3>2
    <3>3. ASSUME ~ \E op \in ConsumerOps : Call(c, op)
          PROVE  /\ cop' = cop /\ cpc[c] # "idle"
                 /\ \A d \in Consumers \ {c} : cpc'[d] = cpc[d]
      BY <1>2, <3>3, SMTT(20) DEF ReaderMove, Lock, LoadCount, TakeCount, TakeFromCount,
         AcquireSignal, UsePermit, ViewMessage, ReleaseMessage, ReleaseMessages,
         ResetSlot, ResetTo, AdvanceClaim, Advance, NotifyAll, Return
    <3> QED
      BY <3>1, <3>2, <3>3
  <2> QED
    BY <2>1, <2>2, <2>3, <2>4
<1> QED
  BY <1>1, <1>2

-----------------------------------------------------------------------------
(* What a step leaves alone.                                                *)

\* A producer's step: of its own state, and of what readers see.
LEMMA ProducerFrame ==
    ASSUME TypeOK, NEW p \in Producers, ProducerMove(p)
    PROVE  /\ UNCHANGED readerVars
           /\ \A q \in Producers \ {p} : ppc'[q] = ppc[q] /\ ticket'[q] = ticket[q]
           /\ ~ WriteSlot(p) => queue' = queue
           /\ ~ Commit(p) => commitSeq' = commitSeq
           /\ ~ CountMessage(p) => signalCount' = signalCount
           /\ ~ Signal(p) => permits' = permits
<1> USE DEF TypeOK, PMove, sharedVars
<1>1. CASE Push(p, "Push") \/ CheckSpace(p) \/ Sleep(p) \/ WakeUnnotified(p)
           \/ Woken(p) \/ WriteToNull(p)
  BY <1>1 DEF Push, CheckSpace, Sleep, WakeUnnotified, Woken, WriteToNull
<1>2. CASE WriteSlot(p)
  BY <1>2 DEF WriteSlot
<1>3. CASE Commit(p)
  BY <1>3 DEF Commit, CommitWhen, ForgetTicket
<1>4. CASE CountMessage(p)
  BY <1>4 DEF CountMessage, CountAndSignal
<1>5. CASE Signal(p)
  BY <1>5 DEF Signal
<1> QED
  BY <1>1, <1>2, <1>3, <1>4, <1>5 DEF ProducerMove

\* A reader's step: of the producers, and of the other readers.
LEMMA ReaderFrame ==
    ASSUME TypeOK, NothingTimed, NEW c \in Consumers, ReaderMove(c)
    PROVE  /\ UNCHANGED <<commitSeq, insertSeq, ticket>>
           /\ \A q \in Producers :
                \/ ppc'[q] = ppc[q]
                \/ ppc[q] = "asleep" /\ ppc'[q] = "woken"
           /\ \A d \in Consumers \ {c} :
                /\ cpc'[d] = cpc[d] /\ cop'[d] = cop[d] /\ avail'[d] = avail[d]
                /\ left'[d] = left[d] /\ viewed'[d] = viewed[d]
<1> USE DEF TypeOK, CMove, sharedVars, writerVars, callVars
<1>1. CASE \E op \in ConsumerOps : Call(c, op)
  BY <1>1 DEF Call
<1>2. CASE Lock(c) \/ ReleaseMessage(c) \/ ResetSlot(c)
  BY <1>2 DEF Lock, ReleaseMessage, ResetSlot, ResetTo
<1>3. CASE LoadCount(c)
  BY <1>3 DEF LoadCount, Return
<1>4. CASE TakeCount(c)
  <2>1. \A d \in Consumers \ {c} : cpc'[d] = cpc[d]
    BY <1>4 DEF TakeCount, TakeFromCount
  <2>2. \A d \in Consumers \ {c} : avail'[d] = avail[d] /\ left'[d] = left[d]
    BY <1>4 DEF TakeCount, TakeFromCount, Grant
  <2> QED
    BY <1>4, <2>1, <2>2 DEF TakeCount, TakeFromCount
<1>5. CASE AcquireSignal(c)
  BY <1>5 DEF AcquireSignal, UsePermit, Grant
<1>6. CASE ViewMessage(c)
  BY <1>6 DEF ViewMessage
<1>7. CASE AdvanceClaim(c) \/ ReleaseMessages(c)
  BY <1>7 DEF AdvanceClaim, ReleaseMessages, Advance
<1>8. CASE NotifyAll(c)
  <2>1. \A d \in Consumers \ {c} : cpc'[d] = cpc[d]
    BY <1>8 DEF NotifyAll, Return
  <2>2. \A q \in Producers :
          ppc'[q] = ppc[q] \/ (ppc[q] = "asleep" /\ ppc'[q] = "woken")
    BY <1>8 DEF NotifyAll
  <2> QED
    BY <1>8, <2>1, <2>2 DEF NotifyAll
<1> QED
  BY <1>1, <1>2, <1>3, <1>4, <1>5, <1>6, <1>7, <1>8 DEF ReaderMove

\* So the producers' part in the invariant stays what it is.
LEMMA ReaderKeepsProducers ==
    ASSUME TypeOK, NothingTimed, NEW c \in Consumers, ReaderMove(c)
    PROVE  /\ \A q \in Producers :
                /\ (HoldsTicket(q)' <=> HoldsTicket(q)) /\ (Writing(q)' <=> Writing(q))
                /\ (Signalling(q)' <=> Signalling(q))
                /\ (ppc'[q] = "commit") = (ppc[q] = "commit")
                /\ (ppc'[q] = "count") = (ppc[q] = "count")
           /\ Uncounted' = Uncounted
<1>1. \A q \in Producers :
        ppc'[q] = ppc[q] \/ (ppc[q] = "asleep" /\ ppc'[q] = "woken")
  BY ReaderFrame
<1>2. \A q \in Producers : (ppc'[q] = "count") = (ppc[q] = "count")
  BY <1>1
<1>3. {q \in Producers : ppc'[q] = "count"} = {q \in Producers : ppc[q] = "count"}
  BY <1>2
<1> QED
  BY <1>1, <1>2, <1>3 DEF HoldsTicket, Writing, Signalling, Uncounted

\* Which of a reader's steps change what.
LEMMA ReaderEffects ==
    ASSUME TypeOK, NothingTimed, NEW c \in Consumers, ReaderMove(c)
    PROVE  /\ ~ (AdvanceClaim(c) \/ ReleaseMessages(c)) =>
                claimSeq' = claimSeq
           /\ ~ (AdvanceClaim(c) \/ ReleaseMessages(c) \/ ViewMessage(c)) =>
                viewed' = viewed
           /\ ~ (AdvanceClaim(c) \/ ReleaseMessages(c) \/ TakeCount(c) \/ AcquireSignal(c)) =>
                left' = left
           /\ ~ ResetSlot(c) => queue' = queue
           /\ ~ TakeCount(c) => signalCount' = signalCount
           /\ ~ AcquireSignal(c) => permits' = permits
           /\ ~ ViewMessage(c) => delivered' = delivered
<1> USE DEF sharedVars, writerVars, callVars
<1>1. CASE (\E op \in ConsumerOps : Call(c, op)) \/ Lock(c) \/ LoadCount(c)
  BY <1>1 DEF Call, Lock, LoadCount
<1>2. CASE TakeCount(c) \/ AcquireSignal(c)
  BY <1>2 DEF TakeCount, TakeFromCount, AcquireSignal, UsePermit
<1>3. CASE ViewMessage(c) \/ ReleaseMessage(c) \/ ResetSlot(c)
  BY <1>3 DEF ViewMessage, ReleaseMessage, ResetSlot, ResetTo
<1>4. CASE AdvanceClaim(c) \/ ReleaseMessages(c)
  BY <1>4 DEF AdvanceClaim, ReleaseMessages, Advance
<1>5. CASE NotifyAll(c)
  BY <1>5 DEF NotifyAll
<1> QED
  BY <1>1, <1>2, <1>3, <1>4, <1>5 DEF ReaderMove

\* Past its lock a reader goes on alone, and gives the lock up as its call ends.
LEMMA BusyMoves ==
    ASSUME TypeOK, NothingTimed, NEW c \in Consumers, ReaderMove(c),
           ~ Lock(c), ~ \E op \in ConsumerOps : Call(c, op)
    PROVE  /\ Busy(c) /\ cop'[c] = cop[c]
           /\ consumerLock' = consumerLock \/ cpc'[c] = "idle"
           /\ cpc'[c] # "lock"
<1> USE DEF TypeOK, CMove, Busy, callVars
<1>1. CASE LoadCount(c)
  BY <1>1 DEF LoadCount, Return
<1>2. CASE TakeCount(c)
  BY <1>2 DEF TakeCount, TakeFromCount
<1>3. CASE AcquireSignal(c)
  BY <1>3 DEF AcquireSignal, UsePermit
<1>4. CASE ViewMessage(c) \/ ReleaseMessage(c) \/ ResetSlot(c)
  BY <1>4 DEF ViewMessage, ReleaseMessage, ResetSlot, ResetTo
<1>5. CASE AdvanceClaim(c) \/ ReleaseMessages(c)
  BY <1>5 DEF AdvanceClaim, ReleaseMessages, Advance
<1>6. CASE NotifyAll(c)
  BY <1>6 DEF NotifyAll, Return
<1> QED
  BY <1>1, <1>2, <1>3, <1>4, <1>5, <1>6 DEF ReaderMove

-----------------------------------------------------------------------------
(* Each conjunct of the invariant is preserved by each step.                *)

LEMMA OneReaderStep ==
    ASSUME IInv,
           \/ \E p \in Producers : ProducerMove(p)
           \/ \E c \in Consumers : ReaderMove(c)
    PROVE  OneReader'
<1> USE DEF IInv, TypeOK
<1>1. ASSUME NEW p \in Producers, ProducerMove(p) PROVE OneReader'
  <2>1. UNCHANGED <<cpc, cop, consumerLock>>
    BY <1>1, ProducerFrame DEF readerVars, callVars
  <2> QED
    BY <2>1 DEF OneReader, Busy
<1>2. ASSUME NEW c \in Consumers, ReaderMove(c) PROVE OneReader'
  <2>1. ASSUME NEW op \in ConsumerOps, Call(c, op) PROVE OneReader'
    <3>1. \A d \in Consumers : Busy(d)' =>
            (cop'[d] = cop[d] /\ Busy(d)) \/ (d = c /\ cop'[d] \notin PopOps)
      BY <2>1 DEF Call, Busy, CMove, callVars
    <3> QED
      BY <2>1, <3>1 DEF OneReader, Call
  <2>2. CASE Lock(c)
    \* no one else is busy in a Pop call: it would hold the lock
    <3>1. \A d \in Consumers : ~ (Busy(d) /\ cop[d] \in PopOps)
      BY <2>2, ThreadsAssumption DEF Lock, OneReader
    <3>2. \A d \in Consumers : cop'[d] = cop[d] /\ (d # c => cpc'[d] = cpc[d])
      BY <2>2 DEF Lock, CMove, callVars
    <3> QED
      BY <2>2, <3>1, <3>2 DEF Lock, OneReader, Busy
  <2>3. ASSUME ~ Lock(c), ~ \E op \in ConsumerOps : Call(c, op) PROVE OneReader'
    <3>1. /\ Busy(c) /\ cop'[c] = cop[c]
          /\ consumerLock' = consumerLock \/ cpc'[c] = "idle"
      BY <1>2, <2>3, BusyMoves
    <3>2. ASSUME NEW d \in Consumers, Busy(d)', d # c PROVE FALSE
      BY <1>2, <3>1, <3>2, OneBusy, ReaderFrame DEF Busy
    <3> QED
      BY <3>1, <3>2 DEF OneReader, Busy
  <2> QED
    BY <2>1, <2>2, <2>3
<1> QED
  BY <1>1, <1>2

LEMMA UncountedNat == TypeOK => Uncounted \in Nat
<1>1. IsFiniteSet({p \in Producers : ppc[p] = "count"})
  BY ThreadsAssumption, FS_Subset
<1> QED
  BY <1>1, FS_CardinalityType DEF Uncounted

\* A granted message is committed, so readers never look past commitSeq.
LEMMA GrantCommitted ==
    ASSUME TypeOK, NothingTimed, OneReader, Grants, CountIsExact, Signals,
           NEW c \in Consumers, Granted(c)
    PROVE  claimSeq + left[c] <= commitSeq
<1>1. \A d \in Consumers : ~ Waiting(d)
  <2> SUFFICES ASSUME NEW d \in Consumers, Waiting(d) PROVE FALSE
    OBVIOUS
  <2>1. d = c
    BY OneBusy DEF Busy, Waiting, Granted
  <2> QED
    BY <2>1 DEF Waiting, Granted
<1>2. signalCount >= 0
  BY <1>1 DEF Signals
<1>3. signalCount + left[c] + Uncounted = commitSeq - claimSeq
  BY <1>1 DEF CountIsExact, InUse, Owed
<1> QED
  BY <1>2, <1>3, UncountedNat DEF TypeOK

LEMMA TicketsStep ==
    ASSUME IInv,
           \/ \E p \in Producers : ProducerMove(p)
           \/ \E c \in Consumers : ReaderMove(c)
    PROVE  Tickets'
<1> USE QueueSizeAssumption, MaxTicketAssumption DEF IInv, TypeOK, PMove, CMove
<1>1. ASSUME NEW p \in Producers, ProducerMove(p) PROVE Tickets'
  <2> USE DEF sharedVars, readerVars
  <2>1. CASE Push(p, "Push")
    BY <2>1 DEF Push, Tickets, HoldsTicket, Writing
  <2>2. CASE CheckSpace(p)
    BY <2>2 DEF CheckSpace, HasSpace, Tickets, HoldsTicket, Writing
  <2>3. CASE Sleep(p) \/ WakeUnnotified(p) \/ Woken(p) \/ WriteToNull(p) \/ WriteSlot(p)
             \/ CountMessage(p) \/ Signal(p)
    <3>1. /\ UNCHANGED <<claimSeq, commitSeq, insertSeq, ticket>>
          /\ \A q \in Producers : (HoldsTicket(q)' <=> HoldsTicket(q)) /\ (Writing(q)' <=> Writing(q))
      <4>1. CASE Sleep(p) \/ WakeUnnotified(p)
        BY <4>1 DEF Sleep, WakeUnnotified, HoldsTicket, Writing
      <4>4. CASE WriteToNull(p) \/ WriteSlot(p)
        BY <4>4 DEF WriteToNull, WriteSlot, HoldsTicket, Writing
      <4>3. CASE Woken(p)
        BY <4>3 DEF Woken, HoldsTicket, Writing
      <4>2. CASE CountMessage(p) \/ Signal(p)
        BY <4>2 DEF CountMessage, CountAndSignal, Signal, HoldsTicket, Writing
      <4> QED
        BY <2>3, <4>1, <4>2, <4>3, <4>4
    <3> QED
      BY <3>1 DEF Tickets
  <2>4. CASE Commit(p)
    <3>1. /\ commitSeq = ticket[p] /\ commitSeq' = commitSeq + 1
          /\ UNCHANGED <<claimSeq, insertSeq>>
      BY <2>4 DEF Commit, CommitWhen
    <3>2. HoldsTicket(p) /\ Writing(p) /\ ~ HoldsTicket(p)' /\ ~ Writing(p)'
      BY <2>4 DEF Commit, CommitWhen, HoldsTicket, Writing
    <3>3. \A q \in Producers \ {p} :
            /\ ticket'[q] = ticket[q]
            /\ (HoldsTicket(q)' <=> HoldsTicket(q)) /\ (Writing(q)' <=> Writing(q))
      BY <2>4 DEF Commit, CommitWhen, ForgetTicket, HoldsTicket, Writing
    <3>4. /\ 1 <= claimSeq' /\ claimSeq' <= commitSeq' /\ commitSeq' <= insertSeq'
          /\ commitSeq' <= claimSeq' + QueueSize /\ insertSeq' <= MaxTicket + 1
      BY <3>1, <3>2 DEF Tickets
    <3>5. ASSUME NEW q \in Producers, HoldsTicket(q)'
          PROVE  q # p /\ commitSeq' <= ticket'[q] /\ ticket'[q] < insertSeq'
      BY <3>1, <3>2, <3>3, <3>5 DEF Tickets
    <3>6. ASSUME NEW q \in Producers, Writing(q)'
          PROVE  ticket'[q] < claimSeq' + QueueSize
      BY <3>1, <3>2, <3>3, <3>6 DEF Tickets
    <3>7. ASSUME NEW q \in Producers, NEW r \in Producers \ {q},
                 HoldsTicket(q)', HoldsTicket(r)'
          PROVE  ticket'[q] # ticket'[r]
      BY <3>2, <3>3, <3>7 DEF Tickets
    <3> QED
      BY <3>4, <3>5, <3>6, <3>7 DEF Tickets
  <2> QED
    BY <1>1, <2>1, <2>2, <2>3, <2>4 DEF ProducerMove
<1>2. ASSUME NEW c \in Consumers, ReaderMove(c) PROVE Tickets'
  <2>0. commitSeq' = commitSeq /\ insertSeq' = insertSeq /\ ticket' = ticket
    BY <1>2, ReaderFrame
  <2>1. \A q \in Producers : (HoldsTicket(q)' <=> HoldsTicket(q)) /\ (Writing(q)' <=> Writing(q))
    BY <1>2, ReaderKeepsProducers
  <2>2. claimSeq' \in Nat /\ claimSeq <= claimSeq' /\ claimSeq' <= commitSeq
    <3>1. CASE AdvanceClaim(c)
      <4>1. left[c] >= 1 /\ Granted(c) /\ claimSeq' = claimSeq + 1
        BY <3>1 DEF AdvanceClaim, Advance, Granted, Grants
      <4> QED
        BY <4>1, GrantCommitted
    <3>2. CASE ReleaseMessages(c)
      <4>1. left[c] >= 1 /\ Granted(c) /\ claimSeq' = claimSeq + left[c]
        BY <3>2 DEF ReleaseMessages, Advance, Granted, Grants
      <4> QED
        BY <4>1, GrantCommitted
    <3> QED
      BY <1>2, <3>1, <3>2, ReaderEffects DEF Tickets
  <2>3. /\ 1 <= claimSeq' /\ claimSeq' <= commitSeq' /\ commitSeq' <= insertSeq'
        /\ commitSeq' <= claimSeq' + QueueSize /\ insertSeq' <= MaxTicket + 1
    <3>1. /\ 1 <= claimSeq /\ commitSeq <= insertSeq /\ commitSeq <= claimSeq + QueueSize
          /\ insertSeq <= MaxTicket + 1
          /\ claimSeq \in Nat /\ commitSeq \in Nat /\ insertSeq \in Nat
      BY DEF Tickets
    <3>0. insertSeq' <= MaxTicket + 1
      BY <2>0, <3>1
    <3> DEFINE claim == claimSeq'
    <3>2. claim \in Nat /\ claimSeq <= claim /\ claim <= commitSeq
      BY <2>2
    <3> HIDE DEF claim
    <3>3. /\ 1 <= claim /\ claim <= commitSeq /\ commitSeq <= insertSeq
          /\ commitSeq <= claim + QueueSize
      BY <3>1, <3>2
    <3> QED
      BY <2>0, <3>0, <3>3 DEF claim
  <2>4. ASSUME NEW q \in Producers, HoldsTicket(q)'
        PROVE  commitSeq' <= ticket'[q] /\ ticket'[q] < insertSeq'
    BY <2>0, <2>1, <2>4 DEF Tickets
  <2>5. ASSUME NEW q \in Producers, Writing(q)'
        PROVE  ticket'[q] < claimSeq' + QueueSize
    BY <2>0, <2>1, <2>2, <2>5 DEF Tickets
  <2>6. ASSUME NEW q \in Producers, NEW r \in Producers \ {q},
               HoldsTicket(q)', HoldsTicket(r)'
        PROVE  ticket'[q] # ticket'[r]
    BY <2>0, <2>1, <2>6 DEF Tickets
  <2> QED
    BY <2>3, <2>4, <2>5, <2>6 DEF Tickets
<1> QED
  BY <1>1, <1>2

\* While a thread is past its lock, every other one is between two calls or at it.
LEMMA Alone ==
    ASSUME NothingTimed, OneReader, NEW c \in Consumers, Busy(c),
           NEW d \in Consumers \ {c}
    PROVE  /\ ~ Busy(d) /\ ~ InUse(d) /\ ~ Waiting(d) /\ ~ Granted(d)
           /\ cpc[d] \notin {"load", "take", "wait", "view", "reset", "advance", "notify"}
<1>1. ~ Busy(d)
  BY OneBusy
<1> QED
  BY <1>1 DEF Busy, InUse, Waiting, Granted

LEMMA SlotsStep ==
    ASSUME IInv,
           \/ \E p \in Producers : ProducerMove(p)
           \/ \E c \in Consumers : ReaderMove(c)
    PROVE  Slots'
<1>0. /\ TypeOK /\ NothingTimed /\ OneReader /\ Tickets /\ Slots
      /\ Grants /\ CountIsExact /\ Signals
  BY DEF IInv
<1>t. /\ claimSeq \in Nat /\ commitSeq \in Nat /\ QueueSize \in Nat
      /\ ticket \in [Producers -> Nat] /\ queue \in [0 .. QueueSize - 1 -> Nat]
      /\ claimSeq <= commitSeq /\ commitSeq <= claimSeq + QueueSize
  BY <1>0, QueueSizeAssumption DEF TypeOK, Tickets
<1>1. ASSUME NEW p \in Producers, ProducerMove(p) PROVE Slots'
  <2>0. cpc' = cpc /\ claimSeq' = claimSeq
    BY <1>0, <1>1, ProducerFrame DEF readerVars
  <2>1. CASE WriteSlot(p)
    <3>1. /\ queue' = [queue EXCEPT ![Slot(ticket[p])] = ticket[p]]
          /\ commitSeq' = commitSeq /\ ticket' = ticket
          /\ ppc[p] = "write" /\ Writing(p) /\ HoldsTicket(p)
      BY <2>1 DEF WriteSlot, PMove, Writing, HoldsTicket
    <3>2. Slot(ticket[p]) \in 0 .. QueueSize - 1
      BY <1>t, SlotInRing
    <3>3. commitSeq <= ticket[p] /\ ticket[p] < claimSeq + QueueSize
      BY <1>0, <3>1 DEF Tickets
    <3>4. ASSUME NEW q \in Producers, ppc'[q] = "commit"
          PROVE  queue'[Slot(ticket'[q])] = ticket'[q]
      <4>1. CASE q = p
        BY <1>t, <3>1, <3>2, <4>1
      <4>2. CASE q # p
        <5>1. ppc[q] = "commit" /\ Writing(q) /\ HoldsTicket(q)
          BY <1>0, <1>1, <3>4, <4>2, ProducerFrame DEF Writing, HoldsTicket
        <5>2. /\ commitSeq <= ticket[q] /\ ticket[q] < claimSeq + QueueSize
              /\ ticket[q] # ticket[p]
          BY <1>0, <3>1, <4>2, <5>1 DEF Tickets
        <5>3. Slot(ticket[q]) # Slot(ticket[p])
          <6>1. CASE ticket[q] < ticket[p]
            BY <1>t, <3>3, <5>2, <6>1, DifferentSlots
          <6>2. CASE ticket[p] < ticket[q]
            BY <1>t, <3>3, <5>2, <6>2, DifferentSlots
          <6> QED
            BY <1>t, <5>2, <6>1, <6>2
        <5>4. queue[Slot(ticket[q])] = ticket[q]
          BY <1>0, <5>1 DEF Slots
        <5>5. Slot(ticket[q]) \in 0 .. QueueSize - 1
          BY <1>t, SlotInRing
        <5> QED
          BY <1>t, <3>1, <3>2, <5>3, <5>4, <5>5
      <4> QED
        BY <4>1, <4>2
    <3>5. ASSUME NEW s \in claimSeq .. commitSeq - 1
          PROVE  queue'[Slot(s)] = queue[Slot(s)]
      <4>1. s \in Nat /\ s < ticket[p] /\ ticket[p] < s + QueueSize
        BY <1>t, <3>3
      <4>2. Slot(s) # Slot(ticket[p]) /\ Slot(s) \in 0 .. QueueSize - 1
        BY <1>t, <4>1, DifferentSlots, SlotInRing
      <4> QED
        BY <1>t, <3>1, <4>2
    <3> QED
      BY <1>0, <2>0, <3>1, <3>4, <3>5 DEF Slots
  <2>2. CASE Commit(p)
    <3>1. /\ queue' = queue /\ commitSeq' = commitSeq + 1 /\ commitSeq = ticket[p]
          /\ ppc[p] = "commit" /\ ppc'[p] # "commit"
      BY <1>0, <2>2 DEF Commit, CommitWhen, PMove, TypeOK
    <3>2. queue[Slot(commitSeq)] = commitSeq
      BY <1>0, <3>1 DEF Slots
    <3>3. ASSUME NEW q \in Producers, ppc'[q] = "commit"
          PROVE  queue'[Slot(ticket'[q])] = ticket'[q]
      BY <1>0, <1>1, <3>1, <3>3, ProducerFrame DEF Slots
    <3>4. ASSUME NEW s \in claimSeq .. (commitSeq + 1) - 1
          PROVE  \/ queue[Slot(s)] = s
                 \/ s = claimSeq /\ \E c \in Consumers : cpc[c] = "advance"
      <4>1. CASE s = commitSeq
        BY <3>2, <4>1
      <4>2. CASE s # commitSeq
        <5>1. s \in claimSeq .. commitSeq - 1
          BY <1>t, <4>2
        <5> QED
          BY <1>0, <5>1 DEF Slots
      <4> QED
        BY <4>1, <4>2
    <3> QED
      BY <2>0, <3>1, <3>3, <3>4 DEF Slots
  <2>3. ASSUME ~ WriteSlot(p), ~ Commit(p) PROVE Slots'
    <3>1. queue' = queue /\ commitSeq' = commitSeq
      BY <1>0, <1>1, <2>3, ProducerFrame
    <3>2. ppc'[p] # "commit"
      <4> USE <1>0 DEF PMove, TypeOK
      <4>1. CASE Push(p, "Push") \/ CheckSpace(p) \/ Sleep(p) \/ WakeUnnotified(p)
        BY <4>1 DEF Push, CheckSpace, Sleep, WakeUnnotified
      <4>2. CASE Woken(p) \/ WriteToNull(p) \/ CountMessage(p) \/ Signal(p)
        BY <4>2 DEF Woken, WriteToNull, CountMessage, CountAndSignal, Signal
      <4> QED
        BY <1>1, <2>3, <4>1, <4>2 DEF ProducerMove
    <3>3. ASSUME NEW q \in Producers, ppc'[q] = "commit"
          PROVE  ppc[q] = "commit" /\ ticket'[q] = ticket[q]
      BY <1>0, <1>1, <3>2, <3>3, ProducerFrame
    <3> QED
      BY <1>0, <2>0, <3>1, <3>3 DEF Slots
  <2> QED
    BY <2>1, <2>2, <2>3
<1>2. ASSUME NEW c \in Consumers, ReaderMove(c) PROVE Slots'
  <2>0. /\ commitSeq' = commitSeq /\ ticket' = ticket
        /\ \A q \in Producers : (ppc'[q] = "commit") = (ppc[q] = "commit")
    BY <1>0, <1>2, ReaderFrame, ReaderKeepsProducers
  <2>1. CASE ResetSlot(c)
    <3>1. /\ queue' = [queue EXCEPT ![Slot(claimSeq)] = Empty]
          /\ claimSeq' = claimSeq /\ cpc[c] = "reset" /\ cpc'[c] = "advance"
      BY <1>0, <2>1 DEF ResetSlot, ResetTo, CMove, TypeOK
    <3>2. claimSeq < commitSeq
      <4>1. Granted(c) /\ left[c] >= 1 /\ left[c] \in Int
        BY <1>0, <3>1 DEF Granted, Grants, TypeOK
      <4> QED
        BY <1>0, <1>t, <4>1, GrantCommitted
    <3>3. ASSUME NEW s \in Nat, claimSeq < s, s < claimSeq + QueueSize
          PROVE  queue'[Slot(s)] = queue[Slot(s)]
      <4>1. Slot(claimSeq) # Slot(s) /\ Slot(s) \in 0 .. QueueSize - 1
        <5>1. Slot(claimSeq) # Slot(s)
          BY <1>t, <3>3, DifferentSlots
        <5>2. Slot(s) \in 0 .. QueueSize - 1
          BY SlotInRing
        <5> QED
          BY <5>1, <5>2
      <4> QED
        BY <1>t, <3>1, <4>1
    <3>4. ASSUME NEW q \in Producers, ppc'[q] = "commit"
          PROVE  queue'[Slot(ticket'[q])] = ticket'[q]
      <4>1. ppc[q] = "commit" /\ Writing(q) /\ HoldsTicket(q)
        BY <2>0, <3>4 DEF Writing, HoldsTicket
      <4>2. commitSeq <= ticket[q] /\ ticket[q] < claimSeq + QueueSize
        BY <1>0, <4>1 DEF Tickets
      <4>3. queue[Slot(ticket[q])] = ticket[q]
        BY <1>0, <4>1 DEF Slots
      <4>4. ticket[q] \in Nat /\ claimSeq < ticket[q]
        BY <1>t, <3>2, <4>2
      <4> QED
        BY <2>0, <3>3, <4>2, <4>3, <4>4
    <3>5. ASSUME NEW s \in claimSeq .. commitSeq - 1, s # claimSeq
          PROVE  queue'[Slot(s)] = s
      <4>1. s \in Nat /\ claimSeq < s /\ s < claimSeq + QueueSize
        BY <1>t, <3>5
      <4>2. queue[Slot(s)] = s
        BY <1>0, <3>5 DEF Slots
      <4> QED
        BY <3>3, <4>1, <4>2
    <3> QED
      BY <2>0, <3>1, <3>4, <3>5 DEF Slots
  <2>2. ASSUME queue' = queue, claimSeq' \in Nat, claimSeq < claimSeq' PROVE Slots'
    <3>1. ASSUME NEW s \in claimSeq' .. commitSeq - 1
          PROVE  s \in claimSeq .. commitSeq - 1 /\ s # claimSeq
      BY <1>t, <2>2
    <3>2. ASSUME NEW s \in claimSeq' .. commitSeq - 1
          PROVE  queue[Slot(s)] = s
      BY <1>0, <3>1 DEF Slots
    <3> QED
      BY <1>0, <2>0, <2>2, <3>2 DEF Slots
  <2>3. CASE AdvanceClaim(c)
    <3>1. queue' = queue /\ claimSeq' = claimSeq + 1
      BY <2>3 DEF AdvanceClaim, Advance, sharedVars
    <3> QED
      BY <1>t, <2>2, <3>1
  <2>4. CASE ReleaseMessages(c)
    <3>1. queue' = queue /\ claimSeq' = claimSeq + left[c] /\ left[c] > 0
      BY <1>0, <2>4 DEF ReleaseMessages, Advance, sharedVars, CMove, Grants
    <3>2. left[c] \in Int
      BY <1>0 DEF TypeOK
    <3> QED
      BY <1>t, <2>2, <3>1, <3>2
  <2>5. ASSUME ~ ResetSlot(c), ~ AdvanceClaim(c), ~ ReleaseMessages(c) PROVE Slots'
    <3>1. queue' = queue /\ claimSeq' = claimSeq
      BY <1>0, <1>2, <2>5, ReaderEffects
    <3>2. cpc[c] # "advance"
      BY <1>2, <2>5 DEF ReaderMove, Call, Lock, LoadCount, TakeCount, TakeFromCount,
         AcquireSignal, UsePermit, ViewMessage, ReleaseMessage, NotifyAll, CMove, Return
    <3>3. (\E d \in Consumers : cpc[d] = "advance") => \E d \in Consumers : cpc'[d] = "advance"
      BY <1>0, <1>2, <3>2, ReaderFrame
    <3> QED
      BY <1>0, <2>0, <3>1, <3>3 DEF Slots
  <2> QED
    BY <2>1, <2>3, <2>4, <2>5
<1> QED
  BY <1>1, <1>2

\* No reader is asleep while another is past its lock, so the count is not negative.
LEMMA CountNotNegative ==
    ASSUME TypeOK, NothingTimed, OneReader, Signals,
           NEW c \in Consumers, Busy(c), ~ Waiting(c)
    PROVE  /\ signalCount >= 0 /\ permits = 0
           /\ \A p \in Producers : ~ Signalling(p)
           /\ \A d \in Consumers : ~ Waiting(d)
<1>1. \A d \in Consumers : ~ Waiting(d)
  BY Alone
<1> QED
  BY <1>1 DEF Signals

\* What a reader at "take" asks for: what LoadCount has found.
Asks(op, n, count) ==
    /\ op = "Pop" => n = 1 /\ count >= 1
    /\ op = "Claim" => n \in 0 .. count
    /\ op \in {"Wait", "PopWait"} => n >= 1 /\ (n <= count \/ n = 1)
    /\ op = "PopWait" => n = 1

LEMMA AsksGrow ==
    ASSUME NEW op, NEW n \in Int, NEW count \in Int, Asks(op, n, count)
    PROVE  Asks(op, n, count + 1)
  BY DEF Asks

LEMMA WantedAsks ==
    ASSUME NEW op \in {"Pop", "Claim", "Wait", "PopWait"},
           NEW count \in Nat, op = "Pop" => count # 0, NEW n \in Wanted(op, count)
    PROVE  Asks(op, n, count)
<1>1. CASE op = "Pop"
  BY <1>1 DEF Wanted, Asks
<1>2. CASE op = "Claim"
  BY <1>2, QueueSizeAssumption DEF Wanted, Asks, Lesser
<1>3. CASE op = "Wait"
  BY <1>3, QueueSizeAssumption DEF Wanted, Asks, Lesser
<1>4. CASE op = "PopWait"
  BY <1>4 DEF Wanted, Asks, Lesser
<1> QED
  BY <1>1, <1>2, <1>3, <1>4

\* Grants, of one reader.
GrantsOf(c) ==
    /\ viewed[c] \in 0 .. left[c]
    /\ ~ Granted(c) => left[c] = 0
    /\ cpc[c] = "view" => left[c] > 0
    /\ cpc[c] \in {"reset", "advance"} => viewed[c] > 0
    /\ cop[c] \in PopOps => left[c] <= 1
    /\ cpc[c] = "take" => Asks(cop[c], avail[c], signalCount)
    /\ cpc[c] = "wait" => avail[c] = 1

LEMMA GrantsIsGrantsOf == Grants <=> \A c \in Consumers : GrantsOf(c)
  BY DEF Grants, GrantsOf, Asks

LEMMA GrantsStep ==
    ASSUME UntimedUse, IInv,
           \/ \E p \in Producers : ProducerMove(p)
           \/ \E c \in Consumers : ReaderMove(c)
    PROVE  Grants'
<1>0. /\ TypeOK /\ NothingTimed /\ OneReader /\ Grants /\ CountIsExact /\ Signals
      /\ \A c \in Consumers : GrantsOf(c)
  BY GrantsIsGrantsOf DEF IInv
<1> SUFFICES ASSUME NEW d \in Consumers PROVE GrantsOf(d)'
  BY DEF Grants, GrantsOf, Asks
<1>t. /\ signalCount \in Int
      /\ avail \in [Consumers -> Int] /\ left \in [Consumers -> Int]
      /\ viewed \in [Consumers -> Int]
      /\ cpc \in [Consumers -> ConsumerPlaces] /\ cop \in [Consumers -> PopOps \cup RawOps]
  BY <1>0 DEF TypeOK
<1>1. ASSUME NEW p \in Producers, ProducerMove(p) PROVE GrantsOf(d)'
  <2>1. /\ cpc' = cpc /\ cop' = cop /\ avail' = avail /\ left' = left /\ viewed' = viewed
    BY <1>0, <1>1, ProducerFrame DEF readerVars, callVars
  <2>2. signalCount' = signalCount \/ signalCount' = signalCount + 1
    BY <1>0, <1>1, ProducerFrame DEF CountMessage, CountAndSignal
  <2>3. cpc[d] = "take" => Asks(cop[d], avail[d], signalCount')
    BY <1>0, <1>t, <2>2, AsksGrow DEF GrantsOf
  <2> QED
    BY <1>0, <2>1, <2>3 DEF GrantsOf, Granted
<1>2. ASSUME NEW c \in Consumers, ReaderMove(c), c # d PROVE GrantsOf(d)'
  <2>1. /\ cpc'[d] = cpc[d] /\ cop'[d] = cop[d] /\ avail'[d] = avail[d]
        /\ left'[d] = left[d] /\ viewed'[d] = viewed[d]
    BY <1>0, <1>2, ReaderFrame
  <2>2. cpc[d] = "take" => signalCount' = signalCount
    <3>1. CASE TakeCount(c)
      <4>1. Busy(c)
        BY <3>1 DEF TakeCount, TakeFromCount, Busy
      <4> QED
        BY <1>0, <1>2, <4>1, Alone
    <3> QED
      BY <1>0, <1>2, <3>1, ReaderEffects
  <2> QED
    BY <1>0, <2>1, <2>2 DEF GrantsOf, Granted
<1>3. ASSUME ReaderMove(d) PROVE GrantsOf(d)'
  <2> USE <1>0, <1>t DEF CMove
  <2>1. CASE \E op \in ConsumerOps : Call(d, op)
    <3>1. cpc[d] = "idle" /\ cpc'[d] \in {"lock", "load"} /\ left' = left /\ viewed' = viewed
      BY <2>1 DEF Call, callVars
    <3> QED
      BY <3>1 DEF GrantsOf, Granted, PopOps
  <2>2. CASE Lock(d)
    <3>1. /\ cpc[d] = "lock" /\ cpc'[d] = "load" /\ left' = left /\ viewed' = viewed
          /\ cop' = cop
      BY <2>2 DEF Lock, callVars, NothingTimed
    <3> QED
      BY <3>1 DEF GrantsOf, Granted
  <2>3. CASE LoadCount(d)
    <3>1. cpc[d] = "load" /\ left' = left /\ viewed' = viewed /\ cop' = cop
          /\ signalCount' = signalCount
      BY <2>3 DEF LoadCount, sharedVars
    <3>2. Busy(d) /\ ~ Waiting(d)
      BY <3>1 DEF Busy, Waiting
    <3>3. signalCount \in Nat
      BY <3>2, CountNotNegative
    <3>4. cop[d] \in {"Pop", "Claim", "Wait", "PopWait"}
      BY <3>1, OpsAssumption DEF NothingTimed, UntimedUse, PopOps, RawOps, TimedOps
    <3>5. \/ cpc'[d] = "idle"
          \/ /\ cpc'[d] = "take"
             /\ cop[d] = "Pop" => signalCount # 0
             /\ avail'[d] \in Wanted(cop[d], signalCount)
      BY <2>3, <3>4 DEF LoadCount, Return, TimedOps
    <3> DEFINE n == avail'[d]
    <3>6. cpc'[d] = "idle" \/ (cpc'[d] = "take" /\ Asks(cop[d], n, signalCount))
      <4>2. ASSUME n \in Wanted(cop[d], signalCount), cop[d] = "Pop" => signalCount # 0
            PROVE  Asks(cop[d], n, signalCount)
        <5> HIDE DEF n
        <5> DEFINE op == cop[d]
        <5>1. op \in {"Pop", "Claim", "Wait", "PopWait"} /\ n \in Wanted(op, signalCount)
              /\ (op = "Pop" => signalCount # 0)
          BY <3>4, <4>2
        <5> HIDE DEF op
        <5>2. Asks(op, n, signalCount)
          BY ONLY <3>3, <5>1, WantedAsks
        <5> QED
          BY <5>2 DEF op
      <4> QED
        BY <3>5, <4>2
    <3> QED
      BY <3>1, <3>6 DEF GrantsOf, Granted
  <2>4. CASE TakeCount(d)
    <3>1. /\ cpc[d] = "take" /\ cop' = cop /\ viewed' = viewed
          /\ signalCount' = signalCount - avail[d]
      BY <2>4 DEF TakeCount, TakeFromCount
    <3>2. /\ Asks(cop[d], avail[d], signalCount) /\ left[d] = 0 /\ viewed[d] = 0
      BY <3>1 DEF GrantsOf, Granted
    <3>3. cop[d] \in {"Pop", "Claim", "Wait", "PopWait"}
      BY <3>1, OpsAssumption DEF NothingTimed, UntimedUse, PopOps, RawOps, TimedOps
    <3>4. CASE MustWait(d)
      <4>1. cpc'[d] = "wait" /\ left' = left /\ avail' = avail
        BY <2>4, <3>4 DEF TakeCount, TakeFromCount
      <4>2. avail[d] = 1
        BY <3>2, <3>3, <3>4 DEF MustWait, Asks
      <4> QED
        BY <3>1, <3>2, <4>1, <4>2 DEF GrantsOf, Granted
    <3>5. CASE ~ MustWait(d)
      <4>1. /\ cpc'[d] = IF cop[d] = "Claim" /\ avail[d] = 0 THEN "idle" ELSE "view"
            /\ left'[d] = IF cop[d] \in PopOps THEN 1 ELSE avail[d]
        BY <2>4, <3>5 DEF TakeCount, TakeFromCount, Grant
      <4>2. cop[d] # "Claim" => left'[d] >= 1 /\ left'[d] \in Int
        BY <3>2, <3>3, <4>1 DEF Asks
      <4>3. cop[d] = "Claim" => left'[d] = avail[d] /\ avail[d] >= 0
        BY <3>2, <4>1 DEF Asks, PopOps
      <4> QED
        BY <3>1, <3>2, <4>1, <4>2, <4>3 DEF GrantsOf, Granted
    <3> QED
      BY <3>4, <3>5
  <2>5. CASE AcquireSignal(d)
    <3>1. /\ cpc[d] = "wait" /\ cpc'[d] = "view" /\ viewed' = viewed /\ cop' = cop
          /\ left'[d] = IF cop[d] \in PopOps THEN 1 ELSE avail[d]
      BY <2>5 DEF AcquireSignal, UsePermit, Grant, NothingTimed
    <3>2. avail[d] = 1 /\ viewed[d] = 0
      BY <3>1 DEF GrantsOf, Granted
    <3> QED
      BY <3>1, <3>2 DEF GrantsOf, Granted
  <2>6. CASE ViewMessage(d)
    <3>1. /\ cpc[d] = "view" /\ cpc' = cpc /\ cop' = cop /\ left' = left /\ avail' = avail
          /\ viewed[d] < left[d] /\ viewed'[d] = viewed[d] + 1
      BY <2>6 DEF ViewMessage
    <3> QED
      BY <3>1 DEF GrantsOf, Granted
  <2>7. CASE ReleaseMessage(d) \/ ResetSlot(d)
    <3>1. /\ cop' = cop /\ left' = left /\ viewed' = viewed
          /\ cpc[d] \in {"view", "reset"} /\ cpc'[d] \in {"reset", "advance"}
          /\ cpc[d] = "view" => viewed[d] > 0
      BY <2>7 DEF ReleaseMessage, ResetSlot, ResetTo, callVars
    <3> QED
      BY <3>1 DEF GrantsOf, Granted
  <2>8. CASE AdvanceClaim(d)
    <3>1. /\ cpc[d] = "advance" /\ cpc'[d] = "notify" /\ cop' = cop
          /\ left'[d] = left[d] - 1 /\ viewed'[d] = viewed[d] - 1
      BY <2>8 DEF AdvanceClaim, Advance, NothingTimed
    <3> QED
      BY <3>1 DEF GrantsOf, Granted
  <2>9. CASE ReleaseMessages(d)
    <3>1. /\ cpc[d] = "view" /\ cpc'[d] = "notify" /\ cop' = cop
          /\ left'[d] = left[d] - left[d] /\ viewed'[d] = viewed[d] - left[d]
          /\ viewed[d] = left[d]
      BY <2>9 DEF ReleaseMessages, Advance, NothingTimed
    <3> QED
      BY <3>1 DEF GrantsOf, Granted
  <2>10. CASE NotifyAll(d)
    <3>1. /\ cpc[d] = "notify" /\ cop' = cop /\ left' = left /\ viewed' = viewed
          /\ cpc'[d] = IF left[d] > 0 THEN "view" ELSE "idle"
      BY <2>10 DEF NotifyAll, NothingTimed, Return
    <3> QED
      BY <3>1 DEF GrantsOf, Granted
  <2> QED
    BY <1>3, <2>1, <2>2, <2>3, <2>4, <2>5, <2>6, <2>7, <2>8, <2>9, <2>10 DEF ReaderMove
<1> QED
  BY <1>1, <1>2, <1>3

\* Uncounted follows the producers in and out of the place between committing a
\* message and counting it.
LEMMA UncountedSteps ==
    ASSUME TypeOK, TypeOK', NEW p \in Producers,
           \A q \in Producers \ {p} : ppc'[q] = ppc[q]
    PROVE  /\ ppc[p] # "count" /\ ppc'[p] = "count" => Uncounted' = Uncounted + 1
           /\ ppc[p] = "count" /\ ppc'[p] # "count" => Uncounted' = Uncounted - 1
           /\ (ppc[p] = "count") = (ppc'[p] = "count") => Uncounted' = Uncounted
<1> DEFINE S == {q \in Producers : ppc[q] = "count"}
           T == {q \in Producers : ppc'[q] = "count"}
<1>1. Uncounted = Cardinality(S) /\ Uncounted' = Cardinality(T)
  BY DEF Uncounted
<1>2. IsFiniteSet(S) /\ IsFiniteSet(T) /\ Cardinality(S) \in Nat /\ Cardinality(T) \in Nat
  BY ThreadsAssumption, FS_Subset, FS_CardinalityType
<1>3. ASSUME ppc[p] # "count", ppc'[p] = "count" PROVE Uncounted' = Uncounted + 1
  <2>1. T = S \cup {p} /\ p \notin S
    BY <1>3
  <2> HIDE DEF S, T
  <2>2. Cardinality(T) = Cardinality(S) + 1
    BY <1>2, <2>1, FS_AddElement
  <2> QED
    BY <1>1, <2>2
<1>4. ASSUME ppc[p] = "count", ppc'[p] # "count" PROVE Uncounted' = Uncounted - 1
  <2>1. T = S \ {p} /\ p \in S
    BY <1>4
  <2> HIDE DEF S, T
  <2>2. Cardinality(T) = Cardinality(S) - 1
    BY <1>2, <2>1, FS_RemoveElement
  <2> QED
    BY <1>1, <2>2
<1>5. ASSUME (ppc[p] = "count") = (ppc'[p] = "count") PROVE Uncounted' = Uncounted
  <2>1. T = S
    BY <1>5
  <2> QED
    BY <1>1, <2>1
<1> QED
  BY <1>3, <1>4, <1>5

\* What all producers and readers together have taken, committed and released.
LEMMA CountStep ==
    ASSUME UntimedUse, IInv, TypeOK', NothingTimed', OneReader',
           \/ \E p \in Producers : ProducerMove(p)
           \/ \E c \in Consumers : ReaderMove(c)
    PROVE  CountIsExact'
<1>0. /\ TypeOK /\ NothingTimed /\ OneReader /\ Grants /\ CountIsExact /\ Signals
      /\ acquiredPending = 0 /\ acquiredPending' = 0
      /\ \A c \in Consumers : GrantsOf(c)
  BY GrantsIsGrantsOf DEF IInv, NothingTimed
<1>t. /\ signalCount \in Int /\ commitSeq \in Nat /\ claimSeq \in Nat
      /\ avail \in [Consumers -> Int] /\ left \in [Consumers -> Int]
      /\ cpc \in [Consumers -> ConsumerPlaces] /\ cop \in [Consumers -> PopOps \cup RawOps]
      /\ Uncounted \in Nat
  BY <1>0, UncountedNat DEF TypeOK
<1>1. ASSUME NEW p \in Producers, ProducerMove(p) PROVE CountIsExact'
  <2>1. /\ cpc' = cpc /\ avail' = avail /\ left' = left /\ claimSeq' = claimSeq
        /\ \A q \in Producers \ {p} : ppc'[q] = ppc[q]
    BY <1>0, <1>1, ProducerFrame DEF readerVars, callVars
  <2>2. signalCount' + Uncounted' - commitSeq' = signalCount + Uncounted - commitSeq
    <3>1. CASE Commit(p)
      <4>1. ppc[p] = "commit" /\ ppc'[p] = "count" /\ commitSeq' = commitSeq + 1
            /\ signalCount' = signalCount
        BY <1>0, <3>1 DEF Commit, CommitWhen, PMove, TypeOK
      <4>2. Uncounted' = Uncounted + 1
        BY <1>0, <2>1, <4>1, UncountedSteps
      <4> QED
        BY <1>t, <4>1, <4>2
    <3>2. CASE CountMessage(p)
      <4>1. ppc[p] = "count" /\ ppc'[p] # "count" /\ commitSeq' = commitSeq
            /\ signalCount' = signalCount + 1
        BY <1>0, <3>2 DEF CountMessage, CountAndSignal, PMove, TypeOK
      <4>2. Uncounted' = Uncounted - 1
        BY <1>0, <2>1, <4>1, UncountedSteps
      <4> QED
        BY <1>t, <4>1, <4>2
    <3>3. ASSUME ~ Commit(p), ~ CountMessage(p)
          PROVE  signalCount' + Uncounted' - commitSeq' = signalCount + Uncounted - commitSeq
      <4>1. commitSeq' = commitSeq /\ signalCount' = signalCount
        BY <1>0, <1>1, <3>3, ProducerFrame
      <4>2. ppc[p] # "count" /\ ppc'[p] # "count"
        <5> USE <1>0 DEF PMove, TypeOK
        <5>1. CASE Push(p, "Push") \/ CheckSpace(p) \/ Sleep(p) \/ WakeUnnotified(p)
          BY <5>1 DEF Push, CheckSpace, Sleep, WakeUnnotified
        <5>2. CASE Woken(p) \/ WriteToNull(p) \/ WriteSlot(p) \/ Signal(p)
          BY <5>2 DEF Woken, WriteToNull, WriteSlot, Signal
        <5> QED
          BY <1>1, <3>3, <5>1, <5>2 DEF ProducerMove
      <4>3. Uncounted' = Uncounted
        BY <1>0, <2>1, <4>2, UncountedSteps
      <4> QED
        BY <4>1, <4>3
    <3> QED
      BY <3>1, <3>2, <3>3
  <2>3. \A c \in Consumers : (InUse(c)' <=> InUse(c)) /\ Owed(c)' = Owed(c)
    BY <1>0, <2>1 DEF InUse, Owed, Waiting, Granted
  <2>4. \A c \in Consumers : Owed(c) \in Int
    BY <1>0, <1>t DEF Owed
  <2>5. signalCount' \in Int /\ Uncounted' \in Nat /\ commitSeq' \in Nat
    <3>1. ppc' \in [Producers -> ProducerPlaces] /\ signalCount' \in Int /\ commitSeq' \in Nat
      BY <1>0 DEF TypeOK
    <3>2. IsFiniteSet({q \in Producers : ppc'[q] = "count"})
      BY ThreadsAssumption, FS_Subset
    <3> QED
      BY <3>1, <3>2, FS_CardinalityType DEF Uncounted
  <2>6. ASSUME NEW owed \in Int, signalCount + owed + Uncounted = commitSeq - claimSeq
        PROVE  signalCount' + owed + Uncounted' = commitSeq' - claimSeq
    <3> DEFINE count == signalCount'
               uncounted == Uncounted'
               committed == commitSeq'
    <3>1. /\ count \in Int /\ uncounted \in Nat /\ committed \in Nat
          /\ count + uncounted - committed = signalCount + Uncounted - commitSeq
      BY <2>2, <2>5
    <3> HIDE DEF count, uncounted, committed
    <3>2. count + owed + uncounted = committed - claimSeq
      BY <1>t, <2>6, <3>1
    <3> QED
      BY <3>2 DEF count, uncounted, committed
  <2>7. ASSUME NEW c \in Consumers, InUse(c)'
        PROVE  signalCount' + Owed(c)' + Uncounted' = commitSeq' - claimSeq'
    <3>1. signalCount + Owed(c) + Uncounted = commitSeq - claimSeq
      BY <1>0, <2>3, <2>7 DEF CountIsExact
    <3> QED
      BY <2>1, <2>3, <2>4, <2>6, <3>1
  <2>8. ASSUME \A c \in Consumers : ~ InUse(c)'
        PROVE  signalCount' + acquiredPending' + Uncounted' = commitSeq' - claimSeq'
    <3>1. signalCount + 0 + Uncounted = commitSeq - claimSeq
      BY <1>0, <2>3, <2>8 DEF CountIsExact
    <3> QED
      BY <1>0, <2>1, <2>6, <3>1
  <2> QED
    BY <2>7, <2>8 DEF CountIsExact
<1>2. ASSUME NEW c \in Consumers, ReaderMove(c) PROVE CountIsExact'
  <2>1. Uncounted' = Uncounted /\ commitSeq' = commitSeq
    BY <1>0, <1>2, ReaderFrame, ReaderKeepsProducers
  <2>2. \A d \in Consumers \ {c} : (InUse(d)' <=> InUse(d)) /\ Owed(d)' = Owed(d)
    BY <1>0, <1>2, ReaderFrame DEF InUse, Owed, Waiting, Granted
  \* what the moving reader has, counted as nothing when it is not in use
  <2> DEFINE Have == IF InUse(c) THEN Owed(c) ELSE 0
  <2>3. CASE Busy(c)
    <3>1. \A d \in Consumers \ {c} : ~ InUse(d)
      BY <1>0, <2>3, Alone
    <3>2. signalCount + Have + Uncounted = commitSeq - claimSeq
      <4>1. CASE InUse(c)
        BY <1>0, <4>1 DEF CountIsExact
      <4>2. CASE ~ InUse(c)
        BY <1>0, <3>1, <4>2 DEF CountIsExact
      <4> QED
        BY <4>1, <4>2
    <3>3. signalCount' + Have' + Uncounted = commitSeq - claimSeq'
      <4> USE <1>0, <1>t DEF CMove, InUse, Owed, Waiting, Granted
      <4>1. CASE LoadCount(c)
        <5>1. cpc[c] = "load" /\ cpc'[c] \in {"wait", "idle", "take"}
              /\ cpc'[c] # "wait"
              /\ signalCount' = signalCount /\ claimSeq' = claimSeq
          BY <4>1 DEF LoadCount, Return, sharedVars
        <5> QED
          BY <3>2, <5>1
      <4>2. CASE TakeCount(c)
        <5>1. /\ cpc[c] = "take" /\ claimSeq' = claimSeq
              /\ signalCount' = signalCount - avail[c]
              /\ cpc'[c] \in {"wait", "idle", "view"}
          BY <4>2 DEF TakeCount, TakeFromCount
        <5>2. cpc'[c] = "wait" => avail'[c] = avail[c]
          BY <4>2 DEF TakeCount, TakeFromCount
        <5>3. cpc'[c] = "idle" => avail[c] = 0
          BY <4>2 DEF TakeCount, TakeFromCount
        <5>4. cpc'[c] = "view" => left'[c] = avail[c]
          <6>1. cpc'[c] = "view" => left'[c] = IF cop[c] \in PopOps THEN 1 ELSE avail[c]
            BY <4>2 DEF TakeCount, TakeFromCount, Grant
          <6>2. cop[c] \in PopOps => avail[c] = 1
            <7>1. cop[c] \in PopOps => cop[c] \in {"Pop", "PopWait"}
              BY <5>1 DEF NothingTimed, UntimedUse, PopOps, TimedOps
            <7> QED
              BY <5>1, <7>1 DEF GrantsOf, Asks
          <6> QED
            BY <6>1, <6>2
        <5>5. Have = 0 /\ Have' = avail[c]
          BY <5>1, <5>2, <5>3, <5>4
        <5>6. signalCount' + avail[c] + Uncounted = commitSeq - claimSeq'
          <6>1. avail[c] \in Int /\ signalCount + 0 + Uncounted = commitSeq - claimSeq
            BY <3>2, <5>5
          <6> HIDE DEF Have
          <6> QED
            BY <5>1, <6>1
        <5> QED
          BY <5>5, <5>6
      <4>3. CASE AcquireSignal(c)
        <5>1. /\ cpc[c] = "wait" /\ cpc'[c] = "view" /\ claimSeq' = claimSeq
              /\ signalCount' = signalCount
              /\ left'[c] = IF cop[c] \in PopOps THEN 1 ELSE avail[c]
          BY <4>3 DEF AcquireSignal, UsePermit, Grant, NothingTimed
        <5>2. avail[c] = 1
          BY <5>1 DEF GrantsOf
        <5> QED
          BY <3>2, <5>1, <5>2
      <4>4. CASE ViewMessage(c) \/ ReleaseMessage(c) \/ ResetSlot(c)
        <5>1. /\ cpc[c] \in {"view", "reset"} /\ cpc'[c] \in {"view", "reset", "advance"}
              /\ claimSeq' = claimSeq /\ signalCount' = signalCount /\ left' = left
          BY <4>4 DEF ViewMessage, ReleaseMessage, ResetSlot, ResetTo, sharedVars, callVars
        <5>2. Have = left[c] /\ Have' = left[c]
          BY <5>1
        <5> QED
          BY <3>2, <5>1, <5>2
      <4>5. CASE AdvanceClaim(c)
        <5>1. /\ cpc[c] = "advance" /\ cpc'[c] = "notify" /\ claimSeq' = claimSeq + 1
              /\ signalCount' = signalCount /\ left'[c] = left[c] - 1
          BY <4>5 DEF AdvanceClaim, Advance, NothingTimed, sharedVars
        <5>2. Have = left[c] /\ Have' = left[c] - 1
          BY <5>1
        <5>3. signalCount + left[c] + Uncounted = commitSeq - claimSeq
          BY <3>2, <5>2
        <5>4. signalCount + (left[c] - 1) + Uncounted = commitSeq - (claimSeq + 1)
          <6> DEFINE n == left[c]
                     m == Uncounted
          <6>1. /\ signalCount \in Int /\ n \in Int /\ m \in Int
                /\ commitSeq \in Int /\ claimSeq \in Int
                /\ signalCount + n + m = commitSeq - claimSeq
            BY <5>3
          <6> HIDE DEF n, m
          <6>2. signalCount + (n - 1) + m = commitSeq - (claimSeq + 1)
            BY ONLY <6>1
          <6> QED
            BY <6>2 DEF n, m
        <5> QED
          BY <5>1, <5>2, <5>4
      <4>6. CASE ReleaseMessages(c)
        <5>1. /\ cpc[c] = "view" /\ cpc'[c] = "notify" /\ claimSeq' = claimSeq + left[c]
              /\ signalCount' = signalCount /\ left'[c] = left[c] - left[c]
          BY <4>6 DEF ReleaseMessages, Advance, NothingTimed, sharedVars
        <5> QED
          BY <3>2, <5>1
      <4>7. CASE NotifyAll(c)
        <5>1. /\ cpc[c] = "notify" /\ left' = left /\ claimSeq' = claimSeq
              /\ signalCount' = signalCount
              /\ cpc'[c] = IF left[c] > 0 THEN "view" ELSE "idle"
          BY <4>7 DEF NotifyAll, NothingTimed, Return
        <5>2. left[c] >= 0
          BY DEF GrantsOf
        <5> QED
          BY <3>2, <5>1, <5>2
      <4>8. ~ Lock(c) /\ ~ \E op \in ConsumerOps : Call(c, op)
        BY <2>3 DEF Busy, Lock, Call
      <4> QED
        BY <1>2, <4>1, <4>2, <4>3, <4>4, <4>5, <4>6, <4>7, <4>8 DEF ReaderMove
    <3>4. \A d \in Consumers \ {c} : ~ InUse(d)'
      BY <2>2, <3>1
    <3>5. CASE InUse(c)'
      BY <1>0, <2>1, <3>3, <3>4, <3>5 DEF CountIsExact
    <3>6. CASE ~ InUse(c)'
      BY <1>0, <2>1, <3>3, <3>4, <3>6 DEF CountIsExact
    <3> QED
      BY <3>5, <3>6
  <2>4. CASE ~ Busy(c)
    <3>1. CASE Lock(c)
      <4>1. signalCount' = signalCount /\ claimSeq' = claimSeq
            /\ cpc'[c] = "load"
        BY <1>0, <1>t, <3>1 DEF Lock, CMove, sharedVars, NothingTimed
      <4>2. (InUse(c)' <=> InUse(c))
        BY <2>4, <4>1 DEF InUse, Waiting, Granted, Busy
      <4>3. ~ InUse(c)
        BY <2>4 DEF InUse, Waiting, Granted, Busy
      <4> QED
        BY <1>0, <2>1, <2>2, <4>1, <4>2, <4>3 DEF CountIsExact
    <3>2. CASE \E op \in ConsumerOps : Call(c, op)
      <4>1. signalCount' = signalCount /\ claimSeq' = claimSeq
            /\ cpc'[c] \in {"lock", "load"}
        BY <1>t, <3>2 DEF Call, CMove, sharedVars
      <4>2. ~ InUse(c)'
        BY <4>1 DEF InUse, Waiting, Granted
      <4>3. ~ InUse(c)
        BY <2>4 DEF InUse, Waiting, Granted, Busy
      <4> QED
        BY <1>0, <2>1, <2>2, <4>1, <4>2, <4>3 DEF CountIsExact
    <3> QED
      BY <1>0, <1>2, <2>4, <3>1, <3>2, BusyMoves
  <2> QED
    BY <2>3, <2>4
<1> QED
  BY <1>1, <1>2

LEMMA SignalsStep ==
    ASSUME UntimedUse, IInv, TypeOK', NothingTimed', OneReader',
           \/ \E p \in Producers : ProducerMove(p)
           \/ \E c \in Consumers : ReaderMove(c)
    PROVE  Signals'
<1>0. /\ TypeOK /\ NothingTimed /\ OneReader /\ Signals
      /\ \A c \in Consumers : GrantsOf(c)
  BY GrantsIsGrantsOf DEF IInv
<1>t. /\ signalCount \in Int /\ permits \in Nat /\ ppc \in [Producers -> ProducerPlaces]
      /\ avail \in [Consumers -> Int]
      /\ cpc \in [Consumers -> ConsumerPlaces] /\ cop \in [Consumers -> PopOps \cup RawOps]
  BY <1>0 DEF TypeOK
<1>1. ASSUME NEW p \in Producers, ProducerMove(p) PROVE Signals'
  <2>1. /\ \A c \in Consumers : (Waiting(c)' <=> Waiting(c))
        /\ \A q \in Producers \ {p} : (Signalling(q)' <=> Signalling(q))
    BY <1>0, <1>1, ProducerFrame DEF readerVars, Waiting, Signalling
  <2>2. CASE CountMessage(p)
    <3>1. /\ ppc[p] = "count" /\ permits' = permits /\ signalCount' = signalCount + 1
          /\ ppc'[p] = IF signalCount < 0 THEN "signal" ELSE "idle"
      BY <1>t, <2>2 DEF CountMessage, CountAndSignal, PMove
    <3>2. ~ Signalling(p) /\ (Signalling(p)' <=> signalCount < 0)
      BY <3>1 DEF Signalling
    <3> QED
      BY <1>0, <1>t, <2>1, <3>1, <3>2 DEF Signals
  <2>3. CASE Signal(p)
    <3>1. Signalling(p) /\ ~ Signalling(p)' /\ permits' = permits + 1
          /\ signalCount' = signalCount
      BY <1>t, <2>3 DEF Signal, PMove, Signalling
    <3>2. permits = 0 /\ \A q \in Producers \ {p} : ~ Signalling(q)
      BY <1>0, <1>t, <3>1 DEF Signals
    <3> QED
      BY <1>0, <1>t, <2>1, <3>1, <3>2 DEF Signals
  <2>4. ASSUME ~ CountMessage(p), ~ Signal(p) PROVE Signals'
    <3>1. signalCount' = signalCount /\ permits' = permits
      BY <1>0, <1>1, <2>4, ProducerFrame
    <3>2. ~ Signalling(p) /\ ~ Signalling(p)'
      <4> USE <1>t DEF PMove, Signalling
      <4>1. CASE Push(p, "Push") \/ CheckSpace(p) \/ Sleep(p) \/ WakeUnnotified(p)
        BY <4>1 DEF Push, CheckSpace, Sleep, WakeUnnotified
      <4>2. CASE Woken(p) \/ WriteToNull(p) \/ WriteSlot(p) \/ Commit(p)
        BY <4>2 DEF Woken, WriteToNull, WriteSlot, Commit, CommitWhen
      <4> QED
        BY <1>1, <2>4, <4>1, <4>2 DEF ProducerMove
    <3>3. \A q \in Producers : (Signalling(q)' <=> Signalling(q))
      BY <2>1, <3>2
    <3> QED
      BY <1>0, <2>1, <3>1, <3>3 DEF Signals
  <2> QED
    BY <2>2, <2>3, <2>4
<1>2. ASSUME NEW c \in Consumers, ReaderMove(c) PROVE Signals'
  <2>1. /\ \A q \in Producers : (Signalling(q)' <=> Signalling(q))
        /\ \A d \in Consumers \ {c} : (Waiting(d)' <=> Waiting(d))
    BY <1>0, <1>2, ReaderFrame, ReaderKeepsProducers DEF Waiting
  <2>2. CASE TakeCount(c)
    <3>1. cpc[c] = "take" /\ permits' = permits /\ signalCount' = signalCount - avail[c]
      BY <2>2 DEF TakeCount, TakeFromCount
    <3>2. /\ signalCount >= 0 /\ permits = 0
          /\ \A p \in Producers : ~ Signalling(p)
          /\ \A d \in Consumers : ~ Waiting(d)
      BY <1>0, <3>1, CountNotNegative DEF Busy, Waiting
    <3>3. Asks(cop[c], avail[c], signalCount)
      BY <1>0, <3>1 DEF GrantsOf
    <3>4. cop[c] \in {"Pop", "Claim", "Wait", "PopWait"}
      BY <1>0, <1>t, <3>1 DEF NothingTimed, UntimedUse, PopOps, RawOps, TimedOps
    <3>5. CASE MustWait(c)
      <4>1. signalCount = 0 /\ avail[c] = 1
        BY <1>t, <3>2, <3>3, <3>4, <3>5 DEF MustWait, Asks
      <4>2. Waiting(c)'
        BY <1>t, <2>2, <3>5 DEF TakeCount, TakeFromCount, CMove, Waiting
      <4> QED
        BY <2>1, <3>1, <3>2, <4>1, <4>2 DEF Signals
    <3>6. CASE ~ MustWait(c)
      <4>1. signalCount' \in Int /\ signalCount' >= 0 /\ signalCount' >= -1
        BY <1>t, <3>1, <3>3, <3>4, <3>6 DEF MustWait, Asks
      <4>2. ~ Waiting(c)'
        BY <1>t, <2>2, <3>6 DEF TakeCount, TakeFromCount, CMove, Waiting
      <4>3. \A d \in Consumers : ~ Waiting(d)'
        BY <2>1, <3>2, <4>2
      <4>4. permits' = 0 /\ \A p \in Producers : ~ Signalling(p)'
        BY <2>1, <3>1, <3>2
      <4> QED
        BY ONLY <4>1, <4>3, <4>4, SMTT(20) DEF Signals
    <3> QED
      BY <3>5, <3>6
  <2>3. CASE AcquireSignal(c)
    <3>1. /\ cpc[c] = "wait" /\ cpc'[c] = "view" /\ signalCount' = signalCount
          /\ permits > 0 /\ permits' = permits - 1
      BY <1>0, <1>t, <2>3 DEF AcquireSignal, UsePermit, NothingTimed, CMove
    <3>2. /\ signalCount >= 0 /\ permits = 1 /\ \A p \in Producers : ~ Signalling(p)
      BY <1>0, <1>t, <3>1 DEF Signals
    <3>3. \A d \in Consumers \ {c} : ~ Waiting(d)
      BY <1>0, <3>1, Alone DEF Busy
    <3>4. ~ Waiting(c)'
      BY <3>1 DEF Waiting
    <3>5. permits' = 0 /\ signalCount' >= 0
      BY <3>1, <3>2
    <3>6. /\ \A d \in Consumers : ~ Waiting(d)'
          /\ \A q \in Producers : ~ Signalling(q)'
      BY <2>1, <3>2, <3>3, <3>4
    <3> QED
      BY <1>t, <3>1, <3>5, <3>6 DEF Signals
  <2>4. ASSUME ~ TakeCount(c), ~ AcquireSignal(c) PROVE Signals'
    <3>1. signalCount' = signalCount /\ permits' = permits
      BY <1>0, <1>2, <2>4, ReaderEffects
    <3>2. ~ Waiting(c) /\ ~ Waiting(c)'
      <4> USE <1>0, <1>t DEF CMove, Waiting
      <4>1. CASE \E op \in ConsumerOps : Call(c, op)
        BY <4>1 DEF Call
      <4>2. CASE Lock(c)
        BY <4>2 DEF Lock, NothingTimed
      <4>3. CASE LoadCount(c)
        BY <4>3 DEF LoadCount, Return, NothingTimed
      <4>4. CASE ViewMessage(c) \/ ReleaseMessage(c) \/ ResetSlot(c)
        BY <4>4 DEF ViewMessage, ReleaseMessage, ResetSlot, ResetTo
      <4>5. CASE AdvanceClaim(c) \/ ReleaseMessages(c)
        BY <4>5 DEF AdvanceClaim, ReleaseMessages
      <4>6. CASE NotifyAll(c)
        BY <4>6 DEF NotifyAll, Return
      <4> QED
        BY <1>2, <2>4, <4>1, <4>2, <4>3, <4>4, <4>5, <4>6 DEF ReaderMove
    <3>3. \A d \in Consumers : (Waiting(d)' <=> Waiting(d))
      BY <2>1, <3>2
    <3> QED
      BY <1>0, <2>1, <3>1, <3>3 DEF Signals
  <2> QED
    BY <2>2, <2>3, <2>4
<1> QED
  BY <1>1, <1>2

LEMMA DeliveriesStep ==
    ASSUME UntimedUse, IInv,
           \/ \E p \in Producers : ProducerMove(p)
           \/ \E c \in Consumers : ReaderMove(c)
    PROVE  Deliveries'
<1>0. /\ TypeOK /\ NothingTimed /\ OneReader /\ Deliveries /\ Slots
      /\ Grants /\ CountIsExact /\ Signals
      /\ \A c \in Consumers : GrantsOf(c)
  BY GrantsIsGrantsOf DEF IInv
<1>t. /\ claimSeq \in Nat /\ commitSeq \in Nat /\ delivered \in Seq(Nat)
      /\ left \in [Consumers -> Int] /\ viewed \in [Consumers -> Int]
      /\ cpc \in [Consumers -> ConsumerPlaces] /\ queue \in [0 .. QueueSize - 1 -> Nat]
      /\ 1 <= claimSeq
  BY DEF IInv, TypeOK, Tickets
<1>1. ASSUME NEW p \in Producers, ProducerMove(p) PROVE Deliveries'
  <2>1. cpc' = cpc /\ viewed' = viewed /\ claimSeq' = claimSeq /\ delivered' = delivered
    BY <1>0, <1>1, ProducerFrame DEF readerVars, callVars
  <2> QED
    BY <1>0, <2>1 DEF Deliveries, DeliveredInOrder, Granted
<1>2. ASSUME NEW c \in Consumers, ReaderMove(c) PROVE Deliveries'
  <2>1. \A d \in Consumers \ {c} : (Granted(d)' <=> Granted(d)) /\ viewed'[d] = viewed[d]
    BY <1>0, <1>2, ReaderFrame DEF Granted
  <2>2. CASE ViewMessage(c)
    <3>1. /\ cpc[c] = "view" /\ cpc' = cpc /\ claimSeq' = claimSeq
          /\ viewed[c] < left[c] /\ viewed'[c] = viewed[c] + 1
          /\ delivered' = Append(delivered, queue[Slot(claimSeq + viewed[c])])
      BY <1>t, <2>2 DEF ViewMessage
    <3>2. Granted(c) /\ Busy(c)
      BY <3>1 DEF Granted, Busy
    <3>3. \A d \in Consumers \ {c} : ~ Granted(d)
      BY <1>0, <3>2, Alone
    <3> DEFINE seq == claimSeq + viewed[c]
    <3>4. seq \in claimSeq .. commitSeq - 1 /\ viewed[c] \in Nat
      <4>1. claimSeq + left[c] <= commitSeq
        BY <1>0, <3>2, GrantCommitted
      <4>2. viewed[c] \in 0 .. left[c]
        BY <1>0 DEF GrantsOf
      <4> QED
        BY <1>t, <3>1, <4>1, <4>2
    <3>5. queue[Slot(seq)] = seq
      <4>1. \A d \in Consumers : cpc[d] # "advance"
        BY <1>0, <3>1, <3>2, Alone
      <4> HIDE DEF seq
      <4> QED
        BY <1>0, <3>4, <4>1 DEF Slots
    <3>6. Len(delivered) = seq - 1 /\ seq \in Nat
      BY <1>0, <1>t, <3>2, <3>4 DEF Deliveries
    <3>7. delivered' = Append(delivered, seq)
      BY <3>1, <3>5
    <3>8. DeliveredInOrder'
      <4> HIDE DEF seq
      <4>1. delivered' \in Seq(Nat) /\ Len(delivered') = Len(delivered) + 1
        BY <1>t, <3>6, <3>7
      <4>2. ASSUME NEW i \in 1 .. Len(delivered) + 1
            PROVE  Append(delivered, seq)[i] = i
        BY <1>0, <1>t, <3>6 DEF Deliveries, DeliveredInOrder
      <4> QED
        BY <1>t, <3>6, <3>7, <4>1, <4>2 DEF DeliveredInOrder
    <3>9. Len(delivered') = claimSeq' - 1 + viewed'[c]
      <4>1. Len(delivered') = Len(delivered) + 1
        BY <1>t, <3>6, <3>7
      <4> QED
        BY <1>t, <3>1, <3>4, <3>6, <4>1
    <3>10. Granted(c)' /\ \A d \in Consumers \ {c} : ~ Granted(d)'
      BY <2>1, <3>1, <3>3 DEF Granted
    <3> QED
      BY <3>8, <3>9, <3>10 DEF Deliveries
  <2>3. ASSUME delivered' = delivered, Busy(c),
               Granted(c) => /\ Granted(c)' => claimSeq' + viewed'[c] = claimSeq + viewed[c]
                             /\ ~ Granted(c)' => claimSeq' = claimSeq + viewed[c],
               ~ Granted(c) => /\ claimSeq' = claimSeq
                               /\ Granted(c)' => viewed'[c] = 0,
               viewed'[c] \in Int, claimSeq' \in Nat
        PROVE  Deliveries'
    <3>1. \A d \in Consumers \ {c} : ~ Granted(d)
      BY <1>0, <2>3, Alone
    <3>2. \A d \in Consumers \ {c} : ~ Granted(d)'
      BY <2>1, <3>1
    <3>3. DeliveredInOrder'
      BY <1>0, <2>3 DEF Deliveries, DeliveredInOrder
    <3>4. Len(delivered) = claimSeq - 1 + IF Granted(c) THEN viewed[c] ELSE 0
      BY <1>0, <1>t, <3>1 DEF Deliveries
    <3>5. Granted(c)' => Len(delivered') = claimSeq' - 1 + viewed'[c]
      BY <1>t, <2>3, <3>4
    <3>6. ~ Granted(c)' => Len(delivered') = claimSeq' - 1
      BY <1>t, <2>3, <3>4
    <3> QED
      BY <3>2, <3>3, <3>5, <3>6 DEF Deliveries
  <2>4. CASE AdvanceClaim(c)
    <3>1. /\ cpc[c] = "advance" /\ cpc'[c] = "notify" /\ claimSeq' = claimSeq + 1
          /\ viewed'[c] = viewed[c] - 1 /\ delivered' = delivered
      BY <1>0, <1>t, <2>4 DEF AdvanceClaim, Advance, CMove, NothingTimed
    <3>2. Granted(c) /\ Granted(c)' /\ Busy(c)
      BY <3>1 DEF Granted, Busy
    <3>3. /\ claimSeq' + viewed'[c] = claimSeq + viewed[c]
          /\ viewed'[c] \in Int /\ claimSeq' \in Nat
      BY <1>t, <3>1
    <3> QED
      BY <2>3, <3>1, <3>2, <3>3
  <2>5. CASE ReleaseMessages(c)
    <3>1. /\ cpc[c] = "view" /\ cpc'[c] = "notify" /\ claimSeq' = claimSeq + left[c]
          /\ viewed'[c] = viewed[c] - left[c] /\ delivered' = delivered /\ left[c] > 0
      BY <1>0, <1>t, <2>5 DEF ReleaseMessages, Advance, CMove, NothingTimed, GrantsOf
    <3>2. Granted(c) /\ Granted(c)' /\ Busy(c)
      BY <3>1 DEF Granted, Busy
    <3>3. /\ claimSeq' + viewed'[c] = claimSeq + viewed[c]
          /\ viewed'[c] \in Int /\ claimSeq' \in Nat
      BY <1>t, <3>1
    <3> QED
      BY <2>3, <3>1, <3>2, <3>3
  <2>6. CASE NotifyAll(c)
    <3>1. /\ cpc[c] = "notify" /\ claimSeq' = claimSeq
          /\ viewed' = viewed /\ delivered' = delivered
          /\ cpc'[c] = IF left[c] > 0 THEN "view" ELSE "idle"
      BY <1>0, <1>t, <2>6 DEF NotifyAll, CMove, NothingTimed, Return
    <3>2. Granted(c) /\ Busy(c) /\ (Granted(c)' \/ left[c] <= 0)
      BY <1>t, <3>1 DEF Granted, Busy
    <3>3. viewed[c] \in 0 .. left[c]
      BY <1>0 DEF GrantsOf
    <3> QED
      BY <1>t, <2>3, <3>1, <3>2, <3>3
  <2>7. CASE TakeCount(c) \/ AcquireSignal(c)
    <3>1. /\ cpc[c] \in {"take", "wait"} /\ claimSeq' = claimSeq
          /\ viewed' = viewed /\ delivered' = delivered
      BY <1>0, <2>7 DEF TakeCount, TakeFromCount, AcquireSignal, UsePermit, CMove, NothingTimed
    <3>2. ~ Granted(c) /\ Busy(c)
      BY <3>1 DEF Granted, Busy
    <3>3. viewed[c] = 0
      BY <1>0, <1>t, <3>2 DEF GrantsOf
    <3> QED
      BY <1>t, <2>3, <3>1, <3>2, <3>3
  <2>8. ASSUME ~ ViewMessage(c), ~ AdvanceClaim(c), ~ ReleaseMessages(c), ~ NotifyAll(c),
               ~ TakeCount(c), ~ AcquireSignal(c)
        PROVE  Deliveries'
    <3>1. claimSeq' = claimSeq /\ viewed' = viewed /\ delivered' = delivered
      BY <1>0, <1>2, <2>8, ReaderEffects
    <3>2. (Granted(c)' <=> Granted(c))
      <4> USE <1>0, <1>t DEF CMove, Granted
      <4>1. CASE \E op \in ConsumerOps : Call(c, op)
        BY <4>1 DEF Call
      <4>2. CASE Lock(c)
        BY <4>2 DEF Lock, NothingTimed
      <4>3. CASE LoadCount(c)
        BY <4>3 DEF LoadCount, Return, NothingTimed
      <4>4. CASE ReleaseMessage(c) \/ ResetSlot(c)
        BY <4>4 DEF ReleaseMessage, ResetSlot, ResetTo
      <4> QED
        BY <1>2, <2>8, <4>1, <4>2, <4>3, <4>4 DEF ReaderMove
    <3>3. \A d \in Consumers : (Granted(d)' <=> Granted(d))
      BY <2>1, <3>2
    <3> QED
      BY <1>0, <3>1, <3>3 DEF Deliveries, DeliveredInOrder
  <2> QED
    BY <2>2, <2>4, <2>5, <2>6, <2>7, <2>8
<1> QED
  BY <1>1, <1>2

LEMMA InitIInv == Init => IInv
<1> SUFFICES ASSUME Init PROVE IInv
  OBVIOUS
<1> USE DEF Init
<1>1. TypeOK
  BY InitTypes
<1>2. NothingTimed /\ OneReader
  BY DEF NothingTimed, OneReader, Busy
<1>3. Tickets /\ Slots /\ Grants
  BY QueueSizeAssumption, MaxTicketAssumption
     DEF Tickets, Slots, Grants, HoldsTicket, Writing, Granted, PopOps
<1>4. CountIsExact
  <2>1. {p \in Producers : ppc[p] = "count"} = {}
    OBVIOUS
  <2>2. Uncounted = 0
    BY <2>1, FS_EmptySet DEF Uncounted
  <2>3. \A c \in Consumers : ~ InUse(c)
    BY DEF InUse, Waiting, Granted
  <2> QED
    BY <2>2, <2>3 DEF CountIsExact
<1>5. Signals /\ Deliveries
  BY DEF Signals, Deliveries, DeliveredInOrder, Signalling, Waiting, Granted
<1> QED
  BY <1>1, <1>2, <1>3, <1>4, <1>5 DEF IInv

LEMMA IInvStep ==
    ASSUME UntimedUse, IInv, [Next]_vars
    PROVE  IInv'
<1>1. CASE UNCHANGED vars
  <2> USE <1>1 DEF IInv, vars, sharedVars, writerVars, readerVars, callVars
  <2>1. TypeOK' /\ NothingTimed' /\ OneReader'
    BY DEF TypeOK, NothingTimed, OneReader, Busy
  <2>2. Tickets' /\ Slots'
    BY DEF Tickets, Slots, HoldsTicket, Writing
  <2>3. Grants'
    BY DEF Grants, Granted
  <2>4. CountIsExact'
    BY DEF CountIsExact, InUse, Owed, Uncounted, Waiting, Granted
  <2>5. Signals'
    BY DEF Signals, Signalling, Waiting
  <2>6. Deliveries'
    BY DEF Deliveries, DeliveredInOrder, Granted
  <2> QED
    BY <2>1, <2>2, <2>3, <2>4, <2>5, <2>6
<1>2. CASE Next
  <2>1. \/ \E p \in Producers : ProducerMove(p)
        \/ \E c \in Consumers : ReaderMove(c)
    BY <1>2, UntimedSteps DEF IInv
  <2>2. TypeOK'
    BY <1>2, TypeStep DEF IInv
  <2>3. NothingTimed'
    BY <2>1, NothingTimedStep DEF IInv
  <2>4. OneReader'
    BY <2>1, OneReaderStep
  <2>5. Tickets' /\ Slots' /\ Grants'
    BY <2>1, TicketsStep, SlotsStep, GrantsStep
  <2>6. CountIsExact' /\ Signals' /\ Deliveries'
    BY <2>1, <2>2, <2>3, <2>4, CountStep, SignalsStep, DeliveriesStep
  <2> QED
    BY <2>2, <2>3, <2>4, <2>5, <2>6 DEF IInv
<1> QED
  BY <1>1, <1>2

\* The inductive invariant of the queue in untimed use.
THEOREM Invariance ==
    ASSUME UntimedUse
    PROVE  Spec => []IInv
<1>1. IInv /\ [Next]_vars => IInv'
  BY IInvStep
<1> QED
  BY <1>1, InitIInv, PTL DEF Spec

-----------------------------------------------------------------------------
(* What follows for the users of the queue.                                 *)

\* DeliveredInOrder, untimed: the i-th message any reader is handed is the i-th
\* that was sent, with none lost, doubled or made up.
THEOREM InOrder ==
    ASSUME UntimedUse
    PROVE  Spec => []DeliveredInOrder
<1>1. IInv => DeliveredInOrder
  BY DEF IInv, Deliveries
<1> QED
  BY <1>1, Invariance, PTL

\* CountIsExact, untimed: m_signalCount, with what readers have reserved and what
\* producers have committed and not counted, is the number of messages in the ring.
THEOREM ExactCount ==
    ASSUME UntimedUse
    PROVE  Spec => []CountIsExact
<1>1. IInv => CountIsExact
  BY DEF IInv
<1> QED
  BY <1>1, Invariance, PTL

\* WriterOwnsSlot, untimed: the slot a producer writes is within the ring, not one
\* of a message still to be read, and no other producer's.
THEOREM OwnSlot ==
    ASSUME UntimedUse
    PROVE  Spec => []WriterOwnsSlot
<1>1. ASSUME IInv PROVE WriterOwnsSlot
  <2> SUFFICES ASSUME NEW p \in Producers, Writing(p)
               PROVE  /\ ticket[p] >= commitSeq
                      /\ ticket[p] - claimSeq \in 0 .. QueueSize - 1
                      /\ \A q \in Producers \ {p} :
                           Writing(q) => Slot(ticket[q]) # Slot(ticket[p])
    BY DEF WriterOwnsSlot
  <2>t. /\ claimSeq \in Nat /\ commitSeq \in Nat /\ ticket \in [Producers -> Nat]
        /\ QueueSize \in Nat /\ claimSeq <= commitSeq
    BY <1>1, QueueSizeAssumption DEF IInv, TypeOK, Tickets
  <2>1. ASSUME NEW q \in Producers, Writing(q)
        PROVE  /\ HoldsTicket(q)
               /\ commitSeq <= ticket[q] /\ ticket[q] < claimSeq + QueueSize
    BY <1>1, <2>1 DEF IInv, Tickets, Writing, HoldsTicket
  <2>2. ASSUME NEW q \in Producers \ {p}, Writing(q)
        PROVE  Slot(ticket[q]) # Slot(ticket[p])
    <3>1. ticket[q] # ticket[p]
      BY <1>1, <2>1, <2>2 DEF IInv, Tickets
    <3>2. CASE ticket[q] < ticket[p]
      BY <2>t, <2>1, <2>2, <3>2, DifferentSlots
    <3>3. CASE ticket[p] < ticket[q]
      BY <2>t, <2>1, <2>2, <3>3, DifferentSlots
    <3> QED
      BY <2>t, <3>1, <3>2, <3>3
  <2>3. ticket[p] >= commitSeq /\ ticket[p] - claimSeq \in 0 .. QueueSize - 1
    BY <2>t, <2>1
  <2> QED
    BY <2>2, <2>3
<1>2. IInv => WriterOwnsSlot
  BY <1>1
<1> QED
  BY <1>2, Invariance, PTL

\* WaiterIsSignalled, untimed: while the message a reader sleeps for is counted,
\* exactly one permit is in the semaphore or about to be.
THEOREM NoLostWakeup ==
    ASSUME UntimedUse
    PROVE  Spec => []WaiterIsSignalled
<1>1. ASSUME IInv PROVE WaiterIsSignalled
  <2> DEFINE signalling == {p \in Producers : ppc[p] = "signal"}
  <2>1. Signals /\ permits \in Nat
    BY <1>1 DEF IInv, TypeOK
  <2>2. ASSUME \A p \in Producers : ~ Signalling(p) PROVE Cardinality(signalling) = 0
    <3>1. signalling = {}
      BY <2>2 DEF Signalling
    <3> QED
      BY <3>1, FS_EmptySet
  <2>3. ASSUME NEW p \in Producers, Signalling(p)
        PROVE  Cardinality(signalling) = 1 /\ permits = 0
    <3>1. signalling = {p}
      BY <2>1, <2>3 DEF Signals, Signalling
    <3>2. permits = 0
      BY <2>1, <2>3 DEF Signals
    <3> QED
      BY <3>1, <3>2, FS_Singleton
  <2>4. permits + Cardinality(signalling) <= 1
    <3>1. CASE \E p \in Producers : Signalling(p)
      BY <2>3, <3>1
    <3>2. CASE \A p \in Producers : ~ Signalling(p)
      <4>1. permits <= 1
        BY <2>1 DEF Signals
      <4> QED
        BY <2>1, <2>2, <3>2, <4>1
    <3> QED
      BY <3>1, <3>2
  <2>5. ASSUME NEW c \in Consumers, Waiting(c), signalCount >= 0
        PROVE  permits + Cardinality(signalling) = 1
    <3>1. permits = 1 \/ \E p \in Producers : Signalling(p)
      BY <2>1, <2>5 DEF Signals
    <3>2. CASE \E p \in Producers : Signalling(p)
      BY <2>3, <3>2
    <3>3. CASE \A p \in Producers : ~ Signalling(p)
      BY <2>2, <3>1, <3>3
    <3> QED
      BY <3>2, <3>3
  <2> QED
    BY <2>4, <2>5 DEF WaiterIsSignalled
<1>2. IInv => WaiterIsSignalled
  BY <1>1
<1> QED
  BY <1>2, Invariance, PTL

-----------------------------------------------------------------------------
(* The ring implements the bounded FIFO queue.                              *)

\* The k numbers after n, in order.
Run(n, k) == [i \in 1 .. k |-> n + i]

LEMMA RunGrows ==
    ASSUME NEW n \in Nat, NEW k \in Nat, NEW x, x = n + k + 1
    PROVE  /\ Len(Run(n, k)) = k
           /\ Append(Run(n, k), x) = Run(n, k + 1)
<1>1. Run(n, k) \in Seq(Nat) /\ Len(Run(n, k)) = k
  BY DEF Run
<1>2. Append(Run(n, k), x) \in Seq(Nat)
      /\ Len(Append(Run(n, k), x)) = k + 1
  BY <1>1
<1>3. Run(n, k + 1) \in Seq(Nat) /\ Len(Run(n, k + 1)) = k + 1
  BY DEF Run
<1>4. ASSUME NEW i \in 1 .. k + 1
      PROVE  Append(Run(n, k), x)[i] = Run(n, k + 1)[i]
  <2>1. CASE i \in 1 .. k
    BY <1>1, <2>1 DEF Run
  <2>2. CASE i = k + 1
    <3>1. Append(Run(n, k), x)[i] = x
      BY <1>1, <2>2
    <3>2. Run(n, k + 1)[i] = x
      BY <2>2 DEF Run
    <3> QED
      BY <3>1, <3>2
  <2>3. i \in 1 .. k \/ i = k + 1
    OBVIOUS
  <2> QED
    BY ONLY <2>1, <2>2, <2>3
<1> QED
  BY <1>1, <1>2, <1>3, <1>4, SeqEqual

LEMMA RunShrinks ==
    ASSUME NEW n \in Nat, NEW k \in Nat \ {0}
    PROVE  /\ Run(n, k) # <<>>
           /\ Head(Run(n, k)) = n + 1
           /\ Tail(Run(n, k)) = Run(n + 1, k - 1)
<1>1. Run(n, k) \in Seq(Nat) /\ Len(Run(n, k)) = k
  BY DEF Run
<1>2. Run(n, k) # <<>> /\ Head(Run(n, k)) = n + 1
  BY <1>1 DEF Run
<1>3. Run(n + 1, k - 1) \in Seq(Nat) /\ Len(Run(n + 1, k - 1)) = k - 1
  BY DEF Run
<1>4. Tail(Run(n, k)) \in Seq(Nat) /\ Len(Tail(Run(n, k))) = k - 1
  BY <1>1, <1>2
<1>5. ASSUME NEW i \in 1 .. k - 1
      PROVE  Tail(Run(n, k))[i] = Run(n + 1, k - 1)[i]
  BY <1>1 DEF Run
<1> QED
  BY <1>2, <1>3, <1>4, <1>5, SeqEqual

\* What is in the ring for the specification of the queue.
InRing == [i \in 1 .. commitSeq - 1 - Len(delivered) |-> queue[Slot(Len(delivered) + i)]]

RingIsRun ==
    /\ Len(delivered) \in Nat
    /\ claimSeq - 1 <= Len(delivered) /\ Len(delivered) <= commitSeq - 1
    /\ InRing = Run(Len(delivered), commitSeq - 1 - Len(delivered))

LEMMA InRingIsRun == IInv => RingIsRun
<1> SUFFICES ASSUME IInv PROVE RingIsRun
  OBVIOUS
<1>0. /\ TypeOK /\ NothingTimed /\ OneReader /\ Deliveries /\ Slots /\ Tickets
      /\ Grants /\ CountIsExact /\ Signals
      /\ \A c \in Consumers : GrantsOf(c)
  BY GrantsIsGrantsOf DEF IInv
<1>t. /\ claimSeq \in Nat /\ commitSeq \in Nat /\ Len(delivered) \in Nat
      /\ left \in [Consumers -> Int] /\ viewed \in [Consumers -> Int]
      /\ 1 <= claimSeq /\ claimSeq <= commitSeq
  BY <1>0 DEF TypeOK, Tickets
<1>1. claimSeq - 1 <= Len(delivered) /\ Len(delivered) <= commitSeq - 1
  <2>1. ASSUME NEW c \in Consumers, Granted(c)
        PROVE  claimSeq - 1 <= Len(delivered) /\ Len(delivered) <= commitSeq - 1
    <3>1. Len(delivered) = claimSeq - 1 + viewed[c] /\ viewed[c] \in 0 .. left[c]
      BY <1>0, <2>1 DEF Deliveries, GrantsOf
    <3>2. claimSeq + left[c] <= commitSeq
      BY <1>0, <2>1, GrantCommitted
    <3> QED
      BY <1>t, <3>1, <3>2
  <2>2. CASE \A c \in Consumers : ~ Granted(c)
    BY <1>0, <1>t, <2>2 DEF Deliveries
  <2> QED
    BY <2>1, <2>2
<1>2. ASSUME NEW s \in Len(delivered) + 1 .. commitSeq - 1 PROVE queue[Slot(s)] = s
  <2>1. s \in claimSeq .. commitSeq - 1
    BY <1>t, <1>1
  <2>2. ASSUME NEW c \in Consumers, cpc[c] = "advance" PROVE s # claimSeq
    <3>1. Len(delivered) = claimSeq - 1 + viewed[c] /\ viewed[c] > 0
      BY <1>0, <2>2 DEF Deliveries, GrantsOf, Granted
    <3> QED
      BY <1>t, <3>1
  <2> QED
    BY <1>0, <2>1, <2>2 DEF Slots
<1>3. ASSUME NEW i \in 1 .. commitSeq - 1 - Len(delivered)
      PROVE  queue[Slot(Len(delivered) + i)] = Len(delivered) + i
  <2>1. Len(delivered) + i \in Len(delivered) + 1 .. commitSeq - 1
    BY <1>t
  <2> QED
    BY <1>2, <2>1
<1> QED
  BY <1>t, <1>1, <1>3 DEF RingIsRun, InRing, Run

LEMMA InRingIsRunNext == IInv' => RingIsRun'
  BY InRingIsRun, PTL

\* Which steps send and which receive.
LEMMA OthersKeep ==
    ASSUME TypeOK, NothingTimed,
           \/ \E p \in Producers : ProducerMove(p) /\ ~ Commit(p)
           \/ \E c \in Consumers : ReaderMove(c) /\ ~ ViewMessage(c)
    PROVE  commitSeq' = commitSeq /\ delivered' = delivered
<1>1. ASSUME NEW p \in Producers, ProducerMove(p), ~ Commit(p)
      PROVE  commitSeq' = commitSeq /\ delivered' = delivered
  BY <1>1, ProducerFrame DEF readerVars
<1>2. ASSUME NEW c \in Consumers, ReaderMove(c), ~ ViewMessage(c)
      PROVE  commitSeq' = commitSeq /\ delivered' = delivered
  BY <1>2, ReaderFrame, ReaderEffects
<1> QED
  BY <1>1, <1>2

LEMMA FifoStep ==
    ASSUME UntimedUse, IInv, IInv', [Next]_vars
    PROVE  [Fifo!FifoNext]_Fifo!fifoVars
<1> DEFINE n == Len(delivered)
           k == commitSeq - 1 - Len(delivered)
<1>1. /\ n \in Nat /\ k \in Nat /\ claimSeq - 1 <= n /\ InRing = Run(n, k)
      /\ commitSeq \in Nat /\ claimSeq \in Nat /\ delivered \in Seq(Nat)
  <2>1. commitSeq \in Nat /\ claimSeq \in Nat /\ delivered \in Seq(Nat)
    BY DEF IInv, TypeOK
  <2> QED
    BY <2>1, InRingIsRun DEF RingIsRun
<1>2. InRing' = Run(Len(delivered'), commitSeq' - 1 - Len(delivered'))
  BY InRingIsRunNext DEF RingIsRun
<1>3. ASSUME commitSeq' = commitSeq, delivered' = delivered
      PROVE  UNCHANGED Fifo!fifoVars
  BY <1>1, <1>2, <1>3 DEF Fifo!fifoVars, InRing
<1>4. ASSUME NEW p \in Producers, Commit(p) PROVE Fifo!FifoNext
  <2>1. /\ ppc[p] = "commit" /\ ticket[p] = commitSeq /\ commitSeq' = commitSeq + 1
        /\ delivered' = delivered
    BY <1>4 DEF Commit, CommitWhen, PMove, readerVars
  <2>2. commitSeq < claimSeq + QueueSize /\ commitSeq \in 1 .. MaxTicket
    BY <1>1, <2>1, MaxTicketAssumption DEF IInv, Tickets, TypeOK, Writing, HoldsTicket
  <2>3. k < QueueSize
    BY <1>1, <2>2, QueueSizeAssumption
  <2>4. InRing' = Run(n, k + 1)
    BY <1>1, <1>2, <2>1
  <2>5. commitSeq = n + k + 1
    BY <1>1
  <2> HIDE DEF n, k
  <2>6. Len(InRing) < QueueSize /\ InRing' = Append(InRing, commitSeq)
    BY <1>1, <2>3, <2>4, <2>5, RunGrows
  <2> QED
    BY <2>1, <2>2, <2>6 DEF Fifo!FifoNext, Fifo!Send, InRing
<1>5. ASSUME NEW c \in Consumers, ViewMessage(c), IInv PROVE Fifo!FifoNext
  <2>1. /\ commitSeq' = commitSeq
        /\ delivered' = Append(delivered, queue[Slot(claimSeq + viewed[c])])
        /\ cpc[c] = "view" /\ viewed[c] < left[c]
    BY <1>5 DEF ViewMessage, sharedVars
  <2>2. Granted(c)
    BY <2>1 DEF Granted
  <2>3. n = claimSeq - 1 + viewed[c] /\ claimSeq + left[c] <= commitSeq
        /\ viewed[c] \in Int /\ left[c] \in Int
    BY <2>2, GrantCommitted DEF IInv, Deliveries, TypeOK
  <2>4. k \in Nat \ {0} /\ claimSeq + viewed[c] = n + 1
    <3>1. claimSeq + viewed[c] = n + 1
      BY ONLY <1>1, <2>3
    <3>2. n = claimSeq - 1 + viewed[c] /\ k = commitSeq - 1 - n
      BY ONLY <2>3
    <3> HIDE DEF n, k
    <3>3. k > 0
      BY ONLY <1>1, <2>1, <2>3, <3>2
    <3> QED
      BY ONLY <1>1, <3>1, <3>3
  <2>5. InRing # <<>> /\ Head(InRing) = n + 1 /\ Tail(InRing) = Run(n + 1, k - 1)
    <3> HIDE DEF n, k
    <3> QED
      BY <1>1, <2>4, RunShrinks
  <2>6. queue[Slot(n + 1)] = n + 1
    <3>1. InRing[1] = Run(n, k)[1]
      BY <1>1
    <3>2. Run(n, k)[1] = n + 1 /\ InRing[1] = queue[Slot(n + 1)]
      BY <1>1, <2>4 DEF Run, InRing
    <3> QED
      BY <3>1, <3>2
  <2>7. delivered' = Append(delivered, n + 1) /\ Len(delivered') = n + 1
    BY <1>1, <2>1, <2>4, <2>6
  <2>8. InRing' = Run(n + 1, k - 1)
    BY <1>1, <1>2, <2>1, <2>7
  <2>9. /\ InRing # <<>> /\ delivered' = Append(delivered, Head(InRing))
        /\ InRing' = Tail(InRing)
    BY <2>5, <2>7, <2>8
  <2> QED
    BY <2>9 DEF Fifo!FifoNext, Fifo!Receive, InRing
<1>6. CASE UNCHANGED vars
  BY <1>3, <1>6 DEF vars, sharedVars, readerVars
<1>7. CASE Next
  <2>1. \/ \E p \in Producers : ProducerMove(p)
        \/ \E c \in Consumers : ReaderMove(c)
    BY <1>7, UntimedSteps DEF IInv
  <2>2. CASE (\E p \in Producers : Commit(p)) \/ (\E c \in Consumers : ViewMessage(c))
    BY <1>4, <1>5, <2>2
  <2>3. CASE ~ ((\E p \in Producers : Commit(p)) \/ (\E c \in Consumers : ViewMessage(c)))
    <3>1. commitSeq' = commitSeq /\ delivered' = delivered
      BY <2>1, <2>3, OthersKeep DEF IInv
    <3> QED
      BY <1>3, <3>1
  <2> QED
    BY <2>2, <2>3
<1> QED
  BY <1>6, <1>7

\* ImplementsBoundedFifo, untimed: committing a message sends it, viewing it
\* receives it, and every other step of producers and readers is invisible.
THEOREM Refinement ==
    ASSUME UntimedUse
    PROVE  Spec => ImplementsBoundedFifo
<1>1. Init => Fifo!FifoInit
  <2> SUFFICES ASSUME Init PROVE Fifo!FifoInit
    OBVIOUS
  <2>1. delivered = <<>> /\ commitSeq = 1
    BY DEF Init
  <2>2. InRing = <<>>
    BY <2>1 DEF InRing
  <2> QED
    BY <2>1, <2>2 DEF Fifo!FifoInit, InRing
<1>2. IInv /\ IInv' /\ [Next]_vars => [Fifo!FifoNext]_Fifo!fifoVars
  BY FifoStep
<1> QED
  BY <1>1, <1>2, Invariance, PTL DEF Spec, ImplementsBoundedFifo, Fifo!FifoSpec

-----------------------------------------------------------------------------
(* With time-outs, of Push and of the reading calls.                        *)

\* The flush of a Pop call that starts with failed tickets on record: the first of them is
\* claimSeq's when it is committed, and committed until it is dropped.
FlushOf(c) ==
    /\ cpc[c] \in {"lock", "flush", "flushCommit", "flushCount"} \/ flushing[c]
         => cop[c] \in PopOps
    /\ flushing[c] => cpc[c] \in {"reset", "advance", "notify"}
    /\ cpc[c] = "flushCommit" => failedSeqs # <<>> /\ Head(failedSeqs) = claimSeq
    /\ cpc[c] = "flushCount" \/ flushing[c] =>
         failedSeqs # <<>> /\ Head(failedSeqs) < commitSeq

Flushes == \A c \in Consumers : FlushOf(c)

Flushing(c) == cpc[c] \in {"flushCommit", "flushCount"} \/ flushing[c]

TimedInv ==
    /\ TypeOK /\ Called /\ OneReader /\ Flushes
    /\ claimSeq >= 1 /\ NoTicketLost

\* claimSeq only grows, whoever reads.
LEMMA ClaimGrows ==
    ASSUME TypeOK, NEW c \in Consumers, ConsumerStep(c)
    PROVE  claimSeq' \in Nat /\ claimSeq' >= claimSeq
<1> USE DEF TypeOK
<1>1. CASE ReleaseMessages(c) \/ AdvanceClaim(c)
  BY <1>1 DEF ReleaseMessages, AdvanceClaim, Advance
<1>2. CASE ~ (ReleaseMessages(c) \/ AdvanceClaim(c))
  BY <1>2 DEF ConsumerStep, Call, Lock, FlushTest, FlushCommit, FlushCount, LoadCount,
     TakeCount, TakeFromCount, AcquireSignal, UsePermit, SleepTimed, TimeOut, TimeOutKeeping,
     ViewMessage, ReleaseMessage, ResetSlot, ResetTo, NotifyAll
<1> QED
  BY <1>1, <1>2

\* What a reader does to the producers, and to the tickets on record.
LEMMA ReaderLeaves ==
    ASSUME TypeOK, NEW c \in Consumers, ConsumerStep(c)
    PROVE  /\ insertSeq' = insertSeq /\ ticket' = ticket
           /\ \A p \in Producers :
                ppc'[p] = ppc[p] \/ (ppc[p] = "asleep" /\ ppc'[p] = "woken")
           /\ failedSeqs' = failedSeqs \/ (NotifyAll(c) /\ flushing[c])
           /\ commitSeq' = commitSeq \/ FlushCommit(c)
<1> USE DEF TypeOK, sharedVars, writerVars, callVars
<1>1. CASE NotifyAll(c)
  BY <1>1 DEF NotifyAll
<1>2. CASE ~ NotifyAll(c)
  BY <1>2 DEF ConsumerStep, Call, Lock, FlushTest, FlushCommit, FlushCount, LoadCount,
     TakeCount, TakeFromCount, AcquireSignal, UsePermit, SleepTimed, TimeOut, TimeOutKeeping,
     ViewMessage, ReleaseMessage, ReleaseMessages, Advance, ResetSlot, ResetTo, AdvanceClaim
<1> QED
  BY <1>1, <1>2

\* What a reader does to the other readers.
LEMMA OthersInCall ==
    ASSUME TypeOK, NEW c \in Consumers, ConsumerStep(c), NEW d \in Consumers, d # c
    PROVE  cpc'[d] = cpc[d] /\ cop'[d] = cop[d] /\ flushing'[d] = flushing[d]
<1> USE DEF TypeOK, CMove, Return, sharedVars, writerVars, callVars
<1>1. CASE (\E op \in ConsumerOps : Call(c, op)) \/ Lock(c) \/ FlushTest(c) \/ FlushCommit(c)
           \/ FlushCount(c) \/ LoadCount(c)
  BY <1>1 DEF Call, Lock, FlushTest, FlushCommit, FlushCount, LoadCount
<1>2. CASE TakeCount(c) \/ AcquireSignal(c)
  BY <1>2 DEF TakeCount, TakeFromCount, AcquireSignal, UsePermit
<1>3. CASE SleepTimed(c) \/ TimeOut(c) \/ ViewMessage(c) \/ ReleaseMessage(c)
           \/ ReleaseMessages(c)
  BY <1>3 DEF SleepTimed, TimeOut, TimeOutKeeping, ViewMessage, ReleaseMessage,
     ReleaseMessages, Advance
<1>4. CASE ResetSlot(c) \/ AdvanceClaim(c) \/ NotifyAll(c)
  BY <1>4 DEF ResetSlot, ResetTo, AdvanceClaim, Advance, NotifyAll
<1> QED
  BY <1>1, <1>2, <1>3, <1>4 DEF ConsumerStep

\* Where a reader goes in its call: it is Busy but for its first two steps, and the call
\* is the same until it ends, with its lock.
LEMMA CallGoesOn ==
    ASSUME TypeOK, NEW c \in Consumers, ConsumerStep(c),
           ~ \E op \in ConsumerOps : Call(c, op)
    PROVE  /\ cop' = cop /\ cpc[c] # "idle" /\ cpc'[c] # "lock"
           /\ \/ Lock(c)
              \/ Busy(c) /\ consumerLock' = consumerLock
              \/ Busy(c) /\ cpc'[c] = "idle"
<1> USE DEF TypeOK, CMove, Return, Busy, callVars
<1>1. CASE Lock(c) \/ FlushTest(c) \/ FlushCommit(c)
           \/ FlushCount(c) \/ LoadCount(c)
  BY <1>1 DEF Lock, FlushTest, FlushCommit, FlushCount, LoadCount
<1>2. CASE TakeCount(c) \/ AcquireSignal(c)
  BY <1>2 DEF TakeCount, TakeFromCount, AcquireSignal, UsePermit
<1>3. CASE SleepTimed(c) \/ TimeOut(c) \/ ViewMessage(c) \/ ReleaseMessage(c)
           \/ ReleaseMessages(c)
  BY <1>3 DEF SleepTimed, TimeOut, TimeOutKeeping, ViewMessage, ReleaseMessage,
     ReleaseMessages, Advance
<1>4. CASE ResetSlot(c) \/ AdvanceClaim(c) \/ NotifyAll(c)
  BY <1>4 DEF ResetSlot, ResetTo, AdvanceClaim, Advance, NotifyAll
<1> QED
  BY <1>1, <1>2, <1>3, <1>4 DEF ConsumerStep

\* One reader at a time, with the lock if its call takes it.
LEMMA ReaderKeepsLock ==
    ASSUME TypeOK, Called, OneReader, NEW c \in Consumers, ConsumerStep(c)
    PROVE  Called' /\ OneReader'
<1>1. \A d \in Consumers \ {c} : cpc'[d] = cpc[d] /\ cop'[d] = cop[d]
  BY OthersInCall
<1>2. ASSUME NEW op \in ConsumerOps, Call(c, op) PROVE Called' /\ OneReader'
  <2>1. /\ cop'[c] = op /\ cpc'[c] = IF op \in PopOps THEN "lock" ELSE "load"
        /\ consumerLock' = consumerLock
    BY <1>2 DEF Call, CMove, TypeOK
  <2> QED
    BY <1>1, <2>1 DEF Called, OneReader, Busy
<1>3. CASE ~ \E op \in ConsumerOps : Call(c, op)
  <2>1. cop' = cop /\ cpc[c] # "idle" /\ cpc'[c] # "lock"
    BY <1>3, CallGoesOn
  <2>2. Called'
    BY <1>1, <2>1 DEF Called
  <2>3. CASE Lock(c)
    <3>1. consumerLock = NoThread /\ consumerLock' = c
      BY <2>3 DEF Lock
    <3>2. \A d \in Consumers : d # NoThread
      BY ThreadsAssumption
    <3> QED
      BY <1>1, <2>1, <2>2, <3>1, <3>2 DEF OneReader, Busy
  <2>4. CASE Busy(c) /\ (consumerLock' = consumerLock \/ cpc'[c] = "idle")
    <3>1. \A d \in Consumers \ {c} : ~ Busy(d)
      BY <2>4, OneCaller
    <3> QED
      BY <1>1, <2>1, <2>2, <2>4, <3>1 DEF OneReader, Busy
  <2> QED
    BY <1>3, <2>3, <2>4, CallGoesOn
<1> QED
  BY <1>2, <1>3

\* A reader in the flush is not disturbed by another one.
LEMMA FlushUndisturbed ==
    ASSUME TypeOK, Called, OneReader, Flushes, NEW c \in Consumers, ConsumerStep(c),
           NEW d \in Consumers, d # c, Flushing(d)
    PROVE  UNCHANGED <<failedSeqs, claimSeq, commitSeq>>
<1>1. Busy(d) /\ cop[d] \in PopOps
  BY DEF Flushes, FlushOf, Flushing, Busy
<1>2. consumerLock = d /\ d # NoThread
  BY <1>1, ThreadsAssumption DEF OneReader
<1>3. ~ Busy(c) /\ ~ Lock(c)
  BY <1>1, <1>2, OneCaller DEF Lock
<1>4. \E op \in ConsumerOps : Call(c, op)
  BY <1>3, CallGoesOn
<1> QED
  BY <1>4 DEF Call, sharedVars

\* StaleFront is what an empty deque's front reads: nothing that is a ticket.
NothingStale == \A seq \in StaleFront : seq = 0

LEMMA ReaderFlushes ==
    ASSUME NothingStale, TimedInv, NEW c \in Consumers, ConsumerStep(c)
    PROVE  Flushes'
<1> USE DEF TimedInv
<1>1. ASSUME NEW d \in Consumers, d # c PROVE FlushOf(d)'
  <2>1. cpc'[d] = cpc[d] /\ cop'[d] = cop[d] /\ flushing'[d] = flushing[d]
    BY <1>1, OthersInCall
  <2>2. Flushing(d) => UNCHANGED <<failedSeqs, claimSeq, commitSeq>>
    BY <1>1, FlushUndisturbed
  <2> QED
    BY <2>1, <2>2 DEF Flushes, FlushOf, Flushing
<1>2. FlushOf(c)'
  <2> USE DEF TypeOK, CMove, Return, sharedVars, callVars
  <2>1. ASSUME NEW op \in ConsumerOps, Call(c, op) PROVE FlushOf(c)'
    BY <2>1 DEF Call, Flushes, FlushOf
  <2>2. CASE Lock(c)
    BY <2>2 DEF Lock, Flushes, FlushOf
  <2>3. CASE FlushTest(c)
    <3>1. PICK front \in FlushFront :
            CMove(c, "flush", IF front = claimSeq THEN "flushCommit" ELSE "load")
      BY <2>3 DEF FlushTest
    <3>2. front = claimSeq => failedSeqs # <<>> /\ Head(failedSeqs) = claimSeq
      BY <3>1 DEF FlushFront, NothingStale
    <3> QED
      BY <2>3, <3>1, <3>2 DEF FlushTest, Flushes, FlushOf
  <2>4. CASE FlushCommit(c)
    BY <2>4 DEF FlushCommit, Flushes, FlushOf
  <2>5. CASE FlushCount(c)
    BY <2>5 DEF FlushCount, Flushes, FlushOf
  <2>6. CASE LoadCount(c)
    BY <2>6 DEF LoadCount, Flushes, FlushOf
  <2>7. CASE TakeCount(c)
    BY <2>7 DEF TakeCount, TakeFromCount, Flushes, FlushOf
  <2>8. CASE AcquireSignal(c) \/ SleepTimed(c) \/ TimeOut(c)
    BY <2>8 DEF AcquireSignal, UsePermit, SleepTimed, TimeOut, TimeOutKeeping, Flushes, FlushOf
  <2>9. CASE ViewMessage(c) \/ ReleaseMessage(c) \/ ReleaseMessages(c)
    BY <2>9 DEF ViewMessage, ReleaseMessage, ReleaseMessages, Advance, Flushes, FlushOf
  <2>10. CASE ResetSlot(c) \/ AdvanceClaim(c)
    BY <2>10 DEF ResetSlot, ResetTo, AdvanceClaim, Advance, Flushes, FlushOf
  <2>11. CASE NotifyAll(c)
    BY <2>11 DEF NotifyAll, Flushes, FlushOf
  <2> QED
    BY <2>1, <2>2, <2>3, <2>4, <2>5, <2>6, <2>7, <2>8, <2>9, <2>10, <2>11 DEF ConsumerStep
<1> QED
  BY <1>1, <1>2 DEF Flushes

\* A reader gives up no ticket but one that it has committed.
LEMMA ReaderKeepsTickets ==
    ASSUME TimedInv, NEW c \in Consumers, ConsumerStep(c)
    PROVE  NoTicketLost'
<1>t. /\ claimSeq \in Nat /\ commitSeq \in Nat /\ insertSeq \in Nat /\ failedSeqs \in Seq(Nat)
      /\ \A p \in Producers : ticket[p] \in Nat
  BY DEF TimedInv, TypeOK
<1>1. /\ insertSeq' = insertSeq /\ ticket' = ticket
      /\ \A p \in Producers : (HoldsTicket(p) => HoldsTicket(p)')
  BY ReaderLeaves DEF TimedInv, HoldsTicket
<1>3. commitSeq' \in Nat /\ commitSeq' >= commitSeq
  BY <1>t, ReaderLeaves DEF TimedInv, FlushCommit
<1>4. ASSUME NEW s \in commitSeq' .. insertSeq' - 1, NEW i \in DOMAIN failedSeqs, failedSeqs[i] = s
      PROVE  \E j \in DOMAIN failedSeqs' : failedSeqs'[j] = s
  <2>1. CASE failedSeqs' = failedSeqs
    BY <1>4, <2>1
  <2>2. CASE failedSeqs' # failedSeqs
    <3>1. NotifyAll(c) /\ flushing[c]
      BY <2>2, ReaderLeaves DEF TimedInv
    <3>2. failedSeqs # <<>> /\ Head(failedSeqs) < commitSeq
      BY <3>1 DEF TimedInv, Flushes, FlushOf
    <3>3. failedSeqs' = Tail(failedSeqs)
      BY <3>1, <3>2 DEF NotifyAll
    <3>4. i # 1
      BY <1>t, <1>3, <1>4, <3>2
    <3>5. i - 1 \in DOMAIN Tail(failedSeqs) /\ Tail(failedSeqs)[i - 1] = failedSeqs[i]
      BY <1>t, <3>2, <3>4
    <3> QED
      BY <1>4, <3>3, <3>5
  <2> QED
    BY <2>1, <2>2
<1>5. NoTicketLost'
  <2> SUFFICES ASSUME NEW s \in commitSeq' .. insertSeq' - 1
               PROVE  \/ \E p \in Producers : HoldsTicket(p)' /\ ticket'[p] = s
                      \/ \E i \in DOMAIN failedSeqs' : failedSeqs'[i] = s
    BY DEF NoTicketLost, HoldsTicket
  <2>1. s \in commitSeq .. insertSeq - 1
    BY <1>t, <1>1, <1>3
  <2>2. CASE \E p \in Producers : HoldsTicket(p) /\ ticket[p] = s
    BY <1>1, <2>2
  <2>3. CASE \E i \in DOMAIN failedSeqs : failedSeqs[i] = s
    BY <1>4, <2>3
  <2> QED
    BY <2>1, <2>2, <2>3 DEF TimedInv, NoTicketLost
<1> QED
  BY <1>5

LEMMA InShorterRange ==
    ASSUME NEW a \in Nat, NEW b \in Nat, NEW c \in Nat, NEW d \in Nat, c >= a,
           d = b \/ d = b + 1, NEW s \in c .. d - 1, s # b
    PROVE  s \in a .. b - 1
  OBVIOUS

LEMMA ProducerKeepsTickets ==
    ASSUME TimedInv, NEW p \in Producers, ProducerStep(p)
    PROVE  TimedInv'
<1>0. TypeOK'
  BY ProducerTypes DEF TimedInv
<1>t. /\ claimSeq \in Nat /\ commitSeq \in Nat /\ insertSeq \in Nat /\ failedSeqs \in Seq(Nat)
      /\ ppc \in [Producers -> ProducerPlaces] /\ ticket \in [Producers -> Nat]
  BY DEF TimedInv, TypeOK
<1> USE DEF PMove, ForgetTicket
<1>1. /\ claimSeq' = claimSeq /\ cpc' = cpc /\ cop' = cop /\ flushing' = flushing
      /\ consumerLock' = consumerLock
  BY DEF ProducerStep, CommitStep, Push, CheckSpace, Sleep, WakeUnnotified, Woken,
     GiveUp, GiveUpRecording, WriteToNull, WriteSlot, Commit, CommitWhen, CountMessage,
     CountAndSignal, Signal, readerVars, callVars
<1>2. commitSeq' \in Nat /\ commitSeq' >= commitSeq
  BY <1>t DEF ProducerStep, CommitStep, Push, CheckSpace, Sleep, WakeUnnotified, Woken,
     GiveUp, GiveUpRecording, WriteToNull, WriteSlot, Commit, CommitWhen, CountMessage,
     CountAndSignal, Signal, sharedVars
<1>3. failedSeqs' = failedSeqs \/ GiveUp(p)
  BY DEF ProducerStep, CommitStep, Push, CheckSpace, Sleep, WakeUnnotified, Woken,
     WriteToNull, WriteSlot, Commit, CommitWhen, CountMessage, CountAndSignal, Signal, sharedVars
<1>4. Called' /\ OneReader'
  BY <1>1 DEF TimedInv, Called, OneReader, Busy
<1>5. Flushes'
  <2>1. ASSUME NEW c \in Consumers, Flushing(c) PROVE failedSeqs' = failedSeqs
    <3>1. consumerLock = c
      BY <2>1 DEF TimedInv, Flushes, FlushOf, Flushing, OneReader, Busy
    <3> QED
      BY <1>3, <3>1, ThreadsAssumption DEF GiveUp, GiveUpRecording
  <2>2. ASSUME NEW c \in Consumers PROVE FlushOf(c)'
    <3>1. FlushOf(c)
      BY DEF TimedInv, Flushes
    <3>2. CASE Flushing(c)
      <4>1. Head(failedSeqs) \in Nat
        BY <1>t, <3>1, <3>2 DEF FlushOf, Flushing
      <4> QED
        BY <1>t, <1>1, <1>2, <2>1, <3>1, <3>2, <4>1 DEF FlushOf
    <3>3. CASE ~ Flushing(c)
      BY <1>1, <3>1, <3>3 DEF FlushOf, Flushing
    <3> QED
      BY <3>2, <3>3
  <2> QED
    BY <2>2 DEF Flushes
<1>6. /\ \A q \in Producers \ {p} : ppc'[q] = ppc[q] /\ ticket'[q] = ticket[q]
      /\ insertSeq' \in Nat
  BY <1>t DEF ProducerStep, CommitStep, Push, CheckSpace, Sleep, WakeUnnotified, Woken,
     GiveUp, GiveUpRecording, WriteToNull, WriteSlot, Commit, CommitWhen, CountMessage,
     CountAndSignal, Signal
\* what happens to a ticket that is p's
<1>8. ASSUME HoldsTicket(p), ticket[p] >= commitSeq'
      PROVE  \/ HoldsTicket(p)' /\ ticket'[p] = ticket[p]
             \/ \E i \in DOMAIN failedSeqs' : failedSeqs'[i] = ticket[p]
  <2>1. CASE GiveUp(p)
    <3>1. failedSeqs' = Append(failedSeqs, ticket[p])
      BY <2>1 DEF GiveUp, GiveUpRecording
    <3>2. Len(failedSeqs) + 1 \in DOMAIN failedSeqs'
          /\ failedSeqs'[Len(failedSeqs) + 1] = ticket[p]
      BY <1>t, <3>1
    <3> QED
      BY <3>2
  <2>2. CASE Commit(p)
    BY <1>t, <1>8, <2>2 DEF Commit, CommitWhen
  <2>3. CASE ~ GiveUp(p) /\ ~ Commit(p)
    BY <1>t, <1>8, <2>3 DEF HoldsTicket, ProducerStep, CommitStep, Push, CheckSpace, Sleep,
       WakeUnnotified, Woken, WriteToNull, WriteSlot, CountMessage, CountAndSignal, Signal
  <2> QED
    BY <2>1, <2>2, <2>3
<1>9. ASSUME NEW i \in DOMAIN failedSeqs
      PROVE  i \in DOMAIN failedSeqs' /\ failedSeqs'[i] = failedSeqs[i]
  <2>1. CASE GiveUp(p)
    <3>1. failedSeqs' = Append(failedSeqs, ticket[p]) /\ ticket[p] \in Nat
      BY <1>t, <2>1 DEF GiveUp, GiveUpRecording
    <3> QED
      BY <1>t, <3>1
  <2>2. CASE failedSeqs' = failedSeqs
    BY <2>2
  <2> QED
    BY <1>3, <2>1, <2>2
<1>10. \/ insertSeq' = insertSeq
       \/ insertSeq' = insertSeq + 1 /\ HoldsTicket(p)' /\ ticket'[p] = insertSeq
  <2>1. ASSUME NEW op \in ProducerOps, Push(p, op)
        PROVE  insertSeq' = insertSeq + 1 /\ HoldsTicket(p)' /\ ticket'[p] = insertSeq
    BY <1>t, <2>1 DEF Push, HoldsTicket
  <2>2. CASE \E op \in ProducerOps : Push(p, op)
    BY <2>1, <2>2, Zenon
  <2>3. CASE ~ \E op \in ProducerOps : Push(p, op)
    BY <2>3 DEF ProducerStep, CommitStep, CheckSpace, Sleep, WakeUnnotified, Woken,
       GiveUp, GiveUpRecording, WriteToNull, WriteSlot, Commit, CommitWhen, CountMessage,
       CountAndSignal, Signal
  <2> QED
    BY <2>2, <2>3
<1>11. NoTicketLost'
  <2> SUFFICES ASSUME NEW s \in commitSeq' .. insertSeq' - 1
               PROVE  \/ \E q \in Producers : HoldsTicket(q)' /\ ticket'[q] = s
                      \/ \E i \in DOMAIN failedSeqs' : failedSeqs'[i] = s
    BY DEF NoTicketLost, HoldsTicket
  <2>1. CASE s = insertSeq
    BY <1>t, <1>10, <2>1
  <2>2. CASE s # insertSeq
    <3>1. s \in commitSeq .. insertSeq - 1
      <4>1. insertSeq' = insertSeq \/ insertSeq' = insertSeq + 1
        BY ONLY <1>10
      <4>2. /\ commitSeq \in Nat /\ commitSeq' \in Nat /\ commitSeq' >= commitSeq
            /\ insertSeq \in Nat /\ insertSeq' \in Nat
        BY ONLY <1>t, <1>2, <1>6
      <4> QED
        BY <2>2, <4>1, <4>2, InShorterRange, Zenon
    <3>2. CASE HoldsTicket(p) /\ ticket[p] = s
      BY <1>t, <1>2, <1>8, <3>2
    <3>3. ASSUME NEW q \in Producers \ {p}, HoldsTicket(q), ticket[q] = s
          PROVE  HoldsTicket(q)' /\ ticket'[q] = s
      BY <1>6, <3>3 DEF HoldsTicket
    <3>4. CASE \E i \in DOMAIN failedSeqs : failedSeqs[i] = s
      BY <1>9, <3>4
    <3> QED
      BY <3>1, <3>2, <3>3, <3>4 DEF TimedInv, NoTicketLost
  <2> QED
    BY <2>1, <2>2
<1> QED
  BY <1>0, <1>1, <1>4, <1>5, <1>11 DEF TimedInv

\* The invariant of the queue whatever calls are made, timed or not.
THEOREM TimedInvariance ==
    ASSUME NothingStale
    PROVE  Spec => []TimedInv
<1>1. Init => TimedInv
  <2> SUFFICES ASSUME Init PROVE TimedInv
    OBVIOUS
  <2>1. TypeOK
    BY InitTypes
  <2>2. Called /\ OneReader /\ Flushes /\ claimSeq >= 1
    BY DEF Init, Called, OneReader, Flushes, FlushOf, Busy
  <2>3. NoTicketLost
    BY DEF Init, NoTicketLost
  <2> QED
    BY <2>1, <2>2, <2>3 DEF TimedInv
<1>2. ASSUME TimedInv, NEW c \in Consumers, ConsumerStep(c) PROVE TimedInv'
  <2>1. TypeOK' /\ Called' /\ OneReader'
    BY <1>2, ConsumerTypes, ReaderKeepsLock DEF TimedInv
  <2>2. claimSeq \in Nat /\ claimSeq' \in Nat /\ claimSeq' >= claimSeq
    BY <1>2, ClaimGrows DEF TimedInv, TypeOK
  <2>3. claimSeq' >= 1
    BY <1>2, <2>2 DEF TimedInv
  <2> QED
    BY <1>2, <2>1, <2>3, ReaderFlushes, ReaderKeepsTickets DEF TimedInv
<1>3. TimedInv /\ UNCHANGED vars => TimedInv'
  BY DEF TimedInv, TypeOK, Called, OneReader, Flushes, FlushOf, Busy, NoTicketLost,
     HoldsTicket, vars, sharedVars, writerVars, readerVars, callVars
<1>4. TimedInv /\ [Next]_vars => TimedInv'
  BY <1>2, <1>3, ProducerKeepsTickets DEF Next
<1> QED
  BY <1>1, <1>4, PTL DEF Spec

\* NoTicketLost, of every use of the queue: a ticket that has been drawn and not committed
\* is a producer's still, or on record as failed until a Pop call has committed it.
THEOREM TicketsKept ==
    ASSUME NothingStale
    PROVE  Spec => []NoTicketLost
<1>1. TimedInv => NoTicketLost
  BY DEF TimedInv
<1> QED
  BY <1>1, TimedInvariance, PTL

-----------------------------------------------------------------------------
(* No message is delivered twice, whatever a flush has granted: the calls   *)
(* that flush are the Pop calls, and these reset a slot before they leave   *)
(* it.                                                                      *)

PopsOnly == ConsumerOps \subseteq PopOps

Ring == 0 .. QueueSize - 1
Unwritten(p) == ppc[p] \in {"check", "enter", "asleep", "woken", "noslot", "write"}

\* A message that is still to be written is nowhere else.
FreshTicket(p) ==
    /\ ticket[p] # Empty /\ ticket[p] < insertSeq
    /\ \A i \in Ring : queue[i] # ticket[p]
    /\ \A j \in DOMAIN delivered : delivered[j] # ticket[p]
    /\ \A q \in Producers \ {p} : Unwritten(q) => ticket[q] # ticket[p]

Fresh ==
    /\ insertSeq >= 1
    /\ \A i \in Ring : queue[i] < insertSeq
    /\ \A j \in DOMAIN delivered : delivered[j] < insertSeq
    /\ \A p \in Producers : Unwritten(p) => FreshTicket(p)

\* A message is in one slot, and once it is delivered that is the reader's.
AtSlot(c) == cpc[c] \in {"view", "reset"} /\ viewed[c] = 1

Distinct == \A i, k \in Ring : queue[i] = queue[k] /\ queue[i] # Empty => i = k

Kept ==
    \A i \in Ring, j \in DOMAIN delivered :
        queue[i] = delivered[j] /\ queue[i] # Empty
            => i = Slot(claimSeq) /\ \E c \in Consumers : AtSlot(c)

\* A Pop call views one message.
PopOf(c) ==
    /\ left[c] \in 0 .. 1 /\ viewed[c] \in 0 .. left[c]
    /\ viewed[c] = 1 => cpc[c] \in {"view", "reset", "advance"} /\ ~ flushing[c]
    /\ cpc[c] \in {"reset", "advance"} /\ ~ flushing[c] => viewed[c] = 1

OnceInv ==
    /\ Fresh /\ Distinct /\ Kept /\ NothingTwice
    /\ \A c \in Consumers : PopOf(c)

\* What a reader does to the other readers' messages, and with its own.
LEMMA PopStep ==
    ASSUME PopsOnly, TimedInv, OnceInv, NEW c \in Consumers, ConsumerStep(c)
    PROVE  /\ \A d \in Consumers \ {c} : left'[d] = left[d] /\ viewed'[d] = viewed[d]
           /\ PopOf(c)'
<1>1. /\ TypeOK /\ PopOf(c) /\ FlushOf(c)
      /\ cpc[c] # "idle" => cop[c] \in PopOps
  BY DEF TimedInv, OnceInv, Flushes, Called, PopsOnly
<1>2. PopOps \cap RawOps = {}
  BY DEF PopOps, RawOps
<1> USE <1>1 DEF TypeOK, CMove, Return, PopOf, FlushOf, sharedVars, callVars
<1>3. CASE (\E op \in ConsumerOps : Call(c, op)) \/ Lock(c) \/ FlushTest(c) \/ FlushCommit(c)
  BY <1>3 DEF Call, Lock, FlushTest, FlushCommit
<1>4. CASE FlushCount(c) \/ LoadCount(c)
  BY <1>4 DEF FlushCount, LoadCount
<1>5. CASE TakeCount(c)
  <2>1. cpc[c] = "take" /\ cop[c] # "Claim"
    BY <1>2, <1>5 DEF TakeCount, TakeFromCount, RawOps
  <2>2. \/ left' = left
        \/ left' = [left EXCEPT ![c] = 1]
    BY <1>5, <2>1 DEF TakeCount, TakeFromCount, Grant
  <2>3. cpc'[c] \in {"wait", "view"} /\ viewed' = viewed /\ flushing' = flushing
    BY <1>5, <2>1 DEF TakeCount, TakeFromCount
  <2> QED
    BY <2>1, <2>2, <2>3
<1>6. CASE AcquireSignal(c)
  BY <1>6 DEF AcquireSignal, UsePermit, Grant
<1>7. CASE SleepTimed(c) \/ TimeOut(c)
  BY <1>7 DEF SleepTimed, TimeOut, TimeOutKeeping
<1>8. CASE ViewMessage(c) \/ ReleaseMessage(c)
  BY <1>8 DEF ViewMessage, ReleaseMessage
<1>9. CASE ReleaseMessages(c)
  BY <1>2, <1>9 DEF ReleaseMessages
<1>10. CASE ResetSlot(c) \/ AdvanceClaim(c)
  BY <1>10 DEF ResetSlot, ResetTo, AdvanceClaim, Advance
<1>11. CASE NotifyAll(c)
  BY <1>11 DEF NotifyAll
<1> QED
  BY <1>3, <1>4, <1>5, <1>6, <1>7, <1>8, <1>9, <1>10, <1>11 DEF ConsumerStep

\* Which of a reader's steps move messages.
LEMMA MessagesStay ==
    ASSUME TypeOK, NEW c \in Consumers, ConsumerStep(c)
    PROVE  /\ ~ ResetSlot(c) => queue' = queue
           /\ ~ ViewMessage(c) => delivered' = delivered
           /\ ~ (AdvanceClaim(c) \/ ReleaseMessages(c)) => claimSeq' = claimSeq
<1> USE DEF TypeOK, sharedVars, writerVars, callVars
<1>1. CASE (\E op \in ConsumerOps : Call(c, op)) \/ Lock(c) \/ FlushTest(c) \/ FlushCommit(c)
           \/ FlushCount(c) \/ LoadCount(c)
  BY <1>1 DEF Call, Lock, FlushTest, FlushCommit, FlushCount, LoadCount
<1>2. CASE TakeCount(c) \/ AcquireSignal(c) \/ SleepTimed(c) \/ TimeOut(c)
  BY <1>2 DEF TakeCount, TakeFromCount, AcquireSignal, UsePermit, SleepTimed, TimeOut,
     TimeOutKeeping
<1>3. CASE ViewMessage(c) \/ ReleaseMessage(c) \/ ReleaseMessages(c) \/ ResetSlot(c)
           \/ AdvanceClaim(c)
  BY <1>3 DEF ViewMessage, ReleaseMessage, ReleaseMessages, ResetSlot, ResetTo,
     AdvanceClaim, Advance
<1>4. CASE NotifyAll(c)
  BY <1>4 DEF NotifyAll
<1> QED
  BY <1>1, <1>2, <1>3, <1>4 DEF ConsumerStep

\* Whoever is at a slot is the only reader there is.
LEMMA AloneAtSlot ==
    ASSUME TimedInv, NEW c \in Consumers, NEW d \in Consumers, Busy(c), AtSlot(d)
    PROVE  c = d
  BY OneCaller DEF TimedInv, AtSlot, Busy

LEMMA ReaderDelivers ==
    ASSUME PopsOnly, TimedInv, OnceInv, NEW c \in Consumers, ConsumerStep(c)
    PROVE  OnceInv'
<1>t. /\ queue \in [Ring -> Nat] /\ delivered \in Seq(Nat) /\ insertSeq \in Nat
      /\ claimSeq \in Nat /\ viewed \in [Consumers -> Int]
      /\ ticket \in [Producers -> Nat]
  BY DEF TimedInv, TypeOK, Ring
<1>1. \A d \in Consumers : PopOf(d)'
  <2>1. \A d \in Consumers \ {c} :
          cpc'[d] = cpc[d] /\ flushing'[d] = flushing[d]
            /\ left'[d] = left[d] /\ viewed'[d] = viewed[d]
    BY PopStep, OthersInCall DEF TimedInv
  <2> QED
    BY <2>1, PopStep DEF OnceInv, PopOf
<1>2. /\ insertSeq' = insertSeq /\ ticket' = ticket
      /\ \A p \in Producers : Unwritten(p)' => Unwritten(p)
  BY ReaderLeaves DEF TimedInv, Unwritten
<1>3. /\ Fresh /\ Distinct /\ Kept /\ NothingTwice
      /\ \A d \in Consumers : PopOf(d)
  BY DEF OnceInv
<1>4. CASE ViewMessage(c)
  <2> DEFINE m == queue[Slot(claimSeq)]
  <2>1. cpc[c] = "view" /\ viewed[c] = 0 /\ viewed[c] < left[c]
    BY <1>3, <1>4 DEF ViewMessage, PopOf
  <2>2. /\ queue' = queue /\ claimSeq' = claimSeq /\ delivered' = Append(delivered, m)
        /\ cpc' = cpc /\ viewed'[c] = 1
    BY <1>t, <1>4, <2>1 DEF ViewMessage, sharedVars
  <2>3. Slot(claimSeq) \in Ring /\ m \in Nat
    <3>1. claimSeq \in Int
      BY <1>t
    <3>2. Slot(claimSeq) \in Ring
      BY <3>1, SlotInRing DEF Ring
    <3> QED
      BY <1>t, <3>2
  <2>4. \A d \in Consumers : ~ AtSlot(d)
    <3> SUFFICES ASSUME NEW d \in Consumers, AtSlot(d) PROVE FALSE
      OBVIOUS
    <3>1. c = d
      BY <2>1, AloneAtSlot DEF Busy
    <3> QED
      BY <2>1, <3>1 DEF AtSlot
  <2>5. \A i \in Ring, j \in DOMAIN delivered :
          queue[i] # Empty => queue[i] # delivered[j]
    BY <1>3, <2>4 DEF Kept
  <2> HIDE DEF m
  <2>6. /\ \A j \in DOMAIN delivered : j \in DOMAIN delivered' /\ delivered'[j] = delivered[j]
        /\ \A j \in DOMAIN delivered' :
             j \in DOMAIN delivered \/ (j = Len(delivered) + 1 /\ delivered'[j] = m)
    BY <1>t, <2>2, <2>3
  <2>7. NothingTwice'
    <3>1. \A j \in DOMAIN delivered : m # Empty => delivered[j] # m
      BY <2>3, <2>5 DEF m
    <3> SUFFICES ASSUME NEW i \in DOMAIN delivered', NEW j \in DOMAIN delivered',
                        delivered'[i] = delivered'[j], delivered'[i] # Empty
                 PROVE  i = j
      BY DEF NothingTwice, Empty
    <3> QED
      BY <1>3, <2>6, <3>1 DEF NothingTwice
  <2>8. Kept'
    <3> SUFFICES ASSUME NEW i \in Ring, NEW j \in DOMAIN delivered',
                        queue'[i] = delivered'[j], queue'[i] # Empty
                 PROVE  i = Slot(claimSeq)' /\ \E d \in Consumers : AtSlot(d)'
      BY DEF Kept, Ring, Empty
    <3>1. delivered'[j] = m
      BY <2>2, <2>5, <2>6
    <3>2. i = Slot(claimSeq)
      BY <1>3, <2>2, <2>3, <3>1 DEF Distinct, m
    <3> QED
      BY <2>1, <2>2, <3>2 DEF Slot, AtSlot
  <2>9. Fresh'
    <3>1. m < insertSeq
      BY <1>3, <2>3 DEF Fresh, m
    <3>2. ASSUME NEW p \in Producers, Unwritten(p)' PROVE FreshTicket(p)'
      <4>1. FreshTicket(p) /\ Unwritten(p)
        BY <1>2, <1>3, <3>2 DEF Fresh
      <4>2. m # ticket[p]
        BY <2>3, <4>1 DEF FreshTicket, m
      <4> QED
        BY <1>2, <2>2, <2>6, <4>1, <4>2 DEF FreshTicket, Ring, Empty
    <3> QED
      BY <1>2, <1>3, <2>2, <2>6, <3>1, <3>2 DEF Fresh, Ring
  <2> QED
    BY <1>1, <1>3, <2>2, <2>7, <2>8, <2>9 DEF OnceInv, Distinct, Ring, Empty
<1>5. ASSUME ~ ViewMessage(c), ~ ResetSlot(c) PROVE OnceInv'
  <2>1. queue' = queue /\ delivered' = delivered
    BY <1>5, MessagesStay DEF TimedInv
  <2>2. ASSUME NEW d \in Consumers, AtSlot(d) PROVE AtSlot(d)' /\ claimSeq' = claimSeq
    <3>1. CASE d # c
      <4>1. ~ Busy(c)
        BY <2>2, <3>1, AloneAtSlot
      <4>2. ~ AdvanceClaim(c) /\ ~ ReleaseMessages(c)
        BY <4>1 DEF AdvanceClaim, ReleaseMessages, CMove, Busy
      <4>3. cpc'[d] = cpc[d] /\ viewed'[d] = viewed[d]
        BY <3>1, PopStep, OthersInCall DEF TimedInv
      <4> QED
        BY <2>2, <4>2, <4>3, MessagesStay DEF TimedInv, AtSlot
    <3>2. CASE d = c
      <4>1. cpc[c] \in {"view", "reset"} /\ viewed[c] = 1 /\ cop[c] \in PopOps
        BY <2>2, <3>2 DEF AtSlot, TimedInv, Called, PopsOnly
      <4>2. ReleaseMessage(c)
        BY <1>5, <4>1 DEF ConsumerStep, CMove, Return, Call, Lock, FlushTest, FlushCommit,
           FlushCount, LoadCount, TakeCount, TakeFromCount, AcquireSignal, UsePermit,
           SleepTimed, TimeOut, TimeOutKeeping, ReleaseMessages, AdvanceClaim, NotifyAll,
           PopOps, RawOps
      <4> QED
        BY <3>2, <4>1, <4>2 DEF ReleaseMessage, CMove, TimedInv, TypeOK, AtSlot, callVars
    <3> QED
      BY <3>1, <3>2
  <2>3. Kept'
    <3> SUFFICES ASSUME NEW i \in Ring, NEW j \in DOMAIN delivered,
                        queue[i] = delivered[j], queue[i] # Empty
                 PROVE  i = Slot(claimSeq)' /\ \E d \in Consumers : AtSlot(d)'
      BY <2>1 DEF Kept, Ring, Empty
    <3>1. PICK d \in Consumers : AtSlot(d) /\ i = Slot(claimSeq)
      BY <1>3 DEF Kept
    <3> QED
      BY <2>2, <3>1 DEF Slot
  <2>4. Fresh'
    BY <1>2, <1>3, <2>1 DEF Fresh, FreshTicket, Ring, Empty
  <2> QED
    BY <1>1, <1>3, <2>1, <2>3, <2>4 DEF OnceInv, Distinct, NothingTwice, Ring, Empty
<1>6. CASE ResetSlot(c)
  <2>1. /\ queue' = [queue EXCEPT ![Slot(claimSeq)] = Empty]
        /\ delivered' = delivered /\ claimSeq' = claimSeq
    BY <1>6 DEF ResetSlot, ResetTo
  <2>2. \A i \in Ring : queue'[i] = Empty \/ (queue'[i] = queue[i] /\ i # Slot(claimSeq))
    BY <1>t, <2>1
  <2>3. Kept'
    BY <1>3, <2>1, <2>2 DEF Kept, Ring, Empty
  <2>4. Distinct'
    BY <1>3, <2>2 DEF Distinct, Ring, Empty
  <2>5. Fresh'
    <3>1. insertSeq >= 1
      BY <1>3 DEF Fresh
    <3>2. ASSUME NEW p \in Producers, Unwritten(p)' PROVE FreshTicket(p)'
      <4>1. FreshTicket(p)
        BY <1>2, <1>3, <3>2 DEF Fresh
      <4> QED
        BY <1>2, <2>1, <2>2, <4>1 DEF FreshTicket, Ring, Empty
    <3> QED
      BY <1>t, <1>2, <1>3, <2>1, <2>2, <3>1, <3>2 DEF Fresh, Ring, Empty
  <2> QED
    BY <1>1, <1>3, <2>1, <2>3, <2>4, <2>5 DEF OnceInv, NothingTwice, Empty
<1> QED
  BY <1>4, <1>5, <1>6

LEMMA ProducerDelivers ==
    ASSUME TimedInv, OnceInv, NEW p \in Producers, ProducerStep(p)
    PROVE  OnceInv'
<1>t. /\ queue \in [Ring -> Nat] /\ delivered \in Seq(Nat) /\ insertSeq \in Nat
      /\ claimSeq \in Nat /\ ticket \in [Producers -> Nat]
      /\ ppc \in [Producers -> ProducerPlaces]
  BY DEF TimedInv, TypeOK, Ring
<1>1. UNCHANGED readerVars
  BY DEF ProducerStep, CommitStep, Push, CheckSpace, Sleep, WakeUnnotified, Woken,
     GiveUp, GiveUpRecording, WriteToNull, WriteSlot, Commit, CommitWhen, CountMessage,
     CountAndSignal, Signal
<1>2. /\ delivered' = delivered /\ \A c \in Consumers : PopOf(c)' /\ (AtSlot(c)' <=> AtSlot(c))
      /\ claimSeq' = claimSeq /\ NothingTwice'
  BY <1>1 DEF readerVars, callVars, OnceInv, PopOf, AtSlot, NothingTwice, Empty
<1>3. /\ Fresh /\ Distinct /\ Kept
  BY DEF OnceInv
<1> USE DEF PMove
<1>4. ASSUME NEW op \in ProducerOps, Push(p, op) PROVE OnceInv'
  <2>1. /\ queue' = queue /\ insertSeq' = insertSeq + 1 /\ ticket'[p] = insertSeq
        /\ \A q \in Producers \ {p} : ticket'[q] = ticket[q] /\ ppc'[q] = ppc[q]
    BY <1>t, <1>4 DEF Push, sharedVars
  <2>2. FreshTicket(p)'
    BY <1>t, <1>2, <1>3, <2>1 DEF Fresh, FreshTicket, Unwritten, Ring, Empty
  <2>3. ASSUME NEW q \in Producers \ {p}, Unwritten(q)' PROVE FreshTicket(q)'
    <3>1. FreshTicket(q) /\ Unwritten(q)
      BY <1>3, <2>1, <2>3 DEF Fresh, Unwritten
    <3>2. ticket[q] < insertSeq /\ ticket[q] \in Nat
      BY <1>t, <3>1 DEF FreshTicket
    <3> QED
      BY <1>t, <1>2, <2>1, <3>1, <3>2 DEF FreshTicket, Unwritten, Ring, Empty
  <2>4. Fresh'
    BY <1>t, <1>2, <1>3, <2>1, <2>2, <2>3 DEF Fresh, Ring
  <2> QED
    BY <1>2, <1>3, <2>1, <2>4 DEF OnceInv, Distinct, Kept, Ring, Slot, Empty
<1>5. CASE WriteSlot(p)
  <2> DEFINE s == Slot(ticket[p])
  <2>1. /\ queue' = [queue EXCEPT ![s] = ticket[p]]
        /\ insertSeq' = insertSeq /\ ticket' = ticket
        /\ ppc[p] = "write" /\ ppc'[p] = "commit"
        /\ \A q \in Producers \ {p} : ppc'[q] = ppc[q]
    BY <1>t, <1>5 DEF WriteSlot
  <2>2. FreshTicket(p) /\ s \in Ring
    BY <1>t, <1>3, <2>1, SlotInRing DEF Fresh, Unwritten, Ring
  <2> HIDE DEF s
  <2>3. queue'[s] = ticket[p] /\ \A i \in Ring \ {s} : queue'[i] = queue[i]
    BY <1>t, <2>1, <2>2
  <2>4. Distinct'
    BY <1>3, <2>2, <2>3 DEF Distinct, FreshTicket, Ring, Empty
  <2>5. Kept'
    <3> SUFFICES ASSUME NEW i \in Ring, NEW j \in DOMAIN delivered,
                        queue'[i] = delivered[j], queue'[i] # Empty
                 PROVE  i = Slot(claimSeq)' /\ \E c \in Consumers : AtSlot(c)'
      BY <1>2 DEF Kept, Ring, Empty
    <3>1. i # s
      BY <2>2, <2>3 DEF FreshTicket
    <3> QED
      BY <1>2, <1>3, <2>3, <3>1 DEF Kept, Slot
  <2>6. ASSUME NEW q \in Producers, Unwritten(q)' PROVE FreshTicket(q)'
    <3>1. q # p /\ Unwritten(q) /\ FreshTicket(q)
      BY <1>3, <2>1, <2>6 DEF Fresh, Unwritten
    <3>2. ticket[q] # ticket[p] /\ Unwritten(p)
      BY <2>1, <2>2, <3>1 DEF FreshTicket, Unwritten
    <3>3. \A r \in Producers : Unwritten(r)' => Unwritten(r)
      BY <2>1 DEF Unwritten
    <3> QED
      BY <1>2, <2>1, <2>2, <2>3, <3>1, <3>2, <3>3 DEF FreshTicket, Ring, Empty
  <2>7. Fresh'
    BY <1>2, <1>3, <2>1, <2>2, <2>3, <2>6 DEF Fresh, FreshTicket, Ring
  <2> QED
    BY <1>2, <2>4, <2>5, <2>7 DEF OnceInv
<1>6. ASSUME ~ WriteSlot(p), ~ \E op \in ProducerOps : Push(p, op) PROVE OnceInv'
  <2>1. /\ queue' = queue /\ insertSeq' = insertSeq
        /\ \A q \in Producers \ {p} : ticket'[q] = ticket[q] /\ ppc'[q] = ppc[q]
        /\ Unwritten(p)' => Unwritten(p) /\ ticket'[p] = ticket[p]
    BY <1>t, <1>6 DEF ProducerStep, CommitStep, CheckSpace, Sleep, WakeUnnotified, Woken,
       GiveUp, GiveUpRecording, WriteToNull, Commit, CommitWhen, CountMessage, CountAndSignal,
       Signal, ForgetTicket, Unwritten, sharedVars
  <2>2. \A q \in Producers : Unwritten(q)' => Unwritten(q) /\ ticket'[q] = ticket[q]
    BY <2>1 DEF Unwritten
  <2>3. \A q \in Producers : Unwritten(q)' => FreshTicket(q)'
    BY <1>2, <1>3, <2>1, <2>2 DEF Fresh, FreshTicket, Ring, Empty
  <2> QED
    BY <1>2, <1>3, <2>1, <2>3 DEF OnceInv, Fresh, Distinct, Kept, Slot, Ring, Empty
<1> QED
  BY <1>4, <1>5, <1>6

\* NothingTwice, for any number of threads that push, with time-outs or without, and that
\* pop: a reader that a flush let run ahead of the writers gets empty slots or late messages
\* for it, and none a second time (JdMessageQueue.hpp, FlushQueueOverflows and
\* ReleaseMessage).
THEOREM OnceOnly ==
    ASSUME NothingStale, PopsOnly
    PROVE  Spec => []NothingTwice
<1>1. Init => OnceInv
  BY DEF Init, OnceInv, Fresh, Distinct, Kept, NothingTwice, PopOf, Unwritten, Ring, Empty
<1>2. TimedInv /\ OnceInv /\ [Next]_vars => OnceInv'
  <2> SUFFICES ASSUME TimedInv, OnceInv, [Next]_vars PROVE OnceInv'
    OBVIOUS
  <2>1. CASE UNCHANGED vars
    BY <2>1 DEF OnceInv, Fresh, FreshTicket, Distinct, Kept, NothingTwice, PopOf, AtSlot,
       Unwritten, Slot, Ring, Empty, vars, sharedVars, writerVars, readerVars, callVars
  <2>2. CASE Next
    BY <2>2, ReaderDelivers, ProducerDelivers DEF Next
  <2> QED
    BY <2>1, <2>2
<1>3. OnceInv => NothingTwice
  BY DEF OnceInv
<1> QED
  BY <1>1, <1>2, <1>3, TimedInvariance, PTL DEF Spec
=============================================================================
