---------------------------- MODULE JdSemaphore ----------------------------
(***************************************************************************)
(* concurrent/JdSemaphore.hpp: a counting semaphore of a std::mutex and a   *)
(* std::condition_variable.  JdMessageQueue sleeps on one, JdThreadT waits  *)
(* on one for its thread, a message port for its reply.                     *)
(*                                                                          *)
(* What a call does while it holds m_mutex is one action, except Signal:    *)
(* notify_one does not need the mutex on the other side, so a sleeper may   *)
(* time out or wake for no reason between two of them.                      *)
(***************************************************************************)
EXTENDS Integers, FiniteSets

CONSTANTS
    Threads,
    WaiterSets,     \* which threads may wait: one of these sets, in the library one thread
    Ops,            \* which of the operations the threads call
    MaxSignal,      \* bound: the largest i_count given to Signal
    MaxCount,       \* bound: Signal is not called beyond this count
    NoThread

UntimedWaits == {"Wait", "WaitAndRemainLocked", "WaitAll"}
TimedWaits == {"TimedWait", "TimedWaitAndRemainLocked"}
Tests == {"Acquire", "AcquireAndRemainLocked"}
RemainLocked ==
    {"WaitAndRemainLocked", "TimedWaitAndRemainLocked", "AcquireAndRemainLocked"}

ASSUME ThreadsAssumption == IsFiniteSet(Threads) /\ NoThread \notin Threads
ASSUME OpsAssumption ==
    Ops \subseteq {"Signal", "LockMutex"} \cup UntimedWaits \cup TimedWaits \cup Tests
ASSUME WaitersAssumption == WaiterSets \subseteq SUBSET Threads
ASSUME BoundsAssumption == MaxSignal \in Nat \ {0} /\ MaxCount \in Nat

VARIABLES
    count,      \* m_count
    mutex,      \* who holds m_mutex
    pc, op,     \* where a thread is, in which call
    notices,    \* notify_one calls a Signal has still to make
    waiters     \* the threads this semaphore is waited on by, fixed by its use

semaphoreVars == <<count, mutex, pc, op, notices, waiters>>

SemaphoreTypeOK ==
    /\ count \in Nat
    /\ mutex \in Threads \cup {NoThread}
    /\ pc \in [Threads -> {"idle", "lock", "notify", "asleep", "woken", "late", "locked"}]
    /\ op \in [Threads -> {"Signal", "LockMutex"} \cup UntimedWaits \cup TimedWaits \cup Tests]
    /\ notices \in [Threads -> Nat]
    /\ waiters \in SUBSET Threads

SemaphoreInit ==
    /\ count = 0
    /\ mutex = NoThread
    /\ pc = [t \in Threads |-> "idle"]
    /\ op = [t \in Threads |-> "Signal"]
    /\ notices = [t \in Threads |-> 0]
    /\ waiters \in WaiterSets

At(t, place) == pc[t] = place
Goto(t, place) == pc' = [pc EXCEPT ![t] = place]

\* Timed waits are one thread's (the log server's reader, the caller of a port).
Call(t, o) ==
    /\ o \in UntimedWaits \cup TimedWaits => t \in waiters
    /\ o \in TimedWaits => waiters = {t}
    /\ At(t, "idle") /\ Goto(t, "lock")
    /\ op' = [op EXCEPT ![t] = o]
    /\ \E n \in 1 .. MaxSignal :
         /\ o = "Signal" => count + n <= MaxCount
         /\ notices' = [notices EXCEPT ![t] = IF o = "Signal" THEN n ELSE 0]
    /\ UNCHANGED <<count, mutex, waiters>>

Signal(t) ==
    /\ At(t, "lock") /\ op[t] = "Signal" /\ mutex = NoThread
    /\ count' = count + notices[t]
    /\ mutex' = t
    /\ Goto(t, "notify")
    /\ UNCHANGED <<op, notices, waiters>>

Asleep == {t \in Threads : At(t, "asleep")}
Woken == {t \in Threads : At(t, "woken")}

\* m_condition.notify_one: of one sleeper, if there is one.
NotifyOne(t) ==
    /\ At(t, "notify") /\ notices[t] > 0
    /\ notices' = [notices EXCEPT ![t] = @ - 1]
    /\ \/ Asleep = {} /\ UNCHANGED pc
       \/ \E s \in Asleep : Goto(s, "woken")
    /\ UNCHANGED <<count, mutex, op, waiters>>

\* Mutant: one notify_one however many permits are given.
SignalReturnAfterOne(t) ==
    /\ At(t, "notify") /\ Goto(t, "idle")
    /\ notices' = [notices EXCEPT ![t] = 0]
    /\ mutex' = NoThread
    /\ UNCHANGED <<count, op, waiters>>

SignalReturn(t) ==
    /\ At(t, "notify") /\ notices[t] = 0
    /\ Goto(t, "idle")
    /\ mutex' = NoThread
    /\ UNCHANGED <<count, op, notices, waiters>>

\* A thread that holds m_mutex tests the count: entering, or after its sleep.
Testing(t) == (At(t, "lock") \/ At(t, "woken")) /\ op[t] \notin {"Signal", "LockMutex"} /\ mutex = NoThread

TakeFrom(t, holder) ==
    /\ count' = IF op[t] = "WaitAll" THEN 0 ELSE count - 1
    /\ mutex' = holder
    /\ Goto(t, IF op[t] \in RemainLocked THEN "locked" ELSE "idle")
    /\ UNCHANGED <<op, notices, waiters>>

Holder(t) == IF op[t] \in RemainLocked THEN t ELSE NoThread

Take(t) == Testing(t) /\ count > 0 /\ TakeFrom(t, Holder(t))

\* Acquire does not wait.
Fail(t) ==
    /\ Testing(t) /\ count = 0 /\ op[t] \in Tests
    /\ Goto(t, "idle")
    /\ UNCHANGED <<count, mutex, op, notices, waiters>>

\* Mutant: "if (m_count)" reads the count before the mutex is taken, and the wait
\* follows without testing it again.
SleepUntested(t) ==
    /\ Testing(t) /\ op[t] \notin Tests
    /\ Goto(t, "asleep")
    /\ UNCHANGED <<count, mutex, op, notices, waiters>>

\* m_condition.wait gives the mutex up and sleeps, in one step for the others.
Sleep(t) ==
    /\ Testing(t) /\ count = 0 /\ op[t] \notin Tests
    /\ Goto(t, "asleep")
    /\ UNCHANGED <<count, mutex, op, notices, waiters>>

WakeSpuriously(t) ==
    /\ At(t, "asleep") /\ Goto(t, "woken")
    /\ UNCHANGED <<count, mutex, op, notices, waiters>>

\* wait_for reports a time-out by the clock, also of a thread that was notified.
TimeUp(t) ==
    /\ op[t] \in TimedWaits
    /\ At(t, "asleep") \/ At(t, "woken")
    /\ Goto(t, "late")
    /\ UNCHANGED <<count, mutex, op, notices, waiters>>

\* return false, without looking at the count again.
GiveUp(t) ==
    /\ At(t, "late") /\ mutex = NoThread
    /\ Goto(t, "idle")
    /\ UNCHANGED <<count, mutex, op, notices, waiters>>

LockMutex(t) ==
    /\ At(t, "lock") /\ op[t] = "LockMutex" /\ mutex = NoThread
    /\ mutex' = t
    /\ Goto(t, "locked")
    /\ UNCHANGED <<count, op, notices, waiters>>

UnlockMutex(t) ==
    /\ At(t, "locked") /\ Goto(t, "idle")
    /\ mutex' = NoThread
    /\ UNCHANGED <<count, op, notices, waiters>>

Finish(t) == NotifyOne(t) \/ SignalReturn(t) \/ UnlockMutex(t)
Contend(t) == Signal(t) \/ Take(t) \/ Fail(t) \/ Sleep(t) \/ GiveUp(t)

SemaphoreNext ==
    \E t \in Threads :
        \/ \E o \in Ops : Call(t, o)
        \/ Finish(t) \/ Contend(t) \/ LockMutex(t)
        \/ WakeSpuriously(t) \/ TimeUp(t)

SemaphoreSpec == SemaphoreInit /\ [][SemaphoreNext]_semaphoreVars

\* A thread inside the mutex leaves it, and while threads want it for the count one
\* of them gets it, also if others lock it over and over; which one is left open,
\* and so is whether time runs out.
SemaphoreFairness ==
    /\ \A t \in Threads : WF_semaphoreVars(Finish(t))
    /\ SF_semaphoreVars(\E t \in Threads : Contend(t))

SemaphoreFairSpec == SemaphoreSpec /\ SemaphoreFairness

-----------------------------------------------------------------------------
\* Permits not yet announced.
Owed == IF mutex = NoThread THEN 0 ELSE IF At(mutex, "notify") THEN notices[mutex] ELSE 0

\* While threads sleep, every permit has a thread on its way to it or a
\* notification to come: no wake-up is lost.
NoLostWakeup == Asleep # {} => count <= Cardinality(Woken) + Owed

\* The mutex is held by a Signal that notifies, or by the one caller that asked to
\* remain locked, until it unlocks.
LockedIsExclusive == \A t \in Threads : pc[t] \in {"notify", "locked"} <=> mutex = t

\* Nobody sleeps on beside a permit.
SleeperGetsPermit ==
    \A t \in Threads : (At(t, "asleep") /\ count > 0) ~> (~ At(t, "asleep") \/ count = 0)
=============================================================================
