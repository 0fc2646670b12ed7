------------------------- MODULE MCSynchronization -------------------------
(* The bank switch, the semaphore and the threads, each on their own: the   *)
(* initial state chooses, and the others stay where they begin.             *)
(*                                                                          *)
(* The switch: two words are the least a torn value needs; four versions    *)
(* let each bank be written, taken, overwritten and taken again.            *)
(*                                                                          *)
(* The semaphore: three threads.  Either all of them wait, without          *)
(* time-outs: two sleepers and a barger; or one of them waits, also with    *)
(* time-outs.                                                               *)
(*                                                                          *)
(* The threads: two, enough for one to exit while the owner visits the      *)
(* other.  One of them is slow and asks IsAlive.                            *)
EXTENDS JdAtomicBankSwitch, JdSemaphore, JdThread

CONSTANTS w1, w2, t1, t2, t3

VARIABLE subject

MCWords == {w1, w2}
MCMaxVersion == 4

MCThreads == {t1, t2, t3}
MCWaiterSets == {{t1}, {t1, t2, t3}}
MCOps == {"Signal", "LockMutex"} \cup UntimedWaits \cup TimedWaits \cup Tests

MCJdThreads == {t1, t2}
MCSlow == {t1}

SynchronizationInit ==
    /\ subject \in {"switch", "semaphore", "threads"}
    /\ Init /\ SemaphoreInit /\ ThreadInit
    /\ subject # "semaphore" => waiters = {t1}

\* A failed assertion ends the program.
Aborted == ~ Alive /\ UNCHANGED threadVars

SynchronizationNext ==
    /\ UNCHANGED subject
    /\ \/ subject = "switch" /\ Next /\ UNCHANGED <<semaphoreVars, threadVars>>
       \/ subject = "semaphore" /\ SemaphoreNext /\ UNCHANGED <<vars, threadVars>>
       \/ subject = "threads" /\ (ThreadNext \/ Aborted) /\ UNCHANGED <<vars, semaphoreVars>>

\* The fairness of each, as its module has it.  (A semaphore that nobody calls, and threads
\* that nobody starts, owe nothing, nor does a switch whose reader does not ask.)
SynchronizationSpec ==
    /\ SynchronizationInit
    /\ [][SynchronizationNext]_<<subject, vars, semaphoreVars, threadVars>>
    /\ WF_vars(subject = "switch" /\ GetReadBank) /\ CallsGoOn
    /\ SemaphoreFairness /\ ThreadFairness
=============================================================================
