----------------------------- MODULE JdTaskPool -----------------------------
(***************************************************************************)
(* concurrent/JdTaskPool: worker threads that take tasks from one queue, a  *)
(* null task sending a worker home; batches that count their tasks and are  *)
(* waited for; Stop and Start of the whole pool.                            *)
(*                                                                          *)
(* The queue is a bounded FIFO queue, as JdMessageQueueProofs shows it is   *)
(* for Push and PopWait; who finds it full waits in line, as JdMessageSlots *)
(* has it, and may be left asleep or end the program there.  A worker's     *)
(* JdThreadT is what JdThread says of it: Stop waits until it has exited,   *)
(* and deleting one that did not exit in time ends the program.  What a     *)
(* lock is held for is one action, but for Stop, which holds m_mutex        *)
(* throughout.                                                              *)
(***************************************************************************)
EXTENDS JdMessageSlots, FiniteSets

CONSTANTS
    Clients, Workers,
    Stoppers,       \* the clients that may call Stop
    Batches,        \* the JdTask::Batch objects there can be: one for each client and blocking task
    Global,         \* m_globalBatch
    None,           \* no batch, no thread
    QueueSize,
    MaxTasks,       \* bound: tasks submitted in a run
    MaxStops,       \* bound: calls of Stop
    MaxBlocking     \* tasks in the pool that may block it: fewer than workers

\* What the function of a task does: compute; perhaps submit one more task to its
\* own batch; or use a batch of its own.
Kinds == {"plain", "adds", "batches"}
Threads == Clients \cup Workers

ASSUME ThreadsAssumption ==
    /\ Stoppers \subseteq Clients
    /\ IsFiniteSet(Clients) /\ IsFiniteSet(Workers)
    /\ Workers # {} /\ Clients \cap Workers = {}
    /\ None \notin Threads \cup Batches \cup {Global} /\ Global \notin Batches
ASSUME BoundsAssumption ==
    /\ QueueSize \in Nat \ {0} /\ MaxTasks \in Nat /\ MaxStops \in Nat
    /\ MaxBlocking \in 0 .. Cardinality(Workers) - 1

VARIABLES
    mutex,      \* who holds m_mutex, through Stop
    threads,    \* m_threads
    queue,      \* m_queue,
    line,       \*   and who waits for a slot in it
    free,       \* m_freeBatches
    made,       \* the batches allocated
    count,      \* m_count of each batch
    pc,         \* where each thread is,
    mine,       \*   the batch it has created and not finished,
    pushing,    \*   the task it is about to push,
    task,       \*   and, of a worker, the task it runs
    nulls,      \* null tasks Stop has still to push
    submitted, stops

batchVars == <<free, made, count>>
taskVars == <<mine, pushing, task>>
queueVars == <<queue, line>>
bounds == <<submitted, stops>>
vars == <<mutex, threads, queueVars, batchVars, pc, taskVars, nulls, bounds>>

Tasks == [batch : Batches \cup {Global}, kind : Kinds]
Null == [batch |-> None, kind |-> "plain"]

PoolTypeOK ==
    /\ mutex \in Clients \cup {None}
    /\ threads \subseteq Workers
    /\ queue \in Seq(Tasks \cup {Null}) /\ Len(queue) <= QueueSize
    /\ free \in Seq(Batches) /\ made \subseteq Batches
    /\ count \in [Batches \cup {Global} -> Nat]
    /\ pc \in [Threads -> {"idle", "open", "push", "finish", "asleep", "woken", "release",
                           "nulls", "join", "pop", "run", "ran", "exited", "aborted"}]
    /\ mine \in [Threads -> Batches \cup {None}]
    /\ pushing \in [Threads -> Tasks \cup {Null}]
    /\ task \in [Threads -> Tasks \cup {Null}]
    /\ nulls \in Nat /\ submitted \in Nat /\ stops \in Nat

LineTypeOK == line \in Lines(Threads)

TypeOK == PoolTypeOK /\ LineTypeOK

Init ==
    /\ mutex = None /\ threads = Workers
    /\ queue = <<>> /\ line = <<>> /\ free = <<>> /\ made = {}
    /\ count = [b \in Batches \cup {Global} |-> IF b = Global THEN 1 ELSE 0]
    /\ pc = [t \in Threads |-> IF t \in Workers THEN "pop" ELSE "idle"]
    /\ mine = [t \in Threads |-> None]
    /\ pushing = [t \in Threads |-> Null]
    /\ task = [t \in Threads |-> Null]
    /\ nulls = 0 /\ submitted = 0 /\ stops = 0

Goto(t, place) == pc' = [pc EXCEPT ![t] = place]
Move(t, from, to) == pc[t] = from /\ Goto(t, to)

-----------------------------------------------------------------------------
(* Batches: of clients, and of workers inside a task that uses one.         *)

MayBatch(t) ==
    \/ t \in Clients /\ pc[t] = "idle"
    \/ t \in Workers /\ pc[t] = "run" /\ task[t].kind = "batches"

CreateBatch(t) ==
    /\ MayBatch(t) /\ mutex = None
    /\ Goto(t, "open")
    /\ \/ /\ free # <<>>
          /\ mine' = [mine EXCEPT ![t] = free[Len(free)]]
          /\ free' = SubSeq(free, 1, Len(free) - 1)
          /\ UNCHANGED <<made, count>>
       \/ /\ free = <<>>
          /\ Batches \ made # {}
          /\ LET b == CHOOSE new \in Batches \ made : TRUE IN
               /\ made' = made \cup {b}
               /\ mine' = [mine EXCEPT ![t] = b]
               /\ count' = [count EXCEPT ![b] = 0]
          /\ UNCHANGED free
    /\ UNCHANGED <<mutex, threads, queueVars, pushing, task, nulls, bounds>>

InPool(k) ==
    Cardinality({i \in DOMAIN queue : queue[i].kind = k})
      + Cardinality({t \in Threads : pushing[t].kind = k})
      + Cardinality({w \in Workers : task[w].kind = k})

\* Add comes before Push, so the batch counts a task before it can run.
AddAndPush(t, b, k) ==
    /\ submitted < MaxTasks
    /\ k # "plain" => InPool("adds") + InPool("batches") < MaxBlocking
    /\ Goto(t, "push")
    /\ pushing' = [pushing EXCEPT ![t] = [batch |-> b, kind |-> k]]
    /\ submitted' = submitted + 1
    /\ UNCHANGED <<mutex, threads, queueVars, free, made, mine, task, nulls, stops>>

\* Mutant: the task is counted when a worker takes it.
SubmitUncounted(t, b, k) == AddAndPush(t, b, k) /\ UNCHANGED count

Submit(t, b, k) == AddAndPush(t, b, k) /\ count' = [count EXCEPT ![b] = @ + 1]

\* JdTaskBatch::operator () from the thread that holds the batch,
SubmitToMine(t, k) ==
    /\ pc[t] = "open"
    /\ t \in Workers => k = "plain"         \* bound: one level of nesting
    /\ Submit(t, mine[t], k)

\* from a task that was given its batch,
SubmitToOwn(w) ==
    /\ pc[w] = "run" /\ task[w].kind = "adds"
    /\ Submit(w, task[w].batch, "plain")

\* and jd::task.
SubmitToGlobal(t) == t \in Clients /\ pc[t] = "idle" /\ Submit(t, Global, "plain")

-----------------------------------------------------------------------------
(* JdMessageQueue::Push.                                                    *)

\* A thread that is to push a task, or the null tasks of Stop.
Pushing(t) == pc[t] = "push" \/ (pc[t] = "nulls" /\ nulls > 0)

\* AcquireMessageSlot, if it does not find a slot at once.
JoinLine(t) ==
    /\ Pushing(t) /\ MayJoin(line, t, Len(queue), QueueSize)
    /\ line' = Joined(line, t)
    /\ UNCHANGED <<mutex, threads, queue, batchVars, pc, taskVars, nulls, bounds>>

WaitInLine(t) ==
    /\ line' \in Waits(line, t, Len(queue), QueueSize)
    /\ UNCHANGED <<mutex, threads, queue, batchVars, pc, taskVars, nulls, bounds>>

WakeInLine(t) ==
    /\ line' \in Wakes(line, t)
    /\ UNCHANGED <<mutex, threads, queue, batchVars, pc, taskVars, nulls, bounds>>

\* It has its slot; the message is written and committed.
Commit(t, m) ==
    /\ MayCommit(line, t, Len(queue), QueueSize)
    /\ line' = Committed(line)
    /\ queue' = Append(queue, m)

Push(t) ==
    /\ Commit(t, pushing[t])
    /\ Move(t, "push", IF mine[t] # None THEN "open" ELSE IF t \in Workers THEN "ran" ELSE "idle")
    /\ pushing' = [pushing EXCEPT ![t] = Null]
    /\ UNCHANGED <<mutex, threads, batchVars, mine, task, nulls, bounds>>

-----------------------------------------------------------------------------
FinishBatch(t) ==
    /\ Move(t, "open", "finish")
    /\ UNCHANGED <<mutex, threads, queueVars, batchVars, taskVars, nulls, bounds>>

\* WaitForCompletion: the count is tested under the batch's mutex.
TestCount(t) ==
    /\ pc[t] \in {"finish", "woken"}
    /\ Goto(t, IF count[mine[t]] = 0 THEN "release" ELSE "asleep")
    /\ UNCHANGED <<mutex, threads, queueVars, batchVars, taskVars, nulls, bounds>>

\* Mutant: "if" instead of "while": a wake-up for no reason is taken for the last one.
WakeUntested(t) ==
    /\ Move(t, "asleep", "release")
    /\ UNCHANGED <<mutex, threads, queueVars, batchVars, taskVars, nulls, bounds>>

WakeSpuriously(t) ==
    /\ Move(t, "asleep", "woken")
    /\ UNCHANGED <<mutex, threads, queueVars, batchVars, taskVars, nulls, bounds>>

ReleaseBatch(t) ==
    /\ mutex = None
    /\ Move(t, "release", IF t \in Workers THEN "ran" ELSE "idle")
    /\ free' = Append(free, mine[t])
    /\ mine' = [mine EXCEPT ![t] = None]
    /\ UNCHANGED <<mutex, threads, queueVars, made, count, pushing, task, nulls, bounds>>

-----------------------------------------------------------------------------
(* JdTaskThread::Run.                                                       *)

PopWait(w) ==
    /\ w \in Workers /\ queue # <<>>
    /\ Move(w, "pop", IF Head(queue).batch = None THEN "exited" ELSE "run")
    /\ task' = [task EXCEPT ![w] = Head(queue)]
    /\ queue' = Tail(queue) /\ line' = Notified(line)
    /\ UNCHANGED <<mutex, threads, batchVars, mine, pushing, nulls, bounds>>

RunTask(w) ==
    /\ task[w].kind # "batches"
    /\ Move(w, "run", "ran")
    /\ UNCHANGED <<mutex, threads, queueVars, batchVars, taskVars, nulls, bounds>>

\* The one that waits for batch b, if it sleeps.
Sleepers(b) == {t \in Threads : pc[t] = "asleep" /\ mine[t] = b}

RemoveNotifying(w, last) ==
    /\ pc[w] = "ran"
    /\ count' = [count EXCEPT ![task[w].batch] = @ - 1]
    /\ pc' = [t \in Threads |->
                IF t = w THEN "pop"
                ELSE IF count[task[w].batch] = last /\ t \in Sleepers(task[w].batch) THEN "woken"
                ELSE pc[t]]
    /\ task' = [task EXCEPT ![w] = Null]
    /\ UNCHANGED <<mutex, threads, queueVars, free, made, mine, pushing, nulls, bounds>>

\* Mutant: if (m_count-- == 0), the value before the decrement.
RemovePostDecrement(w) == RemoveNotifying(w, 0)

Remove(w) == RemoveNotifying(w, 1)

-----------------------------------------------------------------------------
(* Stop and Start.                                                          *)

StopPushing(t, n) ==
    /\ t \in Stoppers /\ mutex = None /\ stops < MaxStops
    /\ Move(t, "idle", "nulls")
    /\ mutex' = t
    /\ nulls' = n
    /\ stops' = stops + 1
    /\ UNCHANGED <<threads, queueVars, batchVars, taskVars, submitted>>

\* Mutant: for (i = 0; i <= m_threads.size (); ++i).
StopOneTooMany(t) == StopPushing(t, Cardinality(threads) + 1)

Stop(t) == StopPushing(t, Cardinality(threads))

\* Mutant: one null task for all the workers.
PushNullOnce(t) ==
    /\ nulls > 0 /\ Commit(t, Null)
    /\ pc[t] = "nulls" /\ UNCHANGED pc
    /\ nulls' = 0
    /\ UNCHANGED <<mutex, threads, batchVars, taskVars, bounds>>

PushNull(t) ==
    /\ nulls > 0 /\ Commit(t, Null)
    /\ pc[t] = "nulls" /\ UNCHANGED pc
    /\ nulls' = nulls - 1
    /\ UNCHANGED <<mutex, threads, batchVars, taskVars, bounds>>

AllPushed(t) ==
    /\ nulls = 0
    /\ Move(t, "nulls", "join")
    /\ UNCHANGED <<mutex, threads, queueVars, batchVars, taskVars, nulls, bounds>>

\* thread->Stop () and delete: of a worker that has gone home,
JoinWorker(t, w) ==
    /\ pc[t] = "join" /\ w \in threads /\ pc[w] = "exited"
    /\ threads' = threads \ {w}
    /\ UNCHANGED <<mutex, queueVars, batchVars, pc, taskVars, nulls, bounds>>

\* or of one that waits for others longer than Stop waits for it.  (A task that only
\* computes is taken to end in time.)
TimeUp(t, w) ==
    /\ pc[t] = "join" /\ w \in threads
    /\ \/ pc[w] \in {"push", "asleep", "release"}
       \/ pc[w] = "run" /\ task[w].kind = "batches"
    /\ Goto(t, "aborted")
    /\ UNCHANGED <<mutex, threads, queueVars, batchVars, taskVars, nulls, bounds>>

\* The free batches are deleted.
StopReturns(t) ==
    /\ threads = {}
    /\ Move(t, "join", "idle")
    /\ made' = {b \in made : \A i \in DOMAIN free : free[i] # b}
    /\ free' = <<>>
    /\ mutex' = None
    /\ UNCHANGED <<threads, queueVars, count, taskVars, nulls, bounds>>

Start(t) ==
    /\ t \in Clients /\ pc[t] = "idle" /\ mutex = None
    /\ threads = {}
    /\ threads' = Workers
    /\ pc' = [s \in Threads |-> IF s \in Workers THEN "pop" ELSE pc[s]]
    /\ task' = [s \in Threads |-> Null]
    /\ UNCHANGED <<mutex, queueVars, batchVars, mine, pushing, nulls, bounds>>

-----------------------------------------------------------------------------
\* The program has ended: in Stop, or writing to a null slot.
Aborted == SlotIsNull(line) \/ \E t \in Threads : pc[t] = "aborted"

\* What a thread does once it is in a call or a task.
Proceed(t) ==
    \/ JoinLine(t) \/ WaitInLine(t) \/ Push(t) \/ TestCount(t) \/ ReleaseBatch(t)
    \/ PopWait(t) \/ RunTask(t) \/ Remove(t)
    \/ PushNull(t) \/ AllPushed(t) \/ StopReturns(t)
    \/ \E w \in Workers : JoinWorker(t, w) \/ TimeUp(t, w)
    \/ t \in Workers /\ (CreateBatch(t) \/ SubmitToOwn(t) \/ FinishBatch(t))

\* What a caller of the pool chooses to do.
Call(t) ==
    \/ t \in Clients /\ (CreateBatch(t) \/ FinishBatch(t))
    \/ SubmitToGlobal(t) \/ Stop(t) \/ Start(t)
    \/ \E k \in Kinds : SubmitToMine(t, k)

Next ==
    /\ ~ Aborted
    /\ \E t \in Threads : Proceed(t) \/ Call(t) \/ WakeSpuriously(t) \/ WakeInLine(t)

Spec == Init /\ [][Next]_vars

\* Every thread inside a call or a task goes on when it can; callers need not call.
FairSpec == Spec /\ \A t \in Threads : WF_vars(~ Aborted /\ Proceed(t))

-----------------------------------------------------------------------------
NoTaskOf(b) ==
    /\ \A t \in Threads : pushing[t].batch # b /\ task[t].batch # b
    /\ \A j \in DOMAIN queue : queue[j].batch # b

\* When FinishBatch is done waiting every task of the batch has run.  And a batch that
\* CreateBatch may hand out again is nobody's: no task of it is queued or running, it counts
\* none, and it is in the list once and not deleted.
FinishedIsQuiet ==
    /\ \A t \in Threads : pc[t] = "release" => NoTaskOf(mine[t])
    /\ \A i \in DOMAIN free :
         /\ free[i] \in made /\ count[free[i]] = 0
         /\ \A j \in DOMAIN free : free[j] = free[i] => i = j
         /\ \A t \in Threads : mine[t] # free[i]
         /\ NoTaskOf(free[i])

\* Stop sends every worker home, and a pool that is started again after it, with the
\* tasks that were queued behind the null tasks, has all of its workers.
PoolIsWhole ==
    mutex = None =>
        /\ threads \in {{}, Workers}
        /\ \A w \in threads : pc[w] # "exited"
        /\ \A j \in DOMAIN queue : queue[j] # Null

\* Nobody is left asleep for ever beside a free slot, which the queue permits.
SleepersHear == []<>(~ Stranded(line, Len(queue), QueueSize))

\* FinishBatch returns, of clients and of tasks, as long as the pool is not stopped; also
\* when the pool has been stopped and started again since the call.  A push into the full
\* queue, of a task of the batch, may end the program, or sleep on.
Running == mutex = None /\ threads = Workers
FinishReturns ==
    SleepersHear =>
        \A t \in Threads :
            (Running /\ pc[t] \in {"finish", "asleep", "woken", "release"})
                ~> (~ Running \/ pc[t] \in {"idle", "ran"} \/ Aborted)

\* Stop returns, whatever is queued and submitted meanwhile, if no task waits for others,
\* and if no push into the full queue, of a null task or of others ahead of it, ends the
\* program or sleeps on.  (A task that waits for others can hang Stop: it needs m_mutex to
\* create a batch, or room in the queue, while Stop holds the one and waits for the other.)
StopEnds ==
    (SleepersHear /\ [](InPool("adds") + InPool("batches") = 0))
        => \A t \in Stoppers : (pc[t] = "nulls") ~> (pc[t] = "idle" \/ Aborted)
=============================================================================
