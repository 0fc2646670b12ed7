------------------------------ MODULE JdTasks -------------------------------
(***************************************************************************)
(* concurrent/JdMarshall.hpp: JdTasks, a thread that runs the calls that    *)
(* others marshall into its task queue and marshalls what they return into  *)
(* a reply queue, which the owner processes now and then, and in Stop.      *)
(*                                                                          *)
(* Both queues are bounded FIFO queues, as JdMessageQueueProofs shows of    *)
(* JdMessageQueue; who finds one full waits in its line (JdMessageSlots),   *)
(* and may be left asleep or end the program there.  ProcessQueue claims a  *)
(* batch, invokes it, and only then releases it: until then its messages    *)
(* take up their slots.  What the thread's JdThreadT does is as in          *)
(* JdThread: Stop waits for the thread, and a thread that does not leave in *)
(* time becomes a zombie.                                                   *)
(***************************************************************************)
EXTENDS JdMessageSlots, FiniteSets

CONSTANTS
    Owner,          \* the thread that starts, stops and processes replies
    Others,         \* other threads that call
    Thread,         \* the task thread
    TaskSize, ReplySize,    \* the slots of the two queues
    MaxCalls        \* bound: calls in a run

Callers == {Owner} \cup Others

\* A call of a function that returns nothing, of one whose result is replied, of one
\* that itself calls through the same JdTasks; and the call of Thread::Quit.
Kinds == {"plain", "asks", "calls"}
Quit == [id |-> 0, kind |-> "quit"]
Messages == [id : 1 .. MaxCalls, kind : Kinds] \cup {Quit}

ASSUME ThreadsAssumption == Owner \notin Others /\ Thread \notin Callers
ASSUME BoundsAssumption ==
    TaskSize \in Nat \ {0} /\ ReplySize \in Nat \ {0} /\ MaxCalls \in Nat

VARIABLES
    taskQueue, replyQueue,  \* messages committed and not released
    taskLine, replyLine,    \* who waits for a slot in them
    claimed, invoked,       \* of the thread's batch: how many, how many of them run
    taken, replied,         \* of the owner's batch of replies likewise
    quit,                   \* m_quit
    pc,                     \* where each thread is
    message,                \* what it is about to commit
    stopping,               \* whether the owner is in Stop
    calls,                  \* calls made
    sent, ran,              \* everything committed and run, in order,
    asked, handled          \*   the calls run whose results are replied, and the results handled

lineVars == <<taskLine, replyLine>>
queueVars == <<taskQueue, replyQueue, lineVars>>
batchVars == <<claimed, invoked>>
replyVars == <<taken, replied>>
history == <<sent, ran, asked, handled>>
vars == <<queueVars, batchVars, replyVars, quit, pc, message, stopping, calls, history>>

TasksTypeOK ==
    /\ taskQueue \in Seq(Messages) /\ Len(taskQueue) <= TaskSize
    /\ replyQueue \in Seq(1 .. MaxCalls) /\ Len(replyQueue) <= ReplySize
    /\ claimed \in 0 .. Len(taskQueue) /\ invoked \in 0 .. claimed
    /\ taken \in 0 .. Len(replyQueue) /\ replied \in 0 .. taken
    /\ quit \in BOOLEAN /\ stopping \in BOOLEAN
    /\ pc \in [Callers \cup {Thread} ->
                 {"idle", "commit", "replies", "wait", "stopped", "zombie",
                  "grab", "invoke", "reply", "exited"}]
    /\ message \in [Callers \cup {Thread} -> Messages]
    /\ calls \in 0 .. MaxCalls
    /\ sent \in Seq(Messages) /\ ran \in Seq(Messages)
    /\ asked \in Seq(1 .. MaxCalls) /\ handled \in Seq(1 .. MaxCalls)

LinesTypeOK == taskLine \in Lines(Callers \cup {Thread}) /\ replyLine \in Lines({Thread})

TypeOK == TasksTypeOK /\ LinesTypeOK

\* After Start.
Init ==
    /\ taskQueue = <<>> /\ replyQueue = <<>> /\ taskLine = <<>> /\ replyLine = <<>>
    /\ claimed = 0 /\ invoked = 0 /\ taken = 0 /\ replied = 0
    /\ quit = FALSE /\ stopping = FALSE
    /\ pc = [t \in Callers \cup {Thread} |-> IF t = Thread THEN "grab" ELSE "idle"]
    /\ message = [t \in Callers \cup {Thread} |-> Quit]
    /\ calls = 0
    /\ sent = <<>> /\ ran = <<>> /\ asked = <<>> /\ handled = <<>>

Move(t, from, to) == pc[t] = from /\ pc' = [pc EXCEPT ![t] = to]
Goto(t, to) == pc' = [pc EXCEPT ![t] = to]

-----------------------------------------------------------------------------
(* Marshalling a call: from a caller that has nothing else to do, from the  *)
(* handler of a reply, or from a running task.                              *)

Prepare(t, k) ==
    /\ calls < MaxCalls
    /\ calls' = calls + 1
    /\ message' = [message EXCEPT ![t] = [id |-> calls + 1, kind |-> k]]
    /\ Goto(t, "commit")

Call(t, k) ==
    /\ t \in Callers /\ pc[t] = "idle"
    /\ Prepare(t, k)
    /\ UNCHANGED <<queueVars, batchVars, replyVars, quit, stopping, history>>

\* AcquireMessageSlot, if there is no slot at once,
JoinLine(t) ==
    /\ pc[t] = "commit" /\ MayJoin(taskLine, t, Len(taskQueue), TaskSize)
    /\ taskLine' = Joined(taskLine, t)
    /\ UNCHANGED <<taskQueue, replyQueue, replyLine, batchVars, replyVars, quit, pc, message,
                   stopping, calls, history>>

WaitInLine(t) ==
    /\ taskLine' \in Waits(taskLine, t, Len(taskQueue), TaskSize)
    /\ UNCHANGED <<taskQueue, replyQueue, replyLine, batchVars, replyVars, quit, pc, message,
                   stopping, calls, history>>

\* and wherever a thread waits.
WakeInLine(t) ==
    /\ \/ taskLine' \in Wakes(taskLine, t) /\ UNCHANGED replyLine
       \/ replyLine' \in Wakes(replyLine, t) /\ UNCHANGED taskLine
    /\ UNCHANGED <<taskQueue, replyQueue, batchVars, replyVars, quit, pc, message, stopping,
                   calls, history>>

\* With its slot, the message is built and committed.
CommitTo(t, place) ==
    /\ MayCommit(taskLine, t, Len(taskQueue), TaskSize)
    /\ taskLine' = Committed(taskLine)
    /\ Move(t, "commit", place)
    /\ taskQueue' = Append(taskQueue, message[t])
    /\ sent' = Append(sent, message[t])
    /\ message' = [message EXCEPT ![t] = Quit]
    /\ UNCHANGED <<replyQueue, replyLine, batchVars, replyVars, quit, stopping, calls,
                   ran, asked, handled>>

\* The thread goes on with its batch, the owner with its replies or with Stop.
Commit(t) ==
    \/ t = Thread /\ CommitTo(t, "invoke")
    \/ t = Owner /\ taken > 0 /\ CommitTo(t, "replies")
    \/ t = Owner /\ taken = 0 /\ stopping /\ CommitTo(t, "wait")
    \/ t = Owner /\ taken = 0 /\ ~ stopping /\ CommitTo(t, "idle")
    \/ t \in Others /\ CommitTo(t, "idle")

-----------------------------------------------------------------------------
(* Thread::Run: ProcessQueue of the task queue, waiting, until m_quit.      *)

\* WaitForMessages: all there are, or, after having slept, the one it slept for.
Grab ==
    /\ taskQueue # <<>>
    /\ Move(Thread, "grab", "invoke")
    /\ claimed' \in {1, Len(taskQueue)}
    /\ UNCHANGED <<queueVars, invoked, replyVars, quit, message, stopping, calls, history>>

Current == taskQueue[invoked + 1]

\* m->invoke (m).  A reply, or a call from within, is committed before the next.
Invoke ==
    /\ pc[Thread] = "invoke" /\ invoked < claimed
    /\ invoked' = invoked + 1
    /\ ran' = Append(ran, Current)
    /\ asked' = IF Current.kind = "asks" THEN Append(asked, Current.id) ELSE asked
    /\ quit' = (quit \/ Current = Quit)
    /\ CASE Current.kind = "asks" ->
              /\ Goto(Thread, "reply")
              /\ message' = [message EXCEPT ![Thread] = Current]
              /\ UNCHANGED calls
         [] Current.kind = "calls" /\ calls < MaxCalls -> Prepare(Thread, "plain")
         [] OTHER -> UNCHANGED <<pc, message, calls>>
    /\ UNCHANGED <<queueVars, claimed, replyVars, stopping, sent, handled>>

JoinReplyLine ==
    /\ pc[Thread] = "reply" /\ MayJoin(replyLine, Thread, Len(replyQueue), ReplySize)
    /\ replyLine' = Joined(replyLine, Thread)
    /\ UNCHANGED <<taskQueue, replyQueue, taskLine, batchVars, replyVars, quit, pc, message,
                   stopping, calls, history>>

WaitInReplyLine ==
    /\ replyLine' \in Waits(replyLine, Thread, Len(replyQueue), ReplySize)
    /\ UNCHANGED <<taskQueue, replyQueue, taskLine, batchVars, replyVars, quit, pc, message,
                   stopping, calls, history>>

ReplyWhen(room) ==
    /\ room
    /\ replyLine' = Committed(replyLine)
    /\ Move(Thread, "reply", "invoke")
    /\ replyQueue' = Append(replyQueue, message[Thread].id)
    /\ message' = [message EXCEPT ![Thread] = Quit]
    /\ UNCHANGED <<taskQueue, taskLine, batchVars, replyVars, quit, stopping, calls, history>>

\* Mutant: the reply does not wait for a slot.
ReplyAtOnce == ReplyWhen(TRUE)

\* JdMarshallObj::Reply.
Reply == ReplyWhen(MayCommit(replyLine, Thread, Len(replyQueue), ReplySize))

EndBatch(released, leave) ==
    /\ invoked = claimed
    /\ Move(Thread, "invoke", IF leave THEN "exited" ELSE "grab")
    /\ taskQueue' = SubSeq(taskQueue, released + 1, Len(taskQueue))
    /\ taskLine' = Notified(taskLine)
    /\ claimed' = 0 /\ invoked' = 0
    /\ UNCHANGED <<replyQueue, replyLine, replyVars, quit, message, stopping, calls, history>>

\* Mutant: ReleaseMessage () instead of ReleaseMessages (numMessages).
ReleaseOne == EndBatch(1, quit)

\* ReleaseMessages, and the loop's test.
Release == EndBatch(claimed, quit)

-----------------------------------------------------------------------------
(* The owner: ProcessReplies and Stop.                                      *)

Lesser(a, b) == IF a < b THEN a ELSE b

\* ClaimMessages does not wait.
ClaimReplies(max) ==
    /\ taken' = Lesser(max, Len(replyQueue))
    /\ UNCHANGED <<queueVars, batchVars, replied, quit, message, calls, history>>

ProcessReplies ==
    /\ Move(Owner, "idle", "replies")
    /\ \E max \in 1 .. ReplySize : ClaimReplies(max)
    /\ UNCHANGED stopping

\* The owner's reply function, which may call again.  (In Stop it is taken not to.)
HandleReply ==
    /\ pc[Owner] = "replies" /\ replied < taken
    /\ replied' = replied + 1
    /\ handled' = Append(handled, replyQueue[replied + 1])
    /\ \/ UNCHANGED <<pc, message, calls>>
       \/ ~ stopping /\ \E k \in Kinds : Prepare(Owner, k)
    /\ UNCHANGED <<queueVars, batchVars, taken, quit, stopping, sent, ran, asked>>

EndReplies(released) ==
    /\ replied = taken
    /\ Move(Owner, "replies", IF stopping THEN "stopped" ELSE "idle")
    /\ replyQueue' = SubSeq(replyQueue, released + 1, Len(replyQueue))
    /\ replyLine' = Notified(replyLine)
    /\ taken' = 0 /\ replied' = 0
    /\ UNCHANGED <<taskQueue, taskLine, batchVars, quit, message, stopping, calls, history>>

\* Mutant: what was asked for is released instead of what was there.
ReleaseAsked == EndReplies(Lesser(ReplySize, Len(replyQueue)))

ReleaseReplies == EndReplies(taken)

\* Mutant: Break only sets m_quit.
StopSilently ==
    /\ Move(Owner, "idle", "wait")
    /\ stopping' = TRUE
    /\ quit' = TRUE
    /\ UNCHANGED <<queueVars, batchVars, replyVars, message, calls, history>>

\* Mutant: Break sets m_quit itself, and sends an empty message to wake the thread.
StopAtOnce ==
    /\ Move(Owner, "idle", "commit")
    /\ stopping' = TRUE
    /\ quit' = TRUE
    /\ message' = [message EXCEPT ![Owner] = Quit]
    /\ UNCHANGED <<queueVars, batchVars, replyVars, calls, history>>

\* JdThreadT::Stop calls Break, which marshalls a call of Quit.
Stop ==
    /\ Move(Owner, "idle", "commit")
    /\ stopping' = TRUE
    /\ message' = [message EXCEPT ![Owner] = Quit]
    /\ UNCHANGED <<queueVars, batchVars, replyVars, quit, calls, history>>

\* Mutant: Stop does not process the replies.
JoinOnly ==
    /\ pc[Thread] = "exited"
    /\ Move(Owner, "wait", "stopped")
    /\ UNCHANGED <<queueVars, batchVars, replyVars, quit, message, stopping, calls, history>>

\* The thread has exited and is joined; ProcessReplies.
Join ==
    /\ pc[Thread] = "exited"
    /\ Move(Owner, "wait", "replies")
    /\ ClaimReplies(ReplySize)
    /\ UNCHANGED stopping

\* Or it sleeps in a line for longer than Stop waits for it.  (A function that only
\* computes is taken to return in time.)
TimeUp ==
    /\ Sleeps(taskLine, Thread) \/ Sleeps(replyLine, Thread)
    /\ Move(Owner, "wait", "zombie")
    /\ UNCHANGED <<queueVars, batchVars, replyVars, quit, message, stopping, calls, history>>

-----------------------------------------------------------------------------
\* A program ends that writes to a null slot.
Crashed == SlotIsNull(taskLine) \/ SlotIsNull(replyLine)

\* (What comes after a zombie is JdThread's.)
Goes == ~ Crashed /\ pc[Owner] # "zombie"

Marshall(t) == JoinLine(t) \/ WaitInLine(t) \/ Commit(t)
ThreadStep ==
    \/ Marshall(Thread) \/ JoinReplyLine \/ WaitInReplyLine \/ Reply
    \/ Grab \/ Invoke \/ Release
OwnerStep == Marshall(Owner) \/ HandleReply \/ ReleaseReplies \/ Join \/ TimeUp

Next ==
    /\ Goes
    /\ \/ ThreadStep \/ OwnerStep
       \/ ProcessReplies \/ Stop
       \/ \E t \in Callers \cup {Thread} : WakeInLine(t)
       \/ \E t \in Callers : (t \in Others /\ Marshall(t)) \/ \E k \in Kinds : Call(t, k)

Spec == Init /\ [][Next]_vars

\* Each thread goes on with what it is in; nobody need call, stop or process replies.
FairSpec ==
    /\ Spec
    /\ WF_vars(Goes /\ ThreadStep) /\ WF_vars(Goes /\ OwnerStep)
    /\ \A t \in Others : WF_vars(Goes /\ Marshall(t))

-----------------------------------------------------------------------------
\* What is run is run once and in the order in which it was committed.
RunsInOrder == Len(ran) <= Len(sent) /\ \A i \in DOMAIN ran : ran[i] = sent[i]

\* Each result is handled once, in the order of the calls, and after its call has run.
RepliesInOrder ==
    Len(handled) <= Len(asked) /\ \A i \in DOMAIN handled : handled[i] = asked[i]

\* Stop drains: all that was sent before it has been run, and all results handled.
StopDrains ==
    pc[Owner] = "stopped" =>
        /\ \A i \in DOMAIN sent :
             (\E j \in i .. Len(sent) : sent[j] = Quit) => i \in DOMAIN ran
        /\ Len(handled) = Len(asked)

\* Results that are still to be handled, of calls that are sent or about to be.
Outstanding ==
    Cardinality({i \in DOMAIN sent : sent[i].kind = "asks"})
      + Cardinality({t \in Callers : pc[t] = "commit" /\ message[t].kind = "asks"})
      - (Len(handled) - replied)

\* As long as the owner never asks for more results at once than the reply queue holds,
\* no function calls back into its own queue, and nobody is left asleep for ever beside a
\* free slot, every call is sent and every message sent is run, unless Quit overtakes it,
\* and Stop returns; or the program ends with a null slot.  (Otherwise owner and thread may
\* wait for each other for ever, each in front of a full queue.)
Considerate == Outstanding <= ReplySize /\ \A i \in DOMAIN sent : sent[i].kind # "calls"
SleepersHear ==
    []<>(~ Stranded(taskLine, Len(taskQueue), TaskSize)
           /\ ~ Stranded(replyLine, Len(replyQueue), ReplySize))

NobodyIsStuck ==
    ([]Considerate /\ SleepersHear) =>
        /\ \A t \in Callers :
             (pc[t] = "commit") ~> (pc[t] # "commit" \/ pc[Thread] = "exited" \/ Crashed)
        /\ \A n \in 1 .. MaxCalls + 1 :
             (Len(sent) >= n) ~> (Len(ran) >= n \/ pc[Thread] = "exited" \/ Crashed)
        /\ stopping ~> (pc[Owner] = "stopped" \/ Crashed)
=============================================================================
