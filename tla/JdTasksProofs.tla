--------------------------- MODULE JdTasksProofs ----------------------------
(***************************************************************************)
(* That JdTasks runs what is marshalled once and in order, answers it once  *)
(* and in order, and drains both queues in Stop, for any number of callers, *)
(* slots and calls.                                                         *)
(*                                                                          *)
(* The invariant says where the next message to run is: the unreleased      *)
(* messages of the task queue are the last that were sent, and the part of  *)
(* the batch that has been invoked is the last that was run (Window).  The  *)
(* same of the replies, but that the last result asked for may still be     *)
(* with the thread (Answers).  And Quit is sent once, by Stop, so that a    *)
(* thread that has left has run all that was sent before it (Quits).        *)
(***************************************************************************)
EXTENDS JdTasks, TLAPS

\* The messages released.
Past == Len(ran) - invoked

Window ==
    /\ Past \in Nat
    /\ Len(sent) = Past + Len(taskQueue)
    /\ \A i \in 1 .. Len(taskQueue) : sent[Past + i] = taskQueue[i]

\* What the thread is about to reply to is a call.
Replying == pc[Thread] = "reply" => message[Thread].id \in 1 .. MaxCalls

\* Between two batches nothing is claimed.
Idle ==
    /\ pc[Thread] \in {"grab", "exited"} => claimed = 0 /\ invoked = 0
    /\ pc[Owner] \in {"idle", "wait"} => taken = 0 /\ replied = 0

IInv == TasksTypeOK /\ Window /\ RunsInOrder /\ Idle /\ Replying

\* The results released.
Gone == Len(handled) - replied

Answers ==
    /\ Gone \in Nat
    /\ Len(asked) = Gone + Len(replyQueue) + (IF pc[Thread] = "reply" THEN 1 ELSE 0)
    /\ \A i \in 1 .. Len(replyQueue) : asked[Gone + i] = replyQueue[i]
    /\ pc[Thread] = "reply" => asked[Len(asked)] = message[Thread].id

\* Quit is sent by Stop alone, and once; the thread leaves when it has run it; and
\* the last ProcessReplies takes all there are.
Quits ==
    /\ stopping => pc[Owner] \in {"commit", "wait", "replies", "stopped", "zombie"}
    /\ stopping /\ pc[Owner] = "commit" => message[Owner] = Quit /\ taken = 0
    /\ \A t \in Callers \cup {Thread} :
         pc[t] = "commit" /\ message[t] = Quit => t = Owner /\ stopping
    /\ \A i \in DOMAIN sent : sent[i] = Quit =>
         /\ stopping /\ pc[Owner] # "commit"
         /\ \A j \in DOMAIN sent : sent[j] = Quit => i = j
    /\ quit => \E j \in DOMAIN ran : ran[j] = Quit
    /\ pc[Thread] = "exited" => quit
    /\ pc[Owner] = "replies" /\ stopping => pc[Thread] = "exited" /\ taken = Len(replyQueue)
    /\ pc[Owner] = "stopped" =>
         pc[Thread] = "exited" /\ Len(replyQueue) = 0 /\ taken = 0 /\ replied = 0

USE ThreadsAssumption, BoundsAssumption
USE DEF Callers

LEMMA SequenceAppend ==
    ASSUME NEW S, NEW q \in Seq(S), NEW x \in S, NEW r, r = Append(q, x)
    PROVE  /\ r \in Seq(S) /\ Len(r) = Len(q) + 1 /\ r[Len(q) + 1] = x
           /\ \A i \in 1 .. Len(q) : r[i] = q[i]
OBVIOUS

LEMMA Initially == Init => IInv
<1> SUFFICES ASSUME Init PROVE IInv
  OBVIOUS
<1> USE DEF Init
<1>1. TasksTypeOK
  <2>1. Quit \in Messages
    BY DEF Messages
  <2>2. taskQueue = <<>> /\ replyQueue = <<>> /\ Len(taskQueue) = 0 /\ Len(replyQueue) = 0
    OBVIOUS
  <2>3. claimed \in 0 .. Len(taskQueue) /\ taken \in 0 .. Len(replyQueue)
    BY <2>2
  <2>4. /\ sent \in Seq(Messages) /\ ran \in Seq(Messages)
        /\ asked \in Seq(1 .. MaxCalls) /\ handled \in Seq(1 .. MaxCalls)
    OBVIOUS
  <2>5. /\ pc \in [Callers \cup {Thread} -> {"idle", "grab"}]
        /\ message \in [Callers \cup {Thread} -> Messages]
    BY <2>1
  <2>6. calls \in 0 .. MaxCalls /\ Len(taskQueue) <= TaskSize /\ Len(replyQueue) <= ReplySize
    BY <2>2
  <2>7. invoked \in 0 .. claimed /\ replied \in 0 .. taken
    OBVIOUS
  <2> HIDE DEF Init, Callers
  <2>8. taskQueue \in Seq(Messages) /\ replyQueue \in Seq(1 .. MaxCalls)
    BY <2>2
  <2>9. quit \in BOOLEAN /\ stopping \in BOOLEAN
    BY DEF Init
  <2> QED
    BY <2>3, <2>4, <2>5, <2>6, <2>7, <2>8, <2>9 DEF TasksTypeOK
<1>2. Window /\ RunsInOrder /\ Idle /\ Replying
  BY DEF Window, RunsInOrder, Past, Idle, Replying
<1> QED
  BY <1>1, <1>2 DEF IInv

\* What concerns the queue alone.
Unmoved == UNCHANGED <<taskQueue, batchVars, sent, ran>>

LEMMA WindowUnmoved == IInv /\ Unmoved => Window' /\ RunsInOrder'
  BY DEF IInv, Unmoved, batchVars, Window, RunsInOrder, Past

LEMMA PrepareStep ==
    ASSUME TasksTypeOK, NEW t \in Callers \cup {Thread}, NEW k \in Kinds, Prepare(t, k)
    PROVE  /\ calls' \in 0 .. MaxCalls
           /\ pc' \in [Callers \cup {Thread} ->
                 {"idle", "commit", "replies", "wait", "stopped", "zombie",
                  "grab", "invoke", "reply", "exited"}]
           /\ message' \in [Callers \cup {Thread} -> Messages]
<1>1. calls + 1 \in 1 .. MaxCalls /\ calls' = calls + 1
  BY DEF Prepare, TasksTypeOK
<1>2. [id |-> calls + 1, kind |-> k] \in Messages
  BY <1>1 DEF Messages
<1> QED
  BY <1>1, <1>2 DEF Prepare, Goto, TasksTypeOK

LEMMA CallStep ==
    ASSUME IInv, NEW t \in Callers, NEW k \in Kinds, Call(t, k)
    PROVE  IInv'
<1>1. TasksTypeOK'
  BY PrepareStep DEF IInv, TasksTypeOK, Call, queueVars, batchVars, replyVars, history
<1>2. Unmoved
  BY DEF Call, Unmoved, queueVars, batchVars, history
<1>3. Idle' /\ Replying'
  BY DEF IInv, TasksTypeOK, Idle, Replying, Call, Prepare, Goto, batchVars, replyVars
<1> QED
  BY <1>1, <1>2, <1>3, WindowUnmoved DEF IInv

LEMMA CommitStep ==
    ASSUME IInv, NEW t \in Callers \cup {Thread}, Commit(t)
    PROVE  IInv'
<1> DEFINE m == message[t]
<1>1. PICK place \in {"invoke", "replies", "wait", "idle"} :
        /\ CommitTo(t, place)
        /\ place \in {"idle", "wait"} /\ t = Owner => taken = 0
  BY DEF Commit
<1>2. m \in Messages
  BY DEF IInv, TasksTypeOK
<1>3. /\ taskQueue' = Append(taskQueue, m) /\ sent' = Append(sent, m)
      /\ Len(taskQueue) < TaskSize
      /\ UNCHANGED <<batchVars, ran>>
  BY <1>1 DEF CommitTo, MayCommit
<1>4. taskQueue \in Seq(Messages) /\ sent \in Seq(Messages)
  BY DEF IInv, TasksTypeOK
<1> HIDE DEF m
<1>5. /\ taskQueue' \in Seq(Messages) /\ Len(taskQueue') = Len(taskQueue) + 1
      /\ sent' \in Seq(Messages) /\ Len(sent') = Len(sent) + 1
  BY <1>2, <1>3, <1>4
<1>6. TasksTypeOK'
  <2>1. /\ claimed' \in 0 .. Len(taskQueue') /\ invoked' \in 0 .. claimed'
        /\ Len(taskQueue') <= TaskSize
    BY <1>3, <1>4, <1>5 DEF IInv, TasksTypeOK, batchVars
  <2>2. /\ pc' = [pc EXCEPT ![t] = place]
        /\ message' = [message EXCEPT ![t] = Quit]
        /\ UNCHANGED <<replyQueue, batchVars, replyVars, quit, stopping, calls, ran, asked, handled>>
    BY <1>1 DEF CommitTo, Move
  <2> QED
    BY <1>5, <2>1, <2>2 DEF IInv, TasksTypeOK, replyVars, batchVars, Messages
<1>7. Window'
  <2>1. Past' = Past /\ Past \in Nat
    BY <1>3 DEF IInv, Window, Past, batchVars
  <2>2. Len(sent) = Past + Len(taskQueue) /\ Len(sent') = Past + Len(taskQueue')
    BY <1>4, <1>5, <2>1 DEF IInv, Window
  <2>3. ASSUME NEW i \in 1 .. Len(taskQueue') PROVE sent'[Past + i] = taskQueue'[i]
    <3>1. CASE i = Len(taskQueue) + 1
      BY <1>2, <1>3, <1>4, <1>5, <2>1, <2>2, <3>1
    <3>2. CASE i \in 1 .. Len(taskQueue)
      <4>1. sent[Past + i] = taskQueue[i]
        BY <3>2 DEF IInv, Window
      <4> QED
        BY <1>2, <1>3, <1>4, <2>1, <2>2, <3>2, <4>1
    <3> QED
      BY <1>4, <1>5, <3>1, <3>2
  <2> QED
    BY <2>1, <2>2, <2>3 DEF Window
<1>8. RunsInOrder'
  BY <1>3, <1>4, <1>5 DEF IInv, TasksTypeOK, RunsInOrder
<1>9. Idle' /\ Replying'
  <2>1. place \in {"idle", "wait"} /\ t = Owner => taken = 0 /\ replied = 0
    <3>1. taken \in Nat /\ replied \in 0 .. taken
      BY <1>4 DEF IInv, TasksTypeOK
    <3> QED
      BY <1>1, <3>1
  <2> QED
    BY <1>1, <2>1 DEF IInv, TasksTypeOK, Idle, Replying, CommitTo, Move, batchVars, replyVars
<1> QED
  BY <1>6, <1>7, <1>8, <1>9 DEF IInv

LEMMA GrabStep == IInv /\ Grab => IInv'
<1> SUFFICES ASSUME IInv, Grab PROVE IInv'
  OBVIOUS
<1> USE DEF IInv, Grab, queueVars, history
<1>1. taskQueue \in Seq(Messages) /\ taskQueue' = taskQueue /\ invoked' = invoked
  BY DEF TasksTypeOK
<1>2. Len(taskQueue) \in Nat \ {0}
  BY <1>1
<1>3. claimed' \in 1 .. Len(taskQueue)
  BY <1>2
<1>4. invoked = 0
  BY DEF Idle, Move
<1>5. claimed' \in 0 .. Len(taskQueue') /\ invoked' \in 0 .. claimed'
  BY <1>1, <1>2, <1>3, <1>4
<1>6. TasksTypeOK'
  BY <1>5 DEF TasksTypeOK, Move, replyVars
<1>7. Window' /\ RunsInOrder' /\ Idle' /\ Replying'
  BY DEF Window, RunsInOrder, Past, Idle, Replying, Move, TasksTypeOK, replyVars
<1> QED
  BY <1>6, <1>7

LEMMA InvokeStep == IInv /\ Invoke => IInv'
<1> SUFFICES ASSUME IInv, Invoke PROVE IInv'
  OBVIOUS
<1>1. /\ invoked \in Nat /\ invoked + 1 <= claimed /\ claimed <= Len(taskQueue)
      /\ invoked' = invoked + 1 /\ claimed' = claimed
      /\ taskQueue' = taskQueue /\ sent' = sent
      /\ ran' = Append(ran, Current)
  BY DEF IInv, TasksTypeOK, Invoke, queueVars
<1>2. taskQueue \in Seq(Messages) /\ sent \in Seq(Messages) /\ ran \in Seq(Messages)
  BY DEF IInv, TasksTypeOK
<1>0. invoked + 1 \in 1 .. Len(taskQueue) /\ Len(ran) \in Nat
  <2>1. Len(taskQueue) \in Nat /\ claimed \in Nat
    BY <1>2 DEF IInv, TasksTypeOK
  <2> QED
    BY <1>1, <1>2, <2>1
<1>3. Current \in Messages /\ Current = taskQueue[invoked + 1]
  BY <1>0, <1>2 DEF Current
<1>4. Current = sent[Len(ran) + 1] /\ Len(ran) + 1 <= Len(sent)
  <2>1. sent[Past + (invoked + 1)] = taskQueue[invoked + 1]
    BY <1>0 DEF IInv, Window
  <2>2. Past + (invoked + 1) = Len(ran) + 1
    BY <1>0, <1>1 DEF Past
  <2>3. Len(sent) = Past + Len(taskQueue) /\ Past \in Nat
    BY DEF IInv, Window
  <2> QED
    BY <1>0, <1>1, <1>2, <1>3, <2>1, <2>2, <2>3
<1>5. ran' \in Seq(Messages) /\ Len(ran') = Len(ran) + 1
  BY <1>1, <1>2, <1>3
<1>6. RunsInOrder'
  BY <1>1, <1>2, <1>4, <1>5 DEF IInv, RunsInOrder
<1>7. Window'
  <2>1. Past' = Past
    BY <1>0, <1>1, <1>5 DEF Past
  <2> QED
    BY <1>1, <2>1 DEF IInv, Window
<1>8. TasksTypeOK'
  <2>1. /\ pc' \in [Callers \cup {Thread} ->
                 {"idle", "commit", "replies", "wait", "stopped", "zombie",
                  "grab", "invoke", "reply", "exited"}]
        /\ message' \in [Callers \cup {Thread} -> Messages]
        /\ calls' \in 0 .. MaxCalls
    <3>1. CASE Current.kind = "asks"
      BY <3>1, <1>3 DEF IInv, TasksTypeOK, Invoke, Goto
    <3>2. CASE Current.kind = "calls" /\ calls < MaxCalls
      <4>1. Prepare(Thread, "plain")
        BY <3>2 DEF Invoke
      <4> QED
        BY <4>1, PrepareStep DEF IInv, Kinds
    <3>3. CASE Current.kind # "asks" /\ ~ (Current.kind = "calls" /\ calls < MaxCalls)
      BY <3>3 DEF IInv, TasksTypeOK, Invoke
    <3> QED
      BY <3>1, <3>2, <3>3
  <2>2. quit' \in BOOLEAN
    BY DEF Invoke, IInv, TasksTypeOK
  <2>3. claimed' \in 0 .. Len(taskQueue') /\ invoked' \in 0 .. claimed'
    BY <1>1, <1>2 DEF IInv, TasksTypeOK
  <2>4. UNCHANGED <<queueVars, replyVars, stopping, sent, handled>>
    BY DEF Invoke
  <2>5. asked' \in Seq(1 .. MaxCalls)
    <3>1. Current.kind = "asks" => Current.id \in 1 .. MaxCalls
      BY <1>3 DEF Messages, Quit
    <3>2. asked \in Seq(1 .. MaxCalls)
      BY DEF IInv, TasksTypeOK
    <3>3. asked' = IF Current.kind = "asks" THEN Append(asked, Current.id) ELSE asked
      BY DEF Invoke
    <3>4. CASE Current.kind = "asks"
      BY <3>1, <3>2, <3>3, <3>4, SequenceAppend, Zenon
    <3>5. CASE Current.kind # "asks"
      BY <3>2, <3>3, <3>5
    <3> QED
      BY <3>4, <3>5
  <2> QED
    BY <1>5, <2>1, <2>2, <2>3, <2>4, <2>5 DEF IInv, TasksTypeOK, queueVars, replyVars
<1>9. Idle' /\ Replying'
  <2>1. CASE Current.kind = "asks"
    <3>1. Current.id \in 1 .. MaxCalls
      BY <1>3, <2>1 DEF Messages, Quit
    <3> QED
      BY <2>1, <3>1 DEF IInv, TasksTypeOK, Idle, Replying, Invoke, Goto, replyVars
  <2>2. CASE Current.kind # "asks"
    <3>1. pc' = pc \/ pc' = [pc EXCEPT ![Thread] = "commit"]
      BY <2>2 DEF Invoke, Prepare, Goto
    <3> QED
      BY <3>1 DEF IInv, TasksTypeOK, Idle, Replying, Invoke, replyVars
  <2> QED
    BY <2>1, <2>2
<1> QED
  BY <1>6, <1>7, <1>8, <1>9 DEF IInv

LEMMA ReplyStep == IInv /\ Reply => IInv'
<1> SUFFICES ASSUME IInv, Reply PROVE IInv'
  OBVIOUS
<1> USE DEF Reply, ReplyWhen
<1>1. Unmoved
  BY DEF Unmoved, history
<1>2. TasksTypeOK'
  <2>1. message[Thread].id \in 1 .. MaxCalls
    BY DEF IInv, Replying, Move
  <2>2. replyQueue \in Seq(1 .. MaxCalls)
    BY DEF IInv, TasksTypeOK
  <2>3. replyQueue' \in Seq(1 .. MaxCalls) /\ Len(replyQueue') = Len(replyQueue) + 1
    BY <2>1, <2>2
  <2>4. taken' \in 0 .. Len(replyQueue') /\ replied' \in 0 .. taken' /\ Len(replyQueue') <= ReplySize
    BY <2>2, <2>3 DEF IInv, TasksTypeOK, replyVars, MayCommit
  <2> QED
    BY <2>3, <2>4 DEF IInv, TasksTypeOK, Move, batchVars, replyVars, history, Messages
<1>3. Idle' /\ Replying'
  BY DEF IInv, TasksTypeOK, Idle, Replying, Move, batchVars, replyVars
<1> QED
  BY <1>1, <1>2, <1>3, WindowUnmoved DEF IInv

LEMMA ReleaseStep == IInv /\ Release => IInv'
<1> SUFFICES ASSUME IInv, Release PROVE IInv'
  OBVIOUS
<1> USE DEF Release, EndBatch
<1> DEFINE n == claimed
<1>1. /\ taskQueue' = SubSeq(taskQueue, n + 1, Len(taskQueue))
      /\ invoked = n /\ invoked' = 0 /\ claimed' = 0
      /\ sent' = sent /\ ran' = ran
  BY DEF history
<1>2. taskQueue \in Seq(Messages) /\ n \in 0 .. Len(taskQueue) /\ ran \in Seq(Messages)
  BY DEF IInv, TasksTypeOK
<1> HIDE DEF n
<1>3. Len(taskQueue) \in Nat /\ n \in Nat /\ n <= Len(taskQueue) /\ Len(ran) \in Nat
  BY <1>2
<1>4. /\ taskQueue' \in Seq(Messages) /\ Len(taskQueue') = Len(taskQueue) - n
      /\ \A i \in 1 .. Len(taskQueue') : taskQueue'[i] = taskQueue[n + i]
  BY <1>1, <1>2, <1>3
<1>5. TasksTypeOK'
  <2>1. claimed' \in 0 .. Len(taskQueue') /\ invoked' \in 0 .. claimed'
    BY <1>1, <1>3, <1>4
  <2>2. Len(taskQueue) <= TaskSize
    BY DEF IInv, TasksTypeOK
  <2>3. Len(taskQueue') <= TaskSize
    BY <1>3, <1>4, <2>2
  <2> QED
    BY <1>4, <2>1, <2>3 DEF IInv, TasksTypeOK, Move, replyVars, history
<1>6. Window'
  <2>1. Past' = Past + n /\ Past \in Nat /\ Len(sent) = Past + Len(taskQueue)
    BY <1>1, <1>3 DEF IInv, Window, Past
  <2>2. ASSUME NEW i \in 1 .. Len(taskQueue') PROVE sent'[Past' + i] = taskQueue'[i]
    <3>1. n + i \in 1 .. Len(taskQueue)
      BY <1>3, <1>4
    <3>2. sent[Past + (n + i)] = taskQueue[n + i]
      BY <3>1 DEF IInv, Window
    <3>3. Past + (n + i) = Past' + i
      BY <1>3, <2>1
    <3> QED
      BY <1>1, <1>4, <3>2, <3>3
  <2>3. Past + n \in Nat /\ Len(sent) = (Past + n) + (Len(taskQueue) - n)
    BY <1>3, <2>1
  <2>4. Past' \in Nat
    BY <2>1, <2>3
  <2>5. Len(sent') = Past' + Len(taskQueue')
    <3>1. Len(sent') = Len(sent)
      BY <1>1
    <3>2. Past' = Past + n
      BY <2>1
    <3>3. Len(taskQueue') = Len(taskQueue) - n
      BY <1>4
    <3> QED
      BY <2>3, <3>1, <3>2, <3>3, Zenon
  <2> QED
    BY <2>2, <2>4, <2>5 DEF Window
<1>7. RunsInOrder'
  BY <1>1 DEF IInv, RunsInOrder
<1>8. Idle' /\ Replying'
  BY <1>1 DEF IInv, TasksTypeOK, Idle, Replying, Move, replyVars
<1> QED
  BY <1>5, <1>6, <1>7, <1>8 DEF IInv

LEMMA OwnerStepKeeps ==
    IInv /\ (ProcessReplies \/ HandleReply \/ ReleaseReplies \/ Stop \/ Join \/ TimeUp) => IInv'
<1> SUFFICES ASSUME IInv,
                    ProcessReplies \/ HandleReply \/ ReleaseReplies \/ Stop \/ Join \/ TimeUp
             PROVE  IInv'
  OBVIOUS
<1> USE DEF queueVars, batchVars, history
<1>0. TasksTypeOK /\ replyQueue \in Seq(1 .. MaxCalls) /\ Len(replyQueue) \in Nat
  BY DEF IInv, TasksTypeOK
<1>1. Unmoved
  BY DEF Unmoved, ProcessReplies, ClaimReplies, HandleReply, ReleaseReplies, EndReplies,
         Stop, Join, TimeUp
<1>2. /\ UNCHANGED pc[Thread] /\ UNCHANGED message[Thread] /\ UNCHANGED <<claimed, invoked>>
      /\ pc'[Owner] \in {"idle", "wait"} => taken' = 0 /\ replied' = 0
  BY <1>0 DEF IInv, Idle, TasksTypeOK, ProcessReplies, ClaimReplies, HandleReply, Prepare, Goto,
         ReleaseReplies, EndReplies, Stop, Join, TimeUp, Move, replyVars
<1>3. Idle' /\ Replying'
  BY <1>2 DEF IInv, Idle, Replying
<1>4. ASSUME NEW max \in Nat, ClaimReplies(max), pc[Owner] \in {"idle", "wait"}
      PROVE  taken' \in 0 .. Len(replyQueue') /\ replied' \in 0 .. taken'
  <2>1. taken' \in 0 .. Len(replyQueue) /\ replied' = 0 /\ replyQueue' = replyQueue
    BY <1>0, <1>4 DEF ClaimReplies, Lesser, IInv, Idle
  <2> QED
    BY <2>1
<1>5. TasksTypeOK'
  <2>1. CASE ProcessReplies
    <3>1. PICK max \in Nat : ClaimReplies(max)
      BY <2>1 DEF ProcessReplies
    <3>2. taken' \in 0 .. Len(replyQueue') /\ replied' \in 0 .. taken'
      BY <1>4, <2>1, <3>1 DEF ProcessReplies, Move
    <3> QED
      BY <1>0, <2>1, <3>1, <3>2 DEF TasksTypeOK, ProcessReplies, ClaimReplies, Move
  <2>2. CASE Join
    <3>1. taken' \in 0 .. Len(replyQueue') /\ replied' \in 0 .. taken'
      BY <1>4, <2>2 DEF Join, Move
    <3> QED
      BY <1>0, <2>2, <3>1 DEF TasksTypeOK, Join, ClaimReplies, Move
  <2>3. CASE HandleReply
    <3>1. replied' \in 0 .. taken' /\ taken' \in 0 .. Len(replyQueue') /\ replied + 1 \in 1 .. Len(replyQueue)
      BY <1>0, <2>3 DEF TasksTypeOK, HandleReply
    <3>2. handled' \in Seq(1 .. MaxCalls)
      <4>1. replyQueue[replied + 1] \in 1 .. MaxCalls /\ handled \in Seq(1 .. MaxCalls)
        <5>1. replied + 1 \in 1 .. Len(replyQueue)
          BY <3>1
        <5>2. ASSUME NEW S, NEW q \in Seq(S), NEW i \in 1 .. Len(q) PROVE q[i] \in S
          OBVIOUS
        <5>3. replyQueue[replied + 1] \in 1 .. MaxCalls
          BY <1>0, <5>1, <5>2, Zenon
        <5> QED
          BY <1>0, <5>3 DEF TasksTypeOK
      <4>2. handled' = Append(handled, replyQueue[replied + 1])
        BY <2>3 DEF HandleReply
      <4> QED
        BY <4>1, <4>2
    <3>3. CASE UNCHANGED <<pc, message, calls>>
      BY <1>0, <2>3, <3>1, <3>2, <3>3 DEF TasksTypeOK, HandleReply
    <3>4. CASE \E k \in Kinds : Prepare(Owner, k)
      BY <1>0, <2>3, <3>1, <3>2, <3>4, PrepareStep DEF TasksTypeOK, HandleReply
    <3> QED
      BY <2>3, <3>3, <3>4 DEF HandleReply
  <2>4. CASE ReleaseReplies
    <3>1. /\ replyQueue' = SubSeq(replyQueue, taken + 1, Len(replyQueue))
          /\ taken \in 0 .. Len(replyQueue) /\ taken' = 0 /\ replied' = 0
      BY <1>0, <2>4 DEF TasksTypeOK, ReleaseReplies, EndReplies
    <3>2. replyQueue' \in Seq(1 .. MaxCalls) /\ Len(replyQueue') = Len(replyQueue) - taken
      BY <1>0, <3>1
    <3>3. Len(replyQueue') <= ReplySize /\ taken' \in 0 .. Len(replyQueue') /\ replied' \in 0 .. taken'
      BY <1>0, <3>1, <3>2 DEF TasksTypeOK
    <3> QED
      BY <1>0, <2>4, <3>2, <3>3 DEF TasksTypeOK, ReleaseReplies, EndReplies, Move
  <2>5. CASE Stop
    BY <1>0, <2>5 DEF TasksTypeOK, Stop, Move, replyVars, Messages
  <2>6. CASE TimeUp
    BY <1>0, <2>6 DEF TasksTypeOK, TimeUp, Move, replyVars
  <2> QED
    BY <2>1, <2>2, <2>3, <2>4, <2>5, <2>6
<1> QED
  BY <1>1, <1>3, <1>5, WindowUnmoved DEF IInv

\* Who only waits for a slot changes nothing else.
LineStep ==
    \/ \E t \in Callers \cup {Thread} : JoinLine(t) \/ WaitInLine(t) \/ WakeInLine(t)
    \/ JoinReplyLine \/ WaitInReplyLine

Waiting == UNCHANGED <<taskQueue, replyQueue, batchVars, replyVars, quit, pc, message, stopping,
                       calls, history>>

LEMMA LineStepWaits == LineStep => Waiting
BY DEF LineStep, Waiting, JoinLine, WaitInLine, WakeInLine, JoinReplyLine, WaitInReplyLine

LEMMA StutterWaits == UNCHANGED vars => Waiting
BY DEF vars, queueVars, Waiting

THEOREM Invariance == Spec => []IInv
<1>1. IInv /\ [Next]_vars => IInv'
  <2> SUFFICES ASSUME IInv, [Next]_vars PROVE IInv'
    OBVIOUS
  <2>1. CASE LineStep \/ UNCHANGED vars
    <3>1. Waiting
      BY <2>1, LineStepWaits, StutterWaits
    <3> QED
      BY <3>1 DEF Waiting, batchVars, replyVars, history, IInv, TasksTypeOK, Window, Past,
                  RunsInOrder, Idle, Replying
  <2>2. CASE Next /\ ~ LineStep
    BY <2>2, CallStep, CommitStep, GrabStep, InvokeStep, ReplyStep, ReleaseStep, OwnerStepKeeps
       DEF Next, ThreadStep, OwnerStep, Marshall, LineStep
  <2> QED
    BY <2>1, <2>2
<1> QED
  BY Initially, <1>1, PTL DEF Spec

-----------------------------------------------------------------------------
(* Lines.                                                                   *)

\* Who draws a ticket, waits, is woken or commits leaves the line one of these threads.
LEMMA LineKept ==
    ASSUME NEW T, NEW row \in Lines(T)
    PROVE  /\ \A t \in T : Joined(row, t) \in Lines(T)
           /\ \A t, length, slots : Waits(row, t, length, slots) \subseteq Lines(T)
           /\ \A t : Wakes(row, t) \subseteq Lines(T)
           /\ Notified(row) \in Lines(T) /\ Committed(row) \in Lines(T)
<1> DEFINE P == [thread : T, place : LinePlaces, tried : BOOLEAN]
<1>0. row \in Seq(P)
  BY DEF Lines
<1> HIDE DEF P
<1>1. row \in Seq(P) /\ DOMAIN row = 1 .. Len(row) /\ \A i \in DOMAIN row : row[i] \in P
  BY <1>0
<1>2. \A p \in P : /\ Woken(p) \in P
                  /\ [p EXCEPT !.place = "enter"] \in P /\ [p EXCEPT !.place = "asleep"] \in P
  BY DEF Woken, LinePlaces, P
<1>3. \A i \in DOMAIN row, p \in P : [row EXCEPT ![i] = p] \in Seq(P)
  BY <1>1
<1>4. \A t \in T : Joined(row, t) \in Lines(T)
  BY <1>1 DEF Joined, Lines, LinePlaces, P
<1>5. ASSUME NEW t, NEW length, NEW slots, NEW next \in Waits(row, t, length, slots)
      PROVE  next \in Seq(P)
  <2>1. PICK i \in DOMAIN row : \/ next = [row EXCEPT ![i] = [@ EXCEPT !.place = "enter"]]
                                \/ next = [row EXCEPT ![i] = [@ EXCEPT !.place = "asleep"]]
    BY <1>5 DEF Waits
  <2> QED
    BY <1>1, <1>2, <1>3, <2>1
<1>6. ASSUME NEW t, NEW next \in Wakes(row, t)
      PROVE  next \in Seq(P)
  <2>1. PICK i \in DOMAIN row : next = [row EXCEPT ![i] = Woken(row[i])]
    BY <1>6 DEF Wakes
  <2> QED
    BY <1>1, <1>2, <1>3, <2>1
<1>7. Notified(row) \in Lines(T)
  <2>1. Notified(row) \in [1 .. Len(row) -> P]
    BY <1>1, <1>2 DEF Notified
  <2> QED
    BY <1>1, <2>1 DEF Lines, P
<1>8. Committed(row) \in Lines(T)
  BY <1>1 DEF Committed, Lines, P
<1> QED
  BY <1>4, <1>5, <1>6, <1>7, <1>8 DEF Lines, P

\* A line is of threads in every step.
LEMMA LinesKept == LinesTypeOK /\ [Next]_vars => LinesTypeOK'
<1> SUFFICES ASSUME LinesTypeOK, [Next]_vars PROVE LinesTypeOK'
  OBVIOUS
<1> USE DEF LinesTypeOK, queueVars, lineVars
<1>1. CASE UNCHANGED vars
  BY <1>1 DEF vars
<1>2. CASE LineStep
  <2>1. ASSUME NEW t \in Callers \cup {Thread}, JoinLine(t) \/ WaitInLine(t) \/ WakeInLine(t)
        PROVE  LinesTypeOK'
    BY <2>1, LineKept DEF JoinLine, WaitInLine, WakeInLine
  <2>2. CASE JoinReplyLine \/ WaitInReplyLine
    BY <2>2, LineKept DEF JoinReplyLine, WaitInReplyLine
  <2> QED
    BY <1>2, <2>1, <2>2 DEF LineStep
<1>3. ASSUME NEW t \in Callers \cup {Thread}, Commit(t) PROVE LinesTypeOK'
  <2>1. PICK place \in {"invoke", "replies", "wait", "idle"} : CommitTo(t, place)
    BY <1>3 DEF Commit
  <2> QED
    BY <2>1, LineKept DEF CommitTo
<1>4. CASE Reply \/ Release \/ ReleaseReplies
  BY <1>4, LineKept DEF Reply, ReplyWhen, Release, EndBatch, ReleaseReplies, EndReplies
<1>5. CASE Grab \/ Invoke \/ HandleReply \/ Stop
  BY <1>5 DEF Grab, Invoke, HandleReply, Stop
<1>6. CASE Join \/ TimeUp \/ ProcessReplies
  BY <1>6 DEF Join, TimeUp, ProcessReplies, ClaimReplies
<1>7. ASSUME NEW t \in Callers, NEW k \in Kinds, Call(t, k) PROVE LinesTypeOK'
  BY <1>7 DEF Call
<1> QED
  BY <1>1, <1>2, <1>3, <1>4, <1>5, <1>6, <1>7 DEF Next, ThreadStep, OwnerStep, Marshall, LineStep

\* The state is well typed: no queue holds more than its slots, and no batch is larger
\* than the queue it was claimed from.
THEOREM TypeCorrect == Spec => []TypeOK
<1>1. Init => LinesTypeOK
  BY DEF Init, LinesTypeOK, Lines
<1>2. IInv /\ LinesTypeOK => TypeOK
  BY DEF IInv, TypeOK
<1> QED
  BY <1>1, <1>2, LinesKept, Invariance, PTL DEF Spec

\* Everything marshalled through one JdTasks, by any number of threads, from reply
\* functions and from running tasks, is run at most once and in the order it was sent.
THEOREM Ordered == Spec => []RunsInOrder
BY Invariance, PTL DEF IInv

-----------------------------------------------------------------------------
(* The replies.                                                             *)

\* What concerns the replies alone.
AnswersUnmoved ==
    /\ UNCHANGED <<replyQueue, replied, handled, asked>>
    /\ pc'[Thread] = "reply" <=> pc[Thread] = "reply"
    /\ pc[Thread] = "reply" => UNCHANGED message[Thread]

LEMMA AnswersKept == Answers /\ RepliesInOrder /\ AnswersUnmoved => (Answers /\ RepliesInOrder)'
BY DEF Answers, RepliesInOrder, AnswersUnmoved, Gone

LEMMA OthersKeepAnswers ==
    ASSUME IInv,
           \/ \E t \in Callers, k \in Kinds : Call(t, k)
           \/ \E t \in Callers \cup {Thread} : Commit(t)
           \/ Grab \/ Release \/ ProcessReplies \/ Stop \/ Join \/ TimeUp
    PROVE  AnswersUnmoved
<1> USE DEF AnswersUnmoved, queueVars, batchVars, replyVars, history, Goto, Move
<1>0. /\ pc \in [Callers \cup {Thread} -> {"idle", "commit", "replies", "wait", "stopped", "zombie",
                                           "grab", "invoke", "reply", "exited"}]
      /\ message \in [Callers \cup {Thread} -> Messages]
  BY DEF IInv, TasksTypeOK
<1>1. ASSUME NEW t \in Callers, NEW k \in Kinds, Call(t, k) PROVE AnswersUnmoved
  BY <1>0, <1>1 DEF Call, Prepare
<1>2. ASSUME NEW t \in Callers \cup {Thread}, Commit(t) PROVE AnswersUnmoved
  <2>1. PICK place \in {"invoke", "replies", "wait", "idle"} : CommitTo(t, place)
    BY <1>2 DEF Commit
  <2> QED
    BY <1>0, <2>1 DEF CommitTo
<1>3. CASE Grab \/ Release
  BY <1>0, <1>3 DEF Grab, Release, EndBatch
<1>4. CASE ProcessReplies \/ Stop \/ Join \/ TimeUp
  BY <1>0, <1>4 DEF ProcessReplies, ClaimReplies, Stop, Join, TimeUp
<1> QED
  BY <1>1, <1>2, <1>3, <1>4

\* A call that is answered is noted, and the thread holds its result.
LEMMA InvokeKeepsAnswers ==
    ASSUME IInv, Answers, RepliesInOrder, Invoke
    PROVE  (Answers /\ RepliesInOrder)'
<1>1. /\ UNCHANGED <<replyQueue, replied, handled>> /\ pc[Thread] = "invoke"
      /\ asked' = IF Current.kind = "asks" THEN Append(asked, Current.id) ELSE asked
  BY DEF Invoke, queueVars, replyVars
<1>2. CASE Current.kind # "asks"
  <2>1. pc'[Thread] # "reply"
    BY <1>2 DEF Invoke, Prepare, Goto, IInv, TasksTypeOK
  <2> QED
    BY <1>1, <1>2, <2>1, AnswersKept DEF AnswersUnmoved
<1>3. CASE Current.kind = "asks"
  <2>1. /\ pc'[Thread] = "reply" /\ message'[Thread] = Current
    BY <1>3 DEF Invoke, Goto, IInv, TasksTypeOK
  <2>2. Current.id \in 1 .. MaxCalls
    <3>1. asked' \in Seq(1 .. MaxCalls) /\ IInv'
      BY InvokeStep DEF IInv, TasksTypeOK
    <3>2. Replying'
      BY <3>1 DEF IInv
    <3> QED
      BY <2>1, <3>2 DEF Replying
  <2>3. asked \in Seq(1 .. MaxCalls) /\ asked' = Append(asked, Current.id) /\ Len(asked) \in Nat
    BY <1>1, <1>3 DEF IInv, TasksTypeOK
  <2>4. /\ Len(asked') = Len(asked) + 1 /\ asked'[Len(asked) + 1] = Current.id
        /\ \A i \in 1 .. Len(asked) : asked'[i] = asked[i]
    BY <2>2, <2>3, SequenceAppend
  <2>5. Len(asked) = Gone + Len(replyQueue) /\ Gone \in Nat /\ Gone' = Gone
    BY <1>1 DEF Answers, Gone
  <2>6. Len(replyQueue) \in Nat /\ Len(handled) \in Nat
        /\ DOMAIN handled = 1 .. Len(handled)
    BY DEF IInv, TasksTypeOK
  <2>7. Answers'
    <3>1. ASSUME NEW i \in 1 .. Len(replyQueue) PROVE asked'[Gone + i] = replyQueue[i]
      <4>1. Gone + i \in 1 .. Len(asked)
        BY <2>5, <2>6
      <4> QED
        BY <2>4, <4>1 DEF Answers
    <3> QED
      BY <1>1, <2>1, <2>3, <2>4, <2>5, <2>6, <3>1 DEF Answers
  <2>8. RepliesInOrder'
    <3>1. \A i \in DOMAIN handled : i \in 1 .. Len(asked)
      BY <2>3, <2>6 DEF RepliesInOrder
    <3> QED
      BY <1>1, <2>3, <2>4, <2>6, <3>1 DEF RepliesInOrder
  <2> QED
    BY <2>7, <2>8
<1> QED
  BY <1>2, <1>3

\* The result goes from the thread to the end of the queue,
LEMMA ReplyKeepsAnswers ==
    ASSUME IInv, Answers, RepliesInOrder, Reply
    PROVE  (Answers /\ RepliesInOrder)'
<1>1. /\ pc[Thread] = "reply" /\ pc'[Thread] = "invoke"
      /\ replyQueue' = Append(replyQueue, message[Thread].id)
      /\ UNCHANGED <<replied, handled, asked>>
  BY DEF Reply, ReplyWhen, Move, IInv, TasksTypeOK, replyVars, history
<1>2. replyQueue \in Seq(1 .. MaxCalls) /\ message[Thread].id \in 1 .. MaxCalls
  BY <1>1 DEF IInv, TasksTypeOK, Replying
<1>3. /\ Len(replyQueue') = Len(replyQueue) + 1 /\ replyQueue'[Len(replyQueue) + 1] = message[Thread].id
      /\ \A i \in 1 .. Len(replyQueue) : replyQueue'[i] = replyQueue[i]
  BY <1>1, <1>2, SequenceAppend
<1>4. Len(replyQueue) \in Nat /\ Len(asked) = Gone + Len(replyQueue) + 1 /\ Gone \in Nat /\ Gone' = Gone
  BY <1>1, <1>2 DEF Answers, Gone
<1>5. \A i \in 1 .. Len(replyQueue') : asked[Gone + i] = replyQueue'[i]
  <2>1. asked[Gone + (Len(replyQueue) + 1)] = message[Thread].id
    <3>1. Gone + (Len(replyQueue) + 1) = Len(asked)
      BY <1>4
    <3> QED
      BY <1>1, <3>1 DEF Answers
  <2>2. \A i \in 1 .. Len(replyQueue') : i \in 1 .. Len(replyQueue) \/ i = Len(replyQueue) + 1
    BY <1>3, <1>4
  <2> QED
    BY <1>3, <2>1, <2>2 DEF Answers
<1>6. Len(asked) = Gone + Len(replyQueue')
  BY <1>3, <1>4
<1> QED
  BY <1>1, <1>4, <1>5, <1>6 DEF Answers, RepliesInOrder

\* from the queue to the owner,
LEMMA HandleReplyKeepsAnswers ==
    ASSUME IInv, Answers, RepliesInOrder, HandleReply
    PROVE  (Answers /\ RepliesInOrder)'
<1>1. /\ replied < taken /\ replied' = replied + 1 /\ UNCHANGED <<replyQueue, asked>>
      /\ handled' = Append(handled, replyQueue[replied + 1])
      /\ pc'[Thread] = pc[Thread] /\ message'[Thread] = message[Thread]
  BY DEF HandleReply, queueVars, Prepare, Goto, IInv, TasksTypeOK
<1>2. /\ handled \in Seq(1 .. MaxCalls) /\ replyQueue \in Seq(1 .. MaxCalls)
      /\ replied \in Nat /\ taken \in 0 .. Len(replyQueue)
  BY DEF IInv, TasksTypeOK
<1>3. replied + 1 \in 1 .. Len(replyQueue) /\ replyQueue[replied + 1] \in 1 .. MaxCalls
      /\ Len(handled) \in Nat /\ Len(replyQueue) \in Nat /\ DOMAIN handled = 1 .. Len(handled)
  <2>1. Len(replyQueue) \in Nat /\ Len(handled) \in Nat /\ DOMAIN handled = 1 .. Len(handled)
    BY <1>2
  <2>2. replied + 1 \in 1 .. Len(replyQueue)
    BY <1>1, <1>2, <2>1
  <2>3. ASSUME NEW S, NEW q \in Seq(S), NEW i \in 1 .. Len(q) PROVE q[i] \in S
    OBVIOUS
  <2> QED
    BY <1>2, <2>1, <2>2, <2>3, Zenon
<1>4. /\ Len(handled') = Len(handled) + 1 /\ handled'[Len(handled) + 1] = replyQueue[replied + 1]
      /\ \A i \in 1 .. Len(handled) : handled'[i] = handled[i]
      /\ DOMAIN handled' = 1 .. Len(handled) + 1
  <2>1. handled' \in Seq(1 .. MaxCalls)
    BY <1>1, <1>2, <1>3, SequenceAppend
  <2> QED
    BY <1>1, <1>2, <1>3, <2>1, SequenceAppend
<1>5. Gone' = Gone
  BY <1>1, <1>2, <1>3, <1>4 DEF Gone
<1>6. replyQueue[replied + 1] = asked[Len(handled) + 1]
  <2>1. asked[Gone + (replied + 1)] = replyQueue[replied + 1]
    BY <1>3 DEF Answers
  <2>2. Gone + (replied + 1) = Len(handled) + 1
    BY <1>2, <1>3 DEF Gone
  <2> QED
    BY <2>1, <2>2
<1>7. Len(handled') <= Len(asked')
  BY <1>1, <1>2, <1>3, <1>4 DEF Answers, Gone
<1>8. \A i \in DOMAIN handled' : handled'[i] = asked'[i]
  BY <1>1, <1>3, <1>4, <1>6 DEF RepliesInOrder
<1>9. Answers'
  BY <1>1, <1>5 DEF Answers
<1> QED
  BY <1>7, <1>8, <1>9 DEF RepliesInOrder

\* and out of the queue when the owner has handled all it took.
LEMMA ReleaseRepliesKeepsAnswers ==
    ASSUME IInv, Answers, RepliesInOrder, ReleaseReplies
    PROVE  (Answers /\ RepliesInOrder)'
<1> DEFINE n == taken
<1>1. /\ replied = n /\ replied' = 0 /\ UNCHANGED <<asked, handled>>
      /\ replyQueue' = SubSeq(replyQueue, n + 1, Len(replyQueue))
      /\ pc'[Thread] = pc[Thread] /\ message'[Thread] = message[Thread]
  BY DEF ReleaseReplies, EndReplies, Move, IInv, TasksTypeOK, history
<1>2. replyQueue \in Seq(1 .. MaxCalls) /\ n \in 0 .. Len(replyQueue) /\ Len(handled) \in Nat
  BY DEF IInv, TasksTypeOK
<1> HIDE DEF n
<1>3. /\ Len(replyQueue) \in Nat /\ n \in Nat /\ Len(replyQueue') = Len(replyQueue) - n
      /\ \A i \in 1 .. Len(replyQueue') : replyQueue'[i] = replyQueue[n + i] /\ n + i \in 1 .. Len(replyQueue)
  BY <1>1, <1>2
<1>4. Gone' = Gone + n /\ Gone \in Nat
  BY <1>1, <1>2, <1>3 DEF Answers, Gone
<1>5. Len(asked) = Gone' + Len(replyQueue') + (IF pc[Thread] = "reply" THEN 1 ELSE 0) /\ Gone' \in Nat
  BY <1>3, <1>4 DEF Answers
<1>6. ASSUME NEW i \in 1 .. Len(replyQueue') PROVE asked[Gone' + i] = replyQueue'[i]
  <2>1. asked[Gone + (n + i)] = replyQueue[n + i]
    BY <1>3 DEF Answers
  <2>2. Gone + (n + i) = Gone' + i
    BY <1>3, <1>4
  <2> QED
    BY <1>3, <2>1, <2>2
<1> QED
  BY <1>1, <1>5, <1>6 DEF Answers, RepliesInOrder

LEMMA AnswersInvariant == Spec => [](Answers /\ RepliesInOrder)
<1>1. Init => Answers /\ RepliesInOrder
  BY DEF Init, Answers, RepliesInOrder, Gone
<1>2. IInv /\ Answers /\ RepliesInOrder /\ [Next]_vars => (Answers /\ RepliesInOrder)'
  <2> SUFFICES ASSUME IInv, Answers, RepliesInOrder, [Next]_vars
               PROVE  (Answers /\ RepliesInOrder)'
    OBVIOUS
  <2>1. CASE LineStep \/ UNCHANGED vars
    BY <2>1, AnswersKept, LineStepWaits, StutterWaits DEF Waiting, replyVars, history, AnswersUnmoved
  <2>2. CASE \/ \E t \in Callers, k \in Kinds : Call(t, k)
             \/ \E t \in Callers \cup {Thread} : Commit(t)
             \/ Grab \/ Release \/ ProcessReplies \/ Stop \/ Join \/ TimeUp
    BY <2>2, OthersKeepAnswers, AnswersKept
  <2>3. CASE Invoke \/ Reply \/ HandleReply \/ ReleaseReplies
    BY <2>3, InvokeKeepsAnswers, ReplyKeepsAnswers, HandleReplyKeepsAnswers,
       ReleaseRepliesKeepsAnswers
  <2> QED
    BY <2>1, <2>2, <2>3 DEF Next, ThreadStep, OwnerStep, Marshall, LineStep
<1> QED
  BY <1>1, <1>2, Invariance, PTL DEF Spec

\* Every result a marshalled call returns is handled at most once, in the order of the calls,
\* and after its call has run: however the reply queue fills, and however many the owner takes.
THEOREM Replied == Spec => []RepliesInOrder
BY AnswersInvariant, PTL

-----------------------------------------------------------------------------
(* Stop.                                                                    *)

Places == {"idle", "commit", "replies", "wait", "stopped", "zombie",
           "grab", "invoke", "reply", "exited"}

LEMMA ThreadTypes ==
    ASSUME TasksTypeOK
    PROVE  /\ pc \in [Callers \cup {Thread} -> Places]
           /\ message \in [Callers \cup {Thread} -> Messages]
           /\ taskQueue \in Seq(Messages) /\ sent \in Seq(Messages) /\ ran \in Seq(Messages)
           /\ DOMAIN sent = 1 .. Len(sent) /\ Len(sent) \in Nat
           /\ DOMAIN ran = 1 .. Len(ran) /\ Len(ran) \in Nat
           /\ Len(replyQueue) \in Nat /\ Len(replyQueue) <= ReplySize
BY DEF TasksTypeOK, Places

\* What is prepared is a call.
LEMMA PreparedIsNotQuit ==
    ASSUME TasksTypeOK, NEW t \in Callers \cup {Thread}, NEW k \in Kinds, Prepare(t, k)
    PROVE  /\ pc' = [pc EXCEPT ![t] = "commit"]
           /\ message'[t] # Quit /\ \A s \in (Callers \cup {Thread}) \ {t} : message'[s] = message[s]
<1>1. calls + 1 # 0 /\ message' = [message EXCEPT ![t] = [id |-> calls + 1, kind |-> k]]
  BY DEF Prepare, TasksTypeOK
<1>2. [id |-> calls + 1, kind |-> k] # Quit
  BY <1>1 DEF Quit
<1> QED
  BY <1>1, <1>2 DEF Prepare, Goto, TasksTypeOK

LEMMA CallKeepsQuits ==
    ASSUME IInv, Quits, NEW t \in Callers, NEW k \in Kinds, Call(t, k)
    PROVE  Quits'
<1>1. /\ pc[t] = "idle" /\ Prepare(t, k)
      /\ UNCHANGED <<replyQueue, taken, replied, quit, stopping, sent, ran>>
  BY DEF Call, queueVars, replyVars, history
<1>2. /\ pc' = [pc EXCEPT ![t] = "commit"]
      /\ message'[t] # Quit /\ \A s \in (Callers \cup {Thread}) \ {t} : message'[s] = message[s]
  BY <1>1, PreparedIsNotQuit DEF IInv
<1>3. \A s \in Callers \cup {Thread} : pc'[s] = IF s = t THEN "commit" ELSE pc[s]
  BY <1>2, ThreadTypes DEF IInv
<1>4. t = Owner => ~ stopping
  BY <1>1 DEF Quits
<1> QED
  BY <1>1, <1>2, <1>3, <1>4 DEF Quits

LEMMA CommitKeepsQuits ==
    ASSUME IInv, Quits, NEW t \in Callers \cup {Thread}, Commit(t)
    PROVE  Quits'
<1> DEFINE m == message[t]
<1>1. PICK place \in {"invoke", "replies", "wait", "idle"} :
        /\ CommitTo(t, place)
        /\ t = Owner /\ stopping /\ taken = 0 => place = "wait"
        /\ t = Owner => place \in {"replies", "wait", "idle"} /\ (place = "wait" => stopping)
        /\ t # Owner => place \in {"invoke", "idle"}
  BY DEF Commit
<1>2. /\ pc[t] = "commit" /\ pc' = [pc EXCEPT ![t] = place]
      /\ sent' = Append(sent, m) /\ message' = [message EXCEPT ![t] = Quit]
      /\ UNCHANGED <<replyQueue, taken, replied, quit, stopping, ran>>
  BY <1>1 DEF CommitTo, Move, replyVars
<1>3. m \in Messages /\ (m = Quit => t = Owner /\ stopping)
  BY <1>2, ThreadTypes DEF IInv, Quits
<1>4. t = Owner /\ stopping => m = Quit /\ place = "wait"
  BY <1>1, <1>2 DEF Quits
<1> HIDE DEF m
<1>5. /\ \A s \in Callers \cup {Thread} : pc'[s] = IF s = t THEN place ELSE pc[s]
      /\ \A s \in Callers \cup {Thread} : message'[s] = IF s = t THEN Quit ELSE message[s]
  BY <1>2, ThreadTypes DEF IInv
<1>6. /\ DOMAIN sent' = 1 .. Len(sent) + 1 /\ sent'[Len(sent) + 1] = m
      /\ \A i \in 1 .. Len(sent) : sent'[i] = sent[i]
  <2>1. sent' \in Seq(Messages) /\ Len(sent') = Len(sent) + 1
    BY <1>2, <1>3, ThreadTypes, SequenceAppend DEF IInv
  <2> QED
    BY <1>2, <1>3, <2>1, ThreadTypes, SequenceAppend DEF IInv
\* There is a Quit in the queue when this is it, or there was one.
<1>7. ASSUME NEW i \in DOMAIN sent', sent'[i] = Quit
      PROVE  /\ stopping /\ pc'[Owner] # "commit"
             /\ \A j \in DOMAIN sent' : sent'[j] = Quit => i = j
  <2>1. CASE m = Quit
    <3>1. \A j \in DOMAIN sent : sent[j] # Quit
      BY <1>2, <1>3, <2>1 DEF Quits
    <3>2. \A j \in DOMAIN sent' : sent'[j] = Quit => j = Len(sent) + 1
      BY <1>6, <3>1, ThreadTypes DEF IInv
    <3> QED
      BY <1>1, <1>3, <1>5, <1>7, <2>1, <3>2
  <2>2. CASE m # Quit
    <3>1. \A j \in DOMAIN sent' : sent'[j] = Quit => j \in DOMAIN sent /\ sent[j] = Quit
      BY <1>6, <2>2, ThreadTypes DEF IInv
    <3>2. stopping /\ pc[Owner] # "commit" /\ \A j \in DOMAIN sent' : sent'[j] = Quit => i = j
      BY <1>7, <3>1 DEF Quits
    <3> QED
      BY <1>1, <1>5, <3>2
  <2> QED
    BY <2>1, <2>2
<1>8. pc'[Owner] \in {"replies", "stopped"} => pc[Owner] = pc'[Owner] \/ (t = Owner /\ ~ stopping)
  BY <1>1, <1>4, <1>5
<1>9. pc'[Thread] = "exited" <=> pc[Thread] = "exited"
  BY <1>1, <1>2, <1>5
<1>10. pc'[Owner] # "stopped" \/ pc[Owner] = "stopped"
  BY <1>1, <1>5
<1> QED
  BY <1>1, <1>2, <1>4, <1>5, <1>7, <1>8, <1>9, <1>10 DEF Quits

LEMMA ThreadKeepsQuits ==
    ASSUME IInv, Quits, Grab \/ Invoke \/ Reply \/ Release
    PROVE  Quits'
<1> USE DEF queueVars, batchVars, replyVars, history, Move, Goto
<1>1. /\ UNCHANGED <<taken, replied, stopping, sent>>
      /\ pc[Thread] # "exited" /\ pc'[Thread] = "exited" => quit
      /\ pc[Thread] \in {"grab", "invoke", "reply"}
      /\ \A t \in Callers : pc'[t] = pc[t] /\ message'[t] = message[t]
  <2>1. CASE Grab
    BY <2>1, ThreadTypes DEF IInv, Grab
  <2>2. CASE Invoke
    BY <2>2, ThreadTypes DEF IInv, Invoke, Prepare
  <2>3. CASE Reply
    BY <2>3, ThreadTypes DEF IInv, Reply, ReplyWhen
  <2>4. CASE Release
    BY <2>4, ThreadTypes DEF IInv, Release, EndBatch
  <2> QED
    BY <2>1, <2>2, <2>3, <2>4
<1>2. pc'[Thread] = "commit" => message'[Thread] # Quit
  <2>1. CASE Invoke
    <3>1. CASE Current.kind = "calls" /\ calls < MaxCalls
      <4>1. Prepare(Thread, "plain") /\ "plain" \in Kinds
        BY <2>1, <3>1 DEF Invoke, Kinds
      <4> QED
        BY <4>1, PreparedIsNotQuit DEF IInv
    <3>2. CASE ~ (Current.kind = "calls" /\ calls < MaxCalls)
      BY <2>1, <3>2, ThreadTypes DEF IInv, Invoke
    <3> QED
      BY <3>1, <3>2
  <2>2. CASE Grab \/ Reply \/ Release
    BY <2>2, ThreadTypes DEF IInv, Grab, Reply, ReplyWhen, Release, EndBatch
  <2> QED
    BY <2>1, <2>2
<1>3. quit' => \E j \in DOMAIN ran' : ran'[j] = Quit
  <2>1. CASE Invoke
    <3>1. ran' = Append(ran, Current) /\ quit' = (quit \/ Current = Quit) /\ Current \in Messages
      <4>0. /\ invoked < claimed /\ Len(taskQueue) \in Nat
            /\ claimed \in 0 .. Len(taskQueue) /\ invoked \in 0 .. claimed
        <5>1. invoked < claimed
          BY <2>1, Zenon DEF Invoke
        <5> QED
          BY <5>1 DEF IInv, TasksTypeOK
      <4>1. invoked + 1 \in 1 .. Len(taskQueue)
        BY <4>0
      <4>2. ASSUME NEW S, NEW q \in Seq(S), NEW i \in 1 .. Len(q) PROVE q[i] \in S
        OBVIOUS
      <4>3. Current \in Messages
        BY <4>1, <4>2, ThreadTypes, Zenon DEF IInv, Current
      <4> QED
        BY <2>1, <4>3 DEF Invoke
    <3>2. /\ ran' \in Seq(Messages) /\ Len(ran') = Len(ran) + 1 /\ ran'[Len(ran) + 1] = Current
          /\ \A j \in 1 .. Len(ran) : ran'[j] = ran[j]
      BY <3>1, ThreadTypes, SequenceAppend DEF IInv
    <3>3. DOMAIN ran' = 1 .. Len(ran) + 1 /\ DOMAIN ran = 1 .. Len(ran) /\ Len(ran) \in Nat
      BY <3>2, ThreadTypes DEF IInv
    <3>4. CASE Current = Quit
      <4>1. Len(ran) + 1 \in DOMAIN ran'
        BY <3>3
      <4> QED
        BY <3>2, <3>4, <4>1
    <3>5. CASE Current # Quit
      <4>1. \A j \in DOMAIN ran : j \in DOMAIN ran' /\ ran'[j] = ran[j]
        BY <3>2, <3>3
      <4> QED
        BY <3>1, <3>5, <4>1 DEF Quits
    <3> QED
      BY <3>4, <3>5
  <2>2. CASE Grab \/ Reply \/ Release
    BY <2>2 DEF Quits, Grab, Reply, ReplyWhen, Release, EndBatch
  <2> QED
    BY <2>1, <2>2
<1>4. quit => quit'
  BY DEF Grab, Invoke, Reply, ReplyWhen, Release, EndBatch
<1> QED
  BY <1>1, <1>2, <1>3, <1>4 DEF Quits

LEMMA OwnerKeepsQuits ==
    ASSUME IInv, Quits,
           ProcessReplies \/ HandleReply \/ ReleaseReplies \/ Stop \/ Join \/ TimeUp
    PROVE  Quits'
<1> USE DEF queueVars, batchVars, replyVars, history, Move
<1>0. /\ UNCHANGED <<sent, ran, quit>> /\ pc'[Thread] = pc[Thread] /\ message'[Thread] = message[Thread]
      /\ \A t \in Others : pc'[t] = pc[t] /\ message'[t] = message[t]
  BY ThreadTypes DEF IInv, ProcessReplies, ClaimReplies, HandleReply, Prepare, Goto, ReleaseReplies,
     EndReplies, Stop, Join, TimeUp
<1>1. CASE ProcessReplies
  <2>1. pc[Owner] = "idle" /\ pc'[Owner] = "replies" /\ UNCHANGED <<stopping, message>>
    BY <1>1, ThreadTypes DEF IInv, ProcessReplies, ClaimReplies
  <2> QED
    BY <1>0, <2>1 DEF Quits
<1>2. CASE HandleReply
  <2>1. pc[Owner] = "replies" /\ UNCHANGED <<stopping, taken, replyQueue>>
    BY <1>2 DEF HandleReply
  <2>2. CASE UNCHANGED <<pc, message>>
    BY <1>0, <2>1, <2>2 DEF Quits
  <2>3. CASE ~ stopping /\ \E k \in Kinds : Prepare(Owner, k)
    <3>1. pc'[Owner] = "commit" /\ message'[Owner] # Quit
      BY <2>3, PreparedIsNotQuit, ThreadTypes DEF IInv
    <3> QED
      BY <1>0, <2>1, <2>3, <3>1 DEF Quits
  <2> QED
    BY <1>2, <2>2, <2>3 DEF HandleReply
<1>3. CASE ReleaseReplies
  <2>1. /\ pc[Owner] = "replies" /\ pc'[Owner] = (IF stopping THEN "stopped" ELSE "idle")
        /\ UNCHANGED <<stopping, message>> /\ taken' = 0 /\ replied' = 0
        /\ replyQueue' = SubSeq(replyQueue, taken + 1, Len(replyQueue))
    BY <1>3, ThreadTypes DEF IInv, ReleaseReplies, EndReplies
  <2>2. stopping => pc[Thread] = "exited" /\ Len(replyQueue') = 0
    <3>1. replyQueue \in Seq(1 .. MaxCalls)
      BY DEF IInv, TasksTypeOK
    <3> QED
      BY <2>1, <3>1 DEF Quits
  <2> QED
    BY <1>0, <2>1, <2>2 DEF Quits
<1>4. CASE Stop
  <2>1. /\ pc[Owner] = "idle" /\ pc'[Owner] = "commit" /\ message'[Owner] = Quit
        /\ stopping' = TRUE /\ taken' = 0
    BY <1>4, ThreadTypes DEF IInv, Stop, Idle
  <2>2. \A i \in DOMAIN sent : sent[i] # Quit
    BY <2>1 DEF Quits
  <2> QED
    BY <1>0, <2>1, <2>2 DEF Quits
<1>5. CASE Join
  <2>1. /\ pc[Thread] = "exited" /\ pc[Owner] = "wait" /\ pc'[Owner] = "replies"
        /\ UNCHANGED <<stopping, message, replyQueue>> /\ taken' = Lesser(ReplySize, Len(replyQueue))
    BY <1>5, ThreadTypes DEF IInv, Join, ClaimReplies
  <2>2. taken' = Len(replyQueue)
    BY <2>1, ThreadTypes DEF IInv, Lesser
  <2> QED
    BY <1>0, <2>1, <2>2 DEF Quits
<1>6. CASE TimeUp
  <2>1. pc[Owner] = "wait" /\ pc'[Owner] = "zombie" /\ UNCHANGED <<stopping, message>>
    BY <1>6, ThreadTypes DEF IInv, TimeUp
  <2> QED
    BY <1>0, <2>1 DEF Quits
<1> QED
  BY <1>1, <1>2, <1>3, <1>4, <1>5, <1>6

LEMMA QuitsInvariant == Spec => []Quits
<1>1. Init => Quits
  BY DEF Init, Quits
<1>2. IInv /\ Quits /\ [Next]_vars => Quits'
  <2> SUFFICES ASSUME IInv, Quits, [Next]_vars PROVE Quits'
    OBVIOUS
  <2>1. CASE LineStep \/ UNCHANGED vars
    BY <2>1, LineStepWaits, StutterWaits DEF Waiting, batchVars, replyVars, history, Quits
  <2>2. CASE Next /\ ~ LineStep
    BY <2>2, CallKeepsQuits, CommitKeepsQuits, ThreadKeepsQuits, OwnerKeepsQuits
       DEF Next, ThreadStep, OwnerStep, Marshall, LineStep
  <2> QED
    BY <2>1, <2>2
<1> QED
  BY <1>1, <1>2, Invariance, PTL DEF Spec

\* When Stop has returned, all that had been sent before its Quit has been run, and every
\* result has been handled.
THEOREM Drained == Spec => []StopDrains
<1>1. IInv /\ Answers /\ Quits => StopDrains
  <2> SUFFICES ASSUME IInv, Answers, Quits, pc[Owner] = "stopped"
               PROVE  /\ \A i \in DOMAIN sent :
                           (\E j \in i .. Len(sent) : sent[j] = Quit) => i \in DOMAIN ran
                      /\ Len(handled) = Len(asked)
    BY DEF StopDrains
  <2>1. pc[Thread] = "exited" /\ quit /\ Len(replyQueue) = 0 /\ replied = 0
    BY DEF Quits
  <2>2. PICK q \in DOMAIN ran : ran[q] = Quit
    BY <2>1 DEF Quits
  <2>3. q \in DOMAIN sent /\ sent[q] = Quit
    BY <2>2, ThreadTypes DEF IInv, RunsInOrder
  <2>4. ASSUME NEW i \in DOMAIN sent, NEW j \in i .. Len(sent), sent[j] = Quit
        PROVE  i \in DOMAIN ran
    <3>1. j \in DOMAIN sent /\ i <= j /\ i \in 1 .. Len(sent)
      BY <2>4, ThreadTypes DEF IInv
    <3>2. j = q
      BY <2>3, <2>4, <3>1 DEF Quits
    <3> QED
      BY <2>2, <3>1, <3>2, ThreadTypes DEF IInv
  <2>5. Len(handled) = Len(asked)
    <3>1. Len(handled) \in Nat
      BY DEF IInv, TasksTypeOK
    <3> QED
      BY <2>1, <3>1 DEF Answers, Gone
  <2> QED
    BY <2>4, <2>5
<1> QED
  BY <1>1, Invariance, AnswersInvariant, QuitsInvariant, PTL
=============================================================================
