-------------------------- MODULE JdTaskPoolProofs --------------------------
(***************************************************************************)
(* That a batch which is finished is quiet, and that Stop and Start leave a *)
(* whole pool, for any number of clients, workers, batches, tasks and       *)
(* calls of Stop, whatever waits for whatever.                              *)
(*                                                                          *)
(* Both rest on counting.  A batch counts its tasks: those about to be      *)
(* pushed, those in the queue and those a worker has taken (Counted).  And  *)
(* during Stop the null tasks still to be pushed, those in the queue and    *)
(* the workers that have gone home are as many as there are threads to join *)
(* (NullsGoRound).                                                          *)
(***************************************************************************)
EXTENDS JdTaskPool, FiniteSetTheorems, TLAPS

One(c, b) == IF c = b THEN 1 ELSE 0

QueuedOf(q, b) == {i \in DOMAIN q : q[i].batch = b}
Having(f, b) == {t \in Threads : f[t].batch = b}

\* The tasks of a batch that are not over.
Load(b) ==
    Cardinality(QueuedOf(queue, b)) + Cardinality(Having(pushing, b)) + Cardinality(Having(task, b))

Counted == \A b \in Batches \cup {Global} : count[b] = Load(b) + One(b, Global)

\* Where a thread is says what it has.
Place(t) ==
    /\ pc[t] \in {"open", "finish", "asleep", "woken", "release"} => mine[t] # None
    /\ pc[t] \in {"idle", "run", "ran", "pop", "exited", "nulls", "join", "aborted"} =>
         mine[t] = None
    /\ pc[t] = "push" <=> pushing[t] # Null
    /\ t \in Clients => task[t] = Null /\ pc[t] \notin {"pop", "run", "ran", "exited"}
    /\ t \in Workers => /\ pc[t] \notin {"idle", "nulls", "join", "aborted"}
                        /\ task[t] = Null <=> pc[t] \in {"pop", "exited"}
    /\ t \in Workers \ threads => pc[t] = "exited"
    /\ pc[t] \in {"nulls", "join", "aborted"} <=> mutex = t

\* A batch that is known is somebody's, or free, or has been finished; one that is not has
\* no tasks.
Owned ==
    /\ \A t, u \in Threads : mine[t] = mine[u] /\ mine[t] # None => t = u
    /\ \A t \in Threads : mine[t] # None => mine[t] \in made
    /\ \A b \in Batches \ made : NoTaskOf(b)

\* The free batches.
Freed ==
    \A i \in DOMAIN free :
      /\ free[i] \in made /\ count[free[i]] = 0
      /\ \A j \in DOMAIN free : free[j] = free[i] => i = j
      /\ \A t \in Threads : mine[t] # free[i]

Waited == \A t \in Threads : pc[t] = "release" => count[mine[t]] = 0

Home == {w \in threads : pc[w] = "exited"}

\* Null tasks in the queue, and still to be pushed, and workers that have taken theirs.
NullsGoRound ==
    /\ nulls + Cardinality(QueuedOf(queue, None)) + Cardinality(Home) =
         IF mutex = None THEN 0 ELSE Cardinality(threads)
    /\ mutex = None => threads \in {{}, Workers}
    /\ mutex # None /\ pc[mutex] = "join" => nulls = 0

IInv ==
    /\ PoolTypeOK
    /\ Counted
    /\ \A t \in Threads : Place(t)
    /\ Owned /\ Freed /\ Waited
    /\ NullsGoRound

-----------------------------------------------------------------------------
(* Counting.                                                                *)

\* There are finitely many threads.
LEMMA FiniteThreads == IsFiniteSet(Threads)
BY ThreadsAssumption, FS_Union DEF Threads

\* A task and the null task are told apart by their batch.
LEMMA TaskBatch ==
  ASSUME NEW x \in Tasks \cup {Null}
  PROVE  /\ x.batch \in Batches \cup {Global, None}
         /\ x = Null <=> x.batch = None
         /\ x # Null => x \in Tasks /\ x.batch \in Batches \cup {Global}
<1>1. None \notin Batches \cup {Global} /\ Null.batch = None
  BY ThreadsAssumption DEF Null
<1>2. ASSUME x \in Tasks PROVE x.batch \in Batches \cup {Global}
  BY <1>2 DEF Tasks
<1> QED BY <1>1, <1>2

\* The threads that hold a task of a batch are finitely many.
LEMMA HavingFinite ==
  ASSUME NEW f, NEW b
  PROVE  /\ IsFiniteSet(Having(f, b)) /\ Cardinality(Having(f, b)) \in Nat
         /\ Cardinality(Having(f, b)) = 0 <=> \A t \in Threads : f[t].batch # b
<1>1. Having(f, b) \in SUBSET Threads
  BY DEF Having
<1>2. IsFiniteSet(Having(f, b))
  BY <1>1, FiniteThreads, FS_Subset
<1>3. Having(f, b) = {} <=> \A t \in Threads : f[t].batch # b
  BY DEF Having
<1> QED BY <1>2, <1>3, FS_CardinalityType, FS_EmptySet

\* One thread exchanges what it holds.
LEMMA HavingUpdate ==
  ASSUME NEW f, NEW t \in Threads, NEW x, NEW g, NEW b,
         \A s \in Threads : g[s] = IF s = t THEN x ELSE f[s]
  PROVE  Cardinality(Having(g, b)) + One(f[t].batch, b) =
           Cardinality(Having(f, b)) + One(x.batch, b)
<1>1. IsFiniteSet(Having(f, b)) /\ Cardinality(Having(f, b)) \in Nat
  BY HavingFinite
<1>2. CASE x.batch = b
  <2>1. Having(g, b) = Having(f, b) \cup {t}
    BY <1>2 DEF Having
  <2>2. t \in Having(f, b) <=> f[t].batch = b
    BY DEF Having
  <2>3. Cardinality(Having(g, b)) =
          IF t \in Having(f, b) THEN Cardinality(Having(f, b)) ELSE Cardinality(Having(f, b)) + 1
    BY <1>1, <2>1, FS_AddElement
  <2>4. One(f[t].batch, b) = (IF f[t].batch = b THEN 1 ELSE 0) /\ One(x.batch, b) = 1
    BY <1>2 DEF One
  <2> QED BY <1>1, <2>2, <2>3, <2>4
<1>3. CASE x.batch # b
  <2>1. Having(g, b) = Having(f, b) \ {t}
    BY <1>3 DEF Having
  <2>2. t \in Having(f, b) <=> f[t].batch = b
    BY DEF Having
  <2>3. Cardinality(Having(g, b)) =
          IF t \in Having(f, b) THEN Cardinality(Having(f, b)) - 1 ELSE Cardinality(Having(f, b))
    BY <1>1, <2>1, FS_RemoveElement
  <2>4. One(f[t].batch, b) = (IF f[t].batch = b THEN 1 ELSE 0) /\ One(x.batch, b) = 0
    BY <1>3 DEF One
  <2> QED BY <1>1, <2>2, <2>3, <2>4
<1> QED BY <1>2, <1>3

\* So are the places of the queue that hold one.
LEMMA QueuedFinite ==
  ASSUME NEW q \in Seq(Tasks \cup {Null}), NEW b
  PROVE  /\ IsFiniteSet(QueuedOf(q, b)) /\ Cardinality(QueuedOf(q, b)) \in Nat
         /\ Cardinality(QueuedOf(q, b)) = 0 <=> \A j \in DOMAIN q : q[j].batch # b
<1>1. QueuedOf(q, b) \in SUBSET (1 .. Len(q))
  BY DEF QueuedOf
<1>2. IsFiniteSet(QueuedOf(q, b))
  BY <1>1, FS_Interval, FS_Subset
<1>3. QueuedOf(q, b) = {} <=> \A j \in DOMAIN q : q[j].batch # b
  BY DEF QueuedOf
<1> QED BY <1>2, <1>3, FS_CardinalityType, FS_EmptySet

LEMMA QueuedAppend ==
  ASSUME NEW q \in Seq(Tasks \cup {Null}), NEW x \in Tasks \cup {Null}, NEW b,
         NEW r, r = Append(q, x)
  PROVE  Cardinality(QueuedOf(r, b)) = Cardinality(QueuedOf(q, b)) + One(x.batch, b)
<1> DEFINE n == Len(q) + 1
<1>1. DOMAIN r = DOMAIN q \cup {n} /\ n \notin DOMAIN q
  OBVIOUS
<1>2. r[n] = x /\ \A j \in DOMAIN q : r[j] = q[j]
  OBVIOUS
<1>3. IsFiniteSet(QueuedOf(q, b)) /\ n \notin QueuedOf(q, b) /\ Cardinality(QueuedOf(q, b)) \in Nat
  BY <1>1, QueuedFinite DEF QueuedOf
<1>4. CASE x.batch = b
  <2>1. QueuedOf(r, b) = QueuedOf(q, b) \cup {n}
    BY <1>1, <1>2, <1>4 DEF QueuedOf
  <2>2. Cardinality(QueuedOf(r, b)) = Cardinality(QueuedOf(q, b)) + 1
    BY <1>3, <2>1, FS_AddElement
  <2> QED BY <1>4, <2>2 DEF One
<1>5. CASE x.batch # b
  <2>1. QueuedOf(r, b) = QueuedOf(q, b)
    BY <1>1, <1>2, <1>5 DEF QueuedOf
  <2> QED BY <1>3, <1>5, <2>1 DEF One
<1> QED BY <1>4, <1>5

\* The places of the tail are those of the queue but the first, one further on.
LEMMA QueuedTail ==
  ASSUME NEW q \in Seq(Tasks \cup {Null}), q # <<>>, NEW b,
         NEW r, r = Tail(q)
  PROVE  Cardinality(QueuedOf(q, b)) = Cardinality(QueuedOf(r, b)) + One(Head(q).batch, b)
<1> DEFINE later == QueuedOf(q, b) \ {1}
           f == [i \in QueuedOf(r, b) |-> i + 1]
<1>1. r \in Seq(Tasks \cup {Null}) /\ Len(r) = Len(q) - 1 /\ Len(q) \in Nat \ {0}
  OBVIOUS
<1>2. \A i \in 1 .. Len(r) : r[i] = q[i + 1]
  OBVIOUS
<1>3. QueuedOf(r, b) = {i \in 1 .. Len(r) : r[i].batch = b}
      /\ QueuedOf(q, b) = {i \in 1 .. Len(q) : q[i].batch = b}
  BY <1>1 DEF QueuedOf
<1>4. f \in Bijection(QueuedOf(r, b), later)
  <2>1. f \in [QueuedOf(r, b) -> later]
    BY <1>1, <1>2, <1>3
  <2>2. \A i, j \in QueuedOf(r, b) : f[i] = f[j] => i = j
    BY <1>1, <1>3
  <2>3. \A k \in later : \E i \in QueuedOf(r, b) : f[i] = k
    <3>1. TAKE k \in later
    <3>2. k - 1 \in QueuedOf(r, b)
      BY <1>1, <1>2, <1>3
    <3>3. f[k - 1] = k
      BY <1>1, <1>3, <3>2
    <3> QED BY <3>2, <3>3
  <2>4. f \in Injection(QueuedOf(r, b), later)
    BY <2>1, <2>2 DEF Injection, IsInjective
  <2>5. f \in Surjection(QueuedOf(r, b), later)
    BY <2>1, <2>3 DEF Surjection
  <2> QED BY <2>4, <2>5 DEF Bijection
<1>5. IsFiniteSet(QueuedOf(r, b)) /\ Cardinality(QueuedOf(r, b)) \in Nat
      /\ IsFiniteSet(QueuedOf(q, b)) /\ Cardinality(QueuedOf(q, b)) \in Nat
  BY <1>1, QueuedFinite
<1>6. Cardinality(later) = Cardinality(QueuedOf(r, b))
  BY <1>4, <1>5, FS_Bijection DEF ExistsBijection
<1>7. 1 \in QueuedOf(q, b) <=> Head(q).batch = b
  BY <1>1, <1>3
<1>8. Cardinality(later) =
        IF 1 \in QueuedOf(q, b) THEN Cardinality(QueuedOf(q, b)) - 1 ELSE Cardinality(QueuedOf(q, b))
  BY <1>5, FS_RemoveElement
<1>9. One(Head(q).batch, b) = IF Head(q).batch = b THEN 1 ELSE 0
  BY DEF One
<1> QED BY <1>5, <1>6, <1>7, <1>8, <1>9

\* A batch counts none when there is no task of it, and only then.
LEMMA LoadIsNat ==
  ASSUME PoolTypeOK, NEW b
  PROVE  Load(b) \in Nat /\ (Load(b) = 0 <=> NoTaskOf(b))
BY HavingFinite, QueuedFinite DEF Load, NoTaskOf, PoolTypeOK

\* So a batch that counts none has no task.
LEMMA CountsNone ==
  ASSUME PoolTypeOK, Counted, NEW b \in Batches
  PROVE  count[b] = 0 <=> NoTaskOf(b)
<1>1. Global # b /\ Load(b) \in Nat
  BY ThreadsAssumption, LoadIsNat
<1>2. count[b] = Load(b) + One(b, Global)
  BY DEF Counted
<1>3. count[b] = Load(b)
  BY <1>1, <1>2 DEF One
<1> QED BY <1>3, LoadIsNat

LEMMA InitiallyInductive == Init => IInv
<1> SUFFICES ASSUME Init PROVE IInv
  OBVIOUS
<1> USE DEF Init
<1>1. PoolTypeOK
  BY ThreadsAssumption, BoundsAssumption DEF PoolTypeOK, Threads, Tasks
<1>2. Counted
  <2> SUFFICES ASSUME NEW b \in Batches \cup {Global} PROVE Load(b) = 0
    BY DEF Counted, One
  <2>1. NoTaskOf(b)
    BY ThreadsAssumption DEF NoTaskOf, Null
  <2> QED BY <1>1, <2>1, LoadIsNat
<1>3. \A t \in Threads : Place(t)
  BY ThreadsAssumption DEF Place, Threads
<1>4. Owned
  BY ThreadsAssumption DEF Owned, NoTaskOf, Null
<1>5. Freed /\ Waited
  BY DEF Freed, Waited
<1>6. NullsGoRound
  <2>1. QueuedOf(queue, None) = {} /\ Home = {}
    BY ThreadsAssumption DEF QueuedOf, Home, Threads
  <2>2. Cardinality(QueuedOf(queue, None)) = 0 /\ Cardinality(Home) = 0
    BY <2>1, FS_EmptySet
  <2> QED BY <2>2 DEF NullsGoRound
<1> QED BY <1>1, <1>2, <1>3, <1>4, <1>5, <1>6 DEF IInv

-----------------------------------------------------------------------------
(* What a step leaves alone.                                                *)

LEMMA NullsKept ==
  ASSUME IInv, UNCHANGED <<mutex, threads, queue, nulls>>,
         \A w \in threads : pc'[w] = "exited" <=> pc[w] = "exited",
         mutex # None /\ pc'[mutex] = "join" => nulls = 0
  PROVE  NullsGoRound'
<1>1. Home' = Home
  BY DEF Home
<1> QED BY <1>1 DEF NullsGoRound, IInv

LEMMA CountsKept ==
  ASSUME Counted, UNCHANGED <<queue, pushing, task, count>>
  PROVE  Counted'
BY DEF Counted, Load

LEMMA OwnedKept ==
  ASSUME Owned, UNCHANGED <<queue, pushing, task, mine, made>>
  PROVE  Owned'
BY DEF Owned, NoTaskOf

\* A thread goes on, and nothing else changes.
LEMMA ThreadMoves ==
  ASSUME IInv, NEW t \in Threads, NEW p, Goto(t, p), PoolTypeOK',
         UNCHANGED <<mutex, threads, queue, batchVars, taskVars, nulls, bounds>>,
         p # "exited", pc[t] # "exited", Place(t)',
         p = "release" => count[mine[t]] = 0,
         p = "join" => nulls = 0
  PROVE  IInv'
<1> USE DEF batchVars, taskVars, bounds
<1>1. \A s \in Threads : pc'[s] = IF s = t THEN p ELSE pc[s]
  BY DEF Goto, IInv, PoolTypeOK
<1>2. threads \subseteq Threads /\ mutex \in Threads \cup {None}
  BY DEF IInv, PoolTypeOK, Threads
<1>3. \A s \in Threads : Place(s)'
  <2> SUFFICES ASSUME NEW s \in Threads, s # t PROVE Place(s)'
    OBVIOUS
  <2> QED BY <1>1 DEF IInv, Place
<1>4. Freed' /\ Waited'
  BY <1>1 DEF IInv, Freed, Waited
<1>5. NullsGoRound'
  <2>1. mutex # None /\ pc'[mutex] = "join" => nulls = 0
    BY <1>1, <1>2 DEF IInv, NullsGoRound
  <2> QED BY <1>1, <1>2, <2>1, NullsKept
<1> QED BY <1>3, <1>4, <1>5, CountsKept, OwnedKept DEF IInv

-----------------------------------------------------------------------------
(* The steps of a thread by itself.                                         *)

LEMMA FinishBatchKeeps == ASSUME IInv, NEW t \in Threads, FinishBatch(t) PROVE IInv'
<1> USE DEF FinishBatch, Move, queueVars, batchVars, taskVars, bounds
<1>1. Goto(t, "finish") /\ pc[t] = "open"
  OBVIOUS
<1>2. PoolTypeOK'
  BY DEF IInv, PoolTypeOK, Goto
<1>3. Place(t)'
  BY DEF IInv, PoolTypeOK, Goto, Place
<1> QED BY <1>1, <1>2, <1>3, ThreadMoves

LEMMA TestCountKeeps == ASSUME IInv, NEW t \in Threads, TestCount(t) PROVE IInv'
<1> USE DEF TestCount, queueVars, batchVars, taskVars, bounds
<1> DEFINE p == IF count[mine[t]] = 0 THEN "release" ELSE "asleep"
<1>1. Goto(t, p) /\ pc[t] \in {"finish", "woken"} /\ p \in {"release", "asleep"}
      /\ (p = "release" => count[mine[t]] = 0)
  OBVIOUS
<1> HIDE DEF p
<1>2. PoolTypeOK'
  BY <1>1 DEF IInv, PoolTypeOK, Goto
<1>3. Place(t)'
  BY <1>1 DEF IInv, PoolTypeOK, Goto, Place
<1> QED BY <1>1, <1>2, <1>3, ThreadMoves

LEMMA WakeSpuriouslyKeeps == ASSUME IInv, NEW t \in Threads, WakeSpuriously(t) PROVE IInv'
<1> USE DEF WakeSpuriously, Move, queueVars, batchVars, taskVars, bounds
<1>1. Goto(t, "woken") /\ pc[t] = "asleep"
  OBVIOUS
<1>2. PoolTypeOK'
  BY DEF IInv, PoolTypeOK, Goto
<1>3. Place(t)'
  BY DEF IInv, PoolTypeOK, Goto, Place
<1> QED BY <1>1, <1>2, <1>3, ThreadMoves

LEMMA RunTaskKeeps == ASSUME IInv, NEW t \in Threads, RunTask(t) PROVE IInv'
<1> USE DEF RunTask, Move, queueVars, batchVars, taskVars, bounds
<1>1. Goto(t, "ran") /\ pc[t] = "run"
  OBVIOUS
<1>2. PoolTypeOK'
  BY DEF IInv, PoolTypeOK, Goto
<1>3. Place(t)'
  BY DEF IInv, PoolTypeOK, Goto, Place
<1> QED BY <1>1, <1>2, <1>3, ThreadMoves

LEMMA AllPushedKeeps == ASSUME IInv, NEW t \in Threads, AllPushed(t) PROVE IInv'
<1> USE DEF AllPushed, Move, queueVars, batchVars, taskVars, bounds
<1>1. Goto(t, "join") /\ pc[t] = "nulls" /\ nulls = 0
  OBVIOUS
<1>2. PoolTypeOK'
  BY DEF IInv, PoolTypeOK, Goto
<1>3. Place(t)'
  BY DEF IInv, PoolTypeOK, Goto, Place
<1> QED BY <1>1, <1>2, <1>3, ThreadMoves

LEMMA TimeUpKeeps ==
  ASSUME IInv, NEW t \in Threads, NEW w \in Workers, TimeUp(t, w) PROVE IInv'
<1> USE DEF TimeUp, queueVars, batchVars, taskVars, bounds
<1>1. Goto(t, "aborted") /\ pc[t] = "join"
  OBVIOUS
<1>2. PoolTypeOK'
  BY DEF IInv, PoolTypeOK, Goto
<1>3. Place(t)'
  BY DEF IInv, PoolTypeOK, Goto, Place
<1> QED BY <1>1, <1>2, <1>3, ThreadMoves

-----------------------------------------------------------------------------
(* The steps of a batch.                                                    *)

\* What a thread is at, another thread does not change.
LEMMA OthersStay ==
  ASSUME IInv, NEW t \in Threads, NEW p, Goto(t, p), UNCHANGED <<threads, mutex>>,
         \A s \in Threads \ {t} : mine'[s] = mine[s] /\ pushing'[s] = pushing[s] /\ task'[s] = task[s],
         Place(t)'
  PROVE  \A s \in Threads : Place(s)'
<1>1. \A s \in Threads : pc'[s] = IF s = t THEN p ELSE pc[s]
  BY DEF Goto, IInv, PoolTypeOK
<1> SUFFICES ASSUME NEW s \in Threads, s # t PROVE Place(s)'
  OBVIOUS
<1> QED BY <1>1 DEF IInv, Place

LEMMA CreateBatchKeeps == ASSUME IInv, NEW t \in Threads, CreateBatch(t) PROVE IInv'
<1> USE DEF bounds
<1>1. /\ Goto(t, "open") /\ pc[t] \in {"idle", "run"}
      /\ UNCHANGED <<mutex, threads, queue, pushing, task, nulls, submitted, stops>>
  BY DEF CreateBatch, MayBatch, queueVars
<1>2. \A s \in Threads : pc'[s] = IF s = t THEN "open" ELSE pc[s]
  BY <1>1 DEF Goto, IInv, PoolTypeOK
<1>3. mine[t] = None /\ pushing[t] = Null
  BY <1>1 DEF IInv, Place
<1>4. NullsGoRound'
  <2>1. threads \subseteq Threads /\ mutex \in Threads \cup {None}
    BY DEF IInv, PoolTypeOK, Threads
  <2>2. mutex # None /\ pc'[mutex] = "join" => nulls = 0
    BY <1>2, <2>1 DEF IInv, NullsGoRound
  <2> QED BY <1>1, <1>2, <2>1, <2>2, NullsKept
<1>5. CASE free # <<>> /\ mine' = [mine EXCEPT ![t] = free[Len(free)]]
           /\ free' = SubSeq(free, 1, Len(free) - 1) /\ UNCHANGED <<made, count>>
  <2> DEFINE b == free[Len(free)]
  <2>1. /\ Len(free) \in DOMAIN free /\ b \in Batches /\ b # None
        /\ free' \in Seq(Batches) /\ DOMAIN free' = 1 .. Len(free) - 1
        /\ \A i \in DOMAIN free' : i \in DOMAIN free /\ i # Len(free) /\ free'[i] = free[i]
    BY <1>5, ThreadsAssumption DEF IInv, PoolTypeOK
  <2>2. b \in made /\ count[b] = 0 /\ \A s \in Threads : mine[s] # b
    BY <2>1 DEF IInv, Freed
  <2> HIDE DEF b
  <2>3. \A s \in Threads : mine'[s] = IF s = t THEN b ELSE mine[s]
    BY <1>5 DEF IInv, PoolTypeOK, b
  <2>4. PoolTypeOK'
    BY <1>1, <1>5, <2>1 DEF IInv, PoolTypeOK, Goto, b
  <2>5. \A s \in Threads : Place(s)'
    <3>1. Place(t)'
      BY <1>1, <1>2, <1>3, <2>1, <2>3 DEF IInv, Place
    <3> QED BY <1>1, <2>3, <3>1, OthersStay
  <2>6. Owned'
    BY <1>1, <1>5, <2>2, <2>3 DEF IInv, Owned, NoTaskOf
  <2>7. Freed'
    <3> SUFFICES ASSUME NEW i \in DOMAIN free'
                 PROVE  /\ free'[i] \in made /\ count[free'[i]] = 0
                        /\ \A j \in DOMAIN free' : free'[j] = free'[i] => i = j
                        /\ \A s \in Threads : mine'[s] # free'[i]
      BY <1>5 DEF Freed
    <3>1. free'[i] # b
      BY <2>1 DEF IInv, Freed, b
    <3> QED BY <2>1, <2>3, <3>1 DEF IInv, Freed
  <2>8. Waited'
    BY <1>2, <1>5, <2>3 DEF IInv, Waited
  <2> QED BY <1>1, <1>4, <1>5, <2>4, <2>5, <2>6, <2>7, <2>8, CountsKept DEF IInv
<1>6. CASE free = <<>> /\ Batches \ made # {} /\ UNCHANGED free
           /\ LET b == CHOOSE new \in Batches \ made : TRUE IN
                /\ made' = made \cup {b}
                /\ mine' = [mine EXCEPT ![t] = b]
                /\ count' = [count EXCEPT ![b] = 0]
  <2> DEFINE b == CHOOSE new \in Batches \ made : TRUE
  <2>1. b \in Batches \ made /\ b # None
    BY <1>6, ThreadsAssumption
  <2>2. made' = made \cup {b} /\ mine' = [mine EXCEPT ![t] = b] /\ count' = [count EXCEPT ![b] = 0]
    BY <1>6
  <2> HIDE DEF b
  <2>3. /\ \A s \in Threads : mine'[s] = IF s = t THEN b ELSE mine[s]
        /\ \A c \in Batches \cup {Global} : count'[c] = IF c = b THEN 0 ELSE count[c]
    BY <2>2 DEF IInv, PoolTypeOK
  <2>4. PoolTypeOK'
    BY <1>1, <1>6, <2>1, <2>2 DEF IInv, PoolTypeOK, Goto
  <2>5. \A s \in Threads : Place(s)'
    <3>1. Place(t)'
      BY <1>1, <1>2, <1>3, <2>1, <2>3 DEF IInv, Place
    <3> QED BY <1>1, <2>3, <3>1, OthersStay
  <2>6. Owned'
    BY <1>1, <2>1, <2>2, <2>3 DEF IInv, Owned, NoTaskOf
  <2>7. Freed'
    BY <1>6 DEF Freed
  <2>8. Waited'
    <3>1. \A s \in Threads : pc[s] = "release" => mine[s] \in made /\ mine[s] \in Batches
      BY DEF IInv, Place, Owned, PoolTypeOK
    <3> QED BY <1>2, <2>1, <2>3, <3>1 DEF IInv, Waited
  <2>9. Counted'
    <3> SUFFICES ASSUME NEW c \in Batches \cup {Global} PROVE count'[c] = Load(c) + One(c, Global)
      BY <1>1 DEF Counted, Load
    <3>1. CASE c # b
      BY <2>3, <3>1 DEF IInv, Counted
    <3>2. CASE c = b
      <4>1. Load(b) = 0
        BY <2>1, LoadIsNat DEF IInv, Owned
      <4>2. One(b, Global) = 0
        BY <2>1, ThreadsAssumption DEF One
      <4> QED BY <2>3, <3>2, <4>1, <4>2
    <3> QED BY <3>1, <3>2
  <2> QED BY <1>4, <2>4, <2>5, <2>6, <2>7, <2>8, <2>9 DEF IInv
<1> QED BY <1>5, <1>6 DEF CreateBatch

\* One more task is counted and about to be pushed: by the holder of its batch, by a task of
\* that batch, or for the global batch.
LEMMA SubmitKeeps ==
  ASSUME IInv, NEW t \in Threads, NEW b \in Batches \cup {Global}, NEW k \in Kinds, Submit(t, b, k),
         pc[t] \in {"open", "run", "idle"},
         pc[t] = "run" => t \in Workers,
         b = Global \/ mine[t] = b \/ task[t].batch = b
  PROVE  IInv'
<1> DEFINE x == [batch |-> b, kind |-> k]
<1> USE DEF bounds
<1>1. /\ Goto(t, "push") /\ pushing' = [pushing EXCEPT ![t] = x]
      /\ count' = [count EXCEPT ![b] = @ + 1] /\ submitted' = submitted + 1
      /\ UNCHANGED <<mutex, threads, queue, free, made, mine, task, nulls, stops>>
  BY DEF Submit, AddAndPush, queueVars
<1>2. x \in Tasks /\ x.batch = b /\ x # Null /\ b # None
  <2>1. x \in Tasks /\ x.batch = b /\ b # None
    BY ThreadsAssumption DEF Tasks
  <2> QED BY <2>1, TaskBatch
<1> HIDE DEF x
<1>3. /\ \A s \in Threads : pc'[s] = IF s = t THEN "push" ELSE pc[s]
      /\ \A s \in Threads : pushing'[s] = IF s = t THEN x ELSE pushing[s]
      /\ \A c \in Batches \cup {Global} : count'[c] = IF c = b THEN count[c] + 1 ELSE count[c]
  BY <1>1 DEF IInv, PoolTypeOK, Goto
<1>4. pushing[t] = Null /\ pushing[t].batch = None
  BY DEF IInv, Place, Null
<1>5. PoolTypeOK'
  BY <1>1, <1>2 DEF IInv, PoolTypeOK, Goto
<1>6. Counted'
  <2> SUFFICES ASSUME NEW c \in Batches \cup {Global} PROVE count'[c] = Load(c)' + One(c, Global)
    BY DEF Counted
  <2>1. Cardinality(Having(pushing', c)) + One(None, c) = Cardinality(Having(pushing, c)) + One(b, c)
    BY <1>2, <1>3, <1>4, HavingUpdate
  <2>2. One(None, c) = 0 /\ One(b, c) = IF c = b THEN 1 ELSE 0
    BY ThreadsAssumption DEF One
  <2>3. Cardinality(Having(pushing', c)) = Cardinality(Having(pushing, c)) + (IF c = b THEN 1 ELSE 0)
    BY <2>1, <2>2, HavingFinite
  <2>4. /\ Cardinality(QueuedOf(queue, c)) \in Nat /\ Cardinality(Having(task, c)) \in Nat
        /\ Cardinality(Having(pushing, c)) \in Nat
    BY HavingFinite, QueuedFinite DEF IInv, PoolTypeOK
  <2>5. Load(c)' = Load(c) + (IF c = b THEN 1 ELSE 0)
    BY <1>1, <2>3, <2>4 DEF Load
  <2>6. count[c] = Load(c) + One(c, Global)
    BY DEF IInv, Counted
  <2>7. Load(c) \in Nat /\ One(c, Global) \in Nat
    BY LoadIsNat DEF One, IInv
  <2> QED BY <1>3, <2>5, <2>6, <2>7
<1>7. \A s \in Threads : Place(s)'
  <2>1. Place(t)'
    BY <1>1, <1>2, <1>3 DEF IInv, Place, Threads
  <2> QED BY <1>1, <1>3, <2>1, OthersStay
\* The batch is known, and not free, and nobody has finished it.
<1>8. b # Global => b \in made
  BY <1>2 DEF IInv, Owned, NoTaskOf
<1>9. \A i \in DOMAIN free : free[i] # b
  <2> SUFFICES ASSUME NEW i \in DOMAIN free, free[i] = b PROVE FALSE
    OBVIOUS
  <2>1. b \in Batches /\ count[b] = 0 /\ mine[t] # b
    BY DEF IInv, PoolTypeOK, Freed
  <2>2. NoTaskOf(b)
    BY <2>1, CountsNone DEF IInv
  <2> QED BY <2>1, <2>2, ThreadsAssumption DEF NoTaskOf
<1>10. \A s \in Threads : pc[s] = "release" => mine[s] # b
  <2> SUFFICES ASSUME NEW s \in Threads, pc[s] = "release", mine[s] = b PROVE FALSE
    OBVIOUS
  <2>1. b \in Batches /\ count[b] = 0 /\ s # t
    BY <1>2 DEF IInv, PoolTypeOK, Waited
  <2>2. NoTaskOf(b)
    BY <2>1, CountsNone DEF IInv
  <2>3. mine[t] # b
    BY <1>2, <2>1 DEF IInv, Owned
  <2> QED BY <2>1, <2>2, <2>3, ThreadsAssumption DEF NoTaskOf
<1>11. Owned'
  BY <1>1, <1>2, <1>3, <1>8, ThreadsAssumption DEF IInv, Owned, NoTaskOf
<1>12. Freed'
  BY <1>1, <1>3, <1>9 DEF IInv, Freed, PoolTypeOK
<1>13. Waited'
  <2> SUFFICES ASSUME NEW s \in Threads, pc'[s] = "release" PROVE count'[mine[s]] = 0
    BY <1>1 DEF Waited
  <2>1. pc[s] = "release" /\ mine[s] \in Batches
    BY <1>3 DEF IInv, Place, PoolTypeOK
  <2> QED BY <1>3, <1>10, <2>1 DEF IInv, Waited
<1>14. NullsGoRound'
  <2>1. threads \subseteq Threads /\ mutex \in Threads \cup {None}
    BY DEF IInv, PoolTypeOK, Threads
  <2>2. mutex # None /\ pc'[mutex] = "join" => nulls = 0
    BY <1>3, <2>1 DEF IInv, NullsGoRound
  <2> QED BY <1>1, <1>3, <2>1, <2>2, NullsKept
<1> QED BY <1>5, <1>6, <1>7, <1>11, <1>12, <1>13, <1>14 DEF IInv

LEMMA SubmitToMineKeeps ==
  ASSUME IInv, NEW t \in Threads, NEW k \in Kinds, SubmitToMine(t, k) PROVE IInv'
<1>1. mine[t] \in Batches \cup {Global}
  BY DEF IInv, PoolTypeOK, Place, SubmitToMine
<1> QED BY <1>1, SubmitKeeps DEF SubmitToMine

LEMMA SubmitToOwnKeeps == ASSUME IInv, NEW t \in Workers, SubmitToOwn(t) PROVE IInv'
<1>1. t \in Threads /\ task[t] \in Tasks \cup {Null} /\ task[t] # Null
  BY DEF IInv, PoolTypeOK, Place, SubmitToOwn, Threads
<1>2. task[t].batch \in Batches \cup {Global}
  BY <1>1, TaskBatch
<1> QED BY <1>1, <1>2, SubmitKeeps DEF SubmitToOwn, Kinds

LEMMA SubmitToGlobalKeeps == ASSUME IInv, NEW t \in Threads, SubmitToGlobal(t) PROVE IInv'
BY SubmitKeeps DEF SubmitToGlobal, Kinds

LEMMA PushKeeps == ASSUME IInv, NEW t \in Threads, Push(t) PROVE IInv'
<1> DEFINE p == IF mine[t] # None THEN "open" ELSE IF t \in Workers THEN "ran" ELSE "idle"
           x == pushing[t]
<1> USE DEF bounds, batchVars
<1>1. /\ Len(queue) < QueueSize /\ pc[t] = "push" /\ Goto(t, p)
      /\ queue' = Append(queue, x) /\ pushing' = [pushing EXCEPT ![t] = Null]
      /\ UNCHANGED <<mutex, threads, batchVars, mine, task, nulls, bounds>>
  BY DEF Push, Commit, MayCommit, Move
<1>2. /\ p \in {"open", "ran", "idle"}
      /\ p = "open" <=> mine[t] # None
      /\ p = "ran" => t \in Workers
      /\ p = "idle" => t \in Clients
  BY DEF Threads
<1>3. x \in Tasks \cup {Null} /\ x # Null /\ x.batch \in Batches \cup {Global} /\ x.batch # None
  <2>1. x \in Tasks \cup {Null} /\ x # Null
    BY <1>1 DEF IInv, PoolTypeOK, Place
  <2> QED BY <2>1, TaskBatch
<1> HIDE DEF p
<1>4. /\ \A s \in Threads : pc'[s] = IF s = t THEN p ELSE pc[s]
      /\ \A s \in Threads : pushing'[s] = IF s = t THEN Null ELSE pushing[s]
  BY <1>1 DEF IInv, PoolTypeOK, Goto
<1>5. queue \in Seq(Tasks \cup {Null}) /\ queue' \in Seq(Tasks \cup {Null}) /\ Len(queue') <= QueueSize
  BY <1>1, <1>3, BoundsAssumption DEF IInv, PoolTypeOK
<1>6. PoolTypeOK'
  BY <1>1, <1>2, <1>5 DEF IInv, PoolTypeOK, Goto
<1>7. \A c : Cardinality(QueuedOf(queue', c)) = Cardinality(QueuedOf(queue, c)) + One(x.batch, c)
  <2>1. queue \in Seq(Tasks \cup {Null}) /\ x \in Tasks \cup {Null} /\ queue' = Append(queue, x)
    BY <1>1, <1>3, <1>5
  <2> QED BY <2>1, QueuedAppend, Zenon
<1>8. Counted'
  <2> SUFFICES ASSUME NEW c \in Batches \cup {Global} PROVE Load(c)' = Load(c)
    BY <1>1 DEF IInv, Counted
  <2>1. Cardinality(Having(pushing', c)) + One(x.batch, c) = Cardinality(Having(pushing, c)) + One(None, c)
    BY <1>4, HavingUpdate DEF Null
  <2>2. One(None, c) = 0 /\ One(x.batch, c) \in Nat
    BY ThreadsAssumption DEF One
  <2>3. /\ Cardinality(QueuedOf(queue, c)) \in Nat /\ Cardinality(Having(task, c)) \in Nat
        /\ Cardinality(Having(pushing, c)) \in Nat /\ Cardinality(Having(pushing', c)) \in Nat
    BY <1>5, HavingFinite, QueuedFinite
  <2> HIDE DEF x
  <2> QED BY <1>1, <1>7, <2>1, <2>2, <2>3 DEF Load
<1>9. \A s \in Threads : Place(s)'
  <2>1. Place(t)'
    BY <1>1, <1>2, <1>4 DEF IInv, Place, Threads
  <2> QED BY <1>1, <1>4, <2>1, OthersStay
<1>10. Owned'
  <2>1. ASSUME NEW b \in Batches \ made PROVE NoTaskOf(b)'
    <3>1. NoTaskOf(b) /\ None # b
      BY <2>1, ThreadsAssumption DEF IInv, Owned
    <3>2. \A j \in DOMAIN queue' : queue'[j] = x \/ \E i \in DOMAIN queue : queue'[j] = queue[i]
      BY <1>1, <1>3, <1>5
    <3>3. \A j \in DOMAIN queue' : queue'[j].batch # b
      BY <3>1, <3>2 DEF NoTaskOf
    <3> QED BY <1>1, <1>4, <3>1, <3>3 DEF NoTaskOf, Null
  <2> QED BY <1>1, <2>1 DEF IInv, Owned
<1>11. Freed' /\ Waited'
  BY <1>1, <1>2, <1>4 DEF IInv, Freed, Waited
<1>12. NullsGoRound'
  <2>1. threads \subseteq Threads /\ mutex \in Threads \cup {None}
    BY DEF IInv, PoolTypeOK, Threads
  <2>2. Home' = Home
    BY <1>1, <1>2, <1>4, <2>1 DEF Home
  <2>3. Cardinality(QueuedOf(queue', None)) = Cardinality(QueuedOf(queue, None))
    <3>1. One(x.batch, None) = 0
      BY <1>3 DEF One
    <3> QED BY <1>5, <1>7, <3>1, QueuedFinite
  <2>4. mutex # None /\ pc'[mutex] = "join" => pc[mutex] = "join"
    BY <1>2, <1>4, <2>1
  <2> QED BY <1>1, <2>2, <2>3, <2>4 DEF IInv, NullsGoRound
<1> QED BY <1>6, <1>8, <1>9, <1>10, <1>11, <1>12 DEF IInv

LEMMA ReleaseBatchKeeps == ASSUME IInv, NEW t \in Threads, ReleaseBatch(t) PROVE IInv'
<1> DEFINE p == IF t \in Workers THEN "ran" ELSE "idle"
           b == mine[t]
<1> USE DEF bounds
<1>1. /\ mutex = None /\ pc[t] = "release" /\ Goto(t, p)
      /\ free' = Append(free, b) /\ mine' = [mine EXCEPT ![t] = None]
      /\ UNCHANGED <<mutex, threads, queue, made, count, pushing, task, nulls, bounds>>
  BY DEF ReleaseBatch, Move, queueVars
<1>2. p \in {"ran", "idle"} /\ (p = "ran" => t \in Workers) /\ (p = "idle" => t \in Clients)
  BY DEF Threads
<1> HIDE DEF p
<1>3. b \in Batches /\ b # None /\ b \in made /\ count[b] = 0
  BY <1>1 DEF IInv, PoolTypeOK, Place, Owned, Waited
<1>4. /\ \A s \in Threads : pc'[s] = IF s = t THEN p ELSE pc[s]
      /\ \A s \in Threads : mine'[s] = IF s = t THEN None ELSE mine[s]
  BY <1>1 DEF IInv, PoolTypeOK, Goto
<1>5. /\ free' \in Seq(Batches) /\ DOMAIN free' = DOMAIN free \cup {Len(free) + 1}
      /\ Len(free) + 1 \notin DOMAIN free
      /\ free'[Len(free) + 1] = b /\ \A i \in DOMAIN free : free'[i] = free[i]
  BY <1>1, <1>3 DEF IInv, PoolTypeOK
<1>6. PoolTypeOK'
  BY <1>1, <1>2, <1>5 DEF IInv, PoolTypeOK, Goto
<1>7. \A s \in Threads : Place(s)'
  <2>1. Place(t)'
    BY <1>1, <1>2, <1>4 DEF IInv, Place, Threads
  <2> QED BY <1>1, <1>4, <2>1, OthersStay
<1>8. Owned'
  BY <1>1, <1>4 DEF IInv, Owned, NoTaskOf
<1>9. Freed'
  <2>1. \A i \in DOMAIN free : free[i] # b
    BY DEF IInv, Freed
  <2>2. \A s \in Threads : mine'[s] # b
    BY <1>3, <1>4 DEF IInv, Owned
  <2>3. \A i \in DOMAIN free, s \in Threads : mine'[s] # free[i]
    <3>1. \A i \in DOMAIN free : free[i] # None
      BY ThreadsAssumption DEF IInv, PoolTypeOK
    <3> QED BY <1>4, <3>1 DEF IInv, Freed
  <2> QED BY <1>1, <1>3, <1>5, <2>1, <2>2, <2>3 DEF IInv, Freed
<1>10. Waited'
  BY <1>1, <1>2, <1>4 DEF IInv, Waited
<1>11. NullsGoRound'
  <2>1. threads \subseteq Threads
    BY DEF IInv, PoolTypeOK, Threads
  <2> QED BY <1>1, <1>2, <1>4, <2>1, NullsKept
<1> QED BY <1>1, <1>6, <1>7, <1>8, <1>9, <1>10, <1>11, CountsKept DEF IInv

-----------------------------------------------------------------------------
(* The steps of a worker.                                                   *)

\* Home is a finite set.
LEMMA HomeFinite ==
  ASSUME PoolTypeOK
  PROVE  /\ IsFiniteSet(Home) /\ Cardinality(Home) \in Nat
         /\ IsFiniteSet(threads) /\ Cardinality(threads) \in Nat
<1>1. threads \in SUBSET Workers /\ Home \in SUBSET threads
  BY DEF PoolTypeOK, Home
<1>2. IsFiniteSet(threads) /\ IsFiniteSet(Home)
  BY <1>1, ThreadsAssumption, FS_Subset
<1> QED BY <1>2, FS_CardinalityType

\* A worker takes a task, which its batch goes on counting; or a null task, and goes home.
LEMMA PopWaitKeeps == ASSUME IInv, NEW w \in Threads, PopWait(w) PROVE IInv'
<1> DEFINE x == Head(queue)
           p == IF x.batch = None THEN "exited" ELSE "run"
<1> USE DEF bounds, batchVars
<1>1. /\ w \in Workers /\ queue # <<>> /\ pc[w] = "pop" /\ Goto(w, p)
      /\ task' = [task EXCEPT ![w] = x] /\ queue' = Tail(queue)
      /\ UNCHANGED <<mutex, threads, batchVars, mine, pushing, nulls, bounds>>
  BY DEF PopWait, Move
<1>2. /\ queue \in Seq(Tasks \cup {Null}) /\ x \in Tasks \cup {Null}
      /\ queue' \in Seq(Tasks \cup {Null}) /\ Len(queue') <= QueueSize
      /\ 1 \in DOMAIN queue /\ x = queue[1]
      /\ \A j \in DOMAIN queue' : \E i \in DOMAIN queue : queue'[j] = queue[i]
  <2>1. queue \in Seq(Tasks \cup {Null}) /\ Len(queue) <= QueueSize
    BY DEF IInv, PoolTypeOK
  <2>2. /\ x \in Tasks \cup {Null} /\ queue' \in Seq(Tasks \cup {Null})
        /\ Len(queue') = Len(queue) - 1
        /\ 1 \in DOMAIN queue /\ x = queue[1]
    BY <1>1, <2>1
  <2>3. \A j \in DOMAIN queue' : j + 1 \in DOMAIN queue /\ queue'[j] = queue[j + 1]
    BY <1>1, <2>1
  <2> QED BY <2>1, <2>2, <2>3, BoundsAssumption
<1>3. x = Null <=> x.batch = None
  BY <1>2, TaskBatch
<1>4. \A c : Cardinality(QueuedOf(queue, c)) = Cardinality(QueuedOf(queue', c)) + One(x.batch, c)
  <2>1. queue \in Seq(Tasks \cup {Null}) /\ queue # <<>> /\ queue' = Tail(queue)
    BY <1>1, <1>2
  <2> QED BY <2>1, QueuedTail, Zenon
<1> HIDE DEF x
<1>5. p \in {"exited", "run"} /\ (p = "exited" <=> x = Null)
  BY <1>3
<1> HIDE DEF p
<1>6. /\ \A s \in Threads : pc'[s] = IF s = w THEN p ELSE pc[s]
      /\ \A s \in Threads : task'[s] = IF s = w THEN x ELSE task[s]
  BY <1>1 DEF IInv, PoolTypeOK, Goto
<1>7. task[w] = Null /\ task[w].batch = None /\ w \in threads
  BY <1>1 DEF IInv, Place, Null
<1>8. PoolTypeOK'
  BY <1>1, <1>2, <1>5 DEF IInv, PoolTypeOK, Goto
<1>9. Counted'
  <2> SUFFICES ASSUME NEW c \in Batches \cup {Global} PROVE Load(c)' = Load(c)
    BY <1>1 DEF IInv, Counted
  <2>1. Cardinality(Having(task', c)) + One(None, c) = Cardinality(Having(task, c)) + One(x.batch, c)
    BY <1>6, <1>7, HavingUpdate
  <2>2. One(None, c) = 0 /\ One(x.batch, c) \in Nat
    BY ThreadsAssumption DEF One
  <2>3. /\ Cardinality(QueuedOf(queue, c)) \in Nat /\ Cardinality(QueuedOf(queue', c)) \in Nat
        /\ Cardinality(Having(pushing, c)) \in Nat
        /\ Cardinality(Having(task, c)) \in Nat /\ Cardinality(Having(task', c)) \in Nat
    BY <1>2, HavingFinite, QueuedFinite
  <2> QED BY <1>1, <1>4, <2>1, <2>2, <2>3 DEF Load
<1>10. \A s \in Threads : Place(s)'
  <2>1. Place(w)'
    BY <1>1, <1>5, <1>6, <1>7, ThreadsAssumption DEF IInv, Place, Threads
  <2> QED BY <1>1, <1>6, <2>1, OthersStay
<1>11. Owned'
  <2>1. ASSUME NEW b \in Batches \ made PROVE NoTaskOf(b)'
    <3>1. NoTaskOf(b) /\ x.batch # b
      BY <1>2 DEF IInv, Owned, NoTaskOf
    <3>2. \A j \in DOMAIN queue' : queue'[j].batch # b
      BY <1>2, <3>1 DEF NoTaskOf
    <3> QED BY <1>1, <1>6, <3>1, <3>2 DEF NoTaskOf
  <2> QED BY <1>1, <2>1 DEF IInv, Owned
<1>12. Freed' /\ Waited'
  BY <1>1, <1>5, <1>6 DEF IInv, Freed, Waited
<1>13. NullsGoRound'
  <2>1. threads \subseteq Threads /\ mutex \in Clients \cup {None} /\ w # mutex
    BY <1>1, ThreadsAssumption DEF IInv, PoolTypeOK, Threads
  <2>2. mutex # None /\ pc'[mutex] = "join" => pc[mutex] = "join"
    BY <1>6, <2>1 DEF Threads
  <2>3. /\ Cardinality(QueuedOf(queue, None)) \in Nat /\ Cardinality(QueuedOf(queue', None)) \in Nat
        /\ Cardinality(Home) \in Nat /\ IsFiniteSet(Home)
    BY <1>2, QueuedFinite, HomeFinite DEF IInv
  <2>4. Cardinality(Home') = Cardinality(Home) + One(x.batch, None)
    <3>1. CASE p = "exited"
      <4>1. Home' = Home \cup {w} /\ w \notin Home
        BY <1>1, <1>6, <1>7, <2>1, <3>1 DEF Home
      <4>2. One(x.batch, None) = 1
        BY <1>3, <1>5, <3>1 DEF One
      <4> QED BY <2>3, <4>1, <4>2, FS_AddElement
    <3>2. CASE p # "exited"
      <4>1. Home' = Home
        BY <1>1, <1>6, <1>7, <2>1, <3>2 DEF Home
      <4>2. One(x.batch, None) = 0
        BY <1>3, <1>5, <3>2 DEF One
      <4> QED BY <2>3, <4>1, <4>2
    <3> QED BY <3>1, <3>2
  <2>5. Cardinality(QueuedOf(queue', None)) + Cardinality(Home') =
          Cardinality(QueuedOf(queue, None)) + Cardinality(Home)
    <3>1. One(x.batch, None) \in Nat
      BY DEF One
    <3> QED BY <1>4, <2>3, <2>4, <3>1
  <2>6. nulls \in Nat /\ Cardinality(Home') \in Nat
    BY <1>8, HomeFinite, <2>3, <2>4 DEF IInv, PoolTypeOK, One
  <2>7. nulls + Cardinality(QueuedOf(queue', None)) + Cardinality(Home') =
          nulls + Cardinality(QueuedOf(queue, None)) + Cardinality(Home)
    BY <2>3, <2>5, <2>6
  <2> QED BY <1>1, <2>2, <2>7 DEF IInv, NullsGoRound
<1> QED BY <1>8, <1>9, <1>10, <1>11, <1>12, <1>13 DEF IInv

\* A task is over and counted no more; the last one of its batch wakes the one that waits.
LEMMA RemoveKeeps == ASSUME IInv, NEW w \in Threads, Remove(w) PROVE IInv'
<1> DEFINE b == task[w].batch
           woken == IF count[b] = 1 THEN Sleepers(b) ELSE {}
<1> USE DEF bounds
<1>1. /\ pc[w] = "ran" /\ count' = [count EXCEPT ![b] = @ - 1]
      /\ task' = [task EXCEPT ![w] = Null]
      /\ UNCHANGED <<mutex, threads, queue, free, made, mine, pushing, nulls, bounds>>
  BY DEF Remove, RemoveNotifying, queueVars
<1>2. pc' = [s \in Threads |-> IF s = w THEN "pop" ELSE IF s \in woken THEN "woken" ELSE pc[s]]
  BY DEF Remove, RemoveNotifying, queueVars
<1>3. w \in Workers /\ w \in threads /\ task[w] # Null /\ mine[w] = None /\ pushing[w] = Null
  BY <1>1 DEF IInv, Place, Threads
<1>4. b \in Batches \cup {Global} /\ b # None
  <2>1. task[w] \in Tasks \cup {Null}
    BY DEF IInv, PoolTypeOK
  <2> QED BY <1>3, <2>1, TaskBatch, ThreadsAssumption
<1>5. \A s \in woken : s \in Threads /\ pc[s] = "asleep"
  BY DEF Sleepers
<1> HIDE DEF b, woken
<1>6. \A s \in Threads : task'[s] = IF s = w THEN Null ELSE task[s]
  BY <1>1 DEF IInv, PoolTypeOK
<1>7. \A c \in Batches \cup {Global} : count'[c] = IF c = b THEN count[c] - 1 ELSE count[c]
  BY <1>1 DEF IInv, PoolTypeOK
<1>8. Counted'
  <2> SUFFICES ASSUME NEW c \in Batches \cup {Global} PROVE count'[c] = Load(c)' + One(c, Global)
    BY DEF Counted
  <2>1. Cardinality(Having(task', c)) + One(b, c) = Cardinality(Having(task, c)) + One(None, c)
    BY <1>6, HavingUpdate DEF b, Null
  <2>2. One(None, c) = 0 /\ One(b, c) = IF c = b THEN 1 ELSE 0
    BY ThreadsAssumption DEF One
  <2>3. /\ Cardinality(QueuedOf(queue, c)) \in Nat /\ Cardinality(Having(pushing, c)) \in Nat
        /\ Cardinality(Having(task, c)) \in Nat /\ Cardinality(Having(task', c)) \in Nat
    BY HavingFinite, QueuedFinite DEF IInv, PoolTypeOK
  <2>4. Load(c)' = Load(c) - (IF c = b THEN 1 ELSE 0)
    BY <1>1, <2>1, <2>2, <2>3 DEF Load
  <2>5. count[c] = Load(c) + One(c, Global)
    BY DEF IInv, Counted
  <2>6. Load(c) \in Nat /\ One(c, Global) \in Nat
    BY LoadIsNat DEF One, IInv
  <2> QED BY <1>7, <2>4, <2>5, <2>6
<1>9. count[b] \in Nat \ {0}
  <2>1. Load(b) \in Nat /\ Load(b) # 0
    BY <1>4, LoadIsNat DEF IInv, NoTaskOf, b
  <2>2. count[b] = Load(b) + One(b, Global) /\ One(b, Global) \in Nat
    BY <1>4 DEF IInv, Counted, One
  <2> QED BY <2>1, <2>2
<1>10. PoolTypeOK'
  <2>1. count' \in [Batches \cup {Global} -> Nat]
    BY <1>1, <1>4, <1>9 DEF IInv, PoolTypeOK
  <2>2. /\ task' \in [Threads -> Tasks \cup {Null}]
        /\ pc' \in [Threads -> {"idle", "open", "push", "finish", "asleep", "woken", "release",
                                "nulls", "join", "pop", "run", "ran", "exited", "aborted"}]
    BY <1>1, <1>2 DEF IInv, PoolTypeOK
  <2> QED BY <1>1, <2>1, <2>2 DEF IInv, PoolTypeOK
<1>11. \A s \in Threads : Place(s)'
  <2> SUFFICES ASSUME NEW s \in Threads PROVE Place(s)'
    OBVIOUS
  <2>1. CASE s = w
    BY <1>1, <1>2, <1>3, <1>6, <2>1, ThreadsAssumption DEF IInv, Place, PoolTypeOK
  <2>2. CASE s # w /\ s \in woken
    BY <1>1, <1>2, <1>5, <1>6, <2>2 DEF IInv, Place
  <2>3. CASE s # w /\ s \notin woken
    BY <1>1, <1>2, <1>6, <2>3 DEF IInv, Place
  <2> QED BY <2>1, <2>2, <2>3
<1>12. Owned'
  BY <1>1, <1>6, ThreadsAssumption DEF IInv, Owned, NoTaskOf, Null
<1>13. \A c \in Batches : count[c] = 0 => c # b
  BY <1>9
<1>14. Freed'
  BY <1>1, <1>7, <1>13 DEF IInv, Freed, PoolTypeOK
<1>15. Waited'
  <2> SUFFICES ASSUME NEW s \in Threads, pc'[s] = "release" PROVE count'[mine[s]] = 0
    BY <1>1 DEF Waited
  <2>1. pc[s] = "release"
    BY <1>2
  <2>2. mine[s] \in Batches
    BY <2>1 DEF IInv, Place, PoolTypeOK
  <2> QED BY <1>7, <1>13, <2>1, <2>2 DEF IInv, Waited
<1>16. NullsGoRound'
  <2>1. threads \subseteq Threads /\ mutex \in Threads \cup {None}
    BY DEF IInv, PoolTypeOK, Threads
  <2>2. mutex # None /\ pc'[mutex] = "join" => nulls = 0
    BY <1>2, <2>1 DEF IInv, NullsGoRound
  <2>3. \A s \in threads : pc'[s] = "exited" <=> pc[s] = "exited"
    BY <1>1, <1>2, <1>5, <2>1
  <2> QED BY <1>1, <2>2, <2>3, NullsKept
<1> QED BY <1>8, <1>10, <1>11, <1>12, <1>14, <1>15, <1>16 DEF IInv

-----------------------------------------------------------------------------
(* The steps of Stop and Start.                                             *)

LEMMA StopKeeps == ASSUME IInv, NEW t \in Threads, Stop(t) PROVE IInv'
<1> USE DEF bounds, batchVars, taskVars
<1>1. /\ t \in Clients /\ mutex = None /\ pc[t] = "idle" /\ Goto(t, "nulls")
      /\ mutex' = t /\ nulls' = Cardinality(threads) /\ stops' = stops + 1
      /\ UNCHANGED <<threads, queue, batchVars, taskVars, submitted>>
  BY ThreadsAssumption DEF Stop, StopPushing, Move, queueVars
<1>2. \A s \in Threads : pc'[s] = IF s = t THEN "nulls" ELSE pc[s]
  BY <1>1 DEF IInv, PoolTypeOK, Goto
<1>3. Cardinality(threads) \in Nat /\ Cardinality(Home) \in Nat
      /\ Cardinality(QueuedOf(queue, None)) \in Nat /\ nulls \in Nat
  BY HomeFinite, QueuedFinite DEF IInv, PoolTypeOK
<1>4. PoolTypeOK'
  BY <1>1, <1>3 DEF IInv, PoolTypeOK, Goto
<1>5. \A s \in Threads : Place(s)'
  BY <1>1, <1>2, ThreadsAssumption DEF IInv, Place, Threads
<1>6. Freed' /\ Waited'
  BY <1>1, <1>2 DEF IInv, Freed, Waited
<1>7. NullsGoRound'
  <2>1. Home' = Home /\ t # None
    <3>1. threads \subseteq Threads
      BY DEF IInv, PoolTypeOK, Threads
    <3> QED BY <1>1, <1>2, <3>1, ThreadsAssumption DEF Home
  <2>2. nulls = 0 /\ Cardinality(QueuedOf(queue, None)) = 0 /\ Cardinality(Home) = 0
    BY <1>1, <1>3 DEF IInv, NullsGoRound
  <2>3. pc'[mutex'] = "nulls"
    BY <1>1, <1>2
  <2> QED BY <1>1, <1>3, <2>1, <2>2, <2>3 DEF NullsGoRound
<1> QED BY <1>1, <1>4, <1>5, <1>6, <1>7, CountsKept, OwnedKept DEF IInv

\* A null task less to push, and one more in the queue.
LEMMA PushNullKeeps == ASSUME IInv, NEW t \in Threads, PushNull(t) PROVE IInv'
<1> USE DEF bounds, batchVars, taskVars
<1>1. /\ nulls > 0 /\ Len(queue) < QueueSize /\ pc[t] = "nulls" /\ UNCHANGED pc
      /\ queue' = Append(queue, Null) /\ nulls' = nulls - 1
      /\ UNCHANGED <<mutex, threads, batchVars, taskVars, bounds>>
  BY DEF PushNull, Commit, MayCommit
<1>2. /\ queue \in Seq(Tasks \cup {Null}) /\ Null \in Tasks \cup {Null}
      /\ queue' \in Seq(Tasks \cup {Null}) /\ Len(queue') <= QueueSize /\ nulls' \in Nat
  BY <1>1, BoundsAssumption DEF IInv, PoolTypeOK
<1>3. \A c : Cardinality(QueuedOf(queue', c)) = Cardinality(QueuedOf(queue, c)) + One(Null.batch, c)
  <2>1. queue' = Append(queue, Null)
    BY <1>1
  <2> QED BY <1>2, <2>1, QueuedAppend, Zenon
<1>4. PoolTypeOK'
  BY <1>1, <1>2 DEF IInv, PoolTypeOK
<1>5. Counted'
  <2> SUFFICES ASSUME NEW c \in Batches \cup {Global} PROVE Load(c)' = Load(c)
    BY <1>1 DEF IInv, Counted
  <2>1. One(Null.batch, c) = 0
    BY ThreadsAssumption DEF One, Null
  <2>2. Cardinality(QueuedOf(queue', c)) = Cardinality(QueuedOf(queue, c))
    BY <1>2, <1>3, <2>1, QueuedFinite
  <2> QED BY <1>1, <2>2 DEF Load
<1>6. \A s \in Threads : Place(s)'
  BY <1>1 DEF IInv, Place
<1>7. Owned'
  <2>1. ASSUME NEW b \in Batches \ made PROVE NoTaskOf(b)'
    <3>1. NoTaskOf(b) /\ Null.batch # b
      BY <2>1, ThreadsAssumption DEF IInv, Owned, Null
    <3>2. \A j \in DOMAIN queue' : queue'[j] = Null \/ \E i \in DOMAIN queue : queue'[j] = queue[i]
      BY <1>1, <1>2
    <3> QED BY <1>1, <3>1, <3>2 DEF NoTaskOf
  <2> QED BY <1>1, <2>1 DEF IInv, Owned
<1>8. Freed' /\ Waited'
  BY <1>1 DEF IInv, Freed, Waited
<1>9. NullsGoRound'
  <2>1. mutex = t /\ t # None
    BY <1>1, ThreadsAssumption DEF IInv, Place
  <2>2. Home' = Home
    BY <1>1 DEF Home
  <2>3. Cardinality(Home) \in Nat /\ Cardinality(QueuedOf(queue, None)) \in Nat /\ nulls \in Nat
    BY <1>2, HomeFinite, QueuedFinite DEF IInv, PoolTypeOK
  <2>4. Cardinality(QueuedOf(queue', None)) = Cardinality(QueuedOf(queue, None)) + 1
    BY <1>3 DEF One, Null
  <2>5. nulls' + Cardinality(QueuedOf(queue', None)) + Cardinality(Home) =
          nulls + Cardinality(QueuedOf(queue, None)) + Cardinality(Home)
    BY <1>1, <2>3, <2>4
  <2> QED BY <1>1, <2>1, <2>2, <2>5 DEF IInv, NullsGoRound
<1> QED BY <1>4, <1>5, <1>6, <1>7, <1>8, <1>9 DEF IInv

\* A worker that has gone home is joined: one null task less to account for, and one thread.
LEMMA JoinWorkerKeeps ==
  ASSUME IInv, NEW t \in Threads, NEW w \in Workers, JoinWorker(t, w) PROVE IInv'
<1> USE DEF bounds, batchVars, taskVars
<1>1. /\ pc[t] = "join" /\ w \in threads /\ pc[w] = "exited" /\ threads' = threads \ {w}
      /\ UNCHANGED <<mutex, queue, batchVars, pc, taskVars, nulls, bounds>>
  BY DEF JoinWorker, queueVars
<1>2. PoolTypeOK'
  BY <1>1 DEF IInv, PoolTypeOK
<1>3. \A s \in Threads : Place(s)'
  BY <1>1 DEF IInv, Place
<1>4. Freed' /\ Waited'
  BY <1>1 DEF IInv, Freed, Waited
<1>5. NullsGoRound'
  <2>1. mutex = t /\ t # None
    BY <1>1, ThreadsAssumption DEF IInv, Place
  <2>2. Home' = Home \ {w} /\ w \in Home
    BY <1>1 DEF Home
  <2>3. /\ Cardinality(Home) \in Nat /\ Cardinality(threads) \in Nat
        /\ Cardinality(QueuedOf(queue, None)) \in Nat /\ nulls \in Nat
    BY HomeFinite, QueuedFinite DEF IInv, PoolTypeOK
  <2>4. Cardinality(Home') = Cardinality(Home) - 1
    BY <2>2, HomeFinite, FS_RemoveElement DEF IInv
  <2>5. Cardinality(threads') = Cardinality(threads) - 1
    BY <1>1, HomeFinite, FS_RemoveElement DEF IInv
  <2>6. nulls + Cardinality(QueuedOf(queue, None)) + Cardinality(Home) = Cardinality(threads)
    BY <2>1 DEF IInv, NullsGoRound
  <2>7. nulls + Cardinality(QueuedOf(queue, None)) + Cardinality(Home') = Cardinality(threads')
    BY <2>3, <2>4, <2>5, <2>6
  <2> QED BY <1>1, <2>1, <2>7 DEF IInv, NullsGoRound
<1> QED BY <1>1, <1>2, <1>3, <1>4, <1>5, CountsKept, OwnedKept DEF IInv

\* No thread is left, so no null task is: the pool can be started again.
LEMMA StopReturnsKeeps == ASSUME IInv, NEW t \in Threads, StopReturns(t) PROVE IInv'
<1> USE DEF bounds, taskVars
<1>1. /\ threads = {} /\ pc[t] = "join" /\ Goto(t, "idle")
      /\ made' = {b \in made : \A i \in DOMAIN free : free[i] # b}
      /\ free' = <<>> /\ mutex' = None
      /\ UNCHANGED <<threads, queue, count, taskVars, nulls, bounds>>
  BY DEF StopReturns, Move, queueVars
<1>2. \A s \in Threads : pc'[s] = IF s = t THEN "idle" ELSE pc[s]
  BY <1>1 DEF IInv, PoolTypeOK, Goto
<1>3. mutex = t /\ t # None
  BY <1>1, ThreadsAssumption DEF IInv, Place
<1>4. PoolTypeOK'
  BY <1>1 DEF IInv, PoolTypeOK, Goto
<1>5. \A s \in Threads : Place(s)'
  BY <1>1, <1>2, <1>3, ThreadsAssumption DEF IInv, Place, Threads
<1>6. Owned'
  <2>1. ASSUME NEW s \in Threads, mine[s] # None PROVE mine[s] \in made'
    BY <1>1, <2>1 DEF IInv, Owned, Freed
  <2>2. ASSUME NEW b \in Batches \ made' PROVE NoTaskOf(b)
    <3>1. CASE b \in made
      <4>1. count[b] = 0
        BY <1>1, <2>2, <3>1 DEF IInv, Freed
      <4> QED BY <2>2, <4>1, CountsNone DEF IInv
    <3>2. CASE b \notin made
      BY <2>2, <3>2 DEF IInv, Owned
    <3> QED BY <3>1, <3>2
  <2> QED BY <1>1, <2>1, <2>2 DEF IInv, Owned, NoTaskOf
<1>7. Freed' /\ Waited'
  BY <1>1, <1>2 DEF IInv, Freed, Waited
<1>8. NullsGoRound'
  <2>1. Home = {} /\ Home' = {}
    BY <1>1 DEF Home
  <2>2. Cardinality(Home') = 0 /\ Cardinality(Home) = 0 /\ Cardinality(threads) = 0
    BY <1>1, <2>1, FS_EmptySet
  <2>3. nulls + Cardinality(QueuedOf(queue, None)) + Cardinality(Home') = 0
    BY <1>3, <2>2 DEF IInv, NullsGoRound
  <2> QED BY <1>1, <2>3 DEF NullsGoRound
<1> QED BY <1>1, <1>4, <1>5, <1>6, <1>7, <1>8, CountsKept DEF IInv

\* Every worker had gone home.
LEMMA StartKeeps == ASSUME IInv, NEW t \in Threads, Start(t) PROVE IInv'
<1> USE DEF bounds, batchVars
<1>1. /\ mutex = None /\ threads = {} /\ threads' = Workers
      /\ pc' = [s \in Threads |-> IF s \in Workers THEN "pop" ELSE pc[s]]
      /\ task' = [s \in Threads |-> Null]
      /\ UNCHANGED <<mutex, queue, batchVars, mine, pushing, nulls, bounds>>
  BY DEF Start, queueVars
<1>2. \A s \in Threads : task[s] = Null /\ (s \in Workers => pc[s] = "exited")
  BY <1>1 DEF IInv, Place, Threads
<1>3. task' = task
  BY <1>1, <1>2 DEF IInv, PoolTypeOK
<1>4. PoolTypeOK'
  BY <1>1 DEF IInv, PoolTypeOK
<1>5. \A s \in Threads : Place(s)'
  BY <1>1, <1>2, <1>3, ThreadsAssumption DEF IInv, Place, Threads
<1>6. Freed' /\ Waited'
  BY <1>1 DEF IInv, Freed, Waited
<1>7. NullsGoRound'
  <2>1. Home = {} /\ Home' = {}
    BY <1>1 DEF Home, Threads
  <2> QED BY <1>1, <2>1 DEF IInv, NullsGoRound
<1> QED BY <1>1, <1>3, <1>4, <1>5, <1>6, <1>7, CountsKept, OwnedKept DEF IInv

-----------------------------------------------------------------------------
(* Lines.                                                                   *)

\* Who draws a ticket, waits, is woken or commits leaves the line one of these threads.
LEMMA LineKept ==
    ASSUME NEW T, NEW row \in Lines(T)
    PROVE  /\ \A t \in T : Joined(row, t) \in Lines(T)
           /\ \A t, length, slots : Waits(row, t, length, slots) \subseteq Lines(T)
           /\ \A t : Wakes(row, t) \subseteq Lines(T)
           /\ Notified(row) \in Lines(T) /\ Committed(row) \in Lines(T)
<1> DEFINE P == [thread : T, place : LinePlaces, tried : BOOLEAN]
<1>0. row \in Seq(P)
  BY DEF Lines
<1> HIDE DEF P
<1>1. row \in Seq(P) /\ DOMAIN row = 1 .. Len(row) /\ \A i \in DOMAIN row : row[i] \in P
  BY <1>0
<1>2. \A p \in P : /\ Woken(p) \in P
                  /\ [p EXCEPT !.place = "enter"] \in P /\ [p EXCEPT !.place = "asleep"] \in P
  BY DEF Woken, LinePlaces, P
<1>3. \A i \in DOMAIN row, p \in P : [row EXCEPT ![i] = p] \in Seq(P)
  BY <1>1
<1>4. \A t \in T : Joined(row, t) \in Lines(T)
  BY <1>1 DEF Joined, Lines, LinePlaces, P
<1>5. ASSUME NEW t, NEW length, NEW slots, NEW next \in Waits(row, t, length, slots)
      PROVE  next \in Seq(P)
  <2>1. PICK i \in DOMAIN row : \/ next = [row EXCEPT ![i] = [@ EXCEPT !.place = "enter"]]
                                \/ next = [row EXCEPT ![i] = [@ EXCEPT !.place = "asleep"]]
    BY <1>5 DEF Waits
  <2> QED
    BY <1>1, <1>2, <1>3, <2>1
<1>6. ASSUME NEW t, NEW next \in Wakes(row, t)
      PROVE  next \in Seq(P)
  <2>1. PICK i \in DOMAIN row : next = [row EXCEPT ![i] = Woken(row[i])]
    BY <1>6 DEF Wakes
  <2> QED
    BY <1>1, <1>2, <1>3, <2>1
<1>7. Notified(row) \in Lines(T)
  <2>1. Notified(row) \in [1 .. Len(row) -> P]
    BY <1>1, <1>2 DEF Notified
  <2> QED
    BY <1>1, <2>1 DEF Lines, P
<1>8. Committed(row) \in Lines(T)
  BY <1>1 DEF Committed, Lines, P
<1> QED
  BY <1>4, <1>5, <1>6, <1>7, <1>8 DEF Lines, P

LEMMA LineStepKeeps ==
  ASSUME NEW t \in Threads, line \in Lines(Threads), JoinLine(t) \/ WaitInLine(t) \/ WakeInLine(t)
  PROVE  line' \in Lines(Threads) /\ UNCHANGED <<mutex, threads, queue, batchVars, pc, taskVars, nulls, bounds>>
BY LineKept DEF JoinLine, WaitInLine, WakeInLine

LEMMA LinesKept == LineTypeOK /\ [Next]_vars => LineTypeOK'
<1> SUFFICES ASSUME LineTypeOK, [Next]_vars PROVE LineTypeOK'
  OBVIOUS
<1> USE DEF queueVars, LineTypeOK
<1>1. CASE UNCHANGED vars
  BY <1>1 DEF vars
<1>2. CASE \E t \in Threads : Proceed(t)
  <2> PICK t \in Threads : Proceed(t)
    BY <1>2
  <2>1. CASE JoinLine(t) \/ WaitInLine(t)
    BY <2>1, LineStepKeeps
  <2>2. CASE Push(t) \/ PopWait(t) \/ PushNull(t)
    BY <2>2, LineKept DEF Push, PopWait, PushNull, Commit
  <2>3. CASE TestCount(t) \/ ReleaseBatch(t) \/ RunTask(t) \/ Remove(t)
    BY <2>3 DEF TestCount, ReleaseBatch, RunTask, Remove, RemoveNotifying
  <2>4. CASE AllPushed(t) \/ StopReturns(t) \/ \E w \in Workers : JoinWorker(t, w) \/ TimeUp(t, w)
    BY <2>4 DEF AllPushed, StopReturns, JoinWorker, TimeUp
  <2>5. CASE CreateBatch(t) \/ SubmitToOwn(t) \/ FinishBatch(t)
    BY <2>5 DEF CreateBatch, SubmitToOwn, Submit, AddAndPush, FinishBatch
  <2> QED BY <2>1, <2>2, <2>3, <2>4, <2>5 DEF Proceed
<1>3. CASE \E t \in Threads : Call(t) \/ WakeSpuriously(t) \/ WakeInLine(t)
  <2> PICK t \in Threads : Call(t) \/ WakeSpuriously(t) \/ WakeInLine(t)
    BY <1>3
  <2>1. CASE CreateBatch(t) \/ FinishBatch(t) \/ WakeSpuriously(t)
    BY <2>1 DEF CreateBatch, FinishBatch, WakeSpuriously
  <2>2. CASE SubmitToGlobal(t) \/ \E k \in Kinds : SubmitToMine(t, k)
    BY <2>2 DEF SubmitToGlobal, SubmitToMine, Submit, AddAndPush
  <2>3. CASE Stop(t) \/ Start(t)
    BY <2>3 DEF Stop, StopPushing, Start
  <2>4. CASE WakeInLine(t)
    BY <2>4, LineStepKeeps
  <2> QED BY <2>1, <2>2, <2>3, <2>4 DEF Call
<1> QED BY <1>1, <1>2, <1>3 DEF Next

-----------------------------------------------------------------------------
\* Who only waits for a slot changes nothing else.
LEMMA WaitingKeeps ==
  ASSUME IInv, UNCHANGED <<mutex, threads, queue, batchVars, pc, taskVars, nulls, bounds>>
  PROVE  IInv'
BY DEF batchVars, taskVars, bounds, IInv, PoolTypeOK, Counted, Load, Place, Owned, NoTaskOf,
       Freed, Waited, NullsGoRound, Home

LEMMA NextKeeps == IInv /\ [Next]_vars => IInv'
<1> SUFFICES ASSUME IInv, [Next]_vars PROVE IInv'
  OBVIOUS
<1>1. CASE UNCHANGED vars
  BY <1>1 DEF vars, queueVars, batchVars, taskVars, bounds, IInv, PoolTypeOK, Counted, Load, Place, Owned, NoTaskOf,
       Freed, Waited, NullsGoRound, Home
<1>2. CASE \E t \in Threads : Proceed(t)
  <2> PICK t \in Threads : Proceed(t)
    BY <1>2
  <2>1. CASE Push(t)
    BY <2>1, PushKeeps
  <2>2. CASE TestCount(t)
    BY <2>2, TestCountKeeps
  <2>3. CASE ReleaseBatch(t)
    BY <2>3, ReleaseBatchKeeps
  <2>4. CASE PopWait(t)
    BY <2>4, PopWaitKeeps
  <2>5. CASE RunTask(t)
    BY <2>5, RunTaskKeeps
  <2>6. CASE Remove(t)
    BY <2>6, RemoveKeeps
  <2>7. CASE PushNull(t) \/ AllPushed(t) \/ StopReturns(t)
    BY <2>7, PushNullKeeps, AllPushedKeeps, StopReturnsKeeps
  <2>8. CASE \E w \in Workers : JoinWorker(t, w) \/ TimeUp(t, w)
    BY <2>8, JoinWorkerKeeps, TimeUpKeeps
  <2>9. CASE t \in Workers /\ (CreateBatch(t) \/ SubmitToOwn(t) \/ FinishBatch(t))
    BY <2>9, CreateBatchKeeps, SubmitToOwnKeeps, FinishBatchKeeps
  <2>10. CASE JoinLine(t) \/ WaitInLine(t)
    BY <2>10, WaitingKeeps DEF JoinLine, WaitInLine
  <2> QED BY <2>1, <2>2, <2>3, <2>4, <2>5, <2>6, <2>7, <2>8, <2>9, <2>10 DEF Proceed
<1>3. CASE \E t \in Threads : Call(t) \/ WakeSpuriously(t) \/ WakeInLine(t)
  BY <1>3, CreateBatchKeeps, FinishBatchKeeps, SubmitToGlobalKeeps, StopKeeps, StartKeeps,
     SubmitToMineKeeps, WakeSpuriouslyKeeps, WaitingKeeps DEF Call, WakeInLine
<1> QED BY <1>1, <1>2, <1>3 DEF Next

LEMMA Inductive == Spec => []IInv
BY InitiallyInductive, NextKeeps, PTL DEF Spec

\* The counts are never negative, the queue is within its bound, and the free list holds
\* batches.
THEOREM TypeCorrect == Spec => []TypeOK
<1>1. IInv => PoolTypeOK
  BY DEF IInv
<1>2. Spec => []LineTypeOK
  <2>1. Init => LineTypeOK
    BY DEF Init, Lines, LineTypeOK
  <2> QED BY <2>1, LinesKept, PTL DEF Spec
<1> QED BY <1>1, <1>2, Inductive, PTL DEF TypeOK, LineTypeOK

\* What JdTask::FinishBatch waits for, and what CreateBatch hands out, is quiet: no thread runs
\* or holds a task of it and none is in the queue.
THEOREM FinishedBatchIsQuiet == Spec => []FinishedIsQuiet
<1>1. IInv => FinishedIsQuiet
  <2> SUFFICES ASSUME IInv PROVE FinishedIsQuiet
    OBVIOUS
  <2>1. ASSUME NEW t \in Threads, pc[t] = "release" PROVE NoTaskOf(mine[t])
    <3>1. mine[t] \in Batches /\ count[mine[t]] = 0
      BY <2>1 DEF IInv, PoolTypeOK, Place, Waited
    <3> QED BY <3>1, CountsNone DEF IInv
  <2>2. ASSUME NEW i \in DOMAIN free PROVE NoTaskOf(free[i])
    <3>1. free[i] \in Batches /\ count[free[i]] = 0
      BY DEF IInv, PoolTypeOK, Freed
    <3> QED BY <3>1, CountsNone DEF IInv
  <2> QED BY <2>1, <2>2 DEF FinishedIsQuiet, IInv, Freed
<1> QED BY <1>1, Inductive, PTL

\* Stop, however the null tasks mix with the tasks in the queue and with the workers that go
\* home, leaves no worker and no null task; and Start brings back all the workers.
THEOREM StoppedPoolIsWhole == Spec => []PoolIsWhole
<1>1. IInv => PoolIsWhole
  <2> SUFFICES ASSUME IInv, mutex = None
               PROVE  /\ threads \in {{}, Workers}
                      /\ \A w \in threads : pc[w] # "exited"
                      /\ \A j \in DOMAIN queue : queue[j] # Null
    BY DEF PoolIsWhole
  <2>1. /\ Cardinality(Home) \in Nat /\ Cardinality(QueuedOf(queue, None)) \in Nat /\ nulls \in Nat
        /\ IsFiniteSet(Home)
    BY HomeFinite, QueuedFinite DEF IInv, PoolTypeOK
  <2>2. Cardinality(Home) = 0 /\ Cardinality(QueuedOf(queue, None)) = 0
    BY <2>1 DEF IInv, NullsGoRound
  <2>3. Home = {} /\ \A j \in DOMAIN queue : queue[j].batch # None
    BY <2>1, <2>2, FS_EmptySet, QueuedFinite DEF IInv, PoolTypeOK
  <2> QED BY <2>3 DEF IInv, NullsGoRound, Home, Null
<1> QED BY <1>1, Inductive, PTL
=============================================================================
