-------------------------- MODULE JdCircularAllocator --------------------------
(***************************************************************************)
(* structures/JdCircularAllocator.hpp: a ring that threads allocate chunks  *)
(* of, in order, and release in any order.  A chunk is a size word and its  *)
(* bytes, one run of them: one that begins near the end of the buffer ends  *)
(* in the padding behind it.  The release index goes on over chunks that    *)
(* were released before their turn.  Whoever finds no room sleeps.          *)
(*                                                                          *)
(* Sizes are in words of eight bytes.  A chunk is released by any thread;   *)
(* its words are written over by the one that has allocated it.             *)
(***************************************************************************)
EXTENDS Naturals, FiniteSets, FiniteSetsExt

CONSTANTS
    Threads,
    Requests,       \* what is asked of Allocate
    Buffers,        \* what is asked of Resize: [buffer, max]
    IndexWidth      \* 2^32, in words: a power of two

RoundUpToAPowerOf2(n) == Min({p \in {2^i : i \in 0 .. n} : p >= n})

\* A size is a power of two that is less than an index can count to.  A maximum of 0 is
\* the one there was.
ASSUME AllocatorAssumption ==
    /\ Requests \subseteq Nat
    /\ IndexWidth \in Nat
    /\ \A b \in Buffers :
         /\ b.max \in Nat
         /\ RoundUpToAPowerOf2(b.buffer) \in 1 .. IndexWidth - 1
         /\ IndexWidth % RoundUpToAPowerOf2(b.buffer) = 0

VARIABLES
    m_bufferSize, m_maxAllocationSize,
    m_claimedIndex, m_releaseIndex,
    word,           \* m_bytes: [size, allocated] is a size word
    chunks,         \* what Allocate has returned and nobody has released: [at, size]
    waiting         \* each thread: idle, notifying, or asleep [for, size, notified, missed]

ringVars == <<m_bufferSize, m_maxAllocationSize, m_claimedIndex, m_releaseIndex, word, chunks, waiting>>

Idle == [for |-> "nothing"]
Notifying == [for |-> "unlocked"]
Data == [size |-> 0, allocated |-> FALSE]

\* A buffer without a size, as the constructor makes by default.
InitRing ==
    /\ m_bufferSize = 0
    /\ m_maxAllocationSize \in {b.max : b \in Buffers} \ {0}
    /\ m_claimedIndex = 0 /\ m_releaseIndex = 0
    /\ word = << >>
    /\ chunks = {}
    /\ waiting = [t \in Threads |-> Idle]

Masked(index) == index % m_bufferSize
Claimed == (m_claimedIndex - m_releaseIndex + IndexWidth) % IndexWidth
GetNumAvailableBytes == m_bufferSize - Claimed

\* Once it has the lock, a thread goes on if there is room, or if nothing is allocated.
MayGoOn(w) ==
    IF w.for = "room" THEN GetNumAvailableBytes >= w.size ELSE m_claimedIndex = m_releaseIndex

Asleep(t) == waiting[t].for \in {"room", "resize"}

-----------------------------------------------------------------------------
Place(size) ==
    LET at == Masked(m_claimedIndex)
        chunk == [at |-> at, size |-> size]
    IN  /\ m_claimedIndex' = (m_claimedIndex + size) % IndexWidth
        /\ word' = [i \in DOMAIN word |->
                     IF i = at THEN [size |-> size, allocated |-> TRUE]
                     ELSE IF i \in at + 1 .. at + size - 1 THEN Data ELSE word[i]]
        /\ chunks' = chunks \cup {chunk}
        /\ UNCHANGED <<m_bufferSize, m_maxAllocationSize, m_releaseIndex>>

\* The padding takes what a chunk in the last word can need.
SetSize(b) ==
    /\ m_maxAllocationSize' = IF b.max = 0 THEN m_maxAllocationSize ELSE b.max
    /\ m_bufferSize' = RoundUpToAPowerOf2(b.buffer)
    /\ word' = [i \in 0 .. m_bufferSize' + m_maxAllocationSize' - 1 |->
                  IF i \in DOMAIN word THEN word[i] ELSE Data]
    /\ UNCHANGED <<m_claimedIndex, m_releaseIndex, chunks>>

\* Nobody is told of a new size.
GoToSleep(t, w) ==
    /\ waiting' = [waiting EXCEPT ![t] = [for |-> w.for, size |-> w.size,
                                           notified |-> FALSE, missed |-> FALSE]]
    /\ UNCHANGED <<m_bufferSize, m_maxAllocationSize, m_claimedIndex, m_releaseIndex, word, chunks>>

Succeed(t, w) ==
    /\ IF w.for = "room" THEN Place(w.size) ELSE SetSize(w.size)
    /\ waiting' = [u \in Threads |->
                     IF u = t THEN Idle
                     ELSE IF w.for = "resize" /\ Asleep(u) THEN [waiting[u] EXCEPT !.missed = TRUE]
                     ELSE waiting[u]]

Try(t, w) == IF MayGoOn(w) THEN Succeed(t, w) ELSE GoToSleep(t, w)

\* An allocation that is too large returns at once, with nothing.
Allocate(t, n) ==
    /\ waiting[t] = Idle
    /\ n <= m_maxAllocationSize
    /\ Try(t, [for |-> "room", size |-> n + 1])

Resize(t, b) ==
    /\ waiting[t] = Idle
    /\ Try(t, [for |-> "resize", size |-> b])

\* Notified, or of itself.
Wake(t) ==
    /\ Asleep(t)
    /\ Try(t, [for |-> waiting[t].for, size |-> waiting[t].size])

\* Mutant: the release index goes on from any chunk.
ReleasedAnywhere(words, at) == words[at].size

\* How far the release index goes: over this chunk, if it is there, and the released ones
\* behind it, up to what is claimed.
Released(words, at) ==
    LET after[i \in Nat] ==
            IF i = 0 THEN 0
            ELSE LET n == after[i - 1]
                     next == words[Masked(m_releaseIndex + n)]
                 IN  IF n = Claimed \/ next.allocated THEN n ELSE n + next.size
    IN  IF at = Masked(m_releaseIndex) THEN after[Claimed] ELSE 0

Release(t, chunk) ==
    /\ waiting[t] = Idle
    /\ word' = [word EXCEPT ![chunk.at].allocated = FALSE]
    /\ m_releaseIndex' = (m_releaseIndex + Released(word', chunk.at)) % IndexWidth
    /\ chunks' = chunks \ {chunk}
    /\ waiting' = [waiting EXCEPT ![t] = IF m_releaseIndex' = m_releaseIndex THEN @ ELSE Notifying]
    /\ UNCHANGED <<m_bufferSize, m_maxAllocationSize, m_claimedIndex>>

\* After the lock was given up.
NotifyAll(t) ==
    /\ waiting[t] = Notifying
    /\ waiting' = [u \in Threads |->
                     IF u = t THEN Idle
                     ELSE IF Asleep(u) THEN [waiting[u] EXCEPT !.notified = TRUE] ELSE waiting[u]]
    /\ UNCHANGED <<m_bufferSize, m_maxAllocationSize, m_claimedIndex, m_releaseIndex, word, chunks>>

NextRing ==
    \E t \in Threads :
      \/ \E n \in Requests : Allocate(t, n)
      \/ \E b \in Buffers : Resize(t, b)
      \/ \E chunk \in chunks : Release(t, chunk)
      \/ Wake(t) \/ NotifyAll(t)

RingSpec == InitRing /\ [][NextRing]_ringVars

-----------------------------------------------------------------------------
Words(chunk) == chunk.at .. chunk.at + chunk.size - 1

\* Chunks lie in the buffer and its padding and apart from each other, their size words are
\* not written over, and they are within what is claimed, over all orders of release and
\* round the ends of the ring and of the indices.  (One that was asked for before a resize
\* to a smaller maximum, and tested against the old one, may reach past the padding.)
ChunksAreApart ==
    /\ \A c \in chunks :
         /\ c.size <= m_maxAllocationSize + 1 => Words(c) \subseteq DOMAIN word
         /\ word[c.at] = [size |-> c.size, allocated |-> TRUE]
    /\ \A c, d \in chunks : c # d => Words(c) \cap Words(d) = {}
    /\ \A c \in chunks : Masked(c.at + m_bufferSize - Masked(m_releaseIndex)) + c.size <= Claimed
    /\ Claimed <= m_bufferSize
    /\ chunks = {} => Claimed = 0

\* Who sleeps though it could go on has been notified or is about to be; unless the buffer
\* was resized while it slept, which notifies nobody.
SleepersAreNotified ==
    \A t \in Threads :
      Asleep(t) /\ MayGoOn(waiting[t]) =>
        waiting[t].notified \/ waiting[t].missed \/ \E u \in Threads : waiting[u] = Notifying

\* What the ring promises.
RingIsKept == ChunksAreApart /\ SleepersAreNotified
=============================================================================
