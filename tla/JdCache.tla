-------------------------------- MODULE JdCache --------------------------------
(***************************************************************************)
(* structures/JdCache.hpp, JdCacheT: resources that may be flushed while    *)
(* nobody has acquired them, the least recently used first.  A resource has *)
(* a record, which is in one of two lists by its own pointers: the queue of *)
(* what may be flushed, or the free records.  The reference a caller keeps  *)
(* is the record's address.                                                 *)
(*                                                                          *)
(* A caller releases what it has acquired (asserted), and does not resize   *)
(* what is flushed.  Insert of a flushed record links it into the queue and *)
(* the free list still leads to it: there the model stops.                  *)
(***************************************************************************)
EXTENDS Naturals, Sequences, FiniteSets

LOCAL INSTANCE SequencesExt
LOCAL INSTANCE FiniteSetsExt
LOCAL L == INSTANCE JdList WITH Items <- {}, Null <- "null", link <- << >>, order <- << >>

CONSTANTS
    Records,        \* what new ResourceRecord may return
    Sizes,
    MaxAcquired     \* bound: acquisitions of a resource

VARIABLES
    record,         \* by address: [resource, resourceSize, acquireCount], or NoRecord
    link,           \* next and previous of the records and the lists' sentinels
    freeSize,       \* m_freeRecords.size ()
    m_totalResourceSize,
    keeps,          \* the handler leaves a resource that is flushed to the caller
    used,           \* history: the records that may be flushed, the least recently used first
    reinserted

vars == <<record, link, freeSize, m_totalResourceSize, keeps, used, reinserted>>

NoRecord == [resource |-> FALSE, resourceSize |-> 0, acquireCount |-> 0]
Flushed == 0 - 1

Queue == <<"queue.start", "queue.end">>
FreeRecords == <<"free.start", "free.end">>
Walked(list) == L!Walk(link, list[1], list[2])

Init ==
    /\ record = [r \in {} |-> NoRecord]
    /\ link = L!WithLinks(L!EmptyList(Queue[1], Queue[2]), L!EmptyList(FreeRecords[1], FreeRecords[2]))
    /\ freeSize = 0
    /\ m_totalResourceSize = 0
    /\ keeps \in BOOLEAN
    /\ used = <<>>
    /\ reinserted = FALSE

\* A state of the cache, for what goes through several.
Cache == [record |-> record, link |-> link, freeSize |-> freeSize, total |-> m_totalResourceSize]
Becomes(c) ==
    /\ record' = c.record
    /\ link' = c.link
    /\ freeSize' = c.freeSize
    /\ m_totalResourceSize' = c.total

PushBack(links, list, r) == L!Insert(links, list[2], r)
\* JdList1T::erase; its size is the queue's own, which nobody asks for.
EraseLink(links, r) ==
    LET unlinked == L!Unlink(links, r) IN [unlinked EXCEPT ![r] = [next |-> "null", previous |-> "null"]]

-----------------------------------------------------------------------------
\* A free record, the first, or a new one.
InsertResource(size) ==
    /\ \E r \in Records :
         /\ IF freeSize > 0 THEN r = link[FreeRecords[1]].next ELSE r \notin DOMAIN record
         /\ LET links == IF freeSize > 0 THEN EraseLink(link, r) ELSE link IN
            Becomes([record |-> [x \in DOMAIN record \cup {r} |->
                        IF x = r THEN [resource |-> TRUE, resourceSize |-> size, acquireCount |-> 0]
                        ELSE record[x]],
                     link |-> PushBack(links, Queue, r),
                     freeSize |-> IF freeSize > 0 THEN freeSize - 1 ELSE 0,
                     total |-> m_totalResourceSize + size])
         /\ used' = Append(used, r)
    /\ UNCHANGED <<keeps, reinserted>>

\* By reference, after FlushResource.
InsertRecord(r, size) ==
    /\ record[r].acquireCount = Flushed
    /\ Becomes([Cache EXCEPT !.record[r].resourceSize = size, !.record[r].acquireCount = 0,
                             !.link = PushBack(link, Queue, r), !.total = @ + size])
    /\ reinserted' = TRUE
    /\ UNCHANGED <<keeps, used>>

\* Mutant: the record stays in the queue.
TryToAcquireQueued(r) ==
    /\ record[r].acquireCount >= 0
    /\ Becomes([Cache EXCEPT !.record[r].acquireCount = @ + 1])
    /\ used' = SelectSeq(used, LAMBDA x : x # r)
    /\ UNCHANGED <<keeps, reinserted>>

TryToAcquire(r) ==
    /\ record[r].acquireCount \in 0 .. MaxAcquired - 1
    /\ Becomes([Cache EXCEPT !.record[r].acquireCount = @ + 1,
                             !.link = IF record[r].acquireCount = 0 THEN EraseLink(@, r) ELSE @])
    /\ used' = SelectSeq(used, LAMBDA x : x # r)
    /\ UNCHANGED <<keeps, reinserted>>

Release(r) ==
    /\ record[r].acquireCount > 0
    /\ LET count == IF record[r].resource THEN record[r].acquireCount - 1 ELSE record[r].acquireCount
       IN  /\ Becomes([Cache EXCEPT !.record[r].acquireCount = count,
                                    !.link = IF count = 0 THEN PushBack(@, Queue, r) ELSE @])
           /\ used' = IF count = 0 THEN Append(used, r) ELSE used
    /\ UNCHANGED <<keeps, reinserted>>

Resize(r, size) ==
    /\ record[r].acquireCount >= 0
    /\ Becomes([Cache EXCEPT !.record[r].resourceSize = size,
                             !.total = @ - record[r].resourceSize + size])
    /\ UNCHANGED <<keeps, used, reinserted>>

-----------------------------------------------------------------------------
(* Flushing.                                                                *)

\* Flush: the size stays in the record.
Flush(c, r) ==
    [record |-> [c.record EXCEPT ![r].acquireCount = Flushed, ![r].resource = @ /\ keeps],
     link |-> PushBack(EraseLink(c.link, r), FreeRecords, r),
     freeSize |-> c.freeSize + 1,
     total |-> c.total - c.record[r].resourceSize]

\* Remove, which returns what the handler has left, and Erase.
Erase(r) ==
    /\ record[r].acquireCount = 0
    /\ Becomes(Flush(Cache, r))
    /\ used' = SelectSeq(used, LAMBDA x : x # r)
    /\ UNCHANGED <<keeps, reinserted>>

MayFlush(c, r) == c.record[r].acquireCount = 0 /\ c.record[r].resourceSize > 0

\* From the first in the queue on, until the size is below the limit.
FlushedTo(limit) ==
    IF m_totalResourceSize <= limit THEN Cache
    ELSE LET visit(s, r) ==
                 IF s.done \/ ~ MayFlush(s.cache, r) THEN s
                 ELSE LET c == Flush(s.cache, r) IN [cache |-> c, done |-> c.total < limit]
         IN  FoldLeft(visit, [cache |-> Cache, done |-> FALSE], Walked(Queue)).cache

FlushedOne(limit) ==
    LET may == SelectSeq(Walked(Queue), LAMBDA r : MayFlush(Cache, r))
    IN  IF m_totalResourceSize > limit /\ may # <<>> THEN Flush(Cache, may[1]) ELSE Cache

\* FlushResources and FlushResource.
FlushTo(c) ==
    /\ c # Cache
    /\ Becomes(c)
    /\ used' = SelectSeq(used, LAMBDA r : c.record[r].acquireCount = 0)
    /\ UNCHANGED <<keeps, reinserted>>

Next ==
    /\ ~ reinserted
    /\ \/ \E size \in Sizes :
            \/ InsertResource(size)
            \/ \E r \in DOMAIN record : InsertRecord(r, size) \/ Resize(r, size)
       \/ \E r \in DOMAIN record : TryToAcquire(r) \/ Release(r) \/ Erase(r)
       \/ \E limit \in Sizes : FlushTo(FlushedTo(limit)) \/ FlushTo(FlushedOne(limit))

Spec == Init /\ [][Next]_vars

-----------------------------------------------------------------------------
Of(count) == {r \in DOMAIN record : record[r].acquireCount = count}

\* The queue is what nobody has acquired, in the order of last use, the free list what was
\* flushed, and the total the sizes of what was not.
ListsArePartition ==
    /\ L!IsList(link, Queue[1], Queue[2], used)
    /\ ToSet(used) = Of(0) /\ Len(used) = Cardinality(Of(0))
    /\ ToSet(Walked(FreeRecords)) = Of(Flushed)
    /\ Len(Walked(FreeRecords)) = freeSize /\ freeSize = Cardinality(Of(Flushed))
    /\ m_totalResourceSize =
         MapThenSumSet(LAMBDA r : record[r].resourceSize, DOMAIN record \ Of(Flushed))

\* Flushing gets below the limit, or leaves only what is acquired or has no size; and it
\* flushes no more recently used resource before a less recently used one.
FlushesDownTo(limit) ==
    LET c == FlushedTo(limit)
        flushed == {i \in DOMAIN used : c.record[used[i]].acquireCount = Flushed}
    IN  /\ c.total <= limit \/ \A r \in DOMAIN record : ~ MayFlush(c, r)
        /\ \A i \in flushed, j \in DOMAIN used :
             j < i => j \in flushed \/ record[used[j]].resourceSize = 0

\* What the cache promises, until a flushed record is inserted by reference.
CacheIsKept == reinserted \/ (ListsArePartition /\ \A limit \in Sizes : FlushesDownTo(limit))
=============================================================================
