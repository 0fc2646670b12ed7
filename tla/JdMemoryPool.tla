----------------------------- MODULE JdMemoryPool -----------------------------
(***************************************************************************)
(* structures/JdCache.hpp, JdMemoryPool: blocks of whole pages that are     *)
(* kept when they are freed, the small ones first, and given again to who   *)
(* asks for nearly their size.  A block's size is in a header before it.    *)
(***************************************************************************)
EXTENDS Naturals, Sequences, FiniteSets

LOCAL INSTANCE SequencesExt
LOCAL INSTANCE FiniteSetsExt

CONSTANTS
    Chunks,         \* what new u8 [] may return
    Page, Header,   \* sizes: of a page, and of a size_t
    Requests

VARIABLES
    size,           \* by block: what its header says, or 0 if there is none
    m_memory,       \* the free blocks
    m_totalAllocatedBytes, m_totalFreeBytes,
    asked           \* history: what the block in use was allocated for

vars == <<size, m_memory, m_totalAllocatedBytes, m_totalFreeBytes, asked>>

Init ==
    /\ size = [b \in Chunks |-> 0]
    /\ m_memory = <<>>
    /\ m_totalAllocatedBytes = 0 /\ m_totalFreeBytes = 0
    /\ asked = [b \in Chunks |-> 0]

Aligned(n) == ((n + Page - 1) \div Page) * Page
UpperLimit(n) == (n * 36) \div 32

\* FindAllocation: the first block that is large enough; the search ends at one too large.
FindAllocation(n) ==
    LET large == {i \in DOMAIN m_memory : size[m_memory[i]] > UpperLimit(n)}
        fits == {i \in DOMAIN m_memory : size[m_memory[i]] >= n /\ ~ \E j \in large : j <= i}
    IN  IF fits = {} THEN 0 ELSE Min(fits)

Allocate(n) ==
    LET i == FindAllocation(n) IN
    \/ /\ i # 0
       /\ m_memory' = RemoveAt(m_memory, i)
       /\ m_totalFreeBytes' = m_totalFreeBytes - size[m_memory[i]]
       /\ asked' = [asked EXCEPT ![m_memory[i]] = n]
       /\ UNCHANGED <<size, m_totalAllocatedBytes>>
    \/ /\ i = 0
       /\ \E b \in Chunks :
            /\ size[b] = 0
            /\ size' = [size EXCEPT ![b] = Aligned(n + Header) - Header]
            /\ asked' = [asked EXCEPT ![b] = n]
       /\ m_totalAllocatedBytes' = m_totalAllocatedBytes + Aligned(n + Header)
       /\ UNCHANGED <<m_memory, m_totalFreeBytes>>

\* Mutant: always at the end.
PlaceLast(s) == Len(m_memory) + 1

\* Before the first that is as large.
Place(s) == Min({i \in DOMAIN m_memory : s <= size[m_memory[i]]} \cup {Len(m_memory) + 1})

Free(b) ==
    /\ asked[b] # 0
    /\ m_memory' = InsertAt(m_memory, Place(size[b]), b)
    /\ m_totalFreeBytes' = m_totalFreeBytes + size[b]
    /\ asked' = [asked EXCEPT ![b] = 0]
    /\ UNCHANGED <<size, m_totalAllocatedBytes>>

Next == \/ \E n \in Requests : Allocate(n)
        \/ \E b \in Chunks : Free(b)

Spec == Init /\ [][Next]_vars

-----------------------------------------------------------------------------
Sum(bs) == MapThenSumSet(LAMBDA b : size[b], bs)
Extant == {b \in Chunks : size[b] # 0}

\* A block is in use or in the list once, never both; who has one has room for what it
\* asked; the totals are the sums; and a free block that would do is always found, since the
\* list is sorted.
PoolIsKept ==
    /\ ToSet(m_memory) = {b \in Extant : asked[b] = 0}
    /\ Len(m_memory) = Cardinality(ToSet(m_memory))
    /\ \A b \in Extant : asked[b] <= size[b]
    /\ m_totalFreeBytes = Sum(ToSet(m_memory))
    /\ m_totalAllocatedBytes = Sum(Extant) + Header * Cardinality(Extant)
    /\ \A n \in Requests :
         (FindAllocation(n) = 0) = ~ \E b \in ToSet(m_memory) : size[b] \in n .. UpperLimit(n)
=============================================================================
