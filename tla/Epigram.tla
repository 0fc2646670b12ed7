------------------------------ MODULE Epigram ------------------------------
(***************************************************************************)
(* serialization/Epigram.hpp: a key/value container that is one run of      *)
(* bytes.  Elements are appended, each ends with its own length, and they   *)
(* are found by walking back from the end.                                  *)
(*                                                                          *)
(* operator [] and Index return a handle (KVT): pointers to the element it  *)
(* found and the allocator's sequence number at that moment.  Every change  *)
(* of the bytes counts the sequence, which is how a handle that is used     *)
(* again knows that its pointers are stale.  The bytes start in the         *)
(* epigram itself and move to the heap when they outgrow it; a move takes   *)
(* the heap buffer over.                                                    *)
(*                                                                          *)
(* A length is written base 128, here base Base.  A handle reads before the *)
(* bytes change (its own comment says the pointers are "fragile") but may   *)
(* erase or assign at any time; the debug build's assertion that it is not  *)
(* stale is left out.  An epigram whose heap buffer was moved away is only  *)
(* reset, assigned by a move or destroyed.                                  *)
(***************************************************************************)
EXTENDS JdUtils, SequencesExt, FiniteSetsExt

CONSTANTS
    Epigrams,
    HeapBlocks,     \* what malloc may return
    StackSize,      \* t_size of each epigram
    Keys, NoKey,    \* [type, bytes]; NoKey is EpNoType
    Values,         \* [type, array, items], the bytes of each item
    IntegerTypes, StringType,
    ArrayFlag,      \* c_jdTypeId::isArray
    Handles, NoHandle,
    Indexed,                \* the epigrams that handles are taken of
    MaxBytes, MaxSequence   \* these three are bounds of the model

\* Keys and values are bytes; isArray is a bit of its own, above every type number.
ASSUME EpigramAssumption ==
    /\ Epigrams \cap HeapBlocks = {}
    /\ StackSize \in [Epigrams -> Nat]
    /\ Indexed \subseteq Epigrams
    /\ Keys \cup {NoKey} \subseteq [type : Nat, bytes : Seq(Nat)]
    /\ Values \subseteq [type : 0 .. ArrayFlag - 1, array : BOOLEAN, items : Seq(Seq(Nat))]
    /\ ArrayFlag \in Nat

VARIABLES
    epigram,    \* m_start and m_end as blocks, the bytes between, m_size, m_sequence
    heap,       \* the size of each block in use
    handle,     \* what each KVT was set to by FindItem or Index
    by,         \* history: whether the last handle used was set by key or by place
    contents    \* what the walk finds in the bytes of each epigram, worked out
                \* once for each change of them

vars == <<epigram, heap, handle, by, contents>>

-----------------------------------------------------------------------------
(* The layout of an element:                                                *)
(* [count] items key flipped(key size) key type, value type flipped(size)   *)

PayloadMinSize == 3     \* c_payloadMinSize

\* Mutant: the key size is copied, not flipped (Copy for CopyFlipped).
ElementUnflipped(k, v) ==
    LET value == (IF v.array THEN Encode(Len(v.items)) ELSE <<>>) \o FlattenSeq(v.items)
        keySize == Encode(Len(k.bytes))
        payloadSize == Len(value) + Len(k.bytes) + Len(keySize) - 1
    IN  value \o k.bytes \o keySize
          \o <<k.type, v.type + (IF v.array THEN ArrayFlag ELSE 0)>>
          \o Reverse(Encode(payloadSize))

\* In: what it writes for key k and value v.
Element(k, v) ==
    LET value == (IF v.array THEN Encode(Len(v.items)) ELSE <<>>) \o FlattenSeq(v.items)
        keySize == Encode(Len(k.bytes))
        payloadSize == Len(value) + Len(k.bytes) + Len(keySize) - 1
    IN  value \o k.bytes \o Reverse(keySize)
          \o <<k.type, v.type + (IF v.array THEN ArrayFlag ELSE 0)>>
          \o Reverse(Encode(payloadSize))

\* The element that ends at b[p]; its length and its key's are decoded.
ElementFrom(b, p, size, keySize) ==
    LET first == size.next - (size.value + PayloadMinSize) + 1
        key == keySize.next - keySize.value + 1
        array == b[size.next] >= ArrayFlag
        count == IF array THEN Decode(b, first, key - 1) ELSE [value |-> 1, next |-> first]
    IN  [start |-> first, end |-> p, payload |-> count.next,
         count |-> count.value, array |-> array, type |-> b[size.next] % ArrayFlag,
         key |-> [type |-> b[size.next - 1], bytes |-> SubSeq(b, key, keySize.next)],
         bytes |-> SubSeq(b, count.next, key - 1)]

ElementAt(b, p) ==
    LET size == ReverseDecode(b, p)
    IN  ElementFrom(b, p, size, ReverseDecode(b, size.next - 2))

\* The walk from the end (FindItem, Index, Iterator), oldest first.
Elements(b) ==
    LET upTo[p \in Int] ==
            IF p \notin DOMAIN b THEN <<>>
            ELSE LET x == ElementAt(b, p) IN Append(upTo[x.start - 1], x)
    IN  upTo[Len(b)]

\* Integers match by value whatever their type; other keys by type and content.
KeyMatches(k1, k2) ==
    IF k1.type \in IntegerTypes /\ k2.type \in IntegerTypes
    THEN k1.bytes[1] = k2.bytes[1]
    ELSE k1 = k2

\* The place of the newest element of key k, or 0.
Newest(elements, k) ==
    LET hits == {i \in DOMAIN elements : KeyMatches(elements[i].key, k)}
    IN  IF hits = {} THEN 0 ELSE Max(hits)

EraseRange(b, first, last) == SubSeq(b, 1, first - 1) \o SubSeq(b, last + 1, Len(b))

\* Erase (key): the first found from the end.
EraseNewest(b, elements, k) ==
    LET i == Newest(elements, k)
    IN  IF i = 0 THEN b ELSE EraseRange(b, elements[i].start, elements[i].end)
EraseKey(b, k) == EraseNewest(b, Elements(b), k)

-----------------------------------------------------------------------------
(* The allocator.                                                           *)

Inline(e) == [block |-> e, end |-> e, bytes |-> <<>>, size |-> StackSize[e], sequence |-> 0]

\* m_end still points into the buffer that starts at m_start.
Usable(e) == epigram[e].end = epigram[e].block

Freed(h, block) == [b \in DOMAIN h \ {block} |-> h[b]]
Allocated(h, block, size) == [b \in DOMAIN h \cup {block} |-> IF b = block THEN size ELSE h[b]]

Room(block) == IF block \in HeapBlocks THEN heap[block] ELSE StackSize[block]

\* CalculateGrowSize, without its rounding up to 16.
GrowSize(size, more) == Max({(size * 207) \div 128, size + more})

Fits(x, more) == Len(x.bytes) + Len(more) <= x.size

\* What malloc or realloc may return: the block it is given, another one, or one for
\* what was in the epigram itself.
Blocks(x, h) == HeapBlocks \ DOMAIN Freed(h, x.block)

Grown(x, b, more) ==
    [block |-> b, end |-> b, bytes |-> x.bytes \o more,
     size |-> GrowSize(x.size, Len(more)), sequence |-> x.sequence + 1]

\* Mutant: Allocate does not count the sequence when the buffer grows.
StoreGrowingSilently(e, x, h, more) ==
    \/ /\ Fits(x, more)
       /\ epigram' = [epigram EXCEPT ![e] =
                [x EXCEPT !.bytes = @ \o more, !.sequence = @ + 1]]
       /\ heap' = h
    \/ /\ ~ Fits(x, more)
       /\ \E b \in Blocks(x, h) :
            /\ epigram' = [epigram EXCEPT ![e] =
                    [Grown(x, b, more) EXCEPT !.sequence = x.sequence]]
            /\ heap' = Allocated(Freed(h, x.block), b, GrowSize(x.size, Len(more)))

\* Allocate, once for all that is appended: epigram e, which is x so far, gets more
\* bytes, in a larger buffer if they do not fit.
Store(e, x, h, more) ==
    \/ /\ Fits(x, more)
       /\ epigram' = [epigram EXCEPT ![e] =
                [x EXCEPT !.bytes = @ \o more, !.sequence = @ + 1]]
       /\ heap' = h
    \/ /\ ~ Fits(x, more)
       /\ \E b \in Blocks(x, h) :
            /\ epigram' = [epigram EXCEPT ![e] = Grown(x, b, more)]
            /\ heap' = Allocated(Freed(h, x.block), b, GrowSize(x.size, Len(more)))

\* EraseRange, once for all that is erased: the sequence is counted if anything is.
Erased(x, b) ==
    IF b = x.bytes THEN x ELSE [x EXCEPT !.bytes = b, !.sequence = @ + 1]

\* Reset; its caller frees the block.
ResetAllocator(e) == [Inline(e) EXCEPT !.sequence = epigram[e].sequence + 1]

Init ==
    /\ epigram = [e \in Epigrams |-> Inline(e)]
    /\ heap = [b \in {} |-> 0]
    /\ handle = [h \in Handles |-> NoHandle]
    /\ by = "key"
    /\ contents = [e \in Epigrams |-> <<>>]

-----------------------------------------------------------------------------
(* Handles.                                                                 *)

Set(h, e, k, x) ==
    handle' = [handle EXCEPT ![h] =
        [on |-> e, key |-> k, found |-> TRUE, block |-> epigram[e].block,
         sequence |-> epigram[e].sequence, element |-> x]]

\* operator []: the newest element of the key, or a handle that is not set.
FindItem(h, e, k) ==
    /\ Usable(e)
    /\ LET i == Newest(contents[e], k)
       IN  IF i \in DOMAIN contents[e]
           THEN Set(h, e, k, contents[e][i])
           ELSE handle' = [handle EXCEPT ![h] = [on |-> e, key |-> k, found |-> FALSE]]
    /\ UNCHANGED <<epigram, heap, by>>

\* Index: the i-th element, counted from the end; its handle has no key.
Index(h, e, i) ==
    /\ Usable(e)
    /\ \E place \in DOMAIN contents[e] :
         place = Len(contents[e]) - i /\ Set(h, e, NoKey, contents[e][place])
    /\ UNCHANGED <<epigram, heap, by>>

\* EraseItem: nothing if the epigram has been touched since.
EraseItem(g) ==
    LET x == epigram[g.on]
    IN  IF g.found /\ g.sequence = x.sequence
        THEN Erased(x, EraseRange(x.bytes, g.element.start, g.element.end)) ELSE x

Named(g) == IF g.key = NoKey THEN "place" ELSE "key"

UsedHandle(h) == handle[h] # NoHandle /\ Usable(handle[h].on)

EraseThrough(h) ==
    /\ UsedHandle(h)
    /\ epigram' = [epigram EXCEPT ![handle[h].on] = EraseItem(handle[h])]
    /\ by' = Named(handle[h])
    /\ UNCHANGED <<heap, handle>>

\* operator =: the handle stays what it was, so a second assignment through it adds a
\* second element of the key.
Assign(h, v) ==
    /\ UsedHandle(h)
    /\ Store(handle[h].on, EraseItem(handle[h]), heap, Element(handle[h].key, v))
    /\ by' = Named(handle[h])
    /\ UNCHANGED handle

-----------------------------------------------------------------------------
(* Operations on whole epigrams.                                            *)

Changed == by' = "key" /\ UNCHANGED handle

\* operator () (key, value): argument-style, whether the key is there or not.
In(e, k, v) ==
    /\ Usable(e)
    /\ Store(e, epigram[e], heap, Element(k, v))
    /\ Changed

Erase(e, k) ==
    /\ Usable(e)
    /\ epigram' = [epigram EXCEPT ![e] = Erased(@, EraseNewest(@.bytes, contents[e], k))]
    /\ UNCHANGED heap
    /\ Changed

Clear(e) ==
    /\ Usable(e)
    /\ epigram' = [epigram EXCEPT ![e] = [epigram[e] EXCEPT !.bytes = <<>>, !.sequence = @ + 1]]
    /\ UNCHANGED heap
    /\ Changed

Reset(e) ==
    /\ epigram' = [epigram EXCEPT ![e] = ResetAllocator(e)]
    /\ heap' = Freed(heap, epigram[e].block)
    /\ Changed

\* operator = (const EpigramT &), Deliver: Clear, then the bytes of f, e itself perhaps.
Load(e, f) ==
    /\ Usable(e) /\ Usable(f)
    /\ Store(e, [epigram[e] EXCEPT !.bytes = <<>>], heap, epigram[f].bytes)
    /\ Changed

Mergeable(k) == k.type = StringType
EraseAll(b, elements) == FoldLeft(LAMBDA r, x : EraseKey(r, x.key), b, elements)

\* Merge: each key merged is erased once, then all the bytes are appended; a key that is
\* no string throws, after what comes before it has been erased.
MergeElements(e, bytes, elements) ==
    LET odd == {i \in DOMAIN elements : ~ Mergeable(elements[i].key)}
        merged == IF odd = {} THEN elements ELSE SubSeq(elements, 1, Min(odd) - 1)
        x == Erased(epigram[e], EraseAll(epigram[e].bytes, merged))
    IN  \/ odd = {} /\ Store(e, x, heap, bytes)
        \/ odd # {} /\ epigram' = [epigram EXCEPT ![e] = x] /\ UNCHANGED heap
MergeBytes(e, bytes) == MergeElements(e, bytes, Elements(bytes))

\* += of an epigram: merging an epigram with itself walks bytes it is erasing.
Merge(e, f) ==
    /\ e # f /\ Usable(e) /\ Usable(f)
    /\ MergeBytes(e, epigram[f].bytes)
    /\ Changed

\* += of a handle: its bytes from the payload on, so the count of an array is lost and
\* what is merged cannot be read any more; arrays are left to the caller.
MergeItem(e, h) ==
    /\ Usable(e) /\ UsedHandle(h)
    /\ LET g == handle[h]
       IN  /\ g.found /\ g.sequence = epigram[g.on].sequence
           /\ ~ g.element.array
           /\ MergeBytes(e, SubSeq(epigram[g.on].bytes, g.element.payload, g.element.end))
    /\ Changed

\* Mutant: the source of a move keeps the buffer too.
MoveSharing(e, f) ==
    /\ e # f /\ Usable(f)
    /\ LET x == ResetAllocator(e)
           freed == Freed(heap, epigram[e].block)
           y == epigram[f]
       IN  \/ /\ y.block \in HeapBlocks
              /\ epigram' = [epigram EXCEPT ![e] = [y EXCEPT !.sequence = x.sequence]]
              /\ heap' = freed
           \/ y.block \notin HeapBlocks /\ Store(e, x, freed, y.bytes)
    /\ Changed

\* operator = (EpigramT &&): Reset, then the heap buffer is taken over, and the source
\* starts in its own storage again - but its end and its size are left; or the bytes
\* are copied out of the source's own storage.
Move(e, f) ==
    /\ e # f /\ Usable(f)
    /\ LET x == ResetAllocator(e)
           freed == Freed(heap, epigram[e].block)
           y == epigram[f]
       IN  \/ /\ y.block \in HeapBlocks
              /\ epigram' = [epigram EXCEPT
                    ![e] = [y EXCEPT !.sequence = x.sequence],
                    ![f] = [y EXCEPT !.block = f, !.bytes = <<>>]]
              /\ heap' = freed
           \/ y.block \notin HeapBlocks /\ Store(e, x, freed, y.bytes)
    /\ Changed

\* The destructor, and a new epigram in its place; nobody keeps a handle to the old one.
Renew(e) ==
    /\ epigram' = [epigram EXCEPT ![e] = Inline(e)]
    /\ heap' = Freed(heap, epigram[e].block)
    /\ handle' = [h \in Handles |->
            IF handle[h] # NoHandle /\ handle[h].on = e THEN NoHandle ELSE handle[h]]
    /\ by' = "key"

-----------------------------------------------------------------------------
Call ==
    \/ \E h \in Handles, e \in Indexed :
         \/ \E k \in Keys : FindItem(h, e, k)
         \/ \E i \in 0 .. Len(contents[e]) - 1 : Index(h, e, i)
    \/ \E h \in Handles, e \in Epigrams : MergeItem(e, h)
    \/ \E h \in Handles : EraseThrough(h) \/ \E v \in Values : Assign(h, v)
    \/ \E e \in Epigrams :
         \/ \E k \in Keys : Erase(e, k) \/ \E v \in Values : In(e, k, v)
         \/ Clear(e) \/ Reset(e) \/ Renew(e)
    \/ \E e, f \in Epigrams : Load(e, f) \/ Merge(e, f) \/ Move(e, f)

\* The last conjunct bounds the model.
Next ==
    /\ Call
    /\ contents' = [e \in Epigrams |->
            IF epigram'[e].bytes = epigram[e].bytes
            THEN contents[e] ELSE Elements(epigram'[e].bytes)]
    /\ \A e \in Epigrams :
         Len(epigram'[e].bytes) <= MaxBytes[e] /\ epigram'[e].sequence <= MaxSequence[e]

Spec == Init /\ [][Next]_vars

-----------------------------------------------------------------------------
(* What a comment of the source says and the code does not do.              *)

\* Line 134, of argument-style insertion: it "inserts duplicate "name" entry. Won't cause a
\* crash.  First will be found for a search."  A handle that is good is then the first entry
\* of its name, in the order in which they were inserted.
FirstIsFound ==
    \A h \in Handles : UsedHandle(h) =>
        LET g == handle[h]
        IN  g.found /\ g.key.type = StringType /\ g.sequence = epigram[g.on].sequence =>
                \A x \in Range(contents[g.on]) : x.key = g.key => g.element.start <= x.start

-----------------------------------------------------------------------------
(* Properties.                                                              *)

\* The sequence number tells a stale handle: as long as it is the epigram's, the
\* handle's pointers are to the element it found and to nothing else - whatever grew,
\* was erased, moved, merged or loaded in between (EraseItem, Epigram.hpp:2863-2871).
FreshHandleIsTrue ==
    \A h \in Handles : UsedHandle(h) =>
        LET g == handle[h]
            x == epigram[g.on]
        IN  g.found /\ g.sequence = x.sequence =>
                /\ g.block = x.block
                /\ g.element \in Range(contents[g.on])

\* Every buffer on the heap has one owner, which frees it; an epigram that can be used
\* has the capacity of the buffer it starts in,
EachHasOneOwner ==
    /\ \A e \in Epigrams : epigram[e].block \in HeapBlocks \cup {e}
    /\ \A b \in HeapBlocks :
         Cardinality({e \in Epigrams : epigram[e].block = b}) = IF b \in DOMAIN heap THEN 1 ELSE 0
    /\ \A e \in Epigrams : Usable(e) => epigram[e].size = Room(epigram[e].block)

\* and its bytes lie in it.
BuffersAreOwned ==
    /\ EachHasOneOwner
    /\ \A e \in Epigrams : Usable(e) => Len(epigram[e].bytes) <= epigram[e].size

Entry(x) ==
    [key |-> x.key, value |-> [type |-> x.type, array |-> x.array,
                               count |-> x.count, bytes |-> x.bytes]]

Stored(v) ==
    [type |-> v.type, array |-> v.array, bytes |-> FlattenSeq(v.items),
     count |-> IF v.array THEN Len(v.items) ELSE 1]

\* The bytes are the entries: what the walk from the end finds in them is what was put
\* there, in its order, through every operation; a key stands for its newest entry, which
\* the code finds first (FirstIsFound is what the comment says).
Abstract == INSTANCE OrderedEntries WITH
    Values <- {Stored(v) : v \in Values},
    Mergeable <- Mergeable, SameKey <- KeyMatches,
    entries <- [e \in Epigrams |-> [i \in DOMAIN contents[e] |-> Entry(contents[e][i])]]

ImplementsOrderedEntries == Abstract!Spec
=============================================================================
