-------------------------------- MODULE JdList --------------------------------
(***************************************************************************)
(* structures/JdList.hpp: doubly linked lists between two sentinels.        *)
(*                                                                          *)
(* The operators are both lists' (JdList1T links elements that bring their  *)
(* own pointers, and erases them; JdListT makes an item of what it is given *)
(* and deletes it): a link is [next, previous], and a list is the links of  *)
(* its sentinels and elements.  The state machine is a JdListT and the      *)
(* program's iterators.                                                     *)
(***************************************************************************)
EXTENDS Naturals, Sequences, FiniteSets

LOCAL INSTANCE SequencesExt

CONSTANTS
    Items,      \* what new Item may return
    Null

Start == "m_start"
End == "m_end"

EmptyList(start, end) ==
    [e \in {start, end} |-> IF e = start THEN [next |-> end, previous |-> Null]
                            ELSE [next |-> Null, previous |-> start]]

WithLinks(link, changed) ==
    [e \in DOMAIN link \cup DOMAIN changed |->
        IF e \in DOMAIN changed THEN changed[e] ELSE link[e]]

\* insert: e, before another.
Insert(link, before, e) ==
    LET previous == link[before].previous
        linked == WithLinks(link, [x \in {e} |-> [next |-> before, previous |-> previous]])
    IN  [[linked EXCEPT ![before].previous = e] EXCEPT ![previous].next = e]

\* Mutant: the list goes on from the one before, but not back to it.
UnlinkForward(link, e) ==
    [link EXCEPT ![link[e].previous].next = link[e].next]

\* What erase does to the neighbours.
Unlink(link, e) ==
    LET next == link[e].next
        previous == link[e].previous
    IN  [[link EXCEPT ![previous].next = next] EXCEPT ![next].previous = previous]

\* The elements from begin to end, and from the end back.
Walk(link, start, end) ==
    LET from[n \in Nat] ==
            IF n = 0 THEN <<link[start].next>>
            ELSE LET s == from[n - 1] IN
                 IF Last(s) = end \/ Last(s) \notin DOMAIN link THEN s ELSE Append(s, link[Last(s)].next)
    IN  Front(from[Cardinality(DOMAIN link)])

WalkBack(link, start, end) ==
    LET from[n \in Nat] ==
            IF n = 0 THEN <<link[end].previous>>
            ELSE LET s == from[n - 1] IN
                 IF Last(s) = start \/ Last(s) \notin DOMAIN link THEN s ELSE Append(s, link[Last(s)].previous)
    IN  Front(from[Cardinality(DOMAIN link)])

\* The list is this sequence, whichever way it is walked.
IsList(link, start, end, s) ==
    Walk(link, start, end) = s /\ WalkBack(link, start, end) = Reverse(s)

\* operator <: both ways at once, then on in the one that is longer.
Precedes(link, i, j) ==
    LET search[n \in Nat, back \in Items \cup {Start, End, Null}, forth \in Items \cup {Start, End, Null}] ==
            IF forth = j /\ forth # Null THEN TRUE
            ELSE IF n = 0 \/ back = j THEN FALSE
            ELSE search[n - 1, IF back = Null THEN Null ELSE link[back].previous,
                               IF forth = Null THEN Null ELSE link[forth].next]
    IN  search[Cardinality(DOMAIN link), i, link[i].next]

-----------------------------------------------------------------------------
VARIABLES
    link,       \* m_begin, m_end and the items
    order       \* history: the items as a sequence

vars == <<link, order>>

Init == link = EmptyList(Start, End) /\ order = <<>>

\* insert, pushBack and pushFront: before an iterator, which may be begin () or end ().
InsertItem(e, i) ==
    /\ e \notin DOMAIN link
    /\ link' = Insert(link, IF i > Len(order) THEN End ELSE order[i], e)
    /\ order' = InsertAt(order, i, e)

\* erase: the item is deleted.
EraseItem(i) ==
    /\ link' = [e \in DOMAIN link \ {order[i]} |-> Unlink(link, order[i])[e]]
    /\ order' = RemoveAt(order, i)

\* clear and the destructor, from the first item on.
Clear ==
    /\ order # <<>>
    /\ LET unlinked == FoldLeft(Unlink, link, order) IN link' = [e \in {Start, End} |-> unlinked[e]]
    /\ order' = <<>>

Next ==
    \/ \E e \in Items, i \in 1 .. Len(order) + 1 : InsertItem(e, i)
    \/ \E i \in DOMAIN order : EraseItem(i)
    \/ Clear

Spec == Init /\ [][Next]_vars

-----------------------------------------------------------------------------
\* The list holds the items where they were inserted, both ways, and iterators compare as
\* their items' places do: any two of one list, the end's too.
ListIsInOrder ==
    /\ IsList(link, Start, End, order)
    /\ LET places == Append(order, End) IN
       \A i, j \in DOMAIN places : Precedes(link, places[i], places[j]) <=> i < j
=============================================================================
