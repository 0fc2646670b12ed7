--------------------------- MODULE JdMessageSlots ---------------------------
(***************************************************************************)
(* JdMessageQueue::AcquireMessageSlot, called without a time limit, for the *)
(* modules whose threads share a JdMessageQueue that they see as a bounded  *)
(* FIFO queue (JdMessageQueueProofs).                                       *)
(*                                                                          *)
(* A line is who has drawn a ticket and not committed, in the order of the  *)
(* tickets.  A thread tests once whether its ticket is within the ring,     *)
(* sleeps if it is not, and tests again when it is woken: a release between *)
(* test and sleep is not heard, and a second wake-up leaves it with a null  *)
(* slot, which it writes to.                                                *)
(***************************************************************************)
EXTENDS Naturals, Sequences

LinePlaces == {"test", "enter", "asleep", "null"}
Lines(T) == Seq([thread : T, place : LinePlaces, tried : BOOLEAN])

InLine(line, t) == \E i \in DOMAIN line : line[i].thread = t

Sleeps(line, t) == \E i \in DOMAIN line : line[i].thread = t /\ line[i].place = "asleep"

\* insertSequence.Acquire.
Joined(line, t) == Append(line, [thread |-> t, place |-> "test", tried |-> FALSE])

\* offset < maxSequenceOffset, for the i-th in the line of a queue of this length.
Within(i, length, slots) == length + i <= slots

\* The line after one step of waiting: t finds that there is no slot, or falls asleep.
Waits(line, t, length, slots) ==
    {[line EXCEPT ![i].place = "enter"] : i \in {i \in DOMAIN line :
        line[i].thread = t /\ line[i].place = "test" /\ ~ Within(i, length, slots)}}
    \cup
    {[line EXCEPT ![i].place = "asleep"] : i \in {i \in DOMAIN line :
        line[i].thread = t /\ line[i].place = "enter"}}

\* wait_for returns: the first time the test is made again, the second time it is not.
Woken(p) == [p EXCEPT !.place = IF p.tried THEN "null" ELSE "test", !.tried = TRUE]

\* For no reason, or after 2^31 milliseconds,
Wakes(line, t) ==
    {[line EXCEPT ![i] = Woken(@)] : i \in {i \in DOMAIN line :
        line[i].thread = t /\ line[i].place = "asleep"}}

\* or by notify_all.
Notified(line) ==
    [i \in DOMAIN line |-> IF line[i].place = "asleep" THEN Woken(line[i]) ELSE line[i]]

\* Who has a slot and whose turn it is commits; so does who finds nobody in line, and room.
MayCommit(line, t, length, slots) ==
    /\ length < slots
    /\ line # <<>> => line[1].thread = t /\ line[1].place = "test"
Committed(line) == IF line = <<>> THEN line ELSE Tail(line)

\* Otherwise it draws its ticket and waits.
MayJoin(line, t, length, slots) == ~ InLine(line, t) /\ (line # <<>> \/ length >= slots)

-----------------------------------------------------------------------------
\* A Push is about to write to a null slot, and the program to end.
SlotIsNull(line) == \E i \in DOMAIN line : line[i].place = "null"

\* A thread sleeps beside a slot that it could have.
Stranded(line, length, slots) ==
    \E i \in DOMAIN line : line[i].place = "asleep" /\ Within(i, length, slots)
=============================================================================
