--------------------------- MODULE OrderedEntries ---------------------------
(***************************************************************************)
(* What a set of epigrams does, without bytes, buffers or handles: each     *)
(* holds entries in the order they were made, keys may occur twice, a key   *)
(* stands for its newest entry, and no operation on one epigram changes     *)
(* another, except that the source of a move may be left empty.             *)
(***************************************************************************)
EXTENDS Naturals, SequencesExt, FiniteSetsExt

CONSTANTS Epigrams, Keys, Values, NoKey, Mergeable(_), SameKey(_, _)

VARIABLES
    entries,    \* the entries of each epigram, oldest first
    by          \* how the last request named an entry: by key or by place

vars == <<entries, by>>

Entry(k, v) == [key |-> k, value |-> v]

Newest(s, k) ==
    LET hits == {i \in DOMAIN s : SameKey(s[i].key, k)}
    IN  IF hits = {} THEN 0 ELSE Max(hits)
Without(s, i) == IF i = 0 THEN s ELSE RemoveAt(s, i)
Drop(s, k) == Without(s, Newest(s, k))
DropAll(s, t) == FoldLeft(LAMBDA r, x : Drop(r, x.key), s, t)

Init ==
    /\ entries = [e \in Epigrams |-> <<>>]
    /\ by = "key"

Becomes(e, s, how) == by' = how /\ entries' = [entries EXCEPT ![e] = s]

Add(e, k, v) == Becomes(e, Append(entries[e], Entry(k, v)), "key")
Discard(e, k) == Becomes(e, Drop(entries[e], k), "key")
Replace(e, k, v) == Becomes(e, Append(Drop(entries[e], k), Entry(k, v)), "key")

\* Place 0 is no place: what was found there is gone.
RemovePlace(e, i) == Becomes(e, Without(entries[e], i), "place")
\* Without its key: an entry named by its place does not know it.
ReplacePlace(e, i, v) ==
    Becomes(e, Append(Without(entries[e], i), Entry(NoKey, v)), "place")

Empty(e) == Becomes(e, <<>>, "key")
Copy(e, f) == Becomes(e, entries[f], "key")

Move(e, f) ==
    /\ \E left \in {<<>>, entries[f]} :
         entries' = [entries EXCEPT ![e] = entries[f], ![f] = left]
    /\ by' = "key"

\* Every entry merged replaces one of its key.
MergeIn(e, s) ==
    /\ \A i \in DOMAIN s : Mergeable(s[i].key)
    /\ Becomes(e, DropAll(entries[e], s) \o s, "key")

\* A key that cannot be merged stops it half way.
MergeFails(e, s) ==
    \E i \in DOMAIN s :
        /\ ~ Mergeable(s[i].key)
        /\ \A j \in 1 .. i - 1 : Mergeable(s[j].key)
        /\ Becomes(e, DropAll(entries[e], SubSeq(s, 1, i - 1)), "key")

Merge(e, s) == MergeIn(e, s) \/ MergeFails(e, s)

Next ==
    \/ \E e, f \in Epigrams : Copy(e, f) \/ Move(e, f) \/ Merge(e, entries[f])
    \/ \E e \in Epigrams :
         \/ Empty(e)
         \/ \E k \in Keys : Discard(e, k)
         \/ \E k \in Keys \cup {NoKey}, v \in Values : Add(e, k, v) \/ Replace(e, k, v)
         \/ \E i \in 0 .. Len(entries[e]) :
              RemovePlace(e, i) \/ \E v \in Values : ReplacePlace(e, i, v)
    \/ \E e, f \in Epigrams : \E i \in DOMAIN entries[f] : Merge(e, <<entries[f][i]>>)

Spec == Init /\ [][Next]_vars
=============================================================================
