----------------------------- MODULE JdSignalSlot -----------------------------
(***************************************************************************)
(* utils/JdSignalSlot.hpp: a signal and its callbacks, which are kept in a  *)
(* ring of counted links.  The head of the ring holds the default callback  *)
(* and is never removed.  A connection is the address of its link.          *)
(*                                                                          *)
(* emit walks the ring and holds a reference to the link it stands at.  The *)
(* callback it calls there may connect, disconnect, clear and emit the same *)
(* signal again.  A link that is removed while an emission stands at it     *)
(* keeps its next pointer, for the emission to go on by.                    *)
(*                                                                          *)
(* A signal is not destroyed while it emits.  To go on to a link that is    *)
(* deleted is undefined: the model stops there.                             *)
(***************************************************************************)
EXTENDS Naturals, Sequences, FiniteSets, SequencesExt, Functions

CONSTANTS
    Links,              \* what new SignalLink may return
    RingHead,           \* callback_ring_
    MaxConnections,     \* bounds: calls to connect,
    MaxEmissions,       \* calls to emit,
    MaxDepth            \* and emissions in each other

ASSUME SignalAssumption ==
    /\ RingHead \notin Links
    /\ IsFiniteSet(Links)
    /\ MaxConnections \in Nat

VARIABLES
    link,           \* by address: [next, prev, function, ref_count], or Deleted
    emissions,      \* the emissions under way, the innermost last: [at, calls, due]
    strayed,        \* an emission has come to a deleted link
    cut,            \* history: see RemoveSibling
    connected,      \* the connections made so far; it names their callbacks
    emitted         \* and the emissions begun

signalVars == <<link, emissions, strayed, cut, connected, emitted>>

Deleted == [deleted |-> TRUE]
NoFunction == 0
DefaultCallback == MaxConnections + 1

\* ensure_ring: two references, one of them for being the head.
Ring(function) ==
    [l \in Links \cup {RingHead} |->
        IF l = RingHead THEN [next |-> RingHead, prev |-> RingHead, function |-> function, ref_count |-> 2]
        ELSE Deleted]

\* The constructor, with a default callback or without.
InitSignal ==
    /\ \E function \in {NoFunction, DefaultCallback} : link = Ring(function)
    /\ emissions = <<>>
    /\ strayed = FALSE
    /\ cut = FALSE
    /\ connected = 0
    /\ emitted = 0

\* The links from the head on, until it is met again.
Siblings(ring) ==
    LET at[n \in Nat] == IF n = 0 THEN RingHead ELSE ring[at[n - 1]].next
        home == CHOOSE n \in 1 .. Cardinality(Links) + 1 :
                  at[n] = RingHead /\ \A m \in 1 .. n - 1 : at[m] # RingHead
    IN  [i \in 1 .. home - 1 |-> at[i]]

-----------------------------------------------------------------------------
(* Links.                                                                   *)

Incref(ring, l) == [ring EXCEPT ![l].ref_count = @ + 1]
Decref(ring, l) ==
    IF ring[l].ref_count = 1 THEN [ring EXCEPT ![l] = Deleted]
    ELSE [ring EXCEPT ![l].ref_count = @ - 1]

\* Its own pointers stay.
Unlink(ring, l) ==
    LET prev == ring[l].prev
        next == ring[l].next
    IN  Decref([[ring EXCEPT ![next].prev = prev] EXCEPT ![prev].next = next,
                                                         ![l].function = NoFunction], l)

AddBefore(ring, new, function) ==
    LET last == ring[RingHead].prev IN
    [[ring EXCEPT ![new] = [next |-> RingHead, prev |-> last, function |-> function, ref_count |-> 1],
                  ![RingHead].prev = new]
          EXCEPT ![last].next = new]

\* Removed, but an emission stands there.
Stale(ring) ==
    {l \in Links : ring[l] # Deleted} \ ToSet(Siblings(ring))

\* remove_sibling.  History: whether a link that is removed was the next of one that had
\* been removed, and will not hear of it.
RemoveSibling(s, l) ==
    [ring |-> Unlink(s.ring, l),
     cut |-> s.cut \/ \E stale \in Stale(s.ring) : s.ring[stale].next = l]

-----------------------------------------------------------------------------
(* What the program and the callbacks call.                                 *)

Connect(new) ==
    /\ connected < MaxConnections /\ link[new] = Deleted
    /\ connected' = connected + 1
    /\ link' = AddBefore(link, new, connected')
    /\ UNCHANGED <<emissions, strayed, cut, emitted>>

Removed(s) ==
    /\ link' = s.ring
    /\ cut' = (cut \/ s.cut)
    /\ UNCHANGED <<emissions, strayed, connected, emitted>>

\* By address: if the connection's link was deleted and another one is there, by its.
Disconnect(l) ==
    /\ l \in ToSet(Siblings(link))
    /\ Removed(RemoveSibling([ring |-> link, cut |-> FALSE], l))

\* One after the other, from the first; the default callback stays.
Clear ==
    LET siblings == Siblings(link)
        after[i \in 0 .. Len(siblings)] ==
            IF i = 0 THEN [ring |-> link, cut |-> FALSE]
            ELSE RemoveSibling(after[i - 1], siblings[i])
    IN  siblings # <<>> /\ Removed(after[Len(siblings)])

\* The copy constructor, and the destructor of the signal that was copied: the callbacks in
\* their order, the default one as one of them.
Copy ==
    /\ emissions = <<>>
    /\ LET all == <<RingHead>> \o Siblings(link)
           called == {i \in DOMAIN all : link[all[i]].function # NoFunction}
       IN  \E to \in Injection(called, Links) :
             LET copied[i \in 0 .. Len(all)] ==
                     IF i = 0 THEN Ring(NoFunction)
                     ELSE IF i \in called
                     THEN AddBefore(copied[i - 1], to[i], link[all[i]].function)
                     ELSE copied[i - 1]
             IN  link' = copied[Len(all)]
    /\ UNCHANGED <<emissions, strayed, cut, connected, emitted>>

-----------------------------------------------------------------------------
(* emit.                                                                    *)

\* Mutant: the next link is not held.
GoUnheld(ring, old) == Decref(ring, old)

\* The next link is held, then the old one let go.
Go(ring, old) == Decref(Incref(ring, ring[old].next), old)

\* On to the next link with a callback; to the head; or to where there is no link.
Onward(ring, at) ==
    LET step(s) == [ring |-> IF s.ring[s.ring[s.at].next] = Deleted THEN s.ring
                             ELSE Go(s.ring, s.at),
                    at |-> s.ring[s.at].next]
        arrived(s) == s.at = RingHead \/ s.ring[s.at] = Deleted \/ s.ring[s.at].function # NoFunction
        after[n \in Nat] ==
            IF n = 0 THEN step([ring |-> ring, at |-> at])
            ELSE IF arrived(after[n - 1]) THEN after[n - 1] ELSE step(after[n - 1])
    IN  after[Cardinality(Links)]

\* An emission, within those outside it, comes to where s says.
Arrive(s, outer, calls, due) ==
    LET lost == s.ring[s.at] = Deleted
        home == s.at = RingHead
    IN  /\ strayed' = lost
        /\ link' = IF home THEN Decref(s.ring, RingHead) ELSE s.ring
        /\ emissions' = IF lost \/ home THEN outer
                        ELSE Append(outer, [at |-> s.at, due |-> due,
                                            calls |-> Append(calls, s.ring[s.at].function)])
        /\ UNCHANGED <<cut, connected>>

Functions(ring) == {ring[l].function : l \in {RingHead} \cup ToSet(Siblings(ring))} \ {NoFunction}

\* Due is every callback there is at the beginning.
Emit ==
    /\ emitted < MaxEmissions /\ Len(emissions) < MaxDepth
    /\ Functions(link) # {}
    /\ LET held == Incref(link, RingHead) IN
       IF link[RingHead].function # NoFunction
       THEN /\ link' = held
            /\ emissions' = Append(emissions, [at |-> RingHead, due |-> Functions(link),
                                               calls |-> <<link[RingHead].function>>])
            /\ UNCHANGED <<strayed, cut, connected>>
       ELSE Arrive(Onward(held, RingHead), emissions, <<>>, Functions(link))
    /\ emitted' = emitted + 1

\* The callback returns.
GoOn ==
    /\ emissions # <<>>
    /\ LET e == Last(emissions)
       IN  Arrive(Onward(link, e.at), Front(emissions), e.calls, e.due)
    /\ UNCHANGED emitted

\* The callback returns what a collector (Until0, While0) stops at.
Stop ==
    /\ emissions # <<>>
    /\ link' = Decref(link, Last(emissions).at)
    /\ emissions' = Front(emissions)
    /\ UNCHANGED <<strayed, cut, connected, emitted>>

NextSignal ==
    /\ ~ strayed
    /\ \/ \E l \in Links : Connect(l) \/ Disconnect(l)
       \/ Clear \/ Copy \/ Emit \/ GoOn \/ Stop

SignalSpec == InitSignal /\ [][NextSignal]_signalVars

-----------------------------------------------------------------------------
\* The emissions that stand at a link hold it, and the ring holds its own; nothing else is
\* left in memory.
LinksAreHeld ==
    \A l \in {RingHead} \cup Links :
      LET standing == Cardinality({i \in DOMAIN emissions : emissions[i].at = l})
          own == IF l = RingHead THEN 2 ELSE IF l \in ToSet(Siblings(link)) THEN 1 ELSE 0
      IN  IF link[l] = Deleted THEN standing + own = 0 ELSE link[l].ref_count = standing + own

\* As they were connected; the default callback was before.
InOrder(s) ==
    \A i, j \in DOMAIN s : i < j /\ DefaultCallback \notin {s[i], s[j]} => s[i] < s[j]

\* As long as no link is removed that follows a removed one at which an emission still
\* stands: no emission comes to a deleted link, a link counts what holds it, and an emission
\* that is about to end has called, once and in order, every callback that was there at its
\* beginning and still is.  (Without that condition the code has none of it: RemovalIsSafe.)
EmissionsAreSafe ==
    ~ cut =>
      /\ ~ strayed
      /\ LinksAreHeld
      /\ \A i \in DOMAIN emissions :
           LET e == emissions[i] IN
           /\ InOrder(e.calls)
           /\ (i = Len(emissions) /\ Onward(link, e.at).at = RingHead) =>
                e.due \cap Functions(link) \subseteq ToSet(e.calls)

\* What the comment at JdSignalSlot.hpp:335-336 says: "callbacks may be removed and added
\* during a signal emission and recursive emit() calls are also safe".  A callback that
\* removes itself and the one after it, or clears the signal, sends the emission to a
\* deleted link: its own link keeps a next pointer that the second removal cannot correct.
RemovalIsSafe == ~ strayed
=============================================================================
