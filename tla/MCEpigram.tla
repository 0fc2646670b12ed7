----------------------------- MODULE MCEpigram -----------------------------
(* A large epigram and a small one that soon outgrows its own storage.      *)
EXTENDS Epigram, TLC

CONSTANTS a, b, m1, m2, h1, none

MCEpigrams == {a, b}
MCStackSize == [e \in MCEpigrams |-> IF e = a THEN 9 ELSE 0]
MCHeapBlocks == {m1, m2}
MCMaxBytes == [e \in MCEpigrams |-> IF e = a THEN 14 ELSE 7]
MCHandles == {h1}
MCMaxSequence == [e \in MCEpigrams |-> IF e = a THEN 3 ELSE 1]
Symmetry == Permutations(MCHeapBlocks)

I32 == 1
U64 == 2
String == 3
Pod == 4
MCIntegerTypes == {I32, U64}

\* A name, and the integer 0 in two widths.
MCKeys == {[type |-> String, bytes |-> <<7>>], [type |-> I32, bytes |-> <<0>>],
           [type |-> U64, bytes |-> <<0, 0>>]}
MCNoKey == [type |-> Pod, bytes |-> <<9>>]

\* One number, and an array of one.
MCValues == {[type |-> I32, array |-> FALSE, items |-> <<<<1>>>>],
             [type |-> I32, array |-> TRUE, items |-> <<<<1>>>>]}
=============================================================================
