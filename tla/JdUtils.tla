------------------------------ MODULE JdUtils ------------------------------
(* utils/JdUtils.hpp: lengths, seven bits to a byte, low bits first, a flag  *)
(* while more follow; here digits of base Base.                              *)
EXTENDS Integers, Sequences

CONSTANT Base

ASSUME BaseAssumption == Base \in Nat /\ Base > 1

Encode(n) ==
    LET from[m \in 0 .. n] ==
            IF m < Base THEN <<m>> ELSE <<Base + (m % Base)>> \o from[m \div Base]
    IN  from[n]

\* The length whose bytes are b[p], b[p + step]..., of at most n, and its width.
Read(b, p, step, n) ==
    LET from[i \in Nat] ==
            LET byte == b[p + step * i]
            IN  IF byte < Base \/ i + 1 >= n
                THEN [value |-> byte % Base, width |-> i + 1]
                ELSE LET rest == from[i + 1]
                     IN  [rest EXCEPT !.value = (byte % Base) + Base * @]
    IN  from[0]

Decode(b, p, end) ==
    LET read == Read(b, p, 1, end - p + 1)
    IN  [value |-> read.value, next |-> p + read.width]

\* Backwards from p, but no further than end: one byte is read whatever end is.
ReverseDecodeTo(b, p, end) ==
    LET read == Read(b, p, -1, p - end + 1)
    IN  [value |-> read.value, next |-> p - read.width]
ReverseDecode(b, p) == ReverseDecodeTo(b, p, 1)
=============================================================================
