---------------------------- MODULE EpigramProofs ----------------------------
(***************************************************************************)
(* What an epigram promises, for any number of epigrams, blocks and         *)
(* handles, any keys and values and any capacity, in three parts.           *)
(*                                                                          *)
(* Bytes.  A length is read as it was written; an element is read as it was *)
(* written, wherever it lies; the walk from the end finds in the bytes what *)
(* was put there (Laid), so that the bytes stand for a sequence of entries  *)
(* (Holds), and cutting an element out, or joining bytes, does the same to  *)
(* the entries.  What is recursive is an induction, each from a least       *)
(* counterexample: LeastNatural.                                            *)
(*                                                                          *)
(* Buffers and handles, without a look at what the bytes are.  A step does  *)
(* one of few things to an epigram (Touched, OneOwner): it leaves it alone, *)
(* or counts its sequence, or takes its buffer away and leaves it unusable  *)
(* until it is reset, which counts the sequence.                            *)
(*                                                                          *)
(* Operations.  With the inductive invariant of both (IInv and Held) every  *)
(* operation does to the bytes what OrderedEntries does to the entries.     *)
(***************************************************************************)
EXTENDS Epigram, SequenceTheorems, FiniteSetTheorems, WellFoundedInduction, TLAPS

-----------------------------------------------------------------------------
(* Lengths, as they are written.                                            *)

\* Natural numbers have a least one.
LEMMA LeastNatural ==
  ASSUME NEW T, T \subseteq Nat, T # {}
  PROVE  \E x \in T : \A y \in T : x <= y
<1>1. PICK x \in T : \A y \in T : ~ (<<y, x>> \in OpToRel(<, Nat))
  BY NatLessThanWellFounded, WFMin
<1>2. \A y \in T : ~ (y < x)
  BY <1>1 DEF OpToRel
<1> QED BY <1>2

EncodeBody(f, m) == IF m < Base THEN <<m>> ELSE <<Base + (m % Base)>> \o f[m \div Base]
IsEncoder(f, n) == f = [m \in 0 .. n |-> EncodeBody(f, m)]

\* A quotient by the base is smaller, which is what the recursion of Encode ends by.
LEMMA QuotientIsLess ==
  ASSUME NEW m \in Nat, m >= Base
  PROVE  m \div Base \in Nat /\ m \div Base < m /\ m % Base \in 0 .. Base - 1
         /\ m = Base * (m \div Base) + (m % Base)
BY BaseAssumption

\* Encode is a CHOOSE over a domain that depends on its argument: all the choices agree.
LEMMA EncodersAgree ==
  ASSUME NEW n \in Nat, NEW k \in Nat, NEW f, NEW g, IsEncoder(f, n), IsEncoder(g, k)
  PROVE  \A m \in Nat : m <= n /\ m <= k => f[m] = g[m]
<1> DEFINE T == {m \in Nat : m <= n /\ m <= k /\ f[m] # g[m]}
<1>1. SUFFICES ASSUME T # {} PROVE FALSE
  OBVIOUS
<1>2. PICK m \in T : \A y \in T : m <= y
  BY <1>1, LeastNatural
<1>3. m \in 0 .. n /\ m \in 0 .. k
  OBVIOUS
<1>4. f[m] = EncodeBody(f, m) /\ g[m] = EncodeBody(g, m)
  BY <1>3 DEF IsEncoder
<1>5. ~ (m < Base)
  BY <1>4 DEF EncodeBody
<1>6. m \div Base \in Nat /\ m \div Base < m
  BY <1>5, QuotientIsLess, BaseAssumption
<1>7. f[m \div Base] = g[m \div Base]
  <2>1. m \div Base \notin T
    BY <1>2, <1>6
  <2> QED BY <1>3, <1>6, <2>1
<1> QED BY <1>4, <1>7 DEF EncodeBody

\* ... and there is one to choose.
LEMMA EncoderExists == \A n \in Nat : \E f : IsEncoder(f, n)
<1> DEFINE T == {n \in Nat : ~ \E f : IsEncoder(f, n)}
<1>1. SUFFICES ASSUME T # {} PROVE FALSE
  OBVIOUS
<1>2. PICK n \in T : \A y \in T : n <= y
  BY <1>1, LeastNatural
<1>3. CASE n = 0
  <2> DEFINE f == [m \in 0 .. 0 |-> <<m>>]
  <2>1. \A m \in 0 .. 0 : m < Base
    BY BaseAssumption
  <2>2. f = [m \in 0 .. 0 |-> EncodeBody(f, m)]
    BY <2>1 DEF EncodeBody
  <2> QED BY <1>3, <2>2 DEF IsEncoder
<1>4. CASE n # 0
  <2>1. n - 1 \in Nat /\ n - 1 \notin T
    BY <1>2, <1>4
  <2>2. PICK f : IsEncoder(f, n - 1)
    BY <2>1
  <2> DEFINE g == [m \in 0 .. n |-> EncodeBody(f, m)]
  <2>3. ASSUME NEW m \in 0 .. n PROVE g[m] = EncodeBody(g, m)
    <3>1. CASE m < Base
      BY <3>1 DEF EncodeBody
    <3>2. CASE m >= Base
      <4>1. m \div Base \in 0 .. n - 1
        BY <3>2, QuotientIsLess
      <4>2. f[m \div Base] = EncodeBody(f, m \div Base)
        BY <2>2, <4>1 DEF IsEncoder
      <4>3. g[m \div Base] = EncodeBody(f, m \div Base)
        BY <4>1
      <4> QED BY <4>2, <4>3 DEF EncodeBody
    <3> QED BY <3>1, <3>2, BaseAssumption
  <2>4. IsEncoder(g, n)
    BY <2>3 DEF IsEncoder
  <2> QED BY <2>4
<1> QED BY <1>3, <1>4

\* What Encode computes, by its recursion.
LEMMA EncodeIs ==
  ASSUME NEW n \in Nat
  PROVE  \E f : IsEncoder(f, n) /\ Encode(n) = f[n]
<1> DEFINE f == CHOOSE f : IsEncoder(f, n)
<1>1. IsEncoder(f, n)
  BY EncoderExists
<1>2. Encode(n) = f[n]
  BY DEF Encode, IsEncoder, EncodeBody
<1> QED BY <1>1, <1>2

\* A length is its last digit, if that is all, or a flagged digit before the others.
LEMMA EncodeStep ==
  ASSUME NEW n \in Nat
  PROVE  Encode(n) = IF n < Base THEN <<n>> ELSE <<Base + (n % Base)>> \o Encode(n \div Base)
<1>1. PICK f : IsEncoder(f, n) /\ Encode(n) = f[n]
  BY EncodeIs
<1>2. f[n] = EncodeBody(f, n)
  BY <1>1 DEF IsEncoder
<1>3. CASE n < Base
  BY <1>1, <1>2, <1>3 DEF EncodeBody
<1>4. CASE n >= Base
  <2> DEFINE k == n \div Base
  <2>1. k \in Nat /\ k < n
    BY <1>4, QuotientIsLess
  <2> HIDE DEF k
  <2>2. PICK g : IsEncoder(g, k) /\ Encode(k) = g[k]
    BY <2>1, EncodeIs
  <2>3. f[k] = g[k]
    BY <1>1, <2>1, <2>2, EncodersAgree
  <2> QED BY <1>1, <1>2, <1>4, <2>2, <2>3, BaseAssumption DEF EncodeBody, k
<1> QED BY <1>3, <1>4, BaseAssumption

\* A length is written as one digit or more.
LEMMA EncodeType == \A n \in Nat : Encode(n) \in Seq(Nat) /\ Len(Encode(n)) >= 1
<1> DEFINE T == {n \in Nat : ~ (Encode(n) \in Seq(Nat) /\ Len(Encode(n)) >= 1)}
<1>1. SUFFICES ASSUME T # {} PROVE FALSE
  OBVIOUS
<1>2. PICK n \in T : \A y \in T : n <= y
  BY <1>1, LeastNatural
<1>3. CASE n < Base
  <2>1. Encode(n) = <<n>>
    BY <1>3, EncodeStep
  <2> QED BY <2>1
<1>4. CASE n >= Base
  <2> DEFINE s == Encode(n \div Base)
             d == Base + (n % Base)
  <2>1. n \in Nat /\ n \div Base \in Nat /\ n \div Base < n /\ d \in Nat
    BY <1>4, QuotientIsLess, BaseAssumption
  <2>2. n \div Base \notin T
    BY <1>2, <2>1
  <2>3. s \in Seq(Nat) /\ Len(s) >= 1
    BY <2>1, <2>2
  <2>4. ~ (n < Base)
    BY <1>4, <2>1, BaseAssumption
  <2>5. Encode(n) = <<d>> \o s
    BY <2>1, <2>4, EncodeStep
  <2> HIDE DEF s, d
  <2>6. <<d>> \o s \in Seq(Nat) /\ Len(<<d>> \o s) >= 1
    BY <2>1, <2>3
  <2> QED BY <2>5, <2>6
<1> QED BY <1>3, <1>4, BaseAssumption

-----------------------------------------------------------------------------
(* Lengths, as they are read.                                               *)

ReadBody(f, byte, n, i) ==
    IF byte < Base \/ i + 1 >= n
    THEN [value |-> byte % Base, width |-> i + 1]
    ELSE [f[i + 1] EXCEPT !.value = (byte % Base) + Base * @]
IsReader(f, b, p, step, n) == f = [i \in Nat |-> ReadBody(f, b[p + step * i], n, i)]

\* The function Decode and ReverseDecode read by exists, though no domain bounds it.
LEMMA ReaderExists ==
  ASSUME NEW b, NEW p, NEW step, NEW n \in Int
  PROVE  \E f : IsReader(f, b, p, step, n)
<1> DEFINE D == [i \in Nat |-> b[p + step * i]]
           Upto(f, k) == /\ DOMAIN f = Nat
                         /\ \A i \in Nat : i + k + 1 >= n => f[i] = ReadBody(f, D[i], n, i)
           T == {k \in Nat : ~ \E f : Upto(f, k)}
<1>1. T = {}
  <2> SUFFICES ASSUME T # {} PROVE FALSE
    OBVIOUS
  <2> HIDE DEF D
  <2>1. PICK k \in T : \A y \in T : k <= y
    BY LeastNatural
  <2>2. CASE k = 0
    <3> DEFINE f == [i \in Nat |-> [value |-> D[i] % Base, width |-> i + 1]]
    <3>1. ASSUME NEW i \in Nat, i + 0 + 1 >= n PROVE f[i] = ReadBody(f, D[i], n, i)
      <4>1. i + 1 >= n
        BY <3>1
      <4> QED BY <4>1 DEF ReadBody
    <3>2. Upto(f, 0)
      BY <3>1
    <3> QED BY <2>2, <3>2
  <2>3. CASE k # 0
    <3>1. k - 1 \in Nat /\ k - 1 \notin T
      BY <2>1, <2>3
    <3>2. PICK f : Upto(f, k - 1)
      BY <3>1
    <3> DEFINE g == [i \in Nat |-> IF i + k >= n THEN f[i] ELSE ReadBody(f, D[i], n, i)]
    <3>3. ASSUME NEW i \in Nat, i + k + 1 >= n PROVE g[i] = ReadBody(g, D[i], n, i)
      <4>1. i + 1 \in Nat /\ g[i + 1] = f[i + 1]
        BY <3>3
      <4> HIDE DEF g
      <4>2. ReadBody(g, D[i], n, i) = ReadBody(f, D[i], n, i)
        BY <4>1, Zenon DEF ReadBody
      <4> USE DEF g
      <4>3. CASE i + k >= n
        <5>1. f[i] = ReadBody(f, D[i], n, i)
          BY <3>2, <4>3
        <5> QED BY <4>2, <4>3, <5>1
      <4>4. CASE ~ (i + k >= n)
        BY <4>2, <4>4
      <4> QED BY <4>3, <4>4
    <3>4. Upto(g, k)
      BY <3>3
    <3> QED BY <3>4
  <2> QED BY <2>2, <2>3
<1> DEFINE k == IF n \in Nat THEN n ELSE 0
<1>2. k \in Nat /\ \A i \in Nat : i + k + 1 >= n
  OBVIOUS
<1>3. PICK f : Upto(f, k)
  <2>1. k \notin T
    BY <1>1
  <2> QED BY <1>2, <2>1
<1> HIDE DEF k
<1>4. ASSUME NEW i \in Nat PROVE f[i] = ReadBody(f, b[p + step * i], n, i)
  <2>1. i + k + 1 >= n
    BY <1>2
  <2>2. f[i] = ReadBody(f, D[i], n, i)
    BY <1>3, <2>1
  <2> QED BY <2>2
<1> DEFINE h == [i \in Nat |-> f[i]]
<1>5. ASSUME NEW i \in Nat PROVE h[i] = ReadBody(h, b[p + step * i], n, i)
  <2>1. h[i + 1] = f[i + 1] /\ h[i] = f[i]
    OBVIOUS
  <2> HIDE DEF h
  <2> QED BY <1>4, <2>1, Zenon DEF ReadBody
<1>6. h = [i \in Nat |-> ReadBody(h, b[p + step * i], n, i)]
  BY <1>5
<1> QED BY <1>6 DEF IsReader

Reads(f, b, p, step, n) == \A i \in Nat : f[i] = ReadBody(f, b[p + step * i], n, i)

\* Whatever bytes are read, the digit at hand and what follows make the number.
LEMMA ReadIs ==
  ASSUME NEW b, NEW p, NEW step, NEW n \in Int
  PROVE  \E f : Reads(f, b, p, step, n) /\ Read(b, p, step, n) = f[0]
<1> DEFINE f == CHOOSE f : IsReader(f, b, p, step, n)
<1>1. IsReader(f, b, p, step, n)
  BY ReaderExists
<1>2. Read(b, p, step, n) = f[0]
  BY DEF Read, IsReader, ReadBody
<1> QED BY <1>1, <1>2 DEF IsReader, Reads

\* A last digit is the number.
LEMMA DigitIsRead ==
  ASSUME NEW r \in 0 .. Base - 1, NEW q \in Nat
  PROVE  /\ Base + r \in Nat /\ ~ (Base + r < Base) /\ (Base + r) % Base = r /\ r \in Nat
         /\ Base * q \in Nat /\ r + Base * q = Base * q + r
BY BaseAssumption

\* A remainder is a number.
LEMMA RemainderIsNat == ASSUME NEW n \in Nat PROVE n % Base \in Nat
BY BaseAssumption

\* Numbers are read from numbers, within the bytes there are.
LEMMA ReadType ==
  ASSUME NEW b, NEW p, NEW step, NEW n \in Nat, n >= 1,
         \A i \in 0 .. n - 1 : b[p + step * i] \in Nat
  PROVE  LET r == Read(b, p, step, n) IN
         r = [value |-> r.value, width |-> r.width] /\ r.value \in Nat /\ r.width \in 1 .. n
<1>1. PICK f : Reads(f, b, p, step, n) /\ Read(b, p, step, n) = f[0]
  BY ReadIs
<1> DEFINE Ok(i) == \E v \in Nat, w \in i + 1 .. n : f[i] = [value |-> v, width |-> w]
           T == {k \in Nat : \E i \in Nat : i + k + 1 = n /\ ~ Ok(i)}
<1>2. T = {}
  <2> SUFFICES ASSUME T # {} PROVE FALSE
    OBVIOUS
  <2>1. PICK k \in T : \A y \in T : k <= y
    BY LeastNatural
  <2>2. PICK i \in Nat : i + k + 1 = n /\ ~ Ok(i)
    OBVIOUS
  <2> DEFINE byte == b[p + step * i]
  <2>3. byte \in Nat
    <3>1. i \in 0 .. n - 1
      BY <2>2
    <3> QED BY <3>1
  <2>4. f[i] = ReadBody(f, byte, n, i)
    BY <1>1 DEF Reads
  <2> HIDE DEF byte
  <2>5. byte % Base \in Nat
    BY <2>3, RemainderIsNat
  <2> HIDE DEF Ok
  <2>8. ASSUME NEW y \in Nat, y < k, NEW j \in Nat, j + y + 1 = n PROVE Ok(j)
    <3>1. y \notin T
      BY <2>1, <2>8
    <3> QED BY <2>8, <3>1
  <2> USE DEF Ok
  <2>9. k \in Nat
    OBVIOUS
  <2> HIDE DEF T
  <2>6. CASE byte < Base \/ i + 1 >= n
    <3>1. f[i] = [value |-> byte % Base, width |-> i + 1]
      BY <2>4, <2>6 DEF ReadBody
    <3>2. i + 1 \in i + 1 .. n
      BY <2>2, <2>9
    <3> QED BY <2>2, <2>5, <3>1, <3>2
  <2>7. CASE ~ (byte < Base \/ i + 1 >= n)
    <3>1. k - 1 \in Nat /\ k - 1 < k /\ i + 1 \in Nat /\ (i + 1) + (k - 1) + 1 = n
      BY <2>2, <2>7, <2>9
    <3>2. Ok(i + 1)
      BY <2>8, <3>1
    <3>3. PICK v \in Nat, w \in (i + 1) + 1 .. n : f[i + 1] = [value |-> v, width |-> w]
      BY <3>2
    <3>4. f[i] = [f[i + 1] EXCEPT !.value = (byte % Base) + Base * @]
      BY <2>4, <2>7 DEF ReadBody
    <3>5. f[i] = [value |-> (byte % Base) + Base * v, width |-> w]
      BY <3>3, <3>4
    <3>6. (byte % Base) + Base * v \in Nat
      <4>1. Base * v \in Nat
        BY BaseAssumption
      <4> QED BY <2>5, <4>1
    <3>7. w \in i + 1 .. n
      OBVIOUS
    <3> QED BY <2>2, <3>5, <3>6, <3>7
  <2> QED BY <2>6, <2>7
<1>3. n - 1 \notin T
  BY <1>2
<1>4. Ok(0)
  <2>1. n - 1 \in Nat /\ 0 + (n - 1) + 1 = n
    OBVIOUS
  <2> HIDE DEF Ok
  <2>2. ~ \E i \in Nat : i + (n - 1) + 1 = n /\ ~ Ok(i)
    BY <1>3, <2>1
  <2> QED BY <2>1, <2>2
<1> QED BY <1>1, <1>4

\* The bytes s, from b[p] on in steps.
Bytes(b, p, step, s) == \A j \in 1 .. Len(s) : b[p + step * (j - 1)] = s[j]

\* What is read where a length is written is that length, and its width.
LEMMA ReadEncoded ==
  ASSUME NEW b, NEW p, NEW step, NEW n \in Nat, NEW m \in Nat, Len(Encode(m)) <= n,
         Bytes(b, p, step, Encode(m))
  PROVE  Read(b, p, step, n) = [value |-> m, width |-> Len(Encode(m))]
<1>1. PICK f : Reads(f, b, p, step, n) /\ Read(b, p, step, n) = f[0]
  BY ReadIs
<1> DEFINE D == [i \in Nat |-> b[p + step * i]]
           At(x, i) == /\ i + Len(Encode(x)) <= n
                       /\ \A j \in 1 .. Len(Encode(x)) : D[i + (j - 1)] = Encode(x)[j]
           Ok(x, i) == f[i] = [value |-> x, width |-> i + Len(Encode(x))]
           T == {x \in Nat : \E i \in Nat : At(x, i) /\ ~ Ok(x, i)}
<1>2. \A i \in Nat : f[i] = ReadBody(f, D[i], n, i)
  BY <1>1 DEF Reads
<1>3. At(m, 0)
  <2>1. \A j \in 1 .. Len(Encode(m)) : 0 + (j - 1) = j - 1 /\ j - 1 \in Nat
    BY EncodeType
  <2> QED BY <2>1, EncodeType DEF Bytes
<1> HIDE DEF D
<1>4. T = {}
  <2> SUFFICES ASSUME T # {} PROVE FALSE
    OBVIOUS
  <2>1. PICK x \in T : \A y \in T : x <= y
    BY LeastNatural
  <2>2. PICK i \in Nat : At(x, i) /\ ~ Ok(x, i)
    OBVIOUS
  <2> HIDE DEF At, Ok
  <2>8. x \in Nat /\ \A y \in Nat : y < x => \A j \in Nat : At(y, j) => Ok(y, j)
    <3> SUFFICES ASSUME NEW y \in Nat, y < x, NEW j \in Nat, At(y, j) PROVE Ok(y, j)
      OBVIOUS
    <3>1. y \notin T
      BY <2>1
    <3> QED BY <3>1
  <2> USE DEF At, Ok
  <2> HIDE DEF T
  <2>3. f[i] = ReadBody(f, D[i], n, i)
    BY <1>2
  <2>4. Len(Encode(x)) \in Nat /\ Len(Encode(x)) >= 1 /\ Encode(x) \in Seq(Nat)
    BY <2>8, EncodeType
  <2>5. D[i] = Encode(x)[1]
    <3>1. D[i + (1 - 1)] = Encode(x)[1]
      BY <2>2, <2>4
    <3> QED BY <3>1
  <2>6. CASE x < Base
    <3>1. Encode(x) = <<x>>
      BY <2>6, <2>8, EncodeStep
    <3>2. D[i] = x /\ Len(Encode(x)) = 1
      BY <2>5, <3>1
    <3>3. x % Base = x
      BY <2>6, <2>8, BaseAssumption
    <3> QED BY <2>2, <2>3, <2>6, <3>2, <3>3 DEF ReadBody
  <2>7. CASE x >= Base
    <3> DEFINE q == x \div Base
               r == x % Base
               s == Encode(q)
    <3>1. q \in Nat /\ q < x /\ r \in 0 .. Base - 1 /\ x = Base * q + r /\ ~ (x < Base)
      BY <2>7, <2>8, QuotientIsLess, BaseAssumption
    <3>2. s \in Seq(Nat) /\ Len(s) >= 1
      BY <3>1, EncodeType
    <3>3. Encode(x) = <<Base + r>> \o s
      BY <2>8, <3>1, EncodeStep
    <3> HIDE DEF q, r, s
    <3>4. \A j \in Nat : At(q, j) => Ok(q, j)
      BY <2>8, <3>1
    <3>5. /\ Base + r \in Nat /\ ~ (Base + r < Base) /\ (Base + r) % Base = r /\ r \in Nat
          /\ Base * q \in Nat /\ r + Base * q = Base * q + r
      BY <3>1, DigitIsRead
    <3>6. /\ Len(Encode(x)) = 1 + Len(s) /\ Encode(x)[1] = Base + r
          /\ \A j \in 1 .. Len(s) : Encode(x)[j + 1] = s[j]
      BY <3>2, <3>3, <3>5
    <3>7. i + 1 + Len(s) <= n /\ ~ (i + 1 >= n)
      BY <2>2, <3>2, <3>6
    <3>8. \A j \in 1 .. Len(s) : D[i + 1 + (j - 1)] = s[j]
      <4> TAKE j \in 1 .. Len(s)
      <4>1. j + 1 \in 1 .. Len(Encode(x)) /\ i + ((j + 1) - 1) = i + 1 + (j - 1)
        BY <3>2, <3>6
      <4>2. D[i + ((j + 1) - 1)] = Encode(x)[j + 1]
        BY <2>2, <4>1
      <4> QED BY <3>6, <4>1, <4>2
    <3>9. Ok(q, i + 1)
      <4>1. At(q, i + 1)
        BY <3>7, <3>8 DEF s
      <4>2. i + 1 \in Nat
        OBVIOUS
      <4> QED BY <3>4, <4>1, <4>2
    <3>10. f[i + 1] = [value |-> q, width |-> i + 1 + Len(s)]
      BY <3>9 DEF s
    <3>11. f[i] = [f[i + 1] EXCEPT !.value = ((Base + r) % Base) + Base * @]
      BY <2>3, <2>5, <3>5, <3>6, <3>7 DEF ReadBody
    <3>12. f[i] = [value |-> r + Base * q, width |-> i + 1 + Len(s)]
      BY <3>5, <3>10, <3>11
    <3>13. r + Base * q = x
      BY <3>1, <3>5
    <3>14. i + 1 + Len(s) = i + Len(Encode(x))
      BY <3>2, <3>6
    <3>15. Ok(x, i)
      BY <3>12, <3>13, <3>14
    <3> QED BY <2>2, <3>15
  <2> QED BY <2>6, <2>7, <2>8, BaseAssumption
<1>5. Ok(m, 0)
  BY <1>3, <1>4
<1>6. 0 + Len(Encode(m)) = Len(Encode(m))
  BY EncodeType
<1> QED BY <1>1, <1>5, <1>6

-----------------------------------------------------------------------------
(* An element, as it is written.                                            *)

FlattenBody(f, s, i) == IF i = 1 THEN s[i] ELSE f[i - 1] \o s[i]

\* The items of an array, joined: the function the fold is a CHOOSE of exists.
LEMMA FlattenExists ==
  ASSUME NEW s, NEW n \in Nat
  PROVE  \E f : f = [i \in 1 .. n |-> FlattenBody(f, s, i)]
<1> DEFINE Upto(f, k) == \A i \in 1 .. k : f[i] = FlattenBody(f, s, i)
           T == {k \in Nat : ~ \E f : Upto(f, k)}
<1>1. T = {}
  <2> SUFFICES ASSUME T # {} PROVE FALSE
    OBVIOUS
  <2>1. PICK k \in T : \A y \in T : k <= y
    BY LeastNatural
  <2>2. CASE k = 0
    <3>1. Upto(<<>>, 0)
      OBVIOUS
    <3> QED BY <2>2, <3>1
  <2>3. CASE k # 0
    <3>1. k - 1 \in Nat /\ k - 1 \notin T
      BY <2>1, <2>3
    <3>2. PICK f : Upto(f, k - 1)
      BY <3>1
    <3> DEFINE g == [i \in 1 .. k |-> FlattenBody(f, s, i)]
    <3>3. ASSUME NEW i \in 1 .. k PROVE g[i] = FlattenBody(g, s, i)
      <4>1. CASE i = 1
        BY <4>1 DEF FlattenBody
      <4>2. CASE i # 1
        <5>1. i - 1 \in 1 .. k - 1 /\ i - 1 \in 1 .. k
          BY <4>2
        <5>2. g[i - 1] = f[i - 1]
          BY <3>2, <5>1
        <5> QED BY <5>2 DEF FlattenBody
      <4> QED BY <4>1, <4>2
    <3>4. Upto(g, k)
      BY <3>3
    <3> QED BY <3>4
  <2> QED BY <2>2, <2>3
<1>2. PICK f : Upto(f, n)
  BY <1>1
<1> DEFINE h == [i \in 1 .. n |-> f[i]]
<1>3. ASSUME NEW i \in 1 .. n PROVE h[i] = FlattenBody(h, s, i)
  <2>1. h[i] = FlattenBody(f, s, i)
    BY <1>2
  <2>2. CASE i = 1
    BY <2>1, <2>2 DEF FlattenBody
  <2>3. CASE i # 1
    <3>1. i - 1 \in 1 .. n
      BY <2>3
    <3>2. h[i - 1] = f[i - 1]
      BY <3>1
    <3> QED BY <2>1, <3>2 DEF FlattenBody
  <2> QED BY <2>2, <2>3
<1>4. h = [i \in 1 .. n |-> FlattenBody(h, s, i)]
  BY <1>3
<1> QED BY <1>4

\* Items joined are bytes.
LEMMA FlattenType ==
  ASSUME NEW S, NEW s \in Seq(Seq(S))
  PROVE  FlattenSeq(s) \in Seq(S)
<1> DEFINE n == Len(s)
           f == CHOOSE f : f = [i \in 1 .. n |-> FlattenBody(f, s, i)]
<1>1. n \in Nat
  OBVIOUS
<1>2. CASE n = 0
  <2>1. s = <<>>
    BY <1>2
  <2> QED BY <2>1 DEF FlattenSeq
<1>3. CASE n # 0
  <2>1. FlattenSeq(s) = f[n]
    BY <1>3 DEF FlattenSeq, FlattenBody
  <2>2. f = [i \in 1 .. n |-> FlattenBody(f, s, i)]
    BY <1>1, FlattenExists
  <2> HIDE DEF f
  <2> DEFINE T == {k \in Nat : k \in 1 .. n /\ f[k] \notin Seq(S)}
  <2>3. T = {}
    <3> SUFFICES ASSUME T # {} PROVE FALSE
      OBVIOUS
    <3>1. PICK k \in T : \A y \in T : k <= y
      BY LeastNatural
    <3>5. k \in 1 .. n
      OBVIOUS
    <3> HIDE DEF T
    <3>2. f[k] = FlattenBody(f, s, k) /\ s[k] \in Seq(S)
      <4>1. f[k] = FlattenBody(f, s, k)
        BY <2>2, <3>5
      <4>2. s[k] \in Seq(S)
        BY <3>5, ElementOfSeq
      <4> QED BY <4>1, <4>2
    <3> USE DEF T
    <3>3. CASE k = 1
      BY <3>2, <3>3 DEF FlattenBody
    <3>4. CASE k # 1
      <4>1. k - 1 \in 1 .. n /\ k - 1 \notin T
        BY <3>1, <3>4
      <4>2. f[k - 1] \in Seq(S)
        BY <4>1
      <4>3. f[k] = f[k - 1] \o s[k]
        BY <3>2, <3>4 DEF FlattenBody
      <4>4. f[k - 1] \o s[k] \in Seq(S)
        BY <3>2, <4>2, ConcatProperties
      <4> QED BY <4>3, <4>4
    <3> QED BY <3>3, <3>4
  <2>4. n \in 1 .. n
    BY <1>1, <1>3
  <2> QED BY <2>1, <2>3, <2>4
<1> QED BY <1>2, <1>3

AnyKeys == [type : Nat, bytes : Seq(Nat)]
AnyValues == [type : 0 .. ArrayFlag - 1, array : BOOLEAN, items : Seq(Seq(Nat))]

Prefix(v) == IF v.array THEN Encode(Len(v.items)) ELSE <<>>
Payload(v) == Prefix(v) \o FlattenSeq(v.items)
Types(k, v) == <<k.type, v.type + (IF v.array THEN ArrayFlag ELSE 0)>>
PayloadSize(k, v) == Len(Payload(v)) + Len(k.bytes) + Len(Encode(Len(k.bytes))) - 1

\* An element, part by part.
LEMMA ElementIs ==
  ASSUME NEW k, NEW v
  PROVE  Element(k, v) = Payload(v) \o k.bytes \o Reverse(Encode(Len(k.bytes))) \o Types(k, v)
                           \o Reverse(Encode(PayloadSize(k, v)))
BY DEF Element, Payload, Prefix, Types, PayloadSize

\* What reversing a sequence does, which is how the lengths read from the end are written.
LEMMA ReverseIs ==
  ASSUME NEW S, NEW s \in Seq(S)
  PROVE  /\ Reverse(s) \in Seq(S) /\ Len(Reverse(s)) = Len(s)
         /\ \A i \in 1 .. Len(s) : Reverse(s)[i] = s[Len(s) - i + 1]
<1>1. \A i \in 1 .. Len(s) : s[Len(s) - i + 1] \in S
  OBVIOUS
<1>2. Reverse(s) = [i \in 1 .. Len(s) |-> s[Len(s) - i + 1]]
  BY DEF Reverse
<1> QED BY <1>1, <1>2

\* The parts of an element are bytes.
LEMMA PartsType ==
  ASSUME NEW k \in AnyKeys, NEW v \in AnyValues
  PROVE  /\ Len(v.items) \in Nat /\ FlattenSeq(v.items) \in Seq(Nat)
         /\ Prefix(v) \in Seq(Nat) /\ Payload(v) \in Seq(Nat)
         /\ k.bytes \in Seq(Nat) /\ Len(k.bytes) \in Nat /\ k.type \in Nat
         /\ Encode(Len(k.bytes)) \in Seq(Nat) /\ Len(Encode(Len(k.bytes))) >= 1
         /\ Types(k, v) \in Seq(Nat) /\ Len(Types(k, v)) = 2
         /\ PayloadSize(k, v) \in Nat
<1>1. v.items \in Seq(Seq(Nat)) /\ v.type \in Nat /\ v.array \in BOOLEAN
  BY EpigramAssumption DEF AnyValues
<1>2. FlattenSeq(v.items) \in Seq(Nat) /\ Len(v.items) \in Nat
  BY <1>1, FlattenType
<1>3. Prefix(v) \in Seq(Nat)
  <2> DEFINE n == Len(v.items)
  <2>1. n \in Nat
    BY <1>2
  <2>2. Prefix(v) = IF v.array THEN Encode(n) ELSE <<>>
    BY DEF Prefix
  <2> HIDE DEF n
  <2>3. Encode(n) \in Seq(Nat)
    BY <2>1, EncodeType
  <2>4. <<>> \in Seq(Nat)
    OBVIOUS
  <2> QED BY <2>2, <2>3, <2>4
<1>4. Payload(v) \in Seq(Nat)
  BY <1>2, <1>3 DEF Payload
<1>5. k.bytes \in Seq(Nat) /\ Len(k.bytes) \in Nat /\ k.type \in Nat
  BY DEF AnyKeys
<1>6. Encode(Len(k.bytes)) \in Seq(Nat) /\ Len(Encode(Len(k.bytes))) >= 1
  BY <1>5, EncodeType
<1>7. Types(k, v) \in Seq(Nat) /\ Len(Types(k, v)) = 2
  BY <1>1, <1>5, EpigramAssumption DEF Types
<1>8. PayloadSize(k, v) \in Nat
  <2> DEFINE p == Len(Payload(v))
             n == Len(k.bytes)
             c == Len(Encode(Len(k.bytes)))
  <2>1. p \in Nat /\ n \in Nat /\ c \in Nat /\ c >= 1
    BY <1>4, <1>5, <1>6
  <2>2. PayloadSize(k, v) = p + n + c - 1
    BY DEF PayloadSize
  <2> HIDE DEF p, n, c
  <2> QED BY <2>1, <2>2
<1> QED BY <1>2, <1>3, <1>4, <1>5, <1>6, <1>7, <1>8

-----------------------------------------------------------------------------
(* An element, as it is read.                                               *)

\* A sequence lies in b from a on.
At(b, a, s) == \A j \in 1 .. Len(s) : b[a + j - 1] = s[j]

\* What is joined lies one after the other.
LEMMA AtConcat ==
  ASSUME NEW b, NEW a \in Int, NEW s \in Seq(Nat), NEW t \in Seq(Nat), At(b, a, s \o t)
  PROVE  /\ Len(s \o t) = Len(s) + Len(t)
         /\ At(b, a, s) /\ At(b, a + Len(s), t)
<1>1. /\ Len(s \o t) = Len(s) + Len(t)
      /\ \A i \in 1 .. Len(s) + Len(t) : (s \o t)[i] = IF i <= Len(s) THEN s[i] ELSE t[i - Len(s)]
  BY ConcatProperties
<1>2. Len(s) \in Nat /\ Len(t) \in Nat
  OBVIOUS
<1> DEFINE u == s \o t
<1>3. \A j \in 1 .. Len(u) : b[a + j - 1] = u[j]
  BY DEF At
<1> HIDE DEF u
<1>4. ASSUME NEW j \in 1 .. Len(s) PROVE b[a + j - 1] = s[j]
  <2>1. j \in 1 .. Len(u) /\ u[j] = s[j]
    BY <1>1, <1>2 DEF u
  <2> QED BY <1>3, <2>1
<1>5. ASSUME NEW j \in 1 .. Len(t) PROVE b[a + Len(s) + j - 1] = t[j]
  <2>1. Len(s) + j \in 1 .. Len(u) /\ u[Len(s) + j] = t[j]
    BY <1>1, <1>2 DEF u
  <2>2. a + (Len(s) + j) - 1 = a + Len(s) + j - 1
    BY <1>2
  <2> QED BY <1>3, <2>1, <2>2
<1> QED BY <1>1, <1>4, <1>5 DEF At

\* Decode reads a length that lies there.
LEMMA DecodeAt ==
  ASSUME NEW b, NEW a \in Nat, NEW m \in Nat, NEW end \in Int, At(b, a, Encode(m)),
         a + Len(Encode(m)) - 1 <= end
  PROVE  Decode(b, a, end) = [value |-> m, next |-> a + Len(Encode(m))]
<1> DEFINE e == Encode(m)
           n == end - a + 1
<1>1. Len(e) \in Nat /\ Len(e) >= 1
  BY EncodeType
<1>2. n \in Nat /\ Len(e) <= n
  BY <1>1
<1>3. ASSUME NEW j \in 1 .. Len(e) PROVE b[a + 1 * (j - 1)] = e[j]
  <2>1. a + 1 * (j - 1) = a + j - 1
    BY <1>1
  <2> QED BY <2>1 DEF At
<1>4. Read(b, a, 1, n) = [value |-> m, width |-> Len(Encode(m))]
  <2>1. Bytes(b, a, 1, Encode(m))
    BY <1>3 DEF Bytes
  <2> HIDE DEF n
  <2> QED BY <1>2, <2>1, ReadEncoded
<1> QED BY <1>4 DEF Decode

\* ReverseDecode reads a reversed length that ends there.
LEMMA ReverseDecodeAt ==
  ASSUME NEW b, NEW a \in Nat, a >= 1, NEW m \in Nat, At(b, a, Reverse(Encode(m)))
  PROVE  ReverseDecode(b, a + Len(Encode(m)) - 1) = [value |-> m, next |-> a - 1]
<1> DEFINE e == Encode(m)
           p == a + Len(e) - 1
<1>1. e \in Seq(Nat) /\ Len(e) \in Nat /\ Len(e) >= 1
  BY EncodeType
<1>2. p \in Nat /\ Len(e) <= p /\ p - 1 + 1 = p
  BY <1>1
<1>3. /\ Len(Reverse(e)) = Len(e)
      /\ \A i \in 1 .. Len(e) : Reverse(e)[i] = e[Len(e) - i + 1]
  BY <1>1, ReverseIs
<1>4. ASSUME NEW j \in 1 .. Len(e) PROVE b[p + (-1) * (j - 1)] = e[j]
  <2> DEFINE i == Len(e) - j + 1
  <2>1. i \in 1 .. Len(e) /\ p + (-1) * (j - 1) = a + i - 1 /\ Len(e) - i + 1 = j
    BY <1>1
  <2>2. b[a + i - 1] = Reverse(e)[i]
    BY <1>3, <2>1 DEF At
  <2>3. Reverse(e)[i] = e[Len(e) - i + 1]
    BY <1>3, <2>1
  <2> QED BY <2>1, <2>2, <2>3
<1>5. Read(b, p, -1, p) = [value |-> m, width |-> Len(e)]
  <2>1. Bytes(b, p, -1, Encode(m))
    BY <1>4 DEF Bytes
  <2> HIDE DEF p
  <2> QED BY <1>2, <2>1, ReadEncoded
<1>6. p - Len(e) = a - 1
  BY <1>1
<1> HIDE DEF p, e
<1>7. ReverseDecode(b, p) = [value |-> m, next |-> a - 1]
  BY <1>2, <1>5, <1>6 DEF ReverseDecode, ReverseDecodeTo
<1> QED BY <1>7 DEF p, e

\* What the walk finds where an element of key k and value v begins at a.
Found(a, k, v) ==
    [start |-> a, end |-> a + Len(Element(k, v)) - 1, payload |-> a + Len(Prefix(v)),
     count |-> IF v.array THEN Len(v.items) ELSE 1, array |-> v.array, type |-> v.type,
     key |-> k, bytes |-> FlattenSeq(v.items)]

\* The two types, and the flag that says array, come apart as they were put together.
LEMMA TypesAreRead ==
  ASSUME NEW v \in AnyValues
  PROVE  LET t == v.type + (IF v.array THEN ArrayFlag ELSE 0) IN
         (t >= ArrayFlag <=> v.array) /\ t % ArrayFlag = v.type
<1>1. v.type \in 0 .. ArrayFlag - 1 /\ v.array \in BOOLEAN /\ ArrayFlag \in Nat
  BY EpigramAssumption DEF AnyValues
<1>2. CASE v.array
  <2>1. (v.type + ArrayFlag) % ArrayFlag = v.type
    BY <1>1
  <2> QED BY <1>1, <1>2, <2>1
<1>3. CASE ~ v.array
  <2>1. v.type % ArrayFlag = v.type /\ v.type + 0 = v.type
    BY <1>1
  <2> QED BY <1>1, <1>3, <2>1
<1> QED BY <1>2, <1>3

\* A sequence that lies in b is a part of b.
LEMMA AtIsPart ==
  ASSUME NEW b, NEW a \in Nat, NEW s \in Seq(Nat), At(b, a, s)
  PROVE  SubSeq(b, a, a + Len(s) - 1) = s
<1>1. Len(s) \in Nat
  OBVIOUS
<1>2. ASSUME NEW i \in a .. a + Len(s) - 1 PROVE b[i] \in Nat
  <2>1. i - a + 1 \in 1 .. Len(s) /\ a + (i - a + 1) - 1 = i
    BY <1>1
  <2>2. b[a + (i - a + 1) - 1] = s[i - a + 1]
    BY <2>1 DEF At
  <2> QED BY <2>1, <2>2, ElementOfSeq
<1> DEFINE n == a + Len(s) - 1
           u == SubSeq(b, a, n)
<1>3. n \in Int
  BY <1>1
<1>4. /\ u \in Seq(Nat) /\ Len(u) = IF a <= n THEN n - a + 1 ELSE 0
      /\ \A i \in 1 .. n - a + 1 : u[i] = b[a + i - 1]
  <2> HIDE DEF n
  <2> QED BY <1>2, <1>3, SubSeqProperties DEF n
<1>5. Len(u) = Len(s) /\ n - a + 1 = Len(s)
  BY <1>1, <1>4
<1> HIDE DEF u, n
<1>6. \A i \in 1 .. Len(u) : u[i] = s[i]
  BY <1>4, <1>5 DEF At
<1>7. u = s
  BY <1>4, <1>5, <1>6, SeqEqual
<1> QED BY <1>7 DEF u, n

\* The parts of an element, each where it lies.
AllAt(b, a, A, B, C, D, E) ==
    /\ At(b, a, A) /\ At(b, a + Len(A), B) /\ At(b, a + Len(A) + Len(B), C)
    /\ At(b, a + Len(A) + Len(B) + Len(C), D)
    /\ At(b, a + Len(A) + Len(B) + Len(C) + Len(D), E)

\* Five sequences joined, each where it lies.
LEMMA AtFive ==
  ASSUME NEW b, NEW a \in Int, NEW A \in Seq(Nat), NEW B \in Seq(Nat), NEW C \in Seq(Nat),
         NEW D \in Seq(Nat), NEW E \in Seq(Nat), At(b, a, A \o B \o C \o D \o E)
  PROVE  /\ AllAt(b, a, A, B, C, D, E)
         /\ Len(A \o B \o C \o D \o E) = Len(A) + Len(B) + Len(C) + Len(D) + Len(E)
         /\ A \o B \o C \o D \o E \in Seq(Nat)
<1>15. a \in Int
  OBVIOUS
<1>1. A \o B \in Seq(Nat)
  BY ConcatProperties
<1>2. PICK U \in Seq(Nat) : U = A \o B
  BY <1>1
<1>16. U \o C \in Seq(Nat)
  BY ConcatProperties
<1>3. PICK V \in Seq(Nat) : V = U \o C
  BY <1>16
<1>17. V \o D \in Seq(Nat)
  BY ConcatProperties
<1>4. PICK W \in Seq(Nat) : W = V \o D
  BY <1>17
<1>5. A \o B \o C \o D \o E = W \o E
  BY <1>2, <1>3, <1>4
<1>6. At(b, a, W \o E)
  BY <1>5
<1>7. Len(W \o E) = Len(W) + Len(E) /\ At(b, a, W) /\ At(b, a + Len(W), E)
  <2>1. Len(W \o E) = Len(W) + Len(E)
    BY ConcatProperties
  <2>2. At(b, a, W)
    BY <1>15, <1>6, AtConcat
  <2>3. At(b, a + Len(W), E)
    BY <1>15, <1>6, AtConcat
  <2> QED BY <2>1, <2>2, <2>3
<1>8. Len(W) = Len(V) + Len(D) /\ At(b, a, V) /\ At(b, a + Len(V), D)
  <2>1. At(b, a, V \o D)
    BY <1>4, <1>7
  <2>2. Len(V \o D) = Len(V) + Len(D)
    BY ConcatProperties
  <2>3. At(b, a, V)
    BY <1>15, <2>1, AtConcat
  <2>4. At(b, a + Len(V), D)
    BY <1>15, <2>1, AtConcat
  <2> QED BY <1>4, <2>2, <2>3, <2>4
<1>9. Len(V) = Len(U) + Len(C) /\ At(b, a, U) /\ At(b, a + Len(U), C)
  <2>1. At(b, a, U \o C)
    BY <1>3, <1>8
  <2>2. Len(U \o C) = Len(U) + Len(C)
    BY ConcatProperties
  <2>3. At(b, a, U)
    BY <1>15, <2>1, AtConcat
  <2>4. At(b, a + Len(U), C)
    BY <1>15, <2>1, AtConcat
  <2> QED BY <1>3, <2>2, <2>3, <2>4
<1>10. Len(U) = Len(A) + Len(B) /\ At(b, a, A) /\ At(b, a + Len(A), B)
  <2>1. At(b, a, A \o B)
    BY <1>2, <1>9
  <2>2. Len(A \o B) = Len(A) + Len(B)
    BY ConcatProperties
  <2>3. At(b, a, A)
    BY <1>15, <2>1, AtConcat
  <2>4. At(b, a + Len(A), B)
    BY <1>15, <2>1, AtConcat
  <2> QED BY <1>2, <2>2, <2>3, <2>4
<1>11. Len(A) \in Nat /\ Len(B) \in Nat /\ Len(C) \in Nat /\ Len(D) \in Nat /\ Len(E) \in Nat
  OBVIOUS
<1>12. /\ a + Len(U) = a + Len(A) + Len(B)
       /\ a + Len(V) = a + Len(A) + Len(B) + Len(C)
       /\ a + Len(W) = a + Len(A) + Len(B) + Len(C) + Len(D)
       /\ Len(W \o E) = Len(A) + Len(B) + Len(C) + Len(D) + Len(E)
  BY <1>7, <1>8, <1>9, <1>10, <1>11
<1>13. W \o E \in Seq(Nat)
  BY ConcatProperties
<1>14. AllAt(b, a, A, B, C, D, E)
  BY <1>7, <1>8, <1>9, <1>10, <1>12 DEF AllAt
<1> QED BY <1>5, <1>12, <1>13, <1>14

\* The five parts of an element in its bytes.
LEMMA ElementParts ==
  ASSUME NEW k \in AnyKeys, NEW v \in AnyValues
  PROVE  LET n == Len(Payload(v))
             kn == Len(k.bytes)
             cn == Len(Encode(kn))
             pn == Len(Encode(PayloadSize(k, v)))
         IN  /\ Payload(v) \in Seq(Nat) /\ k.bytes \in Seq(Nat) /\ Types(k, v) \in Seq(Nat)
             /\ Reverse(Encode(kn)) \in Seq(Nat) /\ Reverse(Encode(PayloadSize(k, v))) \in Seq(Nat)
             /\ Len(Types(k, v)) = 2 /\ Len(Reverse(Encode(kn))) = cn
             /\ Len(Reverse(Encode(PayloadSize(k, v)))) = pn
             /\ n \in Nat /\ kn \in Nat /\ cn \in Nat /\ cn >= 1 /\ pn \in Nat /\ pn >= 1
<1>1. /\ Payload(v) \in Seq(Nat) /\ k.bytes \in Seq(Nat) /\ Types(k, v) \in Seq(Nat)
      /\ Len(Types(k, v)) = 2 /\ Len(k.bytes) \in Nat /\ PayloadSize(k, v) \in Nat
  BY PartsType
<1>2. /\ Encode(Len(k.bytes)) \in Seq(Nat) /\ Len(Encode(Len(k.bytes))) >= 1
      /\ Encode(PayloadSize(k, v)) \in Seq(Nat) /\ Len(Encode(PayloadSize(k, v))) >= 1
  BY <1>1, EncodeType
<1>3. /\ Reverse(Encode(Len(k.bytes))) \in Seq(Nat)
      /\ Len(Reverse(Encode(Len(k.bytes)))) = Len(Encode(Len(k.bytes)))
  BY <1>2, ReverseIs
<1>4. /\ Reverse(Encode(PayloadSize(k, v))) \in Seq(Nat)
      /\ Len(Reverse(Encode(PayloadSize(k, v)))) = Len(Encode(PayloadSize(k, v)))
  BY <1>2, ReverseIs
<1>5. /\ Len(Payload(v)) \in Nat /\ Len(Encode(Len(k.bytes))) \in Nat
      /\ Len(Encode(PayloadSize(k, v))) \in Nat
  BY <1>1, <1>2
<1> QED BY <1>1, <1>2, <1>3, <1>4, <1>5

\* An element is bytes, and at least its two types and the length of its key.
LEMMA ElementType ==
  ASSUME NEW k \in AnyKeys, NEW v \in AnyValues
  PROVE  /\ Element(k, v) \in Seq(Nat) /\ Len(Element(k, v)) \in Nat
         /\ Len(Element(k, v)) >= 4
<1> DEFINE A == Payload(v)
           B == k.bytes
           C == Reverse(Encode(Len(k.bytes)))
           D == Types(k, v)
           E == Reverse(Encode(PayloadSize(k, v)))
<1>1. /\ A \in Seq(Nat) /\ B \in Seq(Nat) /\ C \in Seq(Nat) /\ D \in Seq(Nat) /\ E \in Seq(Nat)
      /\ Len(D) = 2 /\ Len(C) >= 1 /\ Len(E) >= 1
  BY ElementParts
<1>2. Element(k, v) = A \o B \o C \o D \o E
  BY ElementIs
<1> HIDE DEF A, B, C, D, E
<1>3. PICK F : F = A \o B \o C \o D \o E
  OBVIOUS
<1>4. At(F, 1, A \o B \o C \o D \o E)
  BY <1>3 DEF At
<1>8. A \in Seq(Nat)
  BY <1>1
<1>9. B \in Seq(Nat)
  BY <1>1
<1>10. C \in Seq(Nat)
  BY <1>1
<1>11. D \in Seq(Nat)
  BY <1>1
<1>12. E \in Seq(Nat)
  BY <1>1
<1>5. A \o B \o C \o D \o E \in Seq(Nat)
  BY <1>4, <1>8, <1>9, <1>10, <1>11, <1>12, AtFive
<1>6. Len(A \o B \o C \o D \o E) = Len(A) + Len(B) + Len(C) + Len(D) + Len(E)
  BY <1>4, <1>8, <1>9, <1>10, <1>11, <1>12, AtFive
<1>7. /\ Len(A) \in Nat /\ Len(B) \in Nat /\ Len(C) \in Nat /\ Len(D) \in Nat /\ Len(E) \in Nat
      /\ Len(C) >= 1 /\ Len(E) >= 1 /\ Len(D) = 2
  BY <1>1
<1> QED BY <1>2, <1>5, <1>6, <1>7

\* An element is read, by Iterator's operator*, as the key and the value that EpigramT::In
\* wrote, for every key, value and array of items and wherever in the bytes it lies.
THEOREM ElementIsRead ==
  ASSUME NEW k \in AnyKeys, NEW v \in AnyValues, NEW b, NEW a \in Nat, a >= 1,
         At(b, a, Element(k, v))
  PROVE  ElementAt(b, a + Len(Element(k, v)) - 1) = Found(a, k, v)
<1> DEFINE n == Len(Payload(v))
           kn == Len(k.bytes)
           cn == Len(Encode(kn))
           ps == PayloadSize(k, v)
           pn == Len(Encode(ps))
           t == v.type + (IF v.array THEN ArrayFlag ELSE 0)
           p == a + Len(Element(k, v)) - 1
           s == a + n + kn + cn + 1
<1>1. /\ At(b, a, Payload(v)) /\ At(b, a + n, k.bytes)
      /\ At(b, a + n + kn, Reverse(Encode(kn)))
      /\ At(b, a + n + kn + cn, Types(k, v))
      /\ At(b, a + n + kn + cn + 2, Reverse(Encode(ps)))
      /\ Len(Element(k, v)) = n + kn + cn + 2 + pn
      /\ n \in Nat /\ kn \in Nat /\ cn \in Nat /\ cn >= 1 /\ pn \in Nat /\ pn >= 1
  <2> DEFINE A == Payload(v)
             B == k.bytes
             C == Reverse(Encode(Len(k.bytes)))
             D == Types(k, v)
             E == Reverse(Encode(PayloadSize(k, v)))
  <2>1. /\ A \in Seq(Nat) /\ B \in Seq(Nat) /\ C \in Seq(Nat) /\ D \in Seq(Nat) /\ E \in Seq(Nat)
        /\ Len(A) = n /\ Len(B) = kn /\ Len(C) = cn /\ Len(D) = 2 /\ Len(E) = pn
    BY ElementParts
  <2>2. Element(k, v) = A \o B \o C \o D \o E
    BY ElementIs
  <2>3. n \in Nat /\ kn \in Nat /\ cn \in Nat /\ cn >= 1 /\ pn \in Nat /\ pn >= 1
    BY ElementParts
  <2> HIDE DEF A, B, C, D, E, n, kn, cn, pn
  <2>4. At(b, a, A \o B \o C \o D \o E)
    BY <2>2
  <2>12. A \in Seq(Nat)
    BY <2>1
  <2>13. B \in Seq(Nat)
    BY <2>1
  <2>14. C \in Seq(Nat)
    BY <2>1
  <2>15. D \in Seq(Nat)
    BY <2>1
  <2>16. E \in Seq(Nat)
    BY <2>1
  <2>17. a \in Int
    OBVIOUS
  <2>5. AllAt(b, a, A, B, C, D, E)
    BY <2>12, <2>13, <2>14, <2>15, <2>16, <2>17, <2>4, AtFive
  <2>11. Len(A \o B \o C \o D \o E) = Len(A) + Len(B) + Len(C) + Len(D) + Len(E)
    BY <2>12, <2>13, <2>14, <2>15, <2>16, <2>17, <2>4, AtFive
  <2>6. /\ At(b, a, A) /\ At(b, a + n, B) /\ At(b, a + n + kn, C)
        /\ At(b, a + n + kn + cn, D) /\ At(b, a + n + kn + cn + 2, E)
        /\ Len(Element(k, v)) = n + kn + cn + 2 + pn
    BY <2>1, <2>2, <2>5, <2>11 DEF AllAt
  <2> QED BY <2>3, <2>6 DEF A, B, C, D, E, kn
<1>2. /\ Prefix(v) \in Seq(Nat) /\ FlattenSeq(v.items) \in Seq(Nat) /\ Len(v.items) \in Nat
      /\ k.bytes \in Seq(Nat) /\ ps \in Nat
  BY PartsType
<1>3. At(b, a, Prefix(v)) /\ At(b, a + Len(Prefix(v)), FlattenSeq(v.items))
      /\ n = Len(Prefix(v)) + Len(FlattenSeq(v.items))
  <2>1. a \in Int
    OBVIOUS
  <2>2. At(b, a, Prefix(v) \o FlattenSeq(v.items))
    BY <1>1 DEF Payload
  <2> QED BY <1>2, <2>1, <2>2, AtConcat DEF Payload
<1>4. ps = n + kn + cn - 1
  BY DEF PayloadSize
<1>5. b[s - 1] = k.type /\ b[s] = t
  <2>1. /\ b[a + n + kn + cn + 1 - 1] = Types(k, v)[1]
        /\ b[a + n + kn + cn + 2 - 1] = Types(k, v)[2]
    <3>1. Len(Types(k, v)) = 2
      BY PartsType
    <3> QED BY <1>1, <3>1 DEF At
  <2>2. Types(k, v)[1] = k.type /\ Types(k, v)[2] = t
    BY DEF Types
  <2>3. s - 1 = a + n + kn + cn + 1 - 1 /\ s = a + n + kn + cn + 2 - 1
    BY <1>1
  <2> QED BY <2>1, <2>2, <2>3
<1>6. (t >= ArrayFlag <=> v.array) /\ t % ArrayFlag = v.type /\ v.array \in BOOLEAN
  BY TypesAreRead DEF AnyValues
<1> HIDE DEF n, kn, ps, t
<1>7. ReverseDecode(b, p) = [value |-> ps, next |-> s]
  <2> DEFINE q == a + n + kn + cn + 2
  <2>1. q \in Nat /\ q >= 1 /\ q - 1 = s /\ q + pn - 1 = p
    BY <1>1
  <2> HIDE DEF q, s, p
  <2>2. ReverseDecode(b, q + Len(Encode(ps)) - 1) = [value |-> ps, next |-> q - 1]
    BY <1>1, <1>2, <2>1, ReverseDecodeAt DEF q
  <2> QED BY <2>1, <2>2
<1>8. ReverseDecode(b, s - 2) = [value |-> kn, next |-> a + n + kn - 1]
  <2> DEFINE q == a + n + kn
  <2>1. q \in Nat /\ q >= 1 /\ q + cn - 1 = s - 2
    BY <1>1
  <2> HIDE DEF q, s, p
  <2>2. ReverseDecode(b, q + Len(Encode(kn)) - 1) = [value |-> kn, next |-> q - 1]
    BY <1>1, <2>1, ReverseDecodeAt DEF q
  <2>3. Len(Encode(kn)) = cn
    BY DEF kn
  <2>4. q - 1 = a + n + kn - 1
    BY <1>1 DEF q
  <2> HIDE DEF cn
  <2> QED BY <2>1, <2>2, <2>3, <2>4
<1> HIDE DEF s, p, cn
<1> DEFINE size == [value |-> ps, next |-> s]
           keySize == [value |-> kn, next |-> a + n + kn - 1]
           first == size.next - (size.value + PayloadMinSize) + 1
           key == keySize.next - keySize.value + 1
           count == IF b[size.next] >= ArrayFlag THEN Decode(b, first, key - 1)
                    ELSE [value |-> 1, next |-> first]
<1>9. size.next = s /\ size.value = ps /\ keySize.next = a + n + kn - 1 /\ keySize.value = kn
  OBVIOUS
<1>10. ElementAt(b, p) = ElementFrom(b, p, size, keySize)
  BY <1>7, <1>8, <1>9 DEF ElementAt
<1>11. first = a /\ key = a + n
  BY <1>1, <1>4, <1>9 DEF s, PayloadMinSize
<1>12. count = [value |-> IF v.array THEN Len(v.items) ELSE 1, next |-> a + Len(Prefix(v))]
  <2> HIDE DEF first, key
  <2>1. CASE v.array
    <3>1. Prefix(v) = Encode(Len(v.items))
      BY <2>1 DEF Prefix
    <3>2. a + Len(Encode(Len(v.items))) - 1 <= key - 1 /\ key - 1 \in Int
      BY <1>1, <1>2, <1>3, <1>11, <3>1
    <3>3. Decode(b, a, key - 1) = [value |-> Len(v.items), next |-> a + Len(Encode(Len(v.items)))]
      BY <1>2, <1>3, <3>1, <3>2, DecodeAt
    <3> QED BY <1>5, <1>6, <1>9, <1>11, <2>1, <3>1, <3>3
  <2>2. CASE ~ v.array
    <3>1. Prefix(v) = <<>> /\ a + Len(Prefix(v)) = a
      BY <2>2 DEF Prefix
    <3> QED BY <1>5, <1>6, <1>9, <1>11, <2>2, <3>1
  <2> QED BY <2>1, <2>2
<1>13. SubSeq(b, key, keySize.next) = k.bytes
  <2>1. a + n \in Nat /\ keySize.next = a + n + Len(k.bytes) - 1
    BY <1>1, <1>9 DEF kn
  <2> DEFINE c == a + n
  <2> HIDE DEF first, key, keySize
  <2>2. SubSeq(b, c, c + Len(k.bytes) - 1) = k.bytes
    BY <1>1, <1>2, <2>1, AtIsPart
  <2> QED BY <1>11, <2>1, <2>2
<1>14. SubSeq(b, count.next, key - 1) = FlattenSeq(v.items)
  <2> DEFINE c == a + Len(Prefix(v))
  <2>1. c \in Nat /\ count.next = c /\ key - 1 = c + Len(FlattenSeq(v.items)) - 1
    BY <1>1, <1>2, <1>3, <1>11, <1>12
  <2> HIDE DEF count, key
  <2> QED BY <1>2, <1>3, <2>1, AtIsPart
<1>15. k = [type |-> k.type, bytes |-> k.bytes]
  BY DEF AnyKeys
<1>16. /\ b[size.next] >= ArrayFlag <=> v.array
       /\ b[size.next] % ArrayFlag = v.type /\ b[size.next - 1] = k.type
  BY <1>5, <1>6, <1>9
<1>17. ElementFrom(b, p, size, keySize)
         = [start |-> first, end |-> p, payload |-> count.next,
            count |-> count.value, array |-> b[size.next] >= ArrayFlag, type |-> b[size.next] % ArrayFlag,
            key |-> [type |-> b[size.next - 1], bytes |-> SubSeq(b, key, keySize.next)],
            bytes |-> SubSeq(b, count.next, key - 1)]
  BY DEF ElementFrom
<1>18. (b[size.next] >= ArrayFlag) = v.array
  BY <1>6, <1>16
<1> HIDE DEF size, keySize, first, key, count
<1>19. ElementFrom(b, p, size, keySize) = Found(a, k, v)
  <2>1. /\ count.next = a + Len(Prefix(v))
        /\ count.value = IF v.array THEN Len(v.items) ELSE 1
    BY <1>12
  <2>2. [type |-> b[size.next - 1], bytes |-> SubSeq(b, key, keySize.next)] = k
    BY <1>13, <1>15, <1>16
  <2> QED BY <1>11, <1>14, <1>16, <1>17, <1>18, <2>1, <2>2 DEF Found, p
<1> QED BY <1>10, <1>19 DEF p

-----------------------------------------------------------------------------
(* The walk from the end.                                                   *)

WalkBody(f, b, p) ==
    IF p \notin DOMAIN b THEN <<>>
    ELSE LET x == ElementAt(b, p) IN Append(f[x.start - 1], x)

\* An element begins before it ends, whatever the bytes are.
LEMMA StartsBefore ==
  ASSUME NEW b \in Seq(Nat), NEW p \in 1 .. Len(b)
  PROVE  ElementAt(b, p).start \in Int /\ ElementAt(b, p).start - 1 < p
<1> DEFINE r == Read(b, p, -1, p)
<1>1. \A i \in 0 .. p - 1 : b[p + (-1) * i] \in Nat
  <2> SUFFICES ASSUME NEW i \in 0 .. p - 1 PROVE b[p + (-1) * i] \in Nat
    OBVIOUS
  <2>1. p + (-1) * i \in 1 .. Len(b)
    OBVIOUS
  <2> QED BY <2>1, ElementOfSeq
<1>2. p \in Nat /\ p >= 1 /\ p - 1 + 1 = p
  OBVIOUS
<1>3. r.value \in Nat /\ r.width \in 1 .. p
  BY <1>1, <1>2, ReadType
<1> DEFINE size == ReverseDecode(b, p)
<1>4. size.value = r.value /\ size.next = p - r.width
  BY <1>2 DEF ReverseDecode, ReverseDecodeTo
<1>5. ElementAt(b, p).start = size.next - (size.value + PayloadMinSize) + 1
  BY DEF ElementAt, ElementFrom
<1> HIDE DEF r, size
<1> QED BY <1>3, <1>4, <1>5 DEF PayloadMinSize

\* The function Elements is a CHOOSE of exists, whatever the bytes are.
LEMMA WalkExists ==
  ASSUME NEW b \in Seq(Nat)
  PROVE  \E f : f = [p \in Int |-> WalkBody(f, b, p)]
<1> DEFINE Upto(f, k) == \A p \in Int : p <= k => f[p] = WalkBody(f, b, p)
           T == {k \in Nat : ~ \E f : DOMAIN f = Int /\ Upto(f, k)}
<1>1. T = {}
  <2> SUFFICES ASSUME T # {} PROVE FALSE
    OBVIOUS
  <2>1. PICK k \in T : \A y \in T : k <= y
    BY LeastNatural
  <2>2. CASE k = 0
    <3> DEFINE f == [p \in Int |-> <<>>]
    <3>1. ASSUME NEW p \in Int, p <= 0 PROVE f[p] = WalkBody(f, b, p)
      <4>1. p \notin DOMAIN b
        BY <3>1
      <4> QED BY <4>1 DEF WalkBody
    <3> QED BY <2>2, <3>1
  <2>3. CASE k # 0
    <3>1. k - 1 \in Nat /\ k - 1 \notin T
      BY <2>1, <2>3
    <3>2. PICK f : DOMAIN f = Int /\ Upto(f, k - 1)
      BY <3>1
    <3> DEFINE g == [p \in Int |-> WalkBody(f, b, p)]
    <3>3. ASSUME NEW p \in Int, p <= k PROVE g[p] = WalkBody(g, b, p)
      <4>1. CASE p \notin DOMAIN b
        BY <4>1 DEF WalkBody
      <4>2. CASE p \in DOMAIN b
        <5> DEFINE s == ElementAt(b, p).start - 1
        <5>1. p \in 1 .. Len(b)
          BY <4>2
        <5>2. s \in Int /\ s < p
          BY <5>1, StartsBefore
        <5>3. s <= k - 1
          BY <3>1, <3>3, <5>2
        <5>4. f[s] = WalkBody(f, b, s)
          BY <3>2, <5>2, <5>3
        <5>5. g[s] = f[s]
          BY <5>2, <5>4
        <5> QED BY <5>5 DEF WalkBody
      <4> QED BY <4>1, <4>2
    <3> QED BY <3>3
  <2> QED BY <2>2, <2>3
<1>2. Len(b) \in Nat
  OBVIOUS
<1>3. PICK f : DOMAIN f = Int /\ Upto(f, Len(b))
  BY <1>1, <1>2
<1> DEFINE h == [p \in Int |-> WalkBody(f, b, p)]
<1>4. ASSUME NEW p \in Int PROVE h[p] = WalkBody(h, b, p)
  <2>1. CASE p \notin DOMAIN b
    BY <2>1 DEF WalkBody
  <2>2. CASE p \in DOMAIN b
    <3> DEFINE s == ElementAt(b, p).start - 1
    <3>1. p \in 1 .. Len(b)
      BY <2>2
    <3>2. s \in Int /\ s < p
      BY <3>1, StartsBefore
    <3>3. s <= Len(b)
      BY <3>1, <3>2
    <3>4. h[s] = f[s]
      BY <1>3, <3>2, <3>3
    <3> QED BY <3>4 DEF WalkBody
  <2> QED BY <2>1, <2>2
<1>5. h = [p \in Int |-> WalkBody(h, b, p)]
  BY <1>4
<1> QED BY <1>5

\* What Elements computes: the element that ends where the bytes do, after those before it.
LEMMA ElementsAreWalked ==
  ASSUME NEW b \in Seq(Nat)
  PROVE  \E f : f = [p \in Int |-> WalkBody(f, b, p)] /\ Elements(b) = f[Len(b)]
<1> DEFINE f == CHOOSE f : f = [p \in Int |-> WalkBody(f, b, p)]
<1>1. f = [p \in Int |-> WalkBody(f, b, p)]
  BY WalkExists
<1>2. Elements(b) = f[Len(b)]
  BY DEF Elements, WalkBody
<1> HIDE DEF f
<1> QED BY <1>1, <1>2

-----------------------------------------------------------------------------
(* Bytes that are elements.                                                 *)

Pairs == [key : AnyKeys, value : AnyValues]
Written(p) == Element(p.key, p.value)

\* The bytes are the elements of q, one after another, the i-th at at[i].
Laid(b, q, at) ==
    /\ b \in Seq(Nat) /\ q \in Seq(Pairs)
    /\ at \in [1 .. Len(q) + 1 -> Nat \ {0}]
    /\ at[1] = 1 /\ at[Len(q) + 1] = Len(b) + 1
    /\ \A i, j \in 1 .. Len(q) + 1 : i <= j => at[i] <= at[j]
    /\ \A i \in 1 .. Len(q) : /\ At(b, at[i], Written(q[i]))
                              /\ at[i + 1] = at[i] + Len(Written(q[i]))

Placed(q, at) == [i \in 1 .. Len(q) |-> Found(at[i], q[i].key, q[i].value)]

\* What is written for a key and a value is bytes, and some.
LEMMA WrittenType ==
  ASSUME NEW q \in Seq(Pairs), NEW i \in 1 .. Len(q)
  PROVE  /\ q[i].key \in AnyKeys /\ q[i].value \in AnyValues
         /\ Written(q[i]) \in Seq(Nat) /\ Len(Written(q[i])) \in Nat /\ Len(Written(q[i])) >= 4
<1>1. q[i] \in Pairs
  BY ElementOfSeq
<1>2. q[i].key \in AnyKeys /\ q[i].value \in AnyValues
  BY <1>1 DEF Pairs
<1> QED BY <1>2, ElementType DEF Written

\* The walk finds what lies there.
LEMMA ElementsArePlaced ==
  ASSUME NEW b, NEW q, NEW at, Laid(b, q, at)
  PROVE  Elements(b) = Placed(q, at)
<1> DEFINE n == Len(q)
<1>1. /\ b \in Seq(Nat) /\ q \in Seq(Pairs) /\ n \in Nat /\ Len(b) \in Nat
      /\ at[1] = 1 /\ at[n + 1] = Len(b) + 1
      /\ \A i \in 1 .. n + 1 : at[i] \in Nat /\ at[i] >= 1
  <2>1. b \in Seq(Nat) /\ q \in Seq(Pairs) /\ at[1] = 1 /\ at[n + 1] = Len(b) + 1
        /\ at \in [1 .. n + 1 -> Nat \ {0}]
    BY DEF Laid
  <2> HIDE DEF n
  <2>2. \A i \in 1 .. n + 1 : at[i] \in Nat /\ at[i] >= 1
    BY <2>1
  <2>3. n \in Nat /\ Len(b) \in Nat
    BY <2>1 DEF n
  <2> QED BY <2>1, <2>2, <2>3
<1>2. ASSUME NEW i \in 1 .. n
      PROVE  /\ At(b, at[i], Written(q[i])) /\ at[i + 1] = at[i] + Len(Written(q[i]))
             /\ at[i + 1] <= at[n + 1]
  <2>1. i + 1 \in 1 .. n + 1 /\ n + 1 \in 1 .. n + 1 /\ i + 1 <= n + 1
    BY <1>1
  <2> QED BY <2>1 DEF Laid
<1>3. PICK f : f = [p \in Int |-> WalkBody(f, b, p)] /\ Elements(b) = f[Len(b)]
  BY <1>1, ElementsAreWalked
<1> DEFINE Part(i) == [j \in 1 .. i |-> Found(at[j], q[j].key, q[j].value)]
           T == {i \in Nat : i <= n /\ f[at[i + 1] - 1] # Part(i)}
<1>4. T = {}
  <2> SUFFICES ASSUME T # {} PROVE FALSE
    OBVIOUS
  <2>1. PICK i \in T : \A y \in T : i <= y
    BY LeastNatural
  <2>2. i \in Nat /\ i <= n /\ f[at[i + 1] - 1] # Part(i)
    OBVIOUS
  <2>3. i # 0 => f[at[i - 1 + 1] - 1] = Part(i - 1) /\ i - 1 + 1 = i /\ i \in 1 .. n
    <3> SUFFICES ASSUME i # 0 PROVE f[at[i - 1 + 1] - 1] = Part(i - 1) /\ i - 1 + 1 = i /\ i \in 1 .. n
      OBVIOUS
    <3>1. n \in Nat /\ i \in Nat /\ i <= n
      BY <1>1, <2>2
    <3>2. i - 1 \in Nat /\ i - 1 <= n /\ i - 1 + 1 = i /\ i \in 1 .. n
      <4> HIDE DEF T, n
      <4> QED BY <3>1
    <3>3. i - 1 \notin T
      <4> HIDE DEF T
      <4> QED BY <2>1, <2>2, <3>2
    <3> HIDE DEF Part, n
    <3>4. f[at[i - 1 + 1] - 1] = Part(i - 1)
      BY <3>2, <3>3
    <3> QED BY <3>2, <3>4
  <2> HIDE DEF T, n
  <2>4. CASE i = 0
    <3>1. at[i + 1] - 1 = 0 /\ 0 \notin DOMAIN b /\ 0 \in Int
      BY <1>1, <2>4
    <3>2. f[0] = <<>>
      BY <1>3, <3>1 DEF WalkBody
    <3>3. Part(0) = <<>>
      OBVIOUS
    <3> QED BY <2>2, <2>4, <3>1, <3>2, <3>3
  <2>5. CASE i # 0
    <3> DEFINE p == at[i + 1] - 1
               w == Written(q[i])
    <3>1. i \in 1 .. n /\ f[at[i] - 1] = Part(i - 1)
      BY <2>3, <2>5
    <3>2. /\ q[i].key \in AnyKeys /\ q[i].value \in AnyValues
          /\ w \in Seq(Nat) /\ Len(w) \in Nat /\ Len(w) >= 4
      BY <1>1, <3>1, WrittenType DEF n
    <3>3. At(b, at[i], w) /\ at[i + 1] = at[i] + Len(w) /\ at[i + 1] <= at[n + 1]
      BY <1>2, <3>1
    <3>4. i \in 1 .. n + 1 /\ i + 1 \in 1 .. n + 1
      BY <1>1, <3>1
    <3>5. at[i] \in Nat /\ at[i] >= 1 /\ at[i + 1] \in Nat
      BY <1>1, <3>4
    <3> HIDE DEF w
    <3>6. p = at[i] + Len(w) - 1 /\ p \in 1 .. Len(b) /\ p \in Int
      <4>1. p = at[i] + Len(w) - 1
        BY <3>2, <3>3, <3>5
      <4>2. p + 1 <= Len(b) + 1
        BY <1>1, <3>3, <3>5
      <4> HIDE DEF p
      <4>3. p \in Int /\ p >= 1
        BY <3>2, <3>5, <4>1
      <4>4. Len(b) \in Nat
        BY <1>1
      <4>5. p <= Len(b)
        BY <4>2, <4>3, <4>4
      <4> QED BY <4>1, <4>3, <4>4, <4>5
    <3> HIDE DEF p
    <3>7. ElementAt(b, at[i] + Len(Element(q[i].key, q[i].value)) - 1) = Found(at[i], q[i].key, q[i].value)
      BY <3>2, <3>3, <3>5, ElementIsRead DEF w, Written
    <3>8. ElementAt(b, p) = Found(at[i], q[i].key, q[i].value)
      BY <3>6, <3>7 DEF w, Written
    <3>9. ElementAt(b, p).start = at[i]
      BY <3>8 DEF Found
    <3>10. DOMAIN b = 1 .. Len(b)
      BY <1>1
    <3>11. f[p] = WalkBody(f, b, p)
      BY <1>3, <3>6
    <3>12. f[p] = Append(Part(i - 1), Found(at[i], q[i].key, q[i].value))
      BY <3>1, <3>6, <3>8, <3>9, <3>10, <3>11 DEF WalkBody
    <3>13. Append(Part(i - 1), Found(at[i], q[i].key, q[i].value)) = Part(i)
      <4> DEFINE x == Found(at[i], q[i].key, q[i].value)
                 u == Part(i - 1)
      <4>1. i - 1 \in Nat /\ i \in Nat
        BY <1>1, <3>1
      <4>2. Len(u) = i - 1 /\ DOMAIN u = 1 .. i - 1 /\ i - 1 + 1 = i
        BY <4>1
      <4>3. Append(u, x) = [j \in 1 .. i |-> IF j = i THEN x ELSE u[j]]
        <5>1. u = [j \in 1 .. i - 1 |-> u[j]]
          OBVIOUS
        <5> HIDE DEF u, x
        <5> DEFINE S == {u[j] : j \in 1 .. i - 1} \cup {x}
                   y == Append(u, x)
        <5>2. u \in Seq(S) /\ x \in S
          BY <4>1, <5>1
        <5> HIDE DEF S
        <5>3. /\ y \in Seq(S) /\ Len(y) = Len(u) + 1
              /\ \A j \in 1 .. Len(u) : y[j] = u[j]
              /\ y[Len(u) + 1] = x
          BY <5>2, AppendProperties
        <5> HIDE DEF y
        <5>4. y = [j \in 1 .. Len(y) |-> y[j]]
          BY <5>3
        <5>5. Len(y) = i
          BY <4>1, <4>2, <5>3
        <5>6. ASSUME NEW j \in 1 .. i PROVE y[j] = IF j = i THEN x ELSE u[j]
          BY <4>1, <4>2, <5>3
        <5>7. y = [j \in 1 .. i |-> IF j = i THEN x ELSE u[j]]
          BY <5>4, <5>5, <5>6
        <5> QED BY <5>7 DEF y
      <4>4. ASSUME NEW j \in 1 .. i
            PROVE  Found(at[j], q[j].key, q[j].value) = IF j = i THEN x ELSE u[j]
        <5>1. j # i => j \in 1 .. i - 1
          BY <4>1
        <5> QED BY <5>1
      <4> HIDE DEF x, u
      <4>5. Part(i) = [j \in 1 .. i |-> IF j = i THEN x ELSE u[j]]
        BY <4>4
      <4> QED BY <4>3, <4>5 DEF x, u
    <3> QED BY <2>2, <3>12, <3>13 DEF p
  <2> QED BY <2>4, <2>5
<1>5. f[at[n + 1] - 1] = Part(n)
  <2>1. n \in Nat /\ n <= n
    BY <1>1
  <2>2. n \notin T
    BY <1>4
  <2> HIDE DEF n, Part
  <2> QED BY <2>1, <2>2
<1>6. at[n + 1] - 1 = Len(b)
  BY <1>1
<1> QED BY <1>3, <1>5, <1>6 DEF Placed

-----------------------------------------------------------------------------
(* Elements that are laid, cut and joined.                                  *)

\* Where a sequence lies in a part of b, and in what b is a part of.
LEMMA AtInPart ==
  ASSUME NEW b \in Seq(Nat), NEW w \in Seq(Nat), NEW a \in Nat, NEW lo \in Nat, NEW hi \in Int,
         1 <= lo, lo <= a, a + Len(w) - 1 <= hi, hi <= Len(b), At(b, a, w)
  PROVE  At(SubSeq(b, lo, hi), a - lo + 1, w)
<1>1. Len(w) \in Nat /\ Len(b) \in Nat
  OBVIOUS
<1> DEFINE c == SubSeq(b, lo, hi)
<1>2. \A i \in lo .. hi : b[i] \in Nat
  <2> SUFFICES ASSUME NEW i \in lo .. hi PROVE b[i] \in Nat
    OBVIOUS
  <2>1. i \in 1 .. Len(b)
    BY <1>1
  <2> QED BY <2>1, ElementOfSeq
<1>3. \A i \in 1 .. hi - lo + 1 : c[i] = b[lo + i - 1]
  BY <1>2, SubSeqProperties
<1> HIDE DEF c
<1>4. ASSUME NEW j \in 1 .. Len(w) PROVE c[a - lo + 1 + j - 1] = w[j]
  <2> DEFINE i == a - lo + 1 + j - 1
  <2>1. i \in 1 .. hi - lo + 1 /\ lo + i - 1 = a + j - 1
    BY <1>1
  <2> HIDE DEF i
  <2>2. c[i] = b[a + j - 1]
    BY <1>3, <2>1
  <2>3. b[a + j - 1] = w[j]
    BY DEF At
  <2> QED BY <2>2, <2>3 DEF i
<1> QED BY <1>4 DEF At, c

\* Where it lies in b, it lies in b with something behind it.
LEMMA AtInLeft ==
  ASSUME NEW b \in Seq(Nat), NEW c \in Seq(Nat), NEW w \in Seq(Nat), NEW a \in Nat,
         1 <= a, a + Len(w) - 1 <= Len(b), At(b, a, w)
  PROVE  At(b \o c, a, w)
<1>1. Len(w) \in Nat /\ Len(b) \in Nat /\ Len(c) \in Nat
  OBVIOUS
<1> DEFINE d == b \o c
<1>2. \A i \in 1 .. Len(b) : d[i] = b[i]
  <2> SUFFICES ASSUME NEW i \in 1 .. Len(b) PROVE d[i] = b[i]
    OBVIOUS
  <2>1. i \in 1 .. Len(b) + Len(c)
    BY <1>1
  <2> QED BY <2>1, ConcatProperties
<1> HIDE DEF d
<1>3. ASSUME NEW j \in 1 .. Len(w) PROVE d[a + j - 1] = w[j]
  <2>1. a + j - 1 \in 1 .. Len(b)
    BY <1>1
  <2>2. b[a + j - 1] = w[j]
    BY DEF At
  <2> QED BY <1>2, <2>1, <2>2
<1> QED BY <1>3 DEF At, d

\* Where it lies in c, it lies that much further on in b \o c.
LEMMA AtInRight ==
  ASSUME NEW b \in Seq(Nat), NEW c \in Seq(Nat), NEW w \in Seq(Nat), NEW a \in Nat,
         1 <= a, a + Len(w) - 1 <= Len(c), At(c, a, w)
  PROVE  At(b \o c, Len(b) + a, w)
<1>1. Len(w) \in Nat /\ Len(b) \in Nat /\ Len(c) \in Nat
  OBVIOUS
<1> DEFINE d == b \o c
<1>2. \A i \in 1 .. Len(c) : d[Len(b) + i] = c[i]
  <2> SUFFICES ASSUME NEW i \in 1 .. Len(c) PROVE d[Len(b) + i] = c[i]
    OBVIOUS
  <2> DEFINE k == Len(b) + i
  <2>1. k \in 1 .. Len(b) + Len(c) /\ ~ (k <= Len(b)) /\ k - Len(b) = i
    BY <1>1
  <2> HIDE DEF k
  <2>2. d[k] = c[k - Len(b)]
    BY <2>1, ConcatProperties
  <2> QED BY <2>1, <2>2 DEF k
<1> HIDE DEF d
<1>3. ASSUME NEW j \in 1 .. Len(w) PROVE d[Len(b) + a + j - 1] = w[j]
  <2> DEFINE i == a + j - 1
  <2>1. i \in 1 .. Len(c) /\ Len(b) + a + j - 1 = Len(b) + i
    BY <1>1
  <2>2. c[i] = w[j]
    BY DEF At
  <2> HIDE DEF i
  <2>3. d[Len(b) + i] = c[i]
    BY <1>2, <2>1
  <2> QED BY <2>1, <2>2, <2>3
<1> QED BY <1>3 DEF At, d

\* What is laid, in its parts.
LEMMA LaidFacts ==
  ASSUME NEW b, NEW q, NEW at, Laid(b, q, at)
  PROVE  /\ b \in Seq(Nat) /\ Len(b) \in Nat /\ q \in Seq(Pairs) /\ Len(q) \in Nat
         /\ at[1] = 1 /\ at[Len(q) + 1] = Len(b) + 1
         /\ \A i \in 1 .. Len(q) + 1 : at[i] \in Nat /\ at[i] >= 1 /\ at[i] <= Len(b) + 1
         /\ \A i, j \in 1 .. Len(q) + 1 : i <= j => at[i] <= at[j]
         /\ \A i \in 1 .. Len(q) :
              /\ At(b, at[i], Written(q[i])) /\ Written(q[i]) \in Seq(Nat)
              /\ Len(Written(q[i])) \in Nat /\ Len(Written(q[i])) >= 4
              /\ at[i + 1] = at[i] + Len(Written(q[i]))
              /\ q[i] \in Pairs /\ q[i].key \in AnyKeys /\ q[i].value \in AnyValues
<1> DEFINE n == Len(q)
<1>1. /\ b \in Seq(Nat) /\ Len(b) \in Nat /\ q \in Seq(Pairs) /\ n \in Nat
      /\ at[1] = 1 /\ at[n + 1] = Len(b) + 1
  BY DEF Laid
<1>2. \A i, j \in 1 .. n + 1 : i <= j => at[i] <= at[j]
  BY DEF Laid
<1>3. at \in [1 .. n + 1 -> Nat \ {0}]
  BY DEF Laid
<1>4. ASSUME NEW i \in 1 .. n
      PROVE  /\ At(b, at[i], Written(q[i])) /\ Written(q[i]) \in Seq(Nat)
              /\ Len(Written(q[i])) \in Nat /\ Len(Written(q[i])) >= 4
              /\ at[i + 1] = at[i] + Len(Written(q[i]))
              /\ q[i] \in Pairs /\ q[i].key \in AnyKeys /\ q[i].value \in AnyValues
  <2>1. At(b, at[i], Written(q[i])) /\ at[i + 1] = at[i] + Len(Written(q[i]))
    BY DEF Laid
  <2>2. /\ q[i].key \in AnyKeys /\ q[i].value \in AnyValues
        /\ Written(q[i]) \in Seq(Nat) /\ Len(Written(q[i])) \in Nat /\ Len(Written(q[i])) >= 4
    BY <1>1, WrittenType
  <2>3. q[i] \in Pairs
    BY <1>1, ElementOfSeq
  <2> QED BY <2>1, <2>2, <2>3
<1> HIDE DEF n
<1>5. ASSUME NEW i \in 1 .. n + 1 PROVE at[i] \in Nat /\ at[i] >= 1 /\ at[i] <= Len(b) + 1
  <2>1. n + 1 \in 1 .. n + 1 /\ i <= n + 1
    BY <1>1
  <2>2. at[i] \in Nat \ {0}
    BY <1>3
  <2>3. at[i] <= at[n + 1]
    BY <1>2, <2>1
  <2> QED BY <1>1, <2>2, <2>3
<1> QED BY <1>1, <1>2, <1>4, <1>5 DEF n

\* The bytes of the i-th to the j-th element.
SliceOf(b, q, at, i, j) ==
    LET c == SubSeq(b, at[i], at[j + 1] - 1) IN
    /\ \E ct : Laid(c, SubSeq(q, i, j), ct)
    /\ Len(c) = at[j + 1] - at[i]

\* ... are bytes that are elements themselves.
LEMMA SliceIsLaid ==
  ASSUME NEW b, NEW q, NEW at, Laid(b, q, at), NEW i \in Nat, NEW j \in Nat,
         1 <= i, i <= j + 1, j <= Len(q)
  PROVE  SliceOf(b, q, at, i, j)
<1> DEFINE lo == at[i]
           hi == at[j + 1] - 1
           c == SubSeq(b, lo, hi)
           r == SubSeq(q, i, j)
           n == j - i + 1
           ct == [m \in 1 .. j - i + 2 |-> at[m + i - 1] - at[i] + 1]
<1>1. /\ b \in Seq(Nat) /\ Len(b) \in Nat /\ q \in Seq(Pairs) /\ Len(q) \in Nat
  BY LaidFacts
<1>2. \A m \in 1 .. Len(q) + 1 : at[m] \in Nat /\ at[m] >= 1 /\ at[m] <= Len(b) + 1
  BY LaidFacts
<1>3. \A m, k \in 1 .. Len(q) + 1 : m <= k => at[m] <= at[k]
  BY LaidFacts
<1>4. n \in Nat /\ i \in 1 .. Len(q) + 1 /\ j + 1 \in 1 .. Len(q) + 1 /\ j - i + 2 = n + 1
  BY <1>1
<1>5. lo \in Nat /\ lo >= 1 /\ hi \in Int /\ hi <= Len(b) /\ lo <= hi + 1 /\ at[j + 1] \in Nat
      /\ hi = at[j + 1] - 1
  <2>1. at[i] \in Nat /\ at[i] >= 1 /\ at[j + 1] \in Nat /\ at[j + 1] <= Len(b) + 1
    BY <1>2, <1>4
  <2>2. at[i] <= at[j + 1]
    BY <1>3, <1>4
  <2> QED BY <1>1, <2>1, <2>2
<1>6. /\ r \in Seq(Pairs) /\ Len(r) = n
      /\ \A m \in 1 .. n : r[m] = q[m + i - 1]
  <2>1. \A m \in i .. j : q[m] \in Pairs
    <3> SUFFICES ASSUME NEW m \in i .. j PROVE q[m] \in Pairs
      OBVIOUS
    <3>1. m \in 1 .. Len(q)
      BY <1>1
    <3> QED BY <1>1, <3>1, ElementOfSeq
  <2>2. /\ r \in Seq(Pairs) /\ Len(r) = IF i <= j THEN j - i + 1 ELSE 0
        /\ \A m \in 1 .. j - i + 1 : r[m] = q[i + m - 1]
    BY <2>1, SubSeqProperties
  <2>3. \A m \in 1 .. n : i + m - 1 = m + i - 1
    BY <1>4
  <2>4. Len(r) = n
    BY <1>4, <2>2
  <2> QED BY <2>2, <2>3, <2>4
<1>7. c \in Seq(Nat) /\ Len(c) = hi - lo + 1
  <2> HIDE DEF lo, hi
  <2>1. \A m \in lo .. hi : b[m] \in Nat
    <3> SUFFICES ASSUME NEW m \in lo .. hi PROVE b[m] \in Nat
      OBVIOUS
    <3>1. m \in 1 .. Len(b)
      BY <1>1, <1>5
    <3> QED BY <1>1, <3>1, ElementOfSeq
  <2>2. c \in Seq(Nat) /\ Len(c) = IF lo <= hi THEN hi - lo + 1 ELSE 0
    BY <1>5, <2>1, SubSeqProperties
  <2> HIDE DEF c
  <2> QED BY <1>5, <2>2
<1> HIDE DEF c, r
<1>8. ASSUME NEW m \in 1 .. n + 1
      PROVE  /\ m + i - 1 \in 1 .. Len(q) + 1 /\ i <= m + i - 1
             /\ ct[m] = at[m + i - 1] - lo + 1 /\ at[m + i - 1] \in Nat /\ lo <= at[m + i - 1]
             /\ ct[m] \in Nat \ {0}
  <2>1. m + i - 1 \in 1 .. Len(q) + 1 /\ i <= m + i - 1
    BY <1>1, <1>4
  <2>2. at[m + i - 1] \in Nat /\ lo <= at[m + i - 1]
    BY <1>2, <1>3, <1>4, <2>1
  <2>3. ct[m] = at[m + i - 1] - lo + 1
    BY <1>4
  <2> HIDE DEF ct, lo, n
  <2>4. ct[m] \in Nat \ {0}
    BY <1>5, <2>2, <2>3
  <2> QED BY <2>1, <2>2, <2>3, <2>4
<1>9. ct \in [1 .. n + 1 -> Nat \ {0}]
  <2>1. ct = [m \in 1 .. n + 1 |-> ct[m]]
    BY <1>4
  <2> HIDE DEF ct, n
  <2> QED BY <1>8, <2>1
<1> HIDE DEF ct
<1>10. ct[1] = 1 /\ ct[n + 1] = Len(c) + 1
  <2>1. 1 \in 1 .. n + 1 /\ n + 1 \in 1 .. n + 1 /\ 1 + i - 1 = i /\ n + 1 + i - 1 = j + 1
    BY <1>4
  <2>2. ct[1] = at[i] - lo + 1 /\ ct[n + 1] = at[j + 1] - lo + 1
    BY <1>8, <2>1
  <2> QED BY <1>5, <1>7, <2>2
<1>11. ASSUME NEW m \in 1 .. n + 1, NEW k \in 1 .. n + 1, m <= k PROVE ct[m] <= ct[k]
  <2>1. m + i - 1 <= k + i - 1
    BY <1>4, <1>11
  <2>2. at[m + i - 1] <= at[k + i - 1]
    BY <1>3, <1>8, <2>1
  <2>3. ct[m] = at[m + i - 1] - lo + 1 /\ ct[k] = at[k + i - 1] - lo + 1
        /\ at[m + i - 1] \in Nat /\ at[k + i - 1] \in Nat
    BY <1>8
  <2> HIDE DEF lo, n
  <2>4. at[m + i - 1] - lo + 1 <= at[k + i - 1] - lo + 1
    BY <1>5, <2>2, <2>3
  <2> QED BY <2>3, <2>4
<1>12. ASSUME NEW m \in 1 .. n
       PROVE  At(c, ct[m], Written(r[m])) /\ ct[m + 1] = ct[m] + Len(Written(r[m]))
  <2> DEFINE k == m + i - 1
             w == Written(q[k])
  <2>1. k \in 1 .. Len(q) /\ m \in 1 .. n + 1 /\ m + 1 \in 1 .. n + 1 /\ k + 1 = m + 1 + i - 1
        /\ k + 1 \in 1 .. Len(q) + 1 /\ k + 1 <= j + 1
    BY <1>1, <1>4
  <2>2. r[m] = q[k]
    BY <1>6
  <2>3. ct[m] = at[k] - lo + 1 /\ ct[m + 1] = at[k + 1] - lo + 1 /\ at[k] \in Nat /\ lo <= at[k]
    BY <1>8, <2>1
  <2> HIDE DEF k
  <2>4. At(b, at[k], w) /\ w \in Seq(Nat) /\ Len(w) \in Nat /\ at[k + 1] = at[k] + Len(w)
    BY <2>1, LaidFacts
  <2>5. at[k + 1] <= at[j + 1]
    BY <1>3, <1>4, <2>1
  <2> HIDE DEF w, lo, hi
  <2>6. at[k] + Len(w) - 1 <= hi
    <3>1. at[k] \in Nat /\ Len(w) \in Nat /\ at[k + 1] = at[k] + Len(w)
      BY <2>3, <2>4
    <3>2. at[j + 1] \in Nat /\ hi = at[j + 1] - 1
      BY <1>5
    <3>3. at[k] + Len(w) <= at[j + 1]
      BY <2>5, <3>1
    <3> QED BY <3>1, <3>2, <3>3
  <2>7. At(SubSeq(b, lo, hi), at[k] - lo + 1, w)
    BY <1>1, <1>5, <2>3, <2>4, <2>6, AtInPart
  <2>8. ct[m + 1] = ct[m] + Len(w)
    BY <1>5, <2>3, <2>4
  <2> QED BY <2>2, <2>3, <2>7, <2>8 DEF c, w
<1>13. Laid(c, r, ct)
  BY <1>6, <1>7, <1>9, <1>10, <1>11, <1>12 DEF Laid
<1>14. Len(c) = at[j + 1] - at[i]
  BY <1>5, <1>7
<1> QED BY <1>13, <1>14 DEF c, r, lo, hi, SliceOf

\* Two runs of elements, one after the other.
LEMMA ConcatIsLaid ==
  ASSUME NEW b, NEW q, NEW at, Laid(b, q, at), NEW c, NEW r, NEW bt, Laid(c, r, bt)
  PROVE  Laid(b \o c, q \o r,
              [i \in 1 .. Len(q) + Len(r) + 1 |->
                 IF i <= Len(q) THEN at[i] ELSE Len(b) + bt[i - Len(q)]])
<1> DEFINE n == Len(q)
           m == Len(r)
           l == Len(b)
           d == b \o c
           s == q \o r
           ct == [i \in 1 .. Len(q) + Len(r) + 1 |->
                    IF i <= Len(q) THEN at[i] ELSE Len(b) + bt[i - Len(q)]]
<1>1. b \in Seq(Nat) /\ l \in Nat /\ q \in Seq(Pairs) /\ n \in Nat /\ at[n + 1] = l + 1 /\ at[1] = 1
  BY LaidFacts
<1>2. c \in Seq(Nat) /\ Len(c) \in Nat /\ r \in Seq(Pairs) /\ m \in Nat /\ bt[m + 1] = Len(c) + 1
      /\ bt[1] = 1
  BY LaidFacts
<1>3. /\ \A i \in 1 .. n + 1 : at[i] \in Nat /\ at[i] >= 1 /\ at[i] <= l + 1
      /\ \A i, j \in 1 .. n + 1 : i <= j => at[i] <= at[j]
  BY LaidFacts
<1>4. /\ \A i \in 1 .. m + 1 : bt[i] \in Nat /\ bt[i] >= 1 /\ bt[i] <= Len(c) + 1
      /\ \A i, j \in 1 .. m + 1 : i <= j => bt[i] <= bt[j]
  BY LaidFacts
<1>5. d \in Seq(Nat) /\ Len(d) = l + Len(c)
  BY <1>1, <1>2, ConcatProperties
<1>6. s \in Seq(Pairs) /\ Len(s) = n + m
      /\ \A i \in 1 .. n + m : s[i] = IF i <= n THEN q[i] ELSE r[i - n]
  BY <1>1, <1>2, ConcatProperties
<1>7. \A i \in 1 .. n + m + 1 : ct[i] = IF i <= n THEN at[i] ELSE l + bt[i - n]
  OBVIOUS
<1>8. DOMAIN ct = 1 .. n + m + 1 /\ ct = [i \in 1 .. n + m + 1 |-> ct[i]]
  OBVIOUS
<1> HIDE DEF ct, d, s, n, m, l
<1>9. ASSUME NEW i \in 1 .. n + 1 PROVE ct[i] = at[i]
  <2>1. i \in 1 .. n + m + 1
    BY <1>1, <1>2
  <2>2. CASE i <= n
    BY <1>7, <2>1, <2>2
  <2>3. CASE ~ (i <= n)
    <3>1. i = n + 1 /\ i - n = 1
      BY <1>1, <2>3
    <3>2. ct[i] = l + bt[i - n]
      BY <1>7, <2>1, <2>3
    <3> QED BY <1>1, <1>2, <3>1, <3>2
  <2> QED BY <2>2, <2>3
<1>10. ASSUME NEW i \in 1 .. m + 1 PROVE ct[n + i] = l + bt[i] /\ n + i \in 1 .. n + m + 1
  <2> DEFINE k == n + i
  <2>1. k \in 1 .. n + m + 1 /\ ~ (k <= n) /\ k - n = i
    BY <1>1, <1>2
  <2> HIDE DEF k
  <2>2. ct[k] = l + bt[k - n]
    BY <1>7, <2>1
  <2> QED BY <2>1, <2>2 DEF k
<1>11. ASSUME NEW i \in 1 .. n + m + 1 PROVE i \in 1 .. n \/ (i - n \in 1 .. m + 1 /\ n + (i - n) = i)
  BY <1>1, <1>2
<1>12. ASSUME NEW i \in 1 .. n + m + 1 PROVE ct[i] \in Nat \ {0}
  <2>1. CASE i \in 1 .. n
    <3>1. i \in 1 .. n + 1
      BY <1>1, <2>1
    <3> QED BY <1>3, <1>9, <3>1
  <2>2. CASE i - n \in 1 .. m + 1 /\ n + (i - n) = i
    <3>1. ct[i] = l + bt[i - n] /\ bt[i - n] \in Nat /\ bt[i - n] >= 1
      BY <1>4, <1>10, <2>2
    <3> QED BY <1>1, <3>1
  <2> QED BY <1>11, <2>1, <2>2
<1>13. ct \in [1 .. n + m + 1 -> Nat \ {0}]
  BY <1>8, <1>12
<1>14. ct[1] = 1 /\ ct[n + m + 1] = Len(d) + 1
  <2>1. 1 \in 1 .. n + 1 /\ m + 1 \in 1 .. m + 1 /\ n + (m + 1) = n + m + 1
    BY <1>1, <1>2
  <2>2. ct[1] = at[1] /\ ct[n + (m + 1)] = l + bt[m + 1]
    BY <1>9, <1>10, <2>1
  <2>3. l + (Len(c) + 1) = Len(d) + 1
    BY <1>1, <1>2, <1>5
  <2> QED BY <1>1, <1>2, <2>1, <2>2, <2>3
<1>15. ASSUME NEW i \in 1 .. n + m + 1, NEW j \in 1 .. n + m + 1, i <= j PROVE ct[i] <= ct[j]
  <2>1. CASE i \in 1 .. n /\ j \in 1 .. n
    <3>1. i \in 1 .. n + 1 /\ j \in 1 .. n + 1
      BY <1>1, <2>1
    <3> QED BY <1>3, <1>9, <1>15, <3>1
  <2>2. CASE i \in 1 .. n /\ j - n \in 1 .. m + 1 /\ n + (j - n) = j
    <3>1. i \in 1 .. n + 1
      BY <1>1, <2>2
    <3>2. ct[i] = at[i] /\ at[i] \in Nat /\ at[i] <= l + 1
      BY <1>3, <1>9, <3>1
    <3>3. ct[j] = l + bt[j - n] /\ bt[j - n] \in Nat /\ bt[j - n] >= 1
      BY <1>4, <1>10, <2>2
    <3> QED BY <1>1, <3>2, <3>3
  <2>3. CASE i - n \in 1 .. m + 1 /\ n + (i - n) = i /\ j - n \in 1 .. m + 1 /\ n + (j - n) = j
    <3>1. ct[i] = l + bt[i - n] /\ ct[j] = l + bt[j - n] /\ bt[i - n] \in Nat /\ bt[j - n] \in Nat
      BY <1>4, <1>10, <2>3
    <3>2. i - n <= j - n
      BY <1>1, <1>15
    <3>3. bt[i - n] <= bt[j - n]
      BY <1>4, <2>3, <3>2
    <3> QED BY <1>1, <3>1, <3>3
  <2>4. CASE ~ (i \in 1 .. n) /\ j \in 1 .. n
    BY <1>1, <1>15, <2>4
  <2> QED BY <1>11, <2>1, <2>2, <2>3, <2>4
<1>16. ASSUME NEW i \in 1 .. n + m
       PROVE  At(d, ct[i], Written(s[i])) /\ ct[i + 1] = ct[i] + Len(Written(s[i]))
  <2>1. CASE i <= n
    <3> DEFINE w == Written(q[i])
    <3>1. i \in 1 .. n /\ i \in 1 .. n + 1 /\ i + 1 \in 1 .. n + 1
      BY <1>1, <2>1
    <3>2. s[i] = q[i] /\ ct[i] = at[i] /\ ct[i + 1] = at[i + 1]
      BY <1>6, <1>9, <2>1, <3>1
    <3>3. At(b, at[i], w) /\ w \in Seq(Nat) /\ Len(w) \in Nat /\ at[i + 1] = at[i] + Len(w)
      BY <3>1, LaidFacts DEF n
    <3>4. at[i] \in Nat /\ 1 <= at[i] /\ at[i + 1] \in Nat /\ at[i + 1] <= l + 1
      BY <1>3, <3>1
    <3> HIDE DEF w
    <3>5. at[i] + Len(w) - 1 <= Len(b)
      BY <1>1, <3>3, <3>4 DEF l
    <3>6. At(b \o c, at[i], w)
      BY <1>1, <1>2, <3>3, <3>4, <3>5, AtInLeft
    <3> QED BY <3>2, <3>3, <3>6 DEF w, d
  <2>2. CASE ~ (i <= n)
    <3> DEFINE k == i - n
               w == Written(r[k])
    <3>1. k \in 1 .. m /\ k \in 1 .. m + 1 /\ k + 1 \in 1 .. m + 1 /\ n + k = i /\ n + (k + 1) = i + 1
      BY <1>1, <1>2, <2>2
    <3>2. s[i] = r[k]
      BY <1>6, <2>2
    <3> HIDE DEF k
    <3>3. ct[i] = l + bt[k] /\ ct[i + 1] = l + bt[k + 1]
      BY <1>10, <3>1
    <3>4. At(c, bt[k], w) /\ w \in Seq(Nat) /\ Len(w) \in Nat /\ bt[k + 1] = bt[k] + Len(w)
      BY <3>1, LaidFacts DEF m
    <3>5. bt[k] \in Nat /\ 1 <= bt[k] /\ bt[k + 1] \in Nat /\ bt[k + 1] <= Len(c) + 1
      BY <1>4, <3>1
    <3> HIDE DEF w
    <3>6. bt[k] + Len(w) - 1 <= Len(c)
      BY <1>2, <3>4, <3>5
    <3>7. At(b \o c, Len(b) + bt[k], w)
      BY <1>1, <1>2, <3>4, <3>5, <3>6, AtInRight
    <3>8. ct[i + 1] = ct[i] + Len(w)
      BY <1>1, <3>3, <3>4, <3>5
    <3> QED BY <3>2, <3>3, <3>7, <3>8 DEF w, d, l
  <2> QED BY <2>1, <2>2
<1>17. Laid(d, s, ct)
  BY <1>5, <1>6, <1>13, <1>14, <1>15, <1>16 DEF Laid
<1> QED BY <1>17 DEF d, s, ct, n, m, l

-----------------------------------------------------------------------------
(* Bytes that hold entries.                                                 *)

Told(q) == [i \in 1 .. Len(q) |-> [key |-> q[i].key, value |-> Stored(q[i].value)]]
AnyEntries == {[key |-> p.key, value |-> Stored(p.value)] : p \in Pairs}
Holds(b, s) == \E q, at : Laid(b, q, at) /\ s = Told(q)

\* What the entries of an epigram are, worked out from the elements found in it.
EntriesOf(c) == [i \in DOMAIN c |-> Entry(c[i])]

\* What is told of elements are entries.
LEMMA ToldType ==
  ASSUME NEW q \in Seq(Pairs)
  PROVE  /\ Told(q) \in Seq(AnyEntries) /\ Len(Told(q)) = Len(q)
         /\ \A i \in 1 .. Len(q) : Told(q)[i] = [key |-> q[i].key, value |-> Stored(q[i].value)]
<1> DEFINE n == Len(q)
<1>1. n \in Nat
  OBVIOUS
<1>2. ASSUME NEW i \in 1 .. n PROVE [key |-> q[i].key, value |-> Stored(q[i].value)] \in AnyEntries
  <2>1. q[i] \in Pairs
    BY ElementOfSeq
  <2> QED BY <2>1 DEF AnyEntries
<1>3. Told(q) = [i \in 1 .. n |-> [key |-> q[i].key, value |-> Stored(q[i].value)]]
  BY DEF Told
<1> HIDE DEF n
<1> QED BY <1>1, <1>2, <1>3 DEF n

\* The walk finds the entries that are held.
LEMMA HoldsFacts ==
  ASSUME NEW b, NEW s, Holds(b, s)
  PROVE  /\ b \in Seq(Nat) /\ s \in Seq(AnyEntries) /\ Len(s) \in Nat
         /\ DOMAIN s = 1 .. Len(s) /\ DOMAIN Elements(b) = 1 .. Len(s)
         /\ Len(Elements(b)) = Len(s)
         /\ \A i \in 1 .. Len(s) : Elements(b)[i].key = s[i].key /\ Entry(Elements(b)[i]) = s[i]
         /\ EntriesOf(Elements(b)) = s
<1>1. PICK q, at : Laid(b, q, at) /\ s = Told(q)
  BY DEF Holds
<1>2. b \in Seq(Nat) /\ q \in Seq(Pairs) /\ Len(q) \in Nat
  BY <1>1, LaidFacts
<1>3. /\ s \in Seq(AnyEntries) /\ Len(s) = Len(q)
      /\ \A i \in 1 .. Len(q) : s[i] = [key |-> q[i].key, value |-> Stored(q[i].value)]
  BY <1>1, <1>2, ToldType
<1>4. Elements(b) = [i \in 1 .. Len(q) |-> Found(at[i], q[i].key, q[i].value)]
  BY <1>1, ElementsArePlaced DEF Placed
<1>5. DOMAIN Elements(b) = 1 .. Len(s) /\ Len(Elements(b)) = Len(s)
  BY <1>2, <1>3, <1>4
<1>6. ASSUME NEW i \in 1 .. Len(s)
      PROVE  Elements(b)[i].key = s[i].key /\ Entry(Elements(b)[i]) = s[i]
  <2> DEFINE x == Found(at[i], q[i].key, q[i].value)
  <2>1. Elements(b)[i] = x
    BY <1>3, <1>4
  <2>2. Entry(x) = [key |-> q[i].key, value |-> Stored(q[i].value)] /\ x.key = q[i].key
    BY DEF Entry, Found, Stored
  <2>3. s[i] = [key |-> q[i].key, value |-> Stored(q[i].value)]
    BY <1>3
  <2> HIDE DEF x
  <2> QED BY <2>1, <2>2, <2>3
<1>7. DOMAIN s = 1 .. Len(s) /\ Len(s) \in Nat
  BY <1>2, <1>3
<1>8. EntriesOf(Elements(b)) = s
  <2>1. EntriesOf(Elements(b)) = [i \in 1 .. Len(s) |-> Entry(Elements(b)[i])]
    BY <1>5 DEF EntriesOf
  <2>2. s = [i \in 1 .. Len(s) |-> s[i]]
    BY <1>3
  <2> QED BY <1>6, <2>1, <2>2
<1> QED BY <1>2, <1>3, <1>5, <1>6, <1>7, <1>8

\* No bytes hold no entries.
LEMMA HoldsNothing == Holds(<<>>, <<>>)
<1> DEFINE at == [i \in 1 .. 1 |-> 1]
           q == <<>>
<1>1. q \in Seq(Pairs) /\ q \in Seq(Nat) /\ Len(q) = 0
  OBVIOUS
<1>2. Laid(q, q, at)
  BY <1>1 DEF Laid
<1>3. Told(q) = <<>>
  BY <1>1 DEF Told
<1> QED BY <1>2, <1>3 DEF Holds

\* Bytes joined hold the entries joined.
LEMMA HoldsConcat ==
  ASSUME NEW b, NEW s, Holds(b, s), NEW c, NEW t, Holds(c, t)
  PROVE  Holds(b \o c, s \o t)
<1>1. PICK q, at : Laid(b, q, at) /\ s = Told(q)
  BY DEF Holds
<1>2. PICK r, bt : Laid(c, r, bt) /\ t = Told(r)
  BY DEF Holds
<1>3. \E ct : Laid(b \o c, q \o r, ct)
  BY <1>1, <1>2, ConcatIsLaid
<1>4. q \in Seq(Pairs) /\ r \in Seq(Pairs) /\ Len(q) \in Nat /\ Len(r) \in Nat
  BY <1>1, <1>2, LaidFacts
<1> DEFINE qr == q \o r
           n == Len(q)
           m == Len(r)
<1>5. /\ qr \in Seq(Pairs) /\ Len(qr) = n + m
      /\ \A i \in 1 .. n + m : qr[i] = IF i <= n THEN q[i] ELSE r[i - n]
  BY <1>4, ConcatProperties
<1>6. /\ s \in Seq(AnyEntries) /\ Len(s) = n
      /\ \A i \in 1 .. n : s[i] = [key |-> q[i].key, value |-> Stored(q[i].value)]
  BY <1>1, <1>4, ToldType
<1>7. /\ t \in Seq(AnyEntries) /\ Len(t) = m
      /\ \A i \in 1 .. m : t[i] = [key |-> r[i].key, value |-> Stored(r[i].value)]
  BY <1>2, <1>4, ToldType
<1> DEFINE st == s \o t
<1>8. /\ st \in Seq(AnyEntries) /\ Len(st) = n + m
      /\ \A i \in 1 .. n + m : st[i] = IF i <= n THEN s[i] ELSE t[i - n]
  <2>1. s \in Seq(AnyEntries)
    BY <1>6
  <2>2. t \in Seq(AnyEntries)
    BY <1>7
  <2>3. st \in Seq(AnyEntries)
    BY <2>1, <2>2, ConcatProperties
  <2>4. Len(st) = Len(s) + Len(t)
    BY <2>1, <2>2, ConcatProperties
  <2>5. \A i \in 1 .. Len(s) + Len(t) : st[i] = IF i <= Len(s) THEN s[i] ELSE t[i - Len(s)]
    BY <2>1, <2>2, ConcatProperties
  <2> HIDE DEF st, n, m
  <2> QED BY <1>6, <1>7, <2>3, <2>4, <2>5
<1>9. /\ Told(qr) \in Seq(AnyEntries) /\ Len(Told(qr)) = n + m
      /\ \A i \in 1 .. n + m : Told(qr)[i] = [key |-> qr[i].key, value |-> Stored(qr[i].value)]
  <2> HIDE DEF qr
  <2> QED BY <1>5, ToldType
<1>10. n \in Nat /\ m \in Nat
  BY <1>4
<1> HIDE DEF st, qr, n, m
<1>11. ASSUME NEW i \in 1 .. n + m PROVE st[i] = Told(qr)[i]
  <2>1. CASE i <= n
    <3>1. i \in 1 .. n
      BY <1>10, <2>1
    <3> QED BY <1>5, <1>6, <1>8, <1>9, <2>1, <3>1
  <2>2. CASE ~ (i <= n)
    <3>1. i - n \in 1 .. m
      BY <1>10, <2>2
    <3> QED BY <1>5, <1>7, <1>8, <1>9, <2>2, <3>1
  <2> QED BY <2>1, <2>2
<1>12. st = Told(qr)
  BY <1>8, <1>9, <1>11, SeqEqual
<1> QED BY <1>3, <1>12 DEF Holds, st, qr

\* One element.
LEMMA HoldsOne ==
  ASSUME NEW k \in AnyKeys, NEW v \in AnyValues
  PROVE  Holds(Element(k, v), <<[key |-> k, value |-> Stored(v)]>>)
<1> DEFINE p == [key |-> k, value |-> v]
           q == <<p>>
           w == Element(k, v)
           at == [i \in 1 .. 2 |-> IF i = 1 THEN 1 ELSE Len(w) + 1]
<1>1. p \in Pairs /\ q \in Seq(Pairs) /\ Len(q) = 1 /\ q[1] = p
  BY DEF Pairs
<1>2. w \in Seq(Nat) /\ Len(w) \in Nat /\ Len(w) >= 4
  BY ElementType
<1>3. Written(p) = w
  BY DEF Written
<1>4. at[1] = 1 /\ at[2] = Len(w) + 1
  OBVIOUS
<1>5. At(w, 1, w)
  <2> HIDE DEF w
  <2> QED BY DEF At
<1>6. at \in [1 .. 2 -> Nat \ {0}]
  <2> HIDE DEF w
  <2> QED BY <1>2
<1>7. \A i, j \in 1 .. 2 : i <= j => at[i] <= at[j]
  <2> HIDE DEF w
  <2> QED BY <1>2
<1>8. Told(q) = <<[key |-> k, value |-> Stored(v)]>>
  <2>1. Told(q) = [i \in 1 .. 1 |-> [key |-> q[i].key, value |-> Stored(q[i].value)]]
    BY <1>1 DEF Told
  <2>2. \A i \in 1 .. 1 : [key |-> q[i].key, value |-> Stored(q[i].value)] = [key |-> k, value |-> Stored(v)]
    BY <1>1
  <2> QED BY <2>1, <2>2
<1> HIDE DEF at, w, q, p
<1>9. Laid(w, q, at)
  <2>1. at \in [1 .. Len(q) + 1 -> Nat \ {0}] /\ at[Len(q) + 1] = Len(w) + 1 /\ at[1] = 1
    BY <1>1, <1>4, <1>6
  <2>2. \A i, j \in 1 .. Len(q) + 1 : i <= j => at[i] <= at[j]
    BY <1>1, <1>7
  <2>3. ASSUME NEW i \in 1 .. Len(q)
        PROVE  At(w, at[i], Written(q[i])) /\ at[i + 1] = at[i] + Len(Written(q[i]))
    <3>1. i = 1 /\ q[i] = p
      BY <1>1
    <3> QED BY <1>2, <1>3, <1>4, <1>5, <3>1
  <2> QED BY <1>1, <1>2, <2>1, <2>2, <2>3 DEF Laid
<1> QED BY <1>8, <1>9 DEF Holds, w

\* A part of the entries.
LEMMA ToldPart ==
  ASSUME NEW q \in Seq(Pairs), NEW i \in Nat, NEW j \in Nat, 1 <= i, i <= j + 1, j <= Len(q)
  PROVE  Told(SubSeq(q, i, j)) = SubSeq(Told(q), i, j)
<1> DEFINE n == j - i + 1
           r == SubSeq(q, i, j)
           s == Told(q)
           t == SubSeq(s, i, j)
<1>1. n \in Nat /\ (i <= j \/ n = 0) /\ Len(q) \in Nat
  OBVIOUS
<1>2. /\ s \in Seq(AnyEntries) /\ Len(s) = Len(q)
      /\ \A m \in 1 .. Len(q) : s[m] = [key |-> q[m].key, value |-> Stored(q[m].value)]
  BY ToldType
<1> HIDE DEF s
<1>3. \A m \in i .. j : q[m] \in Pairs /\ s[m] \in AnyEntries
  <2> SUFFICES ASSUME NEW m \in i .. j PROVE q[m] \in Pairs /\ s[m] \in AnyEntries
    OBVIOUS
  <2>1. m \in 1 .. Len(q)
    BY <1>1
  <2>2. q[m] \in Pairs
    BY <2>1, ElementOfSeq
  <2>3. s[m] \in AnyEntries
    BY <1>2, <2>1, ElementOfSeq
  <2> QED BY <2>2, <2>3
<1>4. r \in Seq(Pairs) /\ Len(r) = n /\ \A m \in 1 .. n : r[m] = q[i + m - 1]
  <2>1. /\ r \in Seq(Pairs) /\ Len(r) = IF i <= j THEN j - i + 1 ELSE 0
        /\ \A m \in 1 .. j - i + 1 : r[m] = q[i + m - 1]
    BY <1>3, SubSeqProperties
  <2> HIDE DEF r
  <2> QED BY <1>1, <2>1
<1>5. t \in Seq(AnyEntries) /\ Len(t) = n /\ \A m \in 1 .. n : t[m] = s[i + m - 1]
  <2>1. /\ t \in Seq(AnyEntries) /\ Len(t) = IF i <= j THEN j - i + 1 ELSE 0
        /\ \A m \in 1 .. j - i + 1 : t[m] = s[i + m - 1]
    BY <1>3, SubSeqProperties
  <2> HIDE DEF t
  <2> QED BY <1>1, <2>1
<1> HIDE DEF r, t
<1>6. /\ Told(r) \in Seq(AnyEntries) /\ Len(Told(r)) = n
      /\ \A m \in 1 .. n : Told(r)[m] = [key |-> r[m].key, value |-> Stored(r[m].value)]
  BY <1>4, ToldType
<1>7. ASSUME NEW m \in 1 .. n PROVE Told(r)[m] = t[m]
  <2>1. i + m - 1 \in 1 .. Len(q)
    BY <1>1
  <2> QED BY <1>2, <1>4, <1>5, <1>6, <2>1
<1> HIDE DEF n
<1>8. Told(r) = t
  BY <1>5, <1>6, <1>7, SeqEqual
<1> QED BY <1>8 DEF r, t, s

\* The i-th element of what is held, and what is left without it.
LEMMA HoldsElement ==
  ASSUME NEW b, NEW s, Holds(b, s), NEW i \in 1 .. Len(s)
  PROVE  LET x == Elements(b)[i] IN
         /\ Holds(EraseRange(b, x.start, x.end), RemoveAt(s, i))
         /\ Len(EraseRange(b, x.start, x.end)) < Len(b)
         /\ Holds(SubSeq(b, x.start, x.end), <<s[i]>>)
         /\ ~ x.array => x.payload = x.start
<1>1. PICK q, at : Laid(b, q, at) /\ s = Told(q)
  BY DEF Holds
<1> DEFINE n == Len(q)
<1>2. /\ b \in Seq(Nat) /\ Len(b) \in Nat /\ q \in Seq(Pairs) /\ n \in Nat
      /\ at[1] = 1 /\ at[n + 1] = Len(b) + 1
  BY <1>1, LaidFacts
<1>3. /\ s \in Seq(AnyEntries) /\ Len(s) = n
  BY <1>1, <1>2, ToldType
<1>4. Elements(b) = [j \in 1 .. n |-> Found(at[j], q[j].key, q[j].value)]
  BY <1>1, ElementsArePlaced DEF Placed
<1> DEFINE x == Found(at[i], q[i].key, q[i].value)
<1>5. i \in 1 .. n /\ i - 1 \in Nat /\ i \in Nat /\ i + 1 \in Nat /\ i - 1 + 1 = i /\ i <= n
  BY <1>2, <1>3
<1>6. Elements(b)[i] = x
  BY <1>4, <1>5
<1>7. /\ at[i] \in Nat /\ at[i] >= 1 /\ at[i + 1] \in Nat /\ at[i + 1] <= Len(b) + 1
      /\ at[i + 1] = at[i] + Len(Written(q[i])) /\ Len(Written(q[i])) \in Nat
      /\ Len(Written(q[i])) >= 4
  <2>1. i \in 1 .. n + 1 /\ i + 1 \in 1 .. n + 1
    BY <1>2, <1>5
  <2>2. /\ at[i] \in Nat /\ at[i] >= 1 /\ at[i + 1] \in Nat /\ at[i + 1] <= Len(b) + 1
    BY <1>1, <2>1, LaidFacts
  <2>3. /\ at[i + 1] = at[i] + Len(Written(q[i])) /\ Len(Written(q[i])) \in Nat
        /\ Len(Written(q[i])) >= 4
    BY <1>1, <1>5, LaidFacts
  <2> QED BY <2>2, <2>3
<1>8. x.start = at[i] /\ x.end = at[i + 1] - 1 /\ (~ x.array => x.payload = x.start)
  <2>1. x.start = at[i] /\ x.end = at[i] + Len(Written(q[i])) - 1
    BY DEF Found, Written
  <2>2. x.end = at[i + 1] - 1
    BY <1>7, <2>1
  <2>3. ASSUME ~ x.array PROVE x.payload = x.start
    <3>1. ~ q[i].value.array
      BY <2>3 DEF Found
    <3>2. Prefix(q[i].value) = <<>>
      BY <3>1 DEF Prefix
    <3>3. x.payload = at[i] + 0
      BY <3>2 DEF Found
    <3> QED BY <1>7, <2>1, <3>3
  <2> QED BY <2>1, <2>2, <2>3
<1> HIDE DEF x, n
<1> DEFINE left == SubSeq(b, 1, at[i] - 1)
           right == SubSeq(b, at[i + 1], Len(b))
           middle == SubSeq(b, at[i], at[i + 1] - 1)
<1>9. Holds(left, SubSeq(s, 1, i - 1)) /\ Len(left) = at[i] - 1
  <2> DEFINE j == i - 1
  <2>1. j \in Nat /\ 1 <= 1 /\ 1 <= j + 1 /\ j <= n /\ j + 1 = i /\ 1 \in Nat
    BY <1>2, <1>5
  <2> HIDE DEF j
  <2> DEFINE c == SubSeq(b, at[1], at[j + 1] - 1)
  <2>12. SliceOf(b, q, at, 1, j)
    BY <1>1, <2>1, SliceIsLaid DEF n
  <2>2. \E ct : Laid(c, SubSeq(q, 1, j), ct)
    BY <2>12 DEF SliceOf
  <2>3. Len(c) = at[j + 1] - at[1]
    BY <2>12 DEF SliceOf
  <2>4. Told(SubSeq(q, 1, j)) = SubSeq(s, 1, j)
    BY <1>1, <1>2, <2>1, ToldPart DEF n
  <2>5. c = left
    BY <1>2, <2>1
  <2> HIDE DEF c, left
  <2>6. Holds(left, SubSeq(s, 1, j))
    BY <2>2, <2>4, <2>5 DEF Holds
  <2>7. Len(left) = at[i] - 1
    BY <1>2, <2>1, <2>3, <2>5
  <2> QED BY <2>6, <2>7 DEF j
<1>10. Holds(right, SubSeq(s, i + 1, Len(s))) /\ Len(right) = Len(b) + 1 - at[i + 1]
  <2> DEFINE j == i + 1
  <2>1. j \in Nat /\ 1 <= j /\ j <= n + 1 /\ n <= n /\ n \in Nat /\ at[j] \in Nat
    BY <1>2, <1>5, <1>7
  <2> HIDE DEF j
  <2>2. PICK m \in Nat : m = n
    BY <2>1
  <2>3. 1 <= j /\ j <= m + 1 /\ m <= Len(q)
    BY <2>1, <2>2 DEF n
  <2> DEFINE c == SubSeq(b, at[j], at[m + 1] - 1)
  <2>12. SliceOf(b, q, at, j, m)
    BY <1>1, <2>1, <2>3, SliceIsLaid
  <2>4. \E ct : Laid(c, SubSeq(q, j, m), ct)
    BY <2>12 DEF SliceOf
  <2>5. Len(c) = at[m + 1] - at[j]
    BY <2>12 DEF SliceOf
  <2>6. Told(SubSeq(q, j, m)) = SubSeq(s, j, m)
    BY <1>1, <1>2, <2>1, <2>3, ToldPart
  <2>7. at[m + 1] = Len(b) + 1 /\ m = Len(s)
    BY <1>2, <1>3, <2>2
  <2>8. at[m + 1] - 1 = Len(b)
    BY <1>2, <2>7
  <2>9. c = right
    BY <2>8 DEF j
  <2> HIDE DEF c, right
  <2>10. Holds(right, SubSeq(s, j, Len(s)))
    BY <2>4, <2>6, <2>7, <2>9 DEF Holds
  <2>11. Len(right) = Len(b) + 1 - at[j]
    <3>1. Len(b) \in Nat
      BY <1>2
    <3> QED BY <2>1, <2>5, <2>7, <2>9, <3>1
  <2> QED BY <2>10, <2>11 DEF j
<1>11. Holds(middle, <<s[i]>>)
  <2>1. 1 <= i /\ i <= i + 1 /\ i <= n
    BY <1>2, <1>5
  <2>2. \E ct : Laid(middle, SubSeq(q, i, i), ct)
    <3>1. SliceOf(b, q, at, i, i)
      BY <1>1, <1>5, <2>1, SliceIsLaid DEF n
    <3> QED BY <3>1 DEF SliceOf
  <2>3. Told(SubSeq(q, i, i)) = SubSeq(s, i, i)
    BY <1>1, <1>2, <1>5, <2>1, ToldPart DEF n
  <2>4. SubSeq(s, i, i) = <<s[i]>>
    <3> DEFINE y == SubSeq(s, i, i)
    <3>0. i \in 1 .. Len(s)
      OBVIOUS
    <3>1. y \in Seq(AnyEntries) /\ Len(y) = 1 /\ y[1] = s[i]
      <4>1. \A m \in i .. i : s[m] \in AnyEntries
        BY <1>3, <1>5, ElementOfSeq
      <4>2. /\ y \in Seq(AnyEntries) /\ Len(y) = IF i <= i THEN i - i + 1 ELSE 0
            /\ \A m \in 1 .. i - i + 1 : y[m] = s[i + m - 1]
        BY <1>5, <4>1, SubSeqProperties
      <4> HIDE DEF y
      <4>3. i - i + 1 = 1 /\ 1 \in 1 .. 1 /\ i + 1 - 1 = i
        BY <1>5
      <4> QED BY <1>5, <4>2, <4>3
    <3> HIDE DEF y
    <3>2. PICK e \in AnyEntries : e = s[i]
      BY <1>3, <3>0, ElementOfSeq
    <3>3. <<e>> \in Seq(AnyEntries) /\ Len(<<e>>) = 1 /\ <<e>>[1] = e
      OBVIOUS
    <3>4. y = <<e>>
      BY <3>1, <3>2, <3>3, SeqEqual
    <3> QED BY <3>2, <3>4 DEF y
  <2> HIDE DEF middle
  <2> QED BY <2>2, <2>3, <2>4 DEF Holds
<1>12. RemoveAt(s, i) = SubSeq(s, 1, i - 1) \o SubSeq(s, i + 1, Len(s))
  BY DEF RemoveAt
<1>13. EraseRange(b, x.start, x.end) = left \o right
  <2>1. x.start - 1 = at[i] - 1 /\ x.end + 1 = at[i + 1]
    BY <1>7, <1>8
  <2> QED BY <2>1 DEF EraseRange
<1>14. SubSeq(b, x.start, x.end) = middle
  BY <1>8
<1> HIDE DEF left, right, middle
<1>15. Holds(left \o right, RemoveAt(s, i))
  BY <1>9, <1>10, <1>12, HoldsConcat
<1>16. Len(left \o right) < Len(b)
  <2>1. left \in Seq(Nat) /\ right \in Seq(Nat)
    BY <1>9, <1>10, HoldsFacts
  <2>2. Len(left \o right) = Len(left) + Len(right)
    BY <2>1, ConcatProperties
  <2>3. at[i] \in Nat /\ at[i + 1] \in Nat /\ at[i] < at[i + 1] /\ Len(b) \in Nat
    BY <1>2, <1>7
  <2>4. Len(left) = at[i] - 1 /\ Len(right) = Len(b) + 1 - at[i + 1]
    BY <1>9, <1>10
  <2>5. (at[i] - 1) + (Len(b) + 1 - at[i + 1]) < Len(b)
    BY <2>3
  <2> QED BY <2>2, <2>4, <2>5
<1> QED BY <1>6, <1>8, <1>11, <1>13, <1>14, <1>15, <1>16

-----------------------------------------------------------------------------
(* The newest of a key.                                                     *)

\* Sets of places have a greatest member.
LEMMA GreatestOf ==
  ASSUME NEW n \in Nat, NEW S, S \subseteq 1 .. n, S # {}
  PROVE  Max(S) \in S /\ \A y \in S : y <= Max(S)
<1> DEFINE T == {n - x : x \in S}
<1>0. \A x \in S : n - x \in Nat
  OBVIOUS
<1>1. T \subseteq Nat /\ T # {}
  BY <1>0
<1>2. PICK t \in T : \A u \in T : t <= u
  BY <1>1, LeastNatural
<1>3. PICK x \in S : t = n - x
  BY <1>2
<1>4. ASSUME NEW y \in S PROVE x >= y
  <2>1. n - x <= n - y /\ x \in Nat /\ y \in Nat
    BY <1>2, <1>3
  <2> QED BY <2>1
<1>5. Max(S) \in S /\ \A y \in S : Max(S) >= y
  BY <1>4 DEF Max
<1> QED BY <1>5

\* A set of places has a least member.
LEMMA LeastOf ==
  ASSUME NEW S, S \subseteq Nat, S # {}
  PROVE  Min(S) \in S /\ \A y \in S : Min(S) <= y
<1>1. PICK x \in S : \A y \in S : x <= y
  BY LeastNatural
<1> QED BY <1>1 DEF Min

\* The newest entry of a key is found where it is.
LEMMA NewestAgrees ==
  ASSUME NEW b, NEW s, Holds(b, s), NEW k
  PROVE  /\ Newest(Elements(b), k) = Abstract!Newest(s, k)
         /\ Abstract!Newest(s, k) \in 0 .. Len(s)
<1> DEFINE hits == {i \in 1 .. Len(s) : KeyMatches(s[i].key, k)}
<1>1. /\ DOMAIN s = 1 .. Len(s) /\ DOMAIN Elements(b) = 1 .. Len(s) /\ Len(s) \in Nat
      /\ \A i \in 1 .. Len(s) : Elements(b)[i].key = s[i].key
  BY HoldsFacts
<1>2. {i \in DOMAIN Elements(b) : KeyMatches(Elements(b)[i].key, k)} = hits
  BY <1>1
<1>3. {i \in DOMAIN s : KeyMatches(s[i].key, k)} = hits
  BY <1>1
<1>4. hits \subseteq 1 .. Len(s)
  OBVIOUS
<1> HIDE DEF hits
<1>5. Newest(Elements(b), k) = IF hits = {} THEN 0 ELSE Max(hits)
  BY <1>2 DEF Newest
<1>6. Abstract!Newest(s, k) = IF hits = {} THEN 0 ELSE Max(hits)
  <2>1. Abstract!Newest(s, k) =
          LET h == {i \in DOMAIN s : KeyMatches(s[i].key, k)} IN IF h = {} THEN 0 ELSE Max(h)
    BY DEF Abstract!Newest, Abstract!Max, Max
  <2> QED BY <1>3, <2>1
<1>7. hits # {} => Max(hits) \in 1 .. Len(s)
  BY <1>1, <1>4, GreatestOf
<1>8. (IF hits = {} THEN 0 ELSE Max(hits)) \in 0 .. Len(s)
  BY <1>1, <1>7
<1> QED BY <1>5, <1>6, <1>8

\* What Abstract drops for a key.
LEMMA DropIs ==
  ASSUME NEW s, NEW k
  PROVE  Abstract!Drop(s, k) =
           LET i == Abstract!Newest(s, k) IN IF i = 0 THEN s ELSE RemoveAt(s, i)
BY DEF Abstract!Drop, Abstract!Without, Abstract!RemoveAt, RemoveAt

\* Erasing the newest of a key from the bytes drops it from the entries.
LEMMA HoldsDropped ==
  ASSUME NEW b, NEW s, Holds(b, s), NEW k
  PROVE  LET c == EraseNewest(b, Elements(b), k) IN
         /\ Holds(c, Abstract!Drop(s, k))
         /\ c = b \/ Len(c) < Len(b)
<1> DEFINE i == Abstract!Newest(s, k)
<1>1. Newest(Elements(b), k) = i /\ i \in 0 .. Len(s) /\ Len(s) \in Nat
  BY NewestAgrees, HoldsFacts
<1>2. Abstract!Drop(s, k) = IF i = 0 THEN s ELSE RemoveAt(s, i)
  BY DropIs
<1> HIDE DEF i
<1>3. CASE i = 0
  BY <1>1, <1>2, <1>3 DEF EraseNewest
<1>4. CASE i # 0
  <2>1. i \in 1 .. Len(s)
    BY <1>1, <1>4
  <2> DEFINE x == Elements(b)[i]
             c == EraseRange(b, x.start, x.end)
  <2>2. Holds(c, RemoveAt(s, i)) /\ Len(c) < Len(b)
    BY <2>1, HoldsElement
  <2>3. EraseNewest(b, Elements(b), k) = c
    BY <1>1, <1>4 DEF EraseNewest
  <2> HIDE DEF c
  <2> QED BY <1>2, <1>4, <2>2, <2>3
<1> QED BY <1>3, <1>4

-----------------------------------------------------------------------------
(* Erasing one key after another.                                           *)

BytesFold(f, b, keys, d) ==
    IF d = {} THEN b ELSE EraseKey(f[d \ {Max(d)}], keys[Max(d)].key)
EntriesFold(f, s, keys, d) ==
    IF d = {} THEN s ELSE Abstract!Drop(f[d \ {Max(d)}], keys[Max(d)].key)

BothFold(f, b, s, c, t, d) ==
    IF d = {} THEN <<b, s>>
    ELSE <<EraseKey(f[d \ {Max(d)}][1], c[Max(d)].key), Abstract!Drop(f[d \ {Max(d)}][2], t[Max(d)].key)>>

\* The functions that the two folds are CHOOSEs of exist: one erases bytes, one drops entries.
LEMMA FoldsExist ==
  ASSUME NEW b, NEW s, NEW c, NEW t, NEW n \in Nat
  PROVE  /\ \E f : f = [d \in SUBSET (1 .. n) |-> BytesFold(f, b, c, d)]
         /\ \E f : f = [d \in SUBSET (1 .. n) |-> EntriesFold(f, s, t, d)]
<1> DEFINE Upto(f, k) == \A d \in SUBSET (1 .. k) : f[d] = BothFold(f, b, s, c, t, d)
           T == {k \in Nat : ~ \E f : Upto(f, k)}
<1>0. ASSUME NEW k \in Nat, k # 0, NEW d \in SUBSET (1 .. k), d # {}
      PROVE  d \ {Max(d)} \in SUBSET (1 .. k - 1)
  <2>1. Max(d) \in d /\ \A y \in d : y <= Max(d)
    BY <1>0, GreatestOf
  <2>2. ASSUME NEW y \in d \ {Max(d)} PROVE y \in 1 .. k - 1
    <3> DEFINE m == Max(d)
    <3>1. m \in 1 .. k /\ y \in 1 .. k /\ y <= m /\ y # m
      BY <2>1
    <3> HIDE DEF m
    <3> QED BY <3>1
  <2> QED BY <2>2
<1>1. T = {}
  <2> SUFFICES ASSUME T # {} PROVE FALSE
    OBVIOUS
  <2>1. PICK k \in T : \A y \in T : k <= y
    BY LeastNatural
  <2>2. CASE k = 0
    <3> DEFINE f == [d \in SUBSET (1 .. 0) |-> <<b, s>>]
    <3>1. SUBSET (1 .. 0) = {{}}
      OBVIOUS
    <3>2. \A d \in SUBSET (1 .. 0) : f[d] = BothFold(f, b, s, c, t, d)
      BY <3>1 DEF BothFold
    <3> QED BY <2>2, <3>2
  <2>3. CASE k # 0
    <3>0. k - 1 \in Nat /\ ~ (k <= k - 1)
      BY <2>3
    <3>1. k - 1 \in Nat /\ k - 1 \notin T
      <4> HIDE DEF T
      <4> QED BY <2>1, <3>0
    <3>2. PICK f : Upto(f, k - 1)
      BY <3>1
    <3> DEFINE g == [d \in SUBSET (1 .. k) |-> BothFold(f, b, s, c, t, d)]
    <3>3. ASSUME NEW d \in SUBSET (1 .. k) PROVE g[d] = BothFold(g, b, s, c, t, d)
      <4>1. g[d] = BothFold(f, b, s, c, t, d)
        OBVIOUS
      <4>2. CASE d = {}
        BY <4>1, <4>2 DEF BothFold
      <4>3. CASE d # {}
        <5> DEFINE r == d \ {Max(d)}
        <5>1. r \in SUBSET (1 .. k - 1)
          BY <1>0, <2>3, <4>3
        <5>2. r \in SUBSET (1 .. k)
          BY <5>1
        <5>3. f[r] = BothFold(f, b, s, c, t, r)
          BY <3>2, <5>1
        <5>4. g[r] = BothFold(f, b, s, c, t, r)
          BY <5>2
        <5>5. g[r] = f[r]
          BY <5>3, <5>4
        <5> HIDE DEF g
        <5> QED BY <4>1, <4>3, <5>5 DEF BothFold
      <4> QED BY <4>2, <4>3
    <3> HIDE DEF g
    <3>4. Upto(g, k)
      BY <3>3
    <3> QED BY <3>4
  <2> QED BY <2>2, <2>3
<1>2. PICK f : Upto(f, n)
  BY <1>1
<1> HIDE DEF T
<1> DEFINE h1 == [d \in SUBSET (1 .. n) |-> f[d][1]]
           h2 == [d \in SUBSET (1 .. n) |-> f[d][2]]
<1>3. ASSUME NEW d \in SUBSET (1 .. n)
      PROVE  h1[d] = BytesFold(h1, b, c, d) /\ h2[d] = EntriesFold(h2, s, t, d)
  <2>1. f[d] = BothFold(f, b, s, c, t, d)
    BY <1>2
  <2>2. h1[d] = f[d][1] /\ h2[d] = f[d][2]
    OBVIOUS
  <2>3. CASE d = {}
    BY <2>1, <2>2, <2>3 DEF BothFold, BytesFold, EntriesFold
  <2>4. CASE d # {}
    <3> DEFINE r == d \ {Max(d)}
    <3>1. r \in SUBSET (1 .. n)
      OBVIOUS
    <3>2. h1[r] = f[r][1] /\ h2[r] = f[r][2]
      BY <3>1
    <3> HIDE DEF h1, h2
    <3> QED BY <2>1, <2>2, <2>4, <3>2 DEF BothFold, BytesFold, EntriesFold
  <2> QED BY <2>3, <2>4
<1>4. h1 = [d \in SUBSET (1 .. n) |-> h1[d]] /\ h2 = [d \in SUBSET (1 .. n) |-> h2[d]]
  OBVIOUS
<1> HIDE DEF h1, h2
<1>5. h1 = [d \in SUBSET (1 .. n) |-> BytesFold(h1, b, c, d)]
  BY <1>3, <1>4
<1>6. h2 = [d \in SUBSET (1 .. n) |-> EntriesFold(h2, s, t, d)]
  BY <1>3, <1>4
<1> QED BY <1>5, <1>6

\* What Merge erases from the bytes it drops from the entries.
SameKeys(c, t, n) ==
    DOMAIN c = 1 .. n /\ DOMAIN t = 1 .. n /\ \A i \in 1 .. n : c[i].key = t[i].key
DropsAll(b, s, c, t) ==
    LET r == EraseAll(b, c) IN
    /\ Holds(r, Abstract!DropAll(s, t))
    /\ r = b \/ Len(r) < Len(b)

\* Erasing key after key from the bytes drops one after the other from the entries.
LEMMA HoldsAllDropped ==
  ASSUME NEW b, NEW s, Holds(b, s), NEW c, NEW t, NEW n \in Nat,
         SameKeys(c, t, n)
  PROVE  DropsAll(b, s, c, t)
<1>0. DOMAIN c = 1 .. n /\ DOMAIN t = 1 .. n /\ \A i \in 1 .. n : c[i].key = t[i].key
  BY DEF SameKeys
<1> DEFINE D == SUBSET (1 .. n)
           f == CHOOSE f : f = [d \in D |-> BytesFold(f, b, c, d)]
           g == CHOOSE g : g = [d \in D |-> EntriesFold(g, s, t, d)]
<1>1. EraseAll(b, c) = f[1 .. n]
  BY <1>0 DEF EraseAll, FoldLeft, MapThenFoldSet, BytesFold
<1>2. Abstract!DropAll(s, t) = g[1 .. n]
  BY <1>0 DEF Abstract!DropAll, Abstract!FoldLeft, Abstract!MapThenFoldSet, Abstract!Max, Max, EntriesFold
<1>3. f = [d \in D |-> BytesFold(f, b, c, d)]
  BY FoldsExist
<1>4. g = [d \in D |-> EntriesFold(g, s, t, d)]
  BY FoldsExist
<1> HIDE DEF f, g
<1> DEFINE Ok(k) == /\ Holds(f[1 .. k], g[1 .. k])
                    /\ f[1 .. k] = b \/ Len(f[1 .. k]) < Len(b)
           T == {k \in Nat : k <= n /\ ~ Ok(k)}
<1>5. T = {}
  <2> SUFFICES ASSUME T # {} PROVE FALSE
    OBVIOUS
  <2>1. PICK k \in T : \A y \in T : k <= y
    BY LeastNatural
  <2>2. k \in Nat /\ k <= n /\ ~ Ok(k)
    OBVIOUS
  <2>3. ASSUME k # 0 PROVE k - 1 \in Nat /\ Ok(k - 1)
    <3>1. k - 1 \in Nat /\ k - 1 <= n /\ ~ (k <= k - 1)
      BY <2>2, <2>3
    <3>2. k - 1 \notin T
      <4> HIDE DEF T
      <4> QED BY <2>1, <3>1
    <3> HIDE DEF Ok
    <3> QED BY <3>1, <3>2
  <2> HIDE DEF T
  <2>4. CASE k = 0
    <3>1. 1 .. k = {} /\ {} \in D
      BY <2>4
    <3>2. f[{}] = b /\ g[{}] = s
      BY <1>3, <1>4, <3>1 DEF BytesFold, EntriesFold
    <3>3. Ok(k)
      BY <3>1, <3>2
    <3> QED BY <2>2, <3>3
  <2>5. CASE k # 0
    <3> DEFINE d == 1 .. k
               r == 1 .. k - 1
    <3>0. k \in 1 .. n /\ k \in d /\ \A i \in d : i \in 1 .. n
      BY <2>2, <2>5
    <3>14. d \ {k} = r
      BY <2>2, <2>5
    <3>1. k \in d /\ d # {} /\ d \in D /\ d \ {k} = r /\ k \in 1 .. n /\ d \subseteq 1 .. k
      BY <3>0, <3>14
    <3>2. Max(d) = k
      <4>1. Max(d) \in d /\ \A y \in d : y <= Max(d)
        BY <2>2, <3>1, GreatestOf
      <4> DEFINE m == Max(d)
      <4>2. m \in 1 .. k /\ k <= m
        BY <3>1, <4>1
      <4> HIDE DEF m
      <4>3. m = k
        BY <2>2, <4>2
      <4> QED BY <4>3 DEF m
    <3> HIDE DEF d, r
    <3>3. f[d] = EraseKey(f[r], c[k].key) /\ g[d] = Abstract!Drop(g[r], t[k].key)
      BY <1>3, <1>4, <3>1, <3>2 DEF BytesFold, EntriesFold
    <3>4. Holds(f[r], g[r]) /\ (f[r] = b \/ Len(f[r]) < Len(b))
      BY <2>3, <2>5 DEF r
    <3>5. c[k].key = t[k].key
      BY <1>0, <3>1
    <3>6. PICK x, y : x = f[r] /\ y = g[r] /\ Holds(x, y)
      BY <3>4
    <3>7. PICK key : key = c[k].key
      OBVIOUS
    <3> DEFINE z == EraseNewest(x, Elements(x), key)
    <3>8. Holds(z, Abstract!Drop(y, key)) /\ (z = x \/ Len(z) < Len(x))
      BY <3>6, HoldsDropped
    <3>9. f[d] = z
      BY <3>3, <3>6, <3>7 DEF EraseKey
    <3>10. g[d] = Abstract!Drop(y, key)
      BY <3>3, <3>5, <3>6, <3>7
    <3> HIDE DEF z
    <3>11. Holds(f[d], g[d])
      BY <3>8, <3>9, <3>10
    <3>12. f[d] = b \/ Len(f[d]) < Len(b)
      <4>1. b \in Seq(Nat) /\ x \in Seq(Nat) /\ z \in Seq(Nat)
        BY <3>6, <3>8, HoldsFacts
      <4>2. Len(b) \in Nat /\ Len(x) \in Nat /\ Len(z) \in Nat
        BY <4>1
      <4> QED BY <3>4, <3>6, <3>8, <3>9, <4>2
    <3>13. Ok(k)
      BY <3>11, <3>12 DEF d
    <3> QED BY <2>2, <3>13
  <2> QED BY <2>4, <2>5
<1>6. Ok(n)
  <2>1. n \notin T /\ n <= n
    BY <1>5
  <2> HIDE DEF Ok
  <2> QED BY <2>1
<1> QED BY <1>1, <1>2, <1>6 DEF DropsAll

-----------------------------------------------------------------------------
(* Buffers and handles.                                                     *)

\* The five parts of an epigram.
IsEpigram(x) ==
    /\ DOMAIN x = {"block", "end", "bytes", "size", "sequence"}
    /\ x.sequence \in Nat

Formed == DOMAIN epigram = Epigrams /\ \A e \in Epigrams : IsEpigram(epigram[e])

\* A handle is no newer than its epigram, and as long as it is as new it is true: it is on
\* the newest element of its key, or on some element if it has none.
TrueTo(g, x, elements) ==
    /\ g.on \in Epigrams /\ g.key \in Keys \cup {NoKey}
    /\ g.found => g.sequence \in Nat /\ g.sequence <= x.sequence
    /\ g.found /\ g.sequence = x.sequence /\ x.end = x.block =>
         /\ g.block = x.block /\ g.element \in Range(elements)
         /\ g.key # NoKey => LET i == Newest(elements, g.key) IN
                              i \in DOMAIN elements /\ g.element = elements[i]

Fresh ==
    /\ DOMAIN handle = Handles
    /\ \A h \in Handles : handle[h] # NoHandle =>
         /\ handle[h].on \in Epigrams
         /\ TrueTo(handle[h], epigram[handle[h].on], contents[handle[h].on])

\* A block belongs to one epigram or is free.
OneOwner(ep, h) ==
    /\ DOMAIN h \subseteq HeapBlocks
    /\ \A e \in Epigrams : ep[e].block \in DOMAIN h \cup {e}
    /\ \A e, f \in Epigrams : ep[e].block = ep[f].block => e = f
    /\ \A b \in DOMAIN h : \E e \in Epigrams : ep[e].block = b
    /\ \A e \in Epigrams : ep[e].end = ep[e].block =>
         ep[e].size = IF ep[e].block \in HeapBlocks THEN h[ep[e].block] ELSE StackSize[ep[e].block]

Owners == OneOwner(epigram, heap)

IInv == Formed /\ Fresh /\ Owners

-----------------------------------------------------------------------------
(* Buffers.                                                                 *)

\* What a step does to bytes and sequence is nothing to the buffers.
LEMMA OwnersKept ==
  ASSUME NEW ep, NEW fp, NEW h, OneOwner(ep, h),
         \A e \in Epigrams : fp[e].block = ep[e].block /\ fp[e].end = ep[e].end /\ fp[e].size = ep[e].size
  PROVE  OneOwner(fp, h)
BY DEF OneOwner

\* An epigram gives its block up, and starts in itself again.
LEMMA OwnersReset ==
  ASSUME NEW ep, NEW fp, NEW h, OneOwner(ep, h), NEW e \in Epigrams,
         \A f \in Epigrams \ {e} : fp[f] = ep[f],
         fp[e].block = e, fp[e].end = e => fp[e].size = StackSize[e]
  PROVE  OneOwner(fp, Freed(h, ep[e].block))
<1> DEFINE g == Freed(h, ep[e].block)
<1>1. DOMAIN g = DOMAIN h \ {ep[e].block} /\ \A b \in DOMAIN g : g[b] = h[b]
  BY DEF Freed
<1>2. e \notin HeapBlocks
  BY EpigramAssumption
<1> HIDE DEF g
<1>3. DOMAIN g \subseteq HeapBlocks
  BY <1>1 DEF OneOwner
<1>4. \A f \in Epigrams : fp[f].block \in DOMAIN g \cup {f}
  BY <1>1 DEF OneOwner
<1>5. \A f \in Epigrams \ {e} : fp[f].block # e
  BY <1>2 DEF OneOwner
<1>6. \A f, k \in Epigrams : fp[f].block = fp[k].block => f = k
  BY <1>5 DEF OneOwner
<1>7. \A b \in DOMAIN g : \E f \in Epigrams : fp[f].block = b
  BY <1>1 DEF OneOwner
<1>8. ASSUME NEW f \in Epigrams, fp[f].end = fp[f].block
      PROVE  fp[f].size = IF fp[f].block \in HeapBlocks THEN g[fp[f].block] ELSE StackSize[fp[f].block]
  <2>1. CASE f = e
    BY <1>2, <1>8, <2>1
  <2>2. CASE f # e
    <3>1. fp[f] = ep[f] /\ ep[f].block # ep[e].block
      BY <2>2 DEF OneOwner
    <3>2. ep[f].block \in HeapBlocks => ep[f].block \in DOMAIN g
      BY <1>1, <3>1, EpigramAssumption DEF OneOwner
    <3> QED BY <1>1, <1>8, <3>1, <3>2 DEF OneOwner
  <2> QED BY <2>1, <2>2
<1> QED BY <1>3, <1>4, <1>6, <1>7, <1>8 DEF OneOwner, g

\* An epigram moves to a block that is free, or that it gives up for it.
LEMMA OwnersGrown ==
  ASSUME NEW ep, NEW fp, NEW h, OneOwner(ep, h), NEW e \in Epigrams, NEW b, NEW n,
         \A f \in Epigrams \ {e} : fp[f] = ep[f],
         b \in HeapBlocks \ DOMAIN Freed(h, ep[e].block),
         fp[e].block = b, fp[e].end = b, fp[e].size = n
  PROVE  OneOwner(fp, Allocated(Freed(h, ep[e].block), b, n))
<1> DEFINE g == Allocated(Freed(h, ep[e].block), b, n)
<1>1. /\ DOMAIN g = (DOMAIN h \ {ep[e].block}) \cup {b} /\ g[b] = n
      /\ \A c \in DOMAIN h \ {ep[e].block} : c # b /\ g[c] = h[c]
  BY DEF Freed, Allocated
<1> HIDE DEF g
<1>2. DOMAIN g \subseteq HeapBlocks
  BY <1>1 DEF OneOwner
<1>3. \A f \in Epigrams \ {e} : fp[f].block # b /\ fp[f].block \in (DOMAIN h \ {ep[e].block}) \cup {f}
  BY <1>1, EpigramAssumption DEF OneOwner
<1>4. \A f \in Epigrams : fp[f].block \in DOMAIN g \cup {f}
  BY <1>1, <1>3
<1>5. \A f, k \in Epigrams : fp[f].block = fp[k].block => f = k
  BY <1>3 DEF OneOwner
<1>6. \A c \in DOMAIN g : \E f \in Epigrams : fp[f].block = c
  BY <1>1 DEF OneOwner
<1>7. ASSUME NEW f \in Epigrams, fp[f].end = fp[f].block
      PROVE  fp[f].size = IF fp[f].block \in HeapBlocks THEN g[fp[f].block] ELSE StackSize[fp[f].block]
  BY <1>1, <1>3, <1>7, EpigramAssumption DEF OneOwner
<1> QED BY <1>2, <1>4, <1>5, <1>6, <1>7 DEF OneOwner, g

-----------------------------------------------------------------------------
(* Steps.                                                                   *)

\* What a step may do to epigram e, whatever it does to the bytes.
Touched(e) ==
    /\ IsEpigram(epigram'[e])
    /\ \/ epigram'[e] = epigram[e]
       \/ epigram'[e].sequence > epigram[e].sequence
       \/ epigram'[e].sequence = epigram[e].sequence /\ epigram'[e].end # epigram'[e].block

\* Store in an epigram that is x so far, in heap h: it counts the sequence, and the buffers
\* are owned as they were before it.
LEMMA StoreEffect ==
  ASSUME Formed, NEW e \in Epigrams, NEW x, IsEpigram(x), NEW h, NEW more, Store(e, x, h, more)
  PROVE  /\ DOMAIN epigram' = Epigrams
         /\ \A f \in Epigrams \ {e} : epigram'[f] = epigram[f]
         /\ IsEpigram(epigram'[e]) /\ epigram'[e].sequence = x.sequence + 1
         /\ OneOwner([epigram EXCEPT ![e] = x], h) => Owners'
<1> DEFINE mid == [epigram EXCEPT ![e] = x]
<1>1. mid[e] = x /\ \A f \in Epigrams \ {e} : mid[f] = epigram[f]
  BY DEF Formed
<1> HIDE DEF mid
<1>2. CASE /\ epigram' = [epigram EXCEPT ![e] = [x EXCEPT !.bytes = @ \o more, !.sequence = @ + 1]]
           /\ heap' = h
  <2> DEFINE y == [x EXCEPT !.bytes = @ \o more, !.sequence = @ + 1]
  <2>1. /\ DOMAIN y = DOMAIN x /\ y.sequence = x.sequence + 1
        /\ y.block = x.block /\ y.end = x.end /\ y.size = x.size
    BY DEF IsEpigram
  <2> HIDE DEF y
  <2>2. /\ DOMAIN epigram' = Epigrams /\ epigram'[e] = y
        /\ \A f \in Epigrams \ {e} : epigram'[f] = epigram[f]
    BY <1>2 DEF Formed, y
  <2>3. OneOwner(mid, h) => OneOwner(epigram', h)
    BY <1>1, <2>1, <2>2, OwnersKept
  <2> QED BY <1>2, <2>1, <2>2, <2>3 DEF IsEpigram, Owners, mid
<1>3. CASE \E b \in Blocks(x, h) :
             /\ epigram' = [epigram EXCEPT ![e] = Grown(x, b, more)]
             /\ heap' = Allocated(Freed(h, x.block), b, GrowSize(x.size, Len(more)))
  <2>1. PICK b \in Blocks(x, h) :
          /\ epigram' = [epigram EXCEPT ![e] = Grown(x, b, more)]
          /\ heap' = Allocated(Freed(h, x.block), b, GrowSize(x.size, Len(more)))
    BY <1>3
  <2> DEFINE y == Grown(x, b, more)
             n == GrowSize(x.size, Len(more))
  <2>2. /\ IsEpigram(y) /\ y.sequence = x.sequence + 1
        /\ y.block = b /\ y.end = b /\ y.size = n
    BY DEF IsEpigram, Grown
  <2> HIDE DEF y, n
  <2>3. /\ DOMAIN epigram' = Epigrams /\ epigram'[e] = y
        /\ \A f \in Epigrams \ {e} : epigram'[f] = epigram[f]
    BY <2>1 DEF Formed, y
  <2>4. b \in HeapBlocks \ DOMAIN Freed(h, mid[e].block)
    BY <1>1, <2>1 DEF Blocks
  <2>5. OneOwner(mid, h) => OneOwner(epigram', Allocated(Freed(h, mid[e].block), b, n))
    BY <1>1, <2>2, <2>3, <2>4, OwnersGrown
  <2>6. heap' = Allocated(Freed(h, mid[e].block), b, n)
    BY <1>1, <2>1 DEF n
  <2> QED BY <2>2, <2>3, <2>5, <2>6 DEF Owners, mid
<1> QED BY <1>2, <1>3 DEF Store

\* What has been erased has counted the sequence.
LEMMA ErasedEffect ==
  ASSUME NEW x, IsEpigram(x), NEW b
  PROVE  /\ IsEpigram(Erased(x, b))
         /\ Erased(x, b) = x \/ Erased(x, b).sequence = x.sequence + 1
         /\ Erased(x, b).block = x.block /\ Erased(x, b).end = x.end /\ Erased(x, b).size = x.size
BY DEF IsEpigram, Erased

\* A reset epigram has counted it too.
LEMMA ResetEffect ==
  ASSUME Formed, NEW e \in Epigrams
  PROVE  LET x == ResetAllocator(e) IN
         /\ IsEpigram(x) /\ x.sequence = epigram[e].sequence + 1
         /\ x.block = e /\ x.end = e /\ x.size = StackSize[e]
BY DEF Formed, IsEpigram, ResetAllocator, Inline

Steps ==
    /\ DOMAIN epigram' = Epigrams
    /\ \A e \in Epigrams : Touched(e)
    /\ Owners'

\* What contents becomes.
Walked ==
    contents' = [e \in Epigrams |->
        IF epigram'[e].bytes = epigram[e].bytes THEN contents[e] ELSE Elements(epigram'[e].bytes)]

\* A handle stays true to an epigram that is left alone, and is too old for one that has
\* counted its sequence, or has no buffer until it does.
LEMMA StaysTrue ==
  ASSUME NEW g, NEW x, NEW y, NEW es, NEW fs, TrueTo(g, x, es),
         x.sequence \in Nat, y.sequence \in Nat,
         \/ y = x /\ fs = es
         \/ y.sequence > x.sequence
         \/ y.sequence = x.sequence /\ y.end # y.block
  PROVE  TrueTo(g, y, fs)
<1>1. CASE y = x /\ fs = es
  BY <1>1
<1>2. CASE y.sequence > x.sequence
  <2>1. g.found => g.sequence \in Nat /\ g.sequence <= y.sequence /\ g.sequence # y.sequence
    BY <1>2 DEF TrueTo
  <2> QED BY <2>1 DEF TrueTo
<1>3. CASE y.sequence = x.sequence /\ y.end # y.block
  BY <1>3 DEF TrueTo
<1> QED BY <1>1, <1>2, <1>3

\* Whatever is done to an epigram, its handles stay true or are too old.
LEMMA StepsKeep == ASSUME IInv, Steps, Walked, UNCHANGED handle PROVE IInv'
<1>1. Formed'
  BY DEF Steps, Touched, Formed
<1>2. ASSUME NEW e \in Epigrams, NEW g, TrueTo(g, epigram[e], contents[e])
      PROVE  TrueTo(g, epigram'[e], contents'[e])
  <2>1. Touched(e)
    BY DEF Steps
  <2>2. epigram'[e].bytes = epigram[e].bytes => contents'[e] = contents[e]
    BY DEF Walked
  <2>3. epigram[e].sequence \in Nat /\ epigram'[e].sequence \in Nat
    BY <2>1 DEF IInv, Formed, Touched, IsEpigram
  <2>4. \/ epigram'[e] = epigram[e] /\ contents'[e] = contents[e]
        \/ epigram'[e].sequence > epigram[e].sequence
        \/ epigram'[e].sequence = epigram[e].sequence /\ epigram'[e].end # epigram'[e].block
    BY <2>1, <2>2 DEF Touched
  <2> QED BY <1>2, <2>3, <2>4, StaysTrue, Zenon
<1>3. Fresh'
  BY <1>2 DEF IInv, Fresh
<1> QED BY <1>1, <1>3 DEF IInv, Steps

LEMMA StoreSteps ==
  ASSUME IInv, NEW e \in Epigrams, NEW x, IsEpigram(x), NEW h, NEW more, Store(e, x, h, more),
         x.sequence >= epigram[e].sequence, OneOwner([epigram EXCEPT ![e] = x], h)
  PROVE  Steps
<1>1. /\ DOMAIN epigram' = Epigrams
      /\ \A f \in Epigrams \ {e} : epigram'[f] = epigram[f]
      /\ IsEpigram(epigram'[e]) /\ epigram'[e].sequence = x.sequence + 1 /\ Owners'
  BY StoreEffect DEF IInv
<1>2. x.sequence \in Nat /\ epigram[e].sequence \in Nat
  BY DEF IInv, Formed, IsEpigram
<1>3. epigram'[e].sequence > epigram[e].sequence
  BY <1>1, <1>2
<1> QED BY <1>1, <1>3 DEF Steps, Touched, IInv, Formed

\* An epigram in which bytes have been erased, or that is empty now, and nothing else.
SameBuffer(x, y) == y.block = x.block /\ y.end = x.end /\ y.size = x.size

LEMMA SameBufferOwned ==
  ASSUME IInv, NEW e \in Epigrams, NEW x, SameBuffer(epigram[e], x)
  PROVE  OneOwner([epigram EXCEPT ![e] = x], heap)
<1> DEFINE mid == [epigram EXCEPT ![e] = x]
<1>1. \A f \in Epigrams : mid[f] = IF f = e THEN x ELSE epigram[f]
  BY DEF IInv, Formed
<1>2. \A f \in Epigrams :
        mid[f].block = epigram[f].block /\ mid[f].end = epigram[f].end /\ mid[f].size = epigram[f].size
  BY <1>1 DEF SameBuffer
<1> HIDE DEF mid
<1>3. OneOwner(mid, heap)
  BY <1>2, OwnersKept DEF IInv, Owners
<1> QED BY <1>3 DEF mid

LEMMA EraseSteps ==
  ASSUME IInv, NEW e \in Epigrams, NEW x, IsEpigram(x), SameBuffer(epigram[e], x),
         x = epigram[e] \/ x.sequence = epigram[e].sequence + 1,
         epigram' = [epigram EXCEPT ![e] = x], UNCHANGED heap
  PROVE  Steps
<1>1. DOMAIN epigram' = Epigrams /\ \A f \in Epigrams : epigram'[f] = IF f = e THEN x ELSE epigram[f]
  BY DEF IInv, Formed
<1>2. epigram[e].sequence \in Nat /\ \A f \in Epigrams : IsEpigram(epigram[f])
  BY DEF IInv, Formed, IsEpigram
<1>3. Owners'
  BY SameBufferOwned DEF Owners
<1>4. x = epigram[e] \/ x.sequence > epigram[e].sequence
  BY <1>2
<1> QED BY <1>1, <1>2, <1>3, <1>4 DEF Steps, Touched

\* The block of an epigram that is reset is free, and it starts in itself.
LEMMA ResetOwned ==
  ASSUME IInv, NEW e \in Epigrams, NEW x, x.block = e, x.size = StackSize[e]
  PROVE  OneOwner([epigram EXCEPT ![e] = x], Freed(heap, epigram[e].block))
<1> DEFINE mid == [epigram EXCEPT ![e] = x]
<1>1. mid[e] = x /\ \A f \in Epigrams \ {e} : mid[f] = epigram[f]
  BY DEF IInv, Formed
<1> HIDE DEF mid
<1>2. OneOwner(mid, Freed(heap, epigram[e].block))
  BY <1>1, OwnersReset DEF IInv, Owners
<1> QED BY <1>2 DEF mid

-----------------------------------------------------------------------------
(* The operations.                                                          *)

LEMMA FindItemKeeps ==
  ASSUME IInv, Walked, NEW h \in Handles, NEW e \in Epigrams, NEW k \in Keys,
         FindItem(h, e, k)
  PROVE  IInv'
<1>1. Usable(e) /\ UNCHANGED <<epigram, heap>>
  BY DEF FindItem
<1>2. Formed' /\ Owners'
  BY <1>1 DEF IInv, Formed, Owners
<1>3. \A f \in Epigrams : contents'[f] = contents[f]
  BY <1>1 DEF Walked
<1>4. PICK g : /\ handle' = [handle EXCEPT ![h] = g]
               /\ TrueTo(g, epigram[e], contents[e]) /\ g.on = e
  <2> DEFINE i == Newest(contents[e], k)
  <2>1. CASE i \in DOMAIN contents[e]
    <3> DEFINE g == [on |-> e, key |-> k, found |-> TRUE, block |-> epigram[e].block,
                     sequence |-> epigram[e].sequence, element |-> contents[e][i]]
    <3>1. handle' = [handle EXCEPT ![h] = g]
      BY <2>1 DEF FindItem, Set
    <3>2. contents[e][i] \in Range(contents[e])
      BY <2>1 DEF Range
    <3>3. epigram[e].sequence \in Nat
      BY DEF IInv, Formed, IsEpigram
    <3>4. TrueTo(g, epigram[e], contents[e]) /\ g.on = e
      BY <2>1, <3>2, <3>3 DEF TrueTo
    <3> QED BY <3>1, <3>4
  <2>2. CASE i \notin DOMAIN contents[e]
    <3> DEFINE g == [on |-> e, key |-> k, found |-> FALSE]
    <3>1. handle' = [handle EXCEPT ![h] = g]
      BY <2>2 DEF FindItem
    <3>2. TrueTo(g, epigram[e], contents[e]) /\ g.on = e
      BY DEF TrueTo
    <3> QED BY <3>1, <3>2
  <2> QED BY <2>1, <2>2
<1>5. Fresh'
  BY <1>1, <1>3, <1>4 DEF IInv, Fresh
<1> QED BY <1>2, <1>5 DEF IInv

LEMMA IndexKeeps ==
  ASSUME IInv, Walked, NEW h \in Handles, NEW e \in Epigrams, NEW i, Index(h, e, i)
  PROVE  IInv'
<1>1. UNCHANGED <<epigram, heap>>
  BY DEF Index
<1>2. Formed' /\ Owners'
  BY <1>1 DEF IInv, Formed, Owners
<1>3. \A f \in Epigrams : contents'[f] = contents[f]
  BY <1>1 DEF Walked
<1>4. PICK place \in DOMAIN contents[e] : Set(h, e, NoKey, contents[e][place])
  BY DEF Index
<1> DEFINE g == [on |-> e, key |-> NoKey, found |-> TRUE, block |-> epigram[e].block,
                 sequence |-> epigram[e].sequence, element |-> contents[e][place]]
<1>5. handle' = [handle EXCEPT ![h] = g]
  BY <1>4 DEF Set
<1>6. TrueTo(g, epigram[e], contents[e]) /\ g.on = e
  <2>1. contents[e][place] \in Range(contents[e])
    BY DEF Range
  <2>2. epigram[e].sequence \in Nat
    BY DEF IInv, Formed, IsEpigram
  <2> QED BY <2>1, <2>2 DEF TrueTo
<1> HIDE DEF g
<1>7. Fresh'
  BY <1>1, <1>3, <1>5, <1>6 DEF IInv, Fresh
<1> QED BY <1>2, <1>7 DEF IInv

\* What a handle is set on, and what is left of that when its element is erased.
LEMMA HandleEffect ==
  ASSUME IInv, NEW h \in Handles, UsedHandle(h)
  PROVE  LET e == handle[h].on
             x == EraseItem(handle[h])
         IN  /\ e \in Epigrams /\ IsEpigram(x) /\ SameBuffer(epigram[e], x)
             /\ x = epigram[e] \/ x.sequence = epigram[e].sequence + 1
<1> DEFINE g == handle[h]
           b == EraseRange(epigram[g.on].bytes, g.element.start, g.element.end)
<1>1. g.on \in Epigrams /\ IsEpigram(epigram[g.on])
  BY DEF UsedHandle, IInv, Fresh, Formed
<1>2. EraseItem(g) = epigram[g.on] \/ EraseItem(g) = Erased(epigram[g.on], b)
  BY DEF EraseItem
<1> HIDE DEF g, b
<1>3. /\ g.on \in Epigrams /\ IsEpigram(EraseItem(g)) /\ SameBuffer(epigram[g.on], EraseItem(g))
      /\ EraseItem(g) = epigram[g.on] \/ EraseItem(g).sequence = epigram[g.on].sequence + 1
  BY <1>1, <1>2, ErasedEffect DEF SameBuffer
<1> QED BY <1>3 DEF g

LEMMA EraseThroughKeeps ==
  ASSUME IInv, Walked, NEW h \in Handles, EraseThrough(h)
  PROVE  IInv'
<1>1. UsedHandle(h)
  BY DEF EraseThrough
<1>2. Steps
  BY <1>1, HandleEffect, EraseSteps DEF EraseThrough
<1> QED BY <1>2, StepsKeep DEF EraseThrough

\* Bytes are stored in an epigram that has its buffer still, or is reset just now.
LEMMA StoreSameBuffer ==
  ASSUME IInv, NEW e \in Epigrams, NEW x, IsEpigram(x), SameBuffer(epigram[e], x),
         x = epigram[e] \/ x.sequence = epigram[e].sequence + 1,
         NEW more, Store(e, x, heap, more)
  PROVE  Steps
<1>1. epigram[e].sequence \in Nat
  BY DEF IInv, Formed, IsEpigram
<1>2. x.sequence >= epigram[e].sequence
  BY <1>1
<1>3. OneOwner([epigram EXCEPT ![e] = x], heap)
  BY SameBufferOwned
<1> QED BY <1>2, <1>3, StoreSteps

LEMMA AssignKeeps ==
  ASSUME IInv, Walked, NEW h \in Handles, NEW v, Assign(h, v)
  PROVE  IInv'
<1>1. UsedHandle(h)
  BY DEF Assign
<1>2. Steps
  BY <1>1, HandleEffect, StoreSameBuffer DEF Assign
<1> QED BY <1>2, StepsKeep DEF Assign

LEMMA InKeeps ==
  ASSUME IInv, Walked, NEW e \in Epigrams, NEW k, NEW v, In(e, k, v)
  PROVE  IInv'
<1>1. IsEpigram(epigram[e]) /\ SameBuffer(epigram[e], epigram[e])
  BY DEF IInv, Formed, SameBuffer
<1>2. Steps
  BY <1>1, StoreSameBuffer DEF In
<1> QED BY <1>2, StepsKeep DEF In, Changed

LEMMA EraseKeeps ==
  ASSUME IInv, Walked, NEW e \in Epigrams, NEW k, Erase(e, k)
  PROVE  IInv'
<1> DEFINE b == EraseNewest(epigram[e].bytes, contents[e], k)
           x == Erased(epigram[e], b)
<1>1. epigram' = [epigram EXCEPT ![e] = x] /\ UNCHANGED heap
  BY DEF Erase, IInv, Formed
<1>2. IsEpigram(epigram[e])
  BY DEF IInv, Formed
<1> HIDE DEF b
<1>3. IsEpigram(x) /\ SameBuffer(epigram[e], x)
      /\ (x = epigram[e] \/ x.sequence = epigram[e].sequence + 1)
  BY <1>2, ErasedEffect DEF SameBuffer
<1> HIDE DEF x
<1>4. Steps
  BY <1>1, <1>3, EraseSteps
<1> QED BY <1>4, StepsKeep DEF Erase, Changed

LEMMA ClearKeeps ==
  ASSUME IInv, Walked, NEW e \in Epigrams, Clear(e)
  PROVE  IInv'
<1> DEFINE x == [epigram[e] EXCEPT !.bytes = <<>>, !.sequence = @ + 1]
<1>1. epigram' = [epigram EXCEPT ![e] = x] /\ UNCHANGED heap
  BY DEF Clear, IInv, Formed
<1>2. IsEpigram(x) /\ SameBuffer(epigram[e], x) /\ x.sequence = epigram[e].sequence + 1
  BY DEF IInv, Formed, IsEpigram, SameBuffer
<1> HIDE DEF x
<1>3. Steps
  BY <1>1, <1>2, EraseSteps
<1> QED BY <1>3, StepsKeep DEF Clear, Changed

LEMMA ResetKeeps ==
  ASSUME IInv, Walked, NEW e \in Epigrams, Reset(e)
  PROVE  IInv'
<1> DEFINE x == ResetAllocator(e)
<1>1. /\ IsEpigram(x) /\ x.sequence = epigram[e].sequence + 1
      /\ x.block = e /\ x.end = e /\ x.size = StackSize[e]
  BY ResetEffect DEF IInv
<1> HIDE DEF x
<1>2. /\ DOMAIN epigram' = Epigrams
      /\ \A f \in Epigrams : epigram'[f] = IF f = e THEN x ELSE epigram[f]
  BY DEF Reset, IInv, Formed, x
<1>3. Owners'
  BY <1>1, ResetOwned DEF Reset, Owners, x
<1>4. epigram[e].sequence \in Nat /\ \A f \in Epigrams : IsEpigram(epigram[f])
  BY DEF IInv, Formed, IsEpigram
<1>5. x.sequence > epigram[e].sequence
  BY <1>1, <1>4
<1>6. Steps
  BY <1>1, <1>2, <1>3, <1>4, <1>5 DEF Steps, Touched
<1> QED BY <1>6, StepsKeep DEF Reset, Changed

LEMMA LoadKeeps ==
  ASSUME IInv, Walked, NEW e \in Epigrams, NEW f \in Epigrams, Load(e, f)
  PROVE  IInv'
<1> DEFINE x == [epigram[e] EXCEPT !.bytes = <<>>]
<1>1. IsEpigram(x) /\ SameBuffer(epigram[e], x) /\ x.sequence = epigram[e].sequence
  BY DEF IInv, Formed, IsEpigram, SameBuffer
<1>2. epigram[e].sequence \in Nat
  BY DEF IInv, Formed, IsEpigram
<1>3. Store(e, x, heap, epigram[f].bytes)
  BY DEF Load
<1> HIDE DEF x
<1>4. OneOwner([epigram EXCEPT ![e] = x], heap)
  BY <1>1, SameBufferOwned
<1>5. Steps
  BY <1>1, <1>2, <1>3, <1>4, StoreSteps
<1> QED BY <1>5, StepsKeep DEF Load, Changed

LEMMA MergeSteps ==
  ASSUME IInv, NEW e \in Epigrams, NEW bytes, MergeBytes(e, bytes)
  PROVE  Steps
<1> DEFINE elements == Elements(bytes)
           odd == {i \in DOMAIN elements : ~ Mergeable(elements[i].key)}
           merged == IF odd = {} THEN elements ELSE SubSeq(elements, 1, Min(odd) - 1)
           b == EraseAll(epigram[e].bytes, merged)
           x == Erased(epigram[e], b)
<1>1. \/ Store(e, x, heap, bytes)
      \/ epigram' = [epigram EXCEPT ![e] = x] /\ UNCHANGED heap
  BY DEF MergeBytes, MergeElements
<1>2. IsEpigram(epigram[e])
  BY DEF IInv, Formed
<1> HIDE DEF b
<1>3. IsEpigram(x) /\ SameBuffer(epigram[e], x)
      /\ (x = epigram[e] \/ x.sequence = epigram[e].sequence + 1)
  BY <1>2, ErasedEffect DEF SameBuffer
<1> HIDE DEF x
<1> QED BY <1>1, <1>3, StoreSameBuffer, EraseSteps

LEMMA MergeKeeps ==
  ASSUME IInv, Walked, NEW e \in Epigrams, NEW f, Merge(e, f)
  PROVE  IInv'
<1>1. Steps
  BY MergeSteps DEF Merge
<1> QED BY <1>1, StepsKeep DEF Merge, Changed

LEMMA MergeItemKeeps ==
  ASSUME IInv, Walked, NEW e \in Epigrams, NEW h, MergeItem(e, h)
  PROVE  IInv'
<1>1. Steps
  BY MergeSteps DEF MergeItem
<1> QED BY <1>1, StepsKeep DEF MergeItem, Changed

\* A buffer on the heap is taken over: the epigram moved to has let go of its own, and the
\* one moved from starts in itself, but its end is where it was.
LEMMA OwnersMoved ==
  ASSUME NEW ep, NEW fp, NEW h, OneOwner(ep, h),
         NEW e \in Epigrams, NEW f \in Epigrams, e # f,
         \A k \in Epigrams \ {e, f} : fp[k] = ep[k],
         ep[f].block \in HeapBlocks, ep[f].end = ep[f].block,
         fp[e].block = ep[f].block, fp[e].size = ep[f].size,
         fp[f].block = f, fp[f].end = ep[f].end
  PROVE  OneOwner(fp, Freed(h, ep[e].block))
<1> DEFINE g == Freed(h, ep[e].block)
<1>1. DOMAIN g = DOMAIN h \ {ep[e].block} /\ \A b \in DOMAIN g : g[b] = h[b]
  BY DEF Freed
<1>2. /\ \A k, l \in Epigrams : ep[k].block = ep[l].block => k = l
      /\ \A k \in Epigrams : ep[k].block \in DOMAIN h \cup {k}
      /\ \A k \in Epigrams : k \notin HeapBlocks
      /\ DOMAIN h \subseteq HeapBlocks
  BY EpigramAssumption DEF OneOwner
<1> HIDE DEF g
<1>3. ep[f].block \in DOMAIN g
  BY <1>1, <1>2
<1>4. \A k \in Epigrams : fp[k].block \in DOMAIN g \cup {k}
  BY <1>1, <1>2, <1>3
<1>5. ASSUME NEW k \in Epigrams, NEW l \in Epigrams, fp[k].block = fp[l].block
      PROVE  k = l
  <2>1. \A m \in Epigrams \ {e, f} : fp[m].block # ep[f].block /\ fp[m].block # f
    BY <1>2
  <2>2. ep[f].block # f
    BY <1>2
  <2>3. CASE k \in {e, f} \/ l \in {e, f}
    BY <1>5, <2>1, <2>2, <2>3
  <2>4. CASE k \notin {e, f} /\ l \notin {e, f}
    BY <1>2, <1>5, <2>4
  <2> QED BY <2>3, <2>4
<1>6. ASSUME NEW b \in DOMAIN g PROVE \E k \in Epigrams : fp[k].block = b
  <2>1. PICK k \in Epigrams : ep[k].block = b
    BY <1>1 DEF OneOwner
  <2>2. k # e
    BY <1>1, <2>1
  <2> QED BY <2>1, <2>2
<1>7. ASSUME NEW k \in Epigrams, fp[k].end = fp[k].block
      PROVE  fp[k].size = IF fp[k].block \in HeapBlocks THEN g[fp[k].block] ELSE StackSize[fp[k].block]
  <2>1. k # f
    BY <1>2, <1>7
  <2>2. CASE k = e
    <3>1. ep[f].size = h[ep[f].block]
      BY DEF OneOwner
    <3> QED BY <1>1, <1>3, <2>2, <3>1
  <2>3. CASE k # e
    <3>1. fp[k] = ep[k] /\ ep[k].block # ep[e].block
      BY <1>2, <2>1, <2>3
    <3>2. ep[k].block \in HeapBlocks => ep[k].block \in DOMAIN g
      BY <1>1, <1>2, <3>1
    <3> QED BY <1>1, <1>7, <3>1, <3>2 DEF OneOwner
  <2> QED BY <2>2, <2>3
<1> QED BY <1>1, <1>2, <1>4, <1>5, <1>6, <1>7 DEF OneOwner, g

LEMMA MoveKeeps ==
  ASSUME IInv, Walked, NEW e \in Epigrams, NEW f \in Epigrams, Move(e, f)
  PROVE  IInv'
<1> DEFINE x == ResetAllocator(e)
           y == epigram[f]
           freed == Freed(heap, epigram[e].block)
<1>1. /\ IsEpigram(x) /\ x.sequence = epigram[e].sequence + 1
      /\ x.block = e /\ x.end = e /\ x.size = StackSize[e]
  BY ResetEffect DEF IInv
<1>2. \A k \in Epigrams : IsEpigram(epigram[k]) /\ epigram[k].sequence \in Nat
  BY DEF IInv, Formed, IsEpigram
<1>3. x.sequence \in Nat /\ x.sequence > epigram[e].sequence
  BY <1>1, <1>2
<1>4. CASE y.block \in HeapBlocks
  <2> DEFINE xx == [y EXCEPT !.sequence = x.sequence]
             yy == [y EXCEPT !.block = f, !.bytes = <<>>]
  <2> HIDE DEF x
  <2>1. /\ IsEpigram(xx) /\ xx.sequence = x.sequence
        /\ xx.block = y.block /\ xx.end = y.end /\ xx.size = y.size
    BY <1>2, <1>3 DEF IsEpigram
  <2>2. /\ IsEpigram(yy) /\ yy.sequence = y.sequence
        /\ yy.block = f /\ yy.end = y.end /\ yy.size = y.size
    BY <1>2 DEF IsEpigram
  <2>3. e # f /\ y.end = y.block
    BY DEF Move, Usable
  <2>4. epigram' = [epigram EXCEPT ![e] = xx, ![f] = yy] /\ heap' = freed
    BY <1>4 DEF Move, x
  <2> HIDE DEF xx, yy
  <2>5. /\ DOMAIN epigram' = Epigrams /\ epigram'[e] = xx /\ epigram'[f] = yy
        /\ \A k \in Epigrams \ {e, f} : epigram'[k] = epigram[k]
    BY <2>3, <2>4 DEF IInv, Formed
  <2>6. OneOwner(epigram', freed)
    BY <1>4, <2>1, <2>2, <2>3, <2>5, OwnersMoved DEF IInv, Owners
  <2>7. Touched(e)
    BY <1>3, <2>1, <2>5 DEF Touched
  <2>8. Touched(f)
    <3>1. yy.end # yy.block
      BY <1>4, <2>2, <2>3, EpigramAssumption
    <3> QED BY <2>2, <2>5, <3>1 DEF Touched
  <2>9. \A k \in Epigrams \ {e, f} : Touched(k)
    BY <1>2, <2>5 DEF Touched
  <2> QED BY <2>4, <2>5, <2>6, <2>7, <2>8, <2>9, StepsKeep DEF Move, Changed, Steps, Owners
<1>5. CASE y.block \notin HeapBlocks
  <2>1. Store(e, x, freed, y.bytes)
    BY <1>5 DEF Move
  <2> HIDE DEF x
  <2>2. OneOwner([epigram EXCEPT ![e] = x], freed)
    BY <1>1, ResetOwned
  <2>3. Steps
    <3>1. x.sequence >= epigram[e].sequence
      BY <1>1, <1>2
    <3> HIDE DEF freed, y
    <3> QED BY <1>1, <2>1, <2>2, <3>1, StoreSteps
  <2> QED BY <2>3, StepsKeep DEF Move, Changed
<1> QED BY <1>4, <1>5

\* The sequence of a new epigram starts over, and there is no handle to tell.
LEMMA RenewKeeps ==
  ASSUME IInv, Walked, NEW e \in Epigrams, Renew(e)
  PROVE  IInv'
<1> DEFINE x == Inline(e)
<1>1. IsEpigram(x) /\ x.block = e /\ x.end = e /\ x.size = StackSize[e]
  BY DEF IsEpigram, Inline
<1> HIDE DEF x
<1>2. /\ DOMAIN epigram' = Epigrams
      /\ \A f \in Epigrams : epigram'[f] = IF f = e THEN x ELSE epigram[f]
  BY DEF Renew, IInv, Formed, x
<1>3. Formed'
  BY <1>1, <1>2 DEF IInv, Formed
<1>4. Owners'
  BY <1>1, ResetOwned DEF Renew, Owners, x
<1>5. \A f \in Epigrams \ {e} : contents'[f] = contents[f]
  BY <1>2 DEF Walked
<1>6. Fresh'
  <2>1. /\ DOMAIN handle' = Handles
        /\ \A h \in Handles : handle'[h] # NoHandle =>
             handle'[h] = handle[h] /\ handle[h].on # e
    BY DEF Renew
  <2> QED BY <1>2, <1>5, <2>1 DEF IInv, Fresh
<1> QED BY <1>3, <1>4, <1>6 DEF IInv

-----------------------------------------------------------------------------
(* The theorems.                                                            *)

LEMMA InitKeeps == Init => IInv
<1> SUFFICES ASSUME Init PROVE IInv
  OBVIOUS
<1>1. /\ DOMAIN epigram = Epigrams
      /\ \A e \in Epigrams : /\ IsEpigram(epigram[e])
                             /\ epigram[e].block = e /\ epigram[e].end = e
                             /\ epigram[e].size = StackSize[e]
  BY DEF Init, Inline, IsEpigram
<1>2. Owners
  <2>1. DOMAIN heap = {}
    BY DEF Init
  <2> QED BY <1>1, <2>1, EpigramAssumption DEF Owners, OneOwner
<1>3. Fresh
  BY DEF Init, Fresh
<1> QED BY <1>1, <1>2, <1>3 DEF IInv, Formed

LEMMA NextKeeps == IInv /\ [Next]_vars => IInv'
<1> SUFFICES ASSUME IInv, [Next]_vars PROVE IInv'
  OBVIOUS
<1>1. CASE UNCHANGED vars
  BY <1>1 DEF vars, IInv, Formed, Fresh, Owners
<1>2. CASE Next
  <2>1. Walked
    BY <1>2 DEF Next, Walked
  <2>2. CASE \E h \in Handles, e \in Indexed :
               \/ \E k \in Keys : FindItem(h, e, k)
               \/ \E i \in 0 .. Len(contents[e]) - 1 : Index(h, e, i)
    BY <2>1, <2>2, FindItemKeeps, IndexKeeps, EpigramAssumption
  <2>3. CASE \E h \in Handles, e \in Epigrams : MergeItem(e, h)
    BY <2>1, <2>3, MergeItemKeeps
  <2>4. CASE \E h \in Handles : EraseThrough(h) \/ \E v \in Values : Assign(h, v)
    BY <2>1, <2>4, EraseThroughKeeps, AssignKeeps
  <2>5. CASE \E e \in Epigrams :
               \/ \E k \in Keys : Erase(e, k) \/ \E v \in Values : In(e, k, v)
               \/ Clear(e) \/ Reset(e) \/ Renew(e)
    BY <2>1, <2>5, EraseKeeps, InKeeps, ClearKeeps, ResetKeeps, RenewKeeps
  <2>6. CASE \E e, f \in Epigrams : Load(e, f) \/ Merge(e, f) \/ Move(e, f)
    BY <2>1, <2>6, LoadKeeps, MergeKeeps, MoveKeeps
  <2> QED BY <1>2, <2>2, <2>3, <2>4, <2>5, <2>6 DEF Next, Call
<1> QED BY <1>1, <1>2

\* The strengthening the two theorems below rest on.
THEOREM Invariance == Spec => []IInv
BY InitKeeps, NextKeeps, PTL DEF Spec

\* A handle whose sequence number is its epigram's points to the buffer the epigram has and
\* to an element that is in it, for any number of epigrams and handles and any operations
\* in between: EraseItem and operator = of a handle (Epigram.hpp:2863-2871) may go by the
\* number alone.
THEOREM FreshHandlesAreTrue == Spec => []FreshHandleIsTrue
<1>1. IInv => FreshHandleIsTrue
  BY DEF IInv, Fresh, TrueTo, FreshHandleIsTrue, UsedHandle, Usable
<1> QED BY <1>1, Invariance, PTL

\* Every block in use belongs to one epigram, whose capacity is the block's size, through
\* every growth, reset, move and destruction (Allocate, Reset, operator = (EpigramT &&)):
\* nothing is freed twice, nothing leaks.
THEOREM BuffersHaveOneOwner == Spec => []EachHasOneOwner
<1>1. ASSUME Owners PROVE EachHasOneOwner
  <2>1. \A e \in Epigrams : epigram[e].block \in HeapBlocks \cup {e}
    BY <1>1 DEF Owners, OneOwner
  <2>2. ASSUME NEW b \in HeapBlocks
        PROVE  Cardinality({e \in Epigrams : epigram[e].block = b}) = IF b \in DOMAIN heap THEN 1 ELSE 0
    <3> DEFINE owners == {e \in Epigrams : epigram[e].block = b}
    <3>1. CASE b \in DOMAIN heap
      <4>1. PICK e \in Epigrams : epigram[e].block = b
        BY <1>1, <3>1 DEF Owners, OneOwner
      <4>2. owners = {e}
        BY <1>1, <4>1 DEF Owners, OneOwner
      <4> QED BY <3>1, <4>2, FS_Singleton
    <3>2. CASE b \notin DOMAIN heap
      <4>1. owners = {}
        BY <1>1, <3>2, EpigramAssumption DEF Owners, OneOwner
      <4> QED BY <3>2, <4>1, FS_EmptySet
    <3> QED BY <3>1, <3>2
  <2>3. \A e \in Epigrams : Usable(e) => epigram[e].size = Room(epigram[e].block)
    BY <1>1 DEF Owners, OneOwner, Usable, Room
  <2> QED BY <2>1, <2>2, <2>3 DEF EachHasOneOwner
<1>2. IInv => EachHasOneOwner
  BY <1>1 DEF IInv
<1> QED BY <1>2, Invariance, PTL

-----------------------------------------------------------------------------
(* The bytes are the entries.                                               *)

\* The bytes of each epigram are the elements the walk finds, and fit.
Held ==
    \A e \in Epigrams : \E b, s :
        /\ b = epigram[e].bytes /\ Holds(b, s) /\ contents[e] = Elements(b)
        /\ epigram[e].size \in Nat /\ Len(b) <= epigram[e].size

\* What Abstract takes the contents for.
Entries == [e \in Epigrams |-> EntriesOf(contents[e])]

\* What Held says of one epigram.
LEMMA HeldFacts ==
  ASSUME Held, NEW e \in Epigrams
  PROVE  /\ Holds(epigram[e].bytes, Entries[e]) /\ contents[e] = Elements(epigram[e].bytes)
         /\ epigram[e].size \in Nat /\ Len(epigram[e].bytes) <= epigram[e].size
         /\ Entries[e] = EntriesOf(contents[e])
<1>1. PICK b, s :
        /\ b = epigram[e].bytes /\ Holds(b, s) /\ contents[e] = Elements(b)
        /\ epigram[e].size \in Nat /\ Len(b) <= epigram[e].size
  BY DEF Held
<1>2. EntriesOf(Elements(b)) = s
  BY <1>1, HoldsFacts
<1>3. Entries[e] = EntriesOf(contents[e])
  BY DEF Entries
<1> QED BY <1>1, <1>2, <1>3

\* A step after which epigram e holds the entries t[e].
Yields(t) ==
    \A e \in Epigrams : \E b :
        /\ b = epigram'[e].bytes /\ Holds(b, t[e])
        /\ epigram'[e].size \in Nat /\ Len(b) <= epigram'[e].size

\* Such a step keeps the invariant.
LEMMA YieldsHeld ==
  ASSUME Held, Walked, NEW t, t = [e \in Epigrams |-> t[e]], Yields(t)
  PROVE  Held' /\ Entries' = t
<1>1. ASSUME NEW e \in Epigrams
      PROVE  \E b, s :
               /\ b = epigram'[e].bytes /\ Holds(b, s) /\ contents'[e] = Elements(b)
               /\ epigram'[e].size \in Nat /\ Len(b) <= epigram'[e].size
               /\ EntriesOf(contents'[e]) = t[e]
  <2>1. PICK b : /\ b = epigram'[e].bytes /\ Holds(b, t[e])
                 /\ epigram'[e].size \in Nat /\ Len(b) <= epigram'[e].size
    BY DEF Yields
  <2>2. contents'[e] = Elements(b)
    <3>1. contents'[e] = IF b = epigram[e].bytes THEN contents[e] ELSE Elements(b)
      BY <2>1 DEF Walked
    <3>2. contents[e] = Elements(epigram[e].bytes)
      BY HeldFacts
    <3> QED BY <3>1, <3>2
  <2>3. EntriesOf(contents'[e]) = t[e]
    BY <2>1, <2>2, HoldsFacts
  <2> QED BY <2>1, <2>2, <2>3
<1>2. Held'
  BY <1>1 DEF Held
<1>3. Entries' = t
  BY <1>1 DEF Entries, EntriesOf, Entry
<1> QED BY <1>2, <1>3

\* An epigram that holds s now, and nothing else has changed.
LEMMA OneYields ==
  ASSUME IInv, Held, NEW e \in Epigrams, NEW x, NEW s,
         DOMAIN epigram' = Epigrams, \A f \in Epigrams \ {e} : epigram'[f] = epigram[f],
         x = epigram'[e], Holds(x.bytes, s), x.size \in Nat, Len(x.bytes) <= x.size
  PROVE  Yields([Entries EXCEPT ![e] = s])
<1> DEFINE t == [Entries EXCEPT ![e] = s]
<1>1. t[e] = s /\ \A f \in Epigrams \ {e} : t[f] = Entries[f]
  BY DEF Entries
<1> HIDE DEF t
<1>2. ASSUME NEW f \in Epigrams
      PROVE  \E b : /\ b = epigram'[f].bytes /\ Holds(b, t[f])
                    /\ epigram'[f].size \in Nat /\ Len(b) <= epigram'[f].size
  <2>1. CASE f = e
    BY <1>1, <2>1
  <2>2. CASE f # e
    <3>1. epigram'[f] = epigram[f] /\ t[f] = Entries[f]
      BY <1>1, <2>2
    <3> QED BY <3>1, HeldFacts
  <2> QED BY <2>1, <2>2
<1> QED BY <1>2 DEF Yields, t

\* A buffer that is grown has room for what it is grown for.
LEMMA GrowSizeIsEnough ==
  ASSUME NEW n \in Nat, NEW m \in Nat
  PROVE  GrowSize(n, m) \in Nat /\ n + m <= GrowSize(n, m)
<1> DEFINE k == (n * 207) \div 128
           S == {k, n + m}
<1>1. k \in Nat /\ n + m \in Nat
  OBVIOUS
<1> HIDE DEF k
<1>2. \E x \in S : \A y \in S : x >= y
  <2>1. CASE k >= n + m
    BY <1>1, <2>1
  <2>2. CASE ~ (k >= n + m)
    BY <1>1, <2>2
  <2> QED BY <2>1, <2>2
<1>3. Max(S) \in S /\ \A y \in S : Max(S) >= y
  BY <1>2 DEF Max
<1>4. Max(S) \in Nat /\ Max(S) >= n + m
  BY <1>1, <1>3
<1> DEFINE x == Max(S)
<1>5. GrowSize(n, m) = x
  BY DEF GrowSize, k
<1> HIDE DEF x, S
<1>6. x \in Nat /\ n + m <= x
  BY <1>1, <1>4 DEF x
<1> QED BY <1>5, <1>6

\* Storing more bytes behind those there are, in the same buffer or a larger one.
LEMMA StoreYields ==
  ASSUME IInv, Held, NEW e \in Epigrams, NEW x, IsEpigram(x), NEW h, NEW more, Store(e, x, h, more),
         x.size \in Nat, Len(x.bytes) <= x.size, NEW s, NEW u, Holds(x.bytes, s), Holds(more, u)
  PROVE  Yields([Entries EXCEPT ![e] = s \o u])
<1>1. /\ DOMAIN epigram' = Epigrams
      /\ \A f \in Epigrams \ {e} : epigram'[f] = epigram[f]
  BY StoreEffect DEF IInv
<1> DEFINE c == x.bytes \o more
<1>2. x.bytes \in Seq(Nat) /\ more \in Seq(Nat)
  BY HoldsFacts
<1>3. Holds(c, s \o u)
  BY HoldsConcat
<1>4. Len(c) = Len(x.bytes) + Len(more) /\ Len(x.bytes) \in Nat /\ Len(more) \in Nat
  BY <1>2, ConcatProperties
<1> HIDE DEF c
<1>5. PICK y : /\ y = epigram'[e] /\ y.bytes = c /\ y.size \in Nat /\ Len(c) <= y.size
  <2>1. CASE /\ Fits(x, more)
             /\ epigram' = [epigram EXCEPT ![e] = [x EXCEPT !.bytes = @ \o more, !.sequence = @ + 1]]
    <3> DEFINE y == [x EXCEPT !.bytes = @ \o more, !.sequence = @ + 1]
    <3>1. y.bytes = c /\ y.size = x.size
      BY DEF IsEpigram, c
    <3> HIDE DEF y
    <3>2. epigram'[e] = y
      BY <2>1 DEF IInv, Formed, y
    <3>3. Len(c) <= x.size
      BY <1>4, <2>1 DEF Fits
    <3> QED BY <3>1, <3>2, <3>3
  <2>2. CASE \E b : epigram' = [epigram EXCEPT ![e] = Grown(x, b, more)]
    <3>1. PICK b : epigram' = [epigram EXCEPT ![e] = Grown(x, b, more)]
      BY <2>2
    <3> DEFINE y == Grown(x, b, more)
               n == GrowSize(x.size, Len(more))
    <3>2. y.bytes = c /\ y.size = n
      BY DEF Grown, c
    <3>3. n \in Nat /\ x.size + Len(more) <= n
      BY <1>4, GrowSizeIsEnough
    <3> HIDE DEF y, n
    <3>4. epigram'[e] = y
      BY <3>1 DEF IInv, Formed, y
    <3>5. Len(c) <= n
      BY <1>4, <3>3
    <3> QED BY <3>2, <3>3, <3>4, <3>5
  <2> QED BY <2>1, <2>2 DEF Store
<1> QED BY <1>1, <1>3, <1>5, OneYields

\* Bytes are erased from an epigram, or it is emptied, and nothing else.
LEMMA LessYields ==
  ASSUME IInv, Held, NEW e \in Epigrams, NEW x, epigram' = [epigram EXCEPT ![e] = x],
         x.size \in Nat, Len(x.bytes) <= x.size, NEW s, Holds(x.bytes, s)
  PROVE  Yields([Entries EXCEPT ![e] = s])
<1>1. /\ DOMAIN epigram' = Epigrams /\ epigram'[e] = x
      /\ \A f \in Epigrams \ {e} : epigram'[f] = epigram[f]
  BY DEF IInv, Formed
<1> QED BY <1>1, OneYields

-----------------------------------------------------------------------------
(* Each operation, and what it is to the entries.                           *)

Becomes(e, s, how) == by' = how /\ Entries' = [Entries EXCEPT ![e] = s]

\* An epigram becomes s: the same thing said by Abstract.
LEMMA AbstractBecomes ==
  ASSUME NEW e, NEW s, NEW how, Becomes(e, s, how)
  PROVE  Abstract!Becomes(e, s, how)
BY DEF Becomes, Abstract!Becomes, Entries, EntriesOf, Entry

\* The entries of one epigram.
LEMMA EntriesFacts ==
  /\ DOMAIN Entries = Epigrams
  /\ \A e \in Epigrams : Entries[e] = [i \in DOMAIN contents[e] |-> Entry(contents[e][i])]
BY DEF Entries, EntriesOf

\* From what an operation yields to the invariant and the entries.
LEMMA YieldsBecomes ==
  ASSUME Held, Walked, NEW e \in Epigrams, NEW s, NEW how,
         Yields([Entries EXCEPT ![e] = s]), by' = how
  PROVE  Held' /\ Becomes(e, s, how)
<1> DEFINE t == [Entries EXCEPT ![e] = s]
<1>1. t = [f \in Epigrams |-> t[f]]
  BY DEF Entries
<1> HIDE DEF t
<1>2. Yields(t)
  BY DEF t
<1>3. Held' /\ Entries' = t
  BY <1>1, <1>2, YieldsHeld
<1> QED BY <1>3 DEF Becomes, t

\* An element put in is one entry.
LEMMA OneIsAny ==
  ASSUME NEW k \in AnyKeys, NEW v \in AnyValues
  PROVE  [key |-> k, value |-> Stored(v)] \in AnyEntries
<1> DEFINE p == [key |-> k, value |-> v]
<1>1. p \in Pairs /\ p.key = k /\ p.value = v
  BY DEF Pairs
<1> HIDE DEF p
<1> QED BY <1>1 DEF AnyEntries

\* In and SetItem put an entry behind the others.
LEMMA InHolds ==
  ASSUME IInv, Held, Walked, NEW e \in Epigrams, NEW k \in AnyKeys, NEW v \in AnyValues, In(e, k, v)
  PROVE  Held' /\ Abstract!Add(e, k, Stored(v))
<1> DEFINE u == [key |-> k, value |-> Stored(v)]
           s == Entries[e]
<1>1. Holds(Element(k, v), <<u>>)
  BY HoldsOne
<1>2. /\ Holds(epigram[e].bytes, s) /\ epigram[e].size \in Nat
      /\ Len(epigram[e].bytes) <= epigram[e].size
  BY HeldFacts
<1>3. IsEpigram(epigram[e])
  BY DEF IInv, Formed
<1>4. Store(e, epigram[e], heap, Element(k, v)) /\ by' = "key"
  BY DEF In, Changed
<1> HIDE DEF u, s
<1>5. Yields([Entries EXCEPT ![e] = s \o <<u>>])
  BY <1>1, <1>2, <1>3, <1>4, StoreYields
<1>6. Held' /\ Becomes(e, s \o <<u>>, "key")
  BY <1>4, <1>5, YieldsBecomes
<1>7. s \o <<u>> = Append(s, u)
  <2>1. s \in Seq(AnyEntries)
    BY <1>2, HoldsFacts
  <2>2. u \in AnyEntries
    BY OneIsAny DEF u
  <2> QED BY <2>1, <2>2, AppendIsConcat
<1>8. Abstract!Becomes(e, Append(s, u), "key")
  BY <1>6, <1>7, AbstractBecomes
<1>9. s = [i \in DOMAIN contents[e] |-> Entry(contents[e][i])]
  BY EntriesFacts DEF s
<1> QED BY <1>6, <1>8, <1>9 DEF Abstract!Add, Abstract!Entry, u

\* Erase takes the newest of its key away.
LEMMA EraseHolds ==
  ASSUME IInv, Held, Walked, NEW e \in Epigrams, NEW k, Erase(e, k)
  PROVE  Held' /\ Abstract!Discard(e, k)
<1> DEFINE s == Entries[e]
           b == epigram[e].bytes
           c == EraseNewest(b, Elements(b), k)
           x == Erased(epigram[e], c)
           t == Abstract!Drop(s, k)
<1>1. /\ Holds(b, s) /\ epigram[e].size \in Nat /\ Len(b) <= epigram[e].size
      /\ contents[e] = Elements(b)
  BY HeldFacts
<1>2. epigram' = [epigram EXCEPT ![e] = x] /\ by' = "key"
  BY <1>1 DEF Erase, IInv, Formed, Changed
<1> HIDE DEF s
<1>3. Holds(c, t) /\ (c = b \/ Len(c) < Len(b))
  BY <1>1, HoldsDropped
<1>4. IsEpigram(epigram[e])
  BY DEF IInv, Formed
<1> HIDE DEF c, t
<1>5. x.bytes = c /\ x.size = epigram[e].size
  BY <1>4 DEF Erased, IsEpigram
<1>6. Len(c) <= epigram[e].size
  <2>1. b \in Seq(Nat) /\ c \in Seq(Nat)
    BY <1>1, <1>3, HoldsFacts
  <2>2. Len(b) \in Nat /\ Len(c) \in Nat
    BY <2>1
  <2> QED BY <1>1, <1>3, <2>2
<1> HIDE DEF x
<1>7. Yields([Entries EXCEPT ![e] = t])
  BY <1>1, <1>2, <1>3, <1>5, <1>6, LessYields
<1>8. Held' /\ Becomes(e, t, "key")
  BY <1>2, <1>7, YieldsBecomes
<1>9. Abstract!Becomes(e, t, "key")
  BY <1>8, AbstractBecomes
<1>10. s = [i \in DOMAIN contents[e] |-> Entry(contents[e][i])]
  BY EntriesFacts DEF s
<1> QED BY <1>8, <1>9, <1>10 DEF Abstract!Discard, t

\* Clear, Reset and Renew: an epigram that is empty.
LEMMA EmptyHolds ==
  ASSUME IInv, Held, Walked, NEW e \in Epigrams, NEW x, epigram' = [epigram EXCEPT ![e] = x],
         x.bytes = <<>>, x.size \in Nat, by' = "key"
  PROVE  Held' /\ Abstract!Empty(e)
<1>1. Holds(x.bytes, <<>>) /\ Len(x.bytes) <= x.size
  BY HoldsNothing
<1>2. Yields([Entries EXCEPT ![e] = <<>>])
  BY <1>1, LessYields
<1>3. Held' /\ Becomes(e, <<>>, "key")
  BY <1>2, YieldsBecomes
<1> QED BY <1>3, AbstractBecomes DEF Abstract!Empty

\* Clear and Renew.
LEMMA ClearHolds ==
  ASSUME IInv, Held, Walked, NEW e \in Epigrams, Clear(e)
  PROVE  Held' /\ Abstract!Empty(e)
<1> DEFINE x == [epigram[e] EXCEPT !.bytes = <<>>, !.sequence = @ + 1]
<1>1. epigram' = [epigram EXCEPT ![e] = x] /\ by' = "key"
  BY DEF Clear, Changed, IInv, Formed
<1>2. x.bytes = <<>> /\ x.size \in Nat
  BY HeldFacts DEF IInv, Formed, IsEpigram
<1> HIDE DEF x
<1> QED BY <1>1, <1>2, EmptyHolds

\* ResetEpigram, Clear when the buffer has grown.
LEMMA ResetHolds ==
  ASSUME IInv, Held, Walked, NEW e \in Epigrams, Reset(e) \/ Renew(e)
  PROVE  Held' /\ Abstract!Empty(e)
<1>1. PICK x : /\ epigram' = [epigram EXCEPT ![e] = x] /\ by' = "key"
               /\ x.bytes = <<>> /\ x.size = StackSize[e]
  BY DEF Reset, Renew, Changed, ResetAllocator, Inline
<1>2. x.size \in Nat
  BY <1>1, EpigramAssumption
<1> QED BY <1>1, <1>2, EmptyHolds

\* SetBytes replaces what an epigram has by the bytes of another.
LEMMA LoadHolds ==
  ASSUME IInv, Held, Walked, NEW e \in Epigrams, NEW f \in Epigrams, Load(e, f)
  PROVE  Held' /\ Abstract!Copy(e, f)
<1> DEFINE x == [epigram[e] EXCEPT !.bytes = <<>>]
           t == Entries[f]
<1>1. IsEpigram(x) /\ x.bytes = <<>> /\ x.size \in Nat
  BY HeldFacts DEF IInv, Formed, IsEpigram
<1>2. Store(e, x, heap, epigram[f].bytes) /\ by' = "key"
  BY DEF Load, Changed
<1>3. Holds(x.bytes, <<>>) /\ Len(x.bytes) <= x.size
  BY <1>1, HoldsNothing
<1>4. Holds(epigram[f].bytes, t)
  BY HeldFacts
<1> HIDE DEF x, t
<1>5. Yields([Entries EXCEPT ![e] = <<>> \o t])
  BY <1>1, <1>2, <1>3, <1>4, StoreYields
<1>6. <<>> \o t = t
  <2>1. t \in Seq(AnyEntries)
    BY <1>4, HoldsFacts
  <2> QED BY <2>1, ConcatEmptySeq
<1>7. Held' /\ Becomes(e, t, "key")
  BY <1>2, <1>5, <1>6, YieldsBecomes
<1>8. Abstract!Becomes(e, t, "key")
  BY <1>7, AbstractBecomes
<1>9. t = [i \in DOMAIN contents[f] |-> Entry(contents[f][i])]
  BY EntriesFacts DEF t
<1> QED BY <1>7, <1>8, <1>9 DEF Abstract!Copy

\* A handle's element is an entry: the newest of its key, or the one at its place; if it is
\* stale it is none.
LEMMA HandleHolds ==
  ASSUME IInv, Held, NEW h \in Handles, UsedHandle(h)
  PROVE  LET g == handle[h]
             e == g.on
             x == EraseItem(g)
         IN  /\ e \in Epigrams /\ IsEpigram(x) /\ g.key \in Keys \cup {NoKey}
             /\ x.size = epigram[e].size /\ x.size \in Nat /\ Len(x.bytes) <= x.size
             /\ \E i \in 0 .. Len(Entries[e]) :
                  /\ Holds(x.bytes, Abstract!Without(Entries[e], i))
                  /\ g.key # NoKey /\ i # 0 => i = Abstract!Newest(Entries[e], g.key)
<1> PICK g : g = handle[h]
  OBVIOUS
<1> PICK e : e = g.on
  OBVIOUS
<1>1. e \in Epigrams /\ TrueTo(g, epigram[e], contents[e]) /\ epigram[e].end = epigram[e].block
  BY DEF UsedHandle, Usable, IInv, Fresh
<1>2. g.key \in Keys \cup {NoKey}
  BY <1>1 DEF TrueTo
<1>3. IsEpigram(EraseItem(g)) /\ SameBuffer(epigram[e], EraseItem(g))
  BY HandleEffect
<1> PICK b : b = epigram[e].bytes
  OBVIOUS
<1> PICK s : s = Entries[e]
  OBVIOUS
<1>4. /\ Holds(b, s) /\ contents[e] = Elements(b) /\ epigram[e].size \in Nat
      /\ Len(b) <= epigram[e].size
  BY <1>1, HeldFacts
<1>5. b \in Seq(Nat) /\ Len(b) \in Nat /\ Len(s) \in Nat /\ DOMAIN Elements(b) = 1 .. Len(s)
  BY <1>4, HoldsFacts
<1>6. EraseItem(g).size = epigram[e].size /\ EraseItem(g).size \in Nat
  BY <1>3, <1>4 DEF SameBuffer
<1>7. CASE g.found /\ g.sequence = epigram[e].sequence
  <2>1. PICK i \in DOMAIN Elements(b) :
          /\ g.element = Elements(b)[i]
          /\ g.key # NoKey => i = Newest(Elements(b), g.key)
    <3>1. CASE g.key # NoKey
      BY <1>1, <1>4, <1>7, <3>1 DEF TrueTo
    <3>2. CASE g.key = NoKey
      <4>1. g.element \in Range(Elements(b))
        BY <1>1, <1>4, <1>7 DEF TrueTo
      <4> QED BY <3>2, <4>1 DEF Range
    <3> QED BY <3>1, <3>2
  <2>2. i \in 1 .. Len(s) /\ i # 0 /\ i \in 0 .. Len(s)
    BY <1>5, <2>1
  <2> PICK c : c = EraseRange(b, g.element.start, g.element.end)
    OBVIOUS
  <2>3. Holds(c, RemoveAt(s, i)) /\ Len(c) < Len(b)
    BY <1>4, <2>1, <2>2, HoldsElement
  <2>4. EraseItem(g) = Erased(epigram[e], c)
    BY <1>7 DEF EraseItem
  <2>5. EraseItem(g).bytes = c
    BY <1>1, <2>4 DEF Erased, IInv, Formed, IsEpigram
  <2>6. Abstract!Without(s, i) = RemoveAt(s, i)
    BY <2>2 DEF Abstract!Without, Abstract!RemoveAt, RemoveAt
  <2>7. g.key # NoKey => i = Abstract!Newest(s, g.key)
    BY <1>4, <2>1, NewestAgrees
  <2>8. Len(c) <= epigram[e].size
    <3>1. c \in Seq(Nat)
      BY <2>3, HoldsFacts
    <3>2. Len(c) \in Nat
      BY <3>1
    <3> QED BY <1>4, <1>5, <2>3, <3>2
  <2> QED BY <1>1, <1>2, <1>3, <1>6, <2>2, <2>3, <2>5, <2>6, <2>7, <2>8
<1>8. CASE ~ (g.found /\ g.sequence = epigram[e].sequence)
  <2>1. EraseItem(g) = epigram[e]
    BY <1>8 DEF EraseItem
  <2>2. Abstract!Without(s, 0) = s
    BY DEF Abstract!Without
  <2>3. 0 \in 0 .. Len(s)
    BY <1>5
  <2> QED BY <1>1, <1>2, <1>3, <1>4, <2>1, <2>2, <2>3
<1> QED BY <1>7, <1>8

\* What erasing through a handle may be to the entries of e.
ErasesThrough(e) ==
    \/ Abstract!Copy(e, e)
    \/ \E k \in Keys : Abstract!Discard(e, k)
    \/ \E i \in 0 .. Len(Entries[e]) : Abstract!RemovePlace(e, i)

\* Erasing through a handle, which may be stale by then.
LEMMA EraseThroughHolds ==
  ASSUME IInv, Held, Walked, NEW h \in Handles, EraseThrough(h)
  PROVE  Held' /\ \E e \in Epigrams : ErasesThrough(e)
<1> PICK g : g = handle[h]
  OBVIOUS
<1> PICK e : e = g.on
  OBVIOUS
<1> PICK x : x = EraseItem(g)
  OBVIOUS
<1> PICK s : s = Entries[e]
  OBVIOUS
<1>1. /\ UsedHandle(h) /\ epigram' = [epigram EXCEPT ![e] = x]
      /\ by' = Named(g)
  BY DEF EraseThrough
<1>2. /\ e \in Epigrams /\ g.key \in Keys \cup {NoKey}
      /\ x.size \in Nat /\ Len(x.bytes) <= x.size
  BY <1>1, HandleHolds
<1>3. PICK i \in 0 .. Len(s) :
        /\ Holds(x.bytes, Abstract!Without(s, i))
        /\ g.key # NoKey /\ i # 0 => i = Abstract!Newest(s, g.key)
  BY <1>1, HandleHolds
<1> PICK t : t = Abstract!Without(s, i)
  OBVIOUS
<1> PICK how : how = Named(g)
  OBVIOUS
<1>4. Yields([Entries EXCEPT ![e] = t])
  BY <1>1, <1>2, <1>3, LessYields
<1>5. Held' /\ Becomes(e, t, how)
  BY <1>1, <1>2, <1>4, YieldsBecomes
<1>6. Abstract!Becomes(e, t, how)
  BY <1>5, AbstractBecomes
<1>7. s = [j \in DOMAIN contents[e] |-> Entry(contents[e][j])]
  BY <1>2, EntriesFacts
<1>8. CASE g.key = NoKey
  <2>1. how = "place"
    BY <1>8 DEF Named
  <2>2. Abstract!RemovePlace(e, i)
    BY <1>2, <1>6, <1>7, <2>1 DEF Abstract!RemovePlace
  <2> QED BY <1>2, <1>5, <2>2 DEF ErasesThrough
<1>9. CASE g.key # NoKey
  <2>1. how = "key" /\ g.key \in Keys
    BY <1>2, <1>9 DEF Named
  <2>2. CASE i = 0
    <3>1. t = s
      BY <2>2 DEF Abstract!Without
    <3>2. Abstract!Copy(e, e)
      BY <1>2, <1>6, <1>7, <2>1, <3>1 DEF Abstract!Copy
    <3> QED BY <1>2, <1>5, <3>2 DEF ErasesThrough
  <2>3. CASE i # 0
    <3>1. t = Abstract!Drop(s, g.key)
      BY <1>3, <1>9, <2>3 DEF Abstract!Drop
    <3>2. Abstract!Discard(e, g.key)
      BY <1>2, <1>6, <1>7, <2>1, <3>1 DEF Abstract!Discard
    <3> QED BY <1>2, <1>5, <2>1, <3>2 DEF ErasesThrough
  <2> QED BY <2>2, <2>3
<1> QED BY <1>8, <1>9

\* What assigning v through a handle may be to them.
Assigns(e, v) ==
    \/ \E k \in Keys : Abstract!Add(e, k, v) \/ Abstract!Replace(e, k, v)
    \/ \E i \in 0 .. Len(Entries[e]) : Abstract!ReplacePlace(e, i, v)

\* Assigning through a handle: the old element is erased and the new one put behind the others.
LEMMA AssignHolds ==
  ASSUME IInv, Held, Walked, NEW h \in Handles, NEW v \in AnyValues, Assign(h, v)
  PROVE  Held' /\ \E e \in Epigrams : Assigns(e, Stored(v))
<1> PICK g : g = handle[h]
  OBVIOUS
<1> PICK e : e = g.on
  OBVIOUS
<1> PICK k : k = g.key
  OBVIOUS
<1> PICK x : x = EraseItem(g)
  OBVIOUS
<1> PICK s : s = Entries[e]
  OBVIOUS
<1> PICK u : u = [key |-> k, value |-> Stored(v)]
  OBVIOUS
<1>1. /\ UsedHandle(h) /\ Store(e, x, heap, Element(k, v))
      /\ by' = Named(g)
  BY DEF Assign
<1>2. /\ e \in Epigrams /\ k \in Keys \cup {NoKey} /\ IsEpigram(x)
      /\ x.size \in Nat /\ Len(x.bytes) <= x.size
  BY <1>1, HandleHolds
<1>3. PICK i \in 0 .. Len(s) :
        /\ Holds(x.bytes, Abstract!Without(s, i))
        /\ k # NoKey /\ i # 0 => i = Abstract!Newest(s, k)
  BY <1>1, HandleHolds
<1> PICK t : t = Abstract!Without(s, i)
  OBVIOUS
<1> PICK how : how = Named(g)
  OBVIOUS
<1>4. k \in AnyKeys
  BY <1>2, EpigramAssumption DEF AnyKeys
<1>5. Holds(Element(k, v), <<u>>)
  BY <1>4, HoldsOne
<1>6. Yields([Entries EXCEPT ![e] = t \o <<u>>])
  BY <1>1, <1>2, <1>3, <1>5, StoreYields
<1>7. t \o <<u>> = Append(t, u)
  <2>1. t \in Seq(AnyEntries)
    BY <1>3, HoldsFacts
  <2>2. u \in AnyEntries
    BY <1>4, OneIsAny
  <2> QED BY <2>1, <2>2, AppendIsConcat
<1>8. Held' /\ Becomes(e, Append(t, u), how)
  BY <1>1, <1>2, <1>6, <1>7, YieldsBecomes
<1>9. Abstract!Becomes(e, Append(t, u), how)
  BY <1>8, AbstractBecomes
<1>10. s = [j \in DOMAIN contents[e] |-> Entry(contents[e][j])]
  BY <1>2, EntriesFacts
<1>11. CASE k = NoKey
  <2>1. how = "place"
    BY <1>11 DEF Named
  <2>2. Abstract!ReplacePlace(e, i, Stored(v))
    BY <1>2, <1>9, <1>10, <1>11, <2>1 DEF Abstract!ReplacePlace, Abstract!Entry
  <2> QED BY <1>2, <1>8, <2>2 DEF Assigns
<1>12. CASE k # NoKey
  <2>1. how = "key" /\ k \in Keys
    BY <1>2, <1>12 DEF Named
  <2>2. CASE i = 0
    <3>1. t = s
      BY <2>2 DEF Abstract!Without
    <3>2. Abstract!Add(e, k, Stored(v))
      BY <1>2, <1>9, <1>10, <2>1, <3>1 DEF Abstract!Add, Abstract!Entry
    <3> QED BY <1>2, <1>8, <2>1, <3>2 DEF Assigns
  <2>3. CASE i # 0
    <3>1. t = Abstract!Drop(s, k)
      BY <1>3, <1>12, <2>3 DEF Abstract!Drop
    <3>2. Abstract!Replace(e, k, Stored(v))
      BY <1>2, <1>9, <1>10, <2>1, <3>1 DEF Abstract!Replace, Abstract!Entry
    <3> QED BY <1>2, <1>8, <2>1, <3>2 DEF Assigns
  <2> QED BY <2>2, <2>3
<1> QED BY <1>11, <1>12

-----------------------------------------------------------------------------
(* Merging.                                                                 *)

\* The first entries of what is merged.
LEMMA PrefixIs ==
  ASSUME NEW s, NEW k \in Nat
  PROVE  SubSeq(s, 1, k) = [j \in 1 .. k |-> s[j]]
<1> DEFINE S == {s[j] : j \in 1 .. k}
           r == SubSeq(s, 1, k)
<1>1. \A j \in 1 .. k : s[j] \in S
  OBVIOUS
<1> HIDE DEF S
<1>2. /\ r \in Seq(S) /\ Len(r) = IF 1 <= k THEN k - 1 + 1 ELSE 0
      /\ \A i \in 1 .. k - 1 + 1 : r[i] = s[1 + i - 1]
  BY <1>1, SubSeqProperties
<1> HIDE DEF r
<1>3. Len(r) = k /\ \A i \in 1 .. k : r[i] = s[i]
  <2>1. k - 1 + 1 = k
    OBVIOUS
  <2>2. Len(r) = k
    BY <1>2
  <2>3. ASSUME NEW i \in 1 .. k PROVE r[i] = s[i]
    <3>1. 1 + i - 1 = i
      OBVIOUS
    <3> QED BY <1>2, <2>1, <3>1
  <2> QED BY <2>2, <2>3
<1>4. r = [i \in 1 .. Len(r) |-> r[i]]
  BY <1>2
<1>5. r = [i \in 1 .. k |-> s[i]]
  BY <1>3, <1>4
<1> QED BY <1>5 DEF r

\* Merging bytes erases every key it can merge and then puts the bytes behind the others.
LEMMA MergeBytesHolds ==
  ASSUME IInv, Held, Walked, NEW e \in Epigrams, NEW c, NEW t, Holds(c, t),
         MergeBytes(e, c), by' = "key"
  PROVE  /\ Held'
         /\ \/ /\ \A i \in DOMAIN t : Mergeable(t[i].key)
               /\ Becomes(e, Abstract!DropAll(Entries[e], t) \o t, "key")
            \/ \E i \in DOMAIN t :
                 /\ ~ Mergeable(t[i].key)
                 /\ \A j \in 1 .. i - 1 : Mergeable(t[j].key)
                 /\ Becomes(e, Abstract!DropAll(Entries[e], SubSeq(t, 1, i - 1)), "key")
<1> PICK els : els = Elements(c)
  OBVIOUS
<1> PICK n : n = Len(t)
  OBVIOUS
<1> PICK s : s = Entries[e]
  OBVIOUS
<1> PICK b : b = epigram[e].bytes
  OBVIOUS
<1>1. /\ t \in Seq(AnyEntries) /\ n \in Nat /\ DOMAIN t = 1 .. n /\ DOMAIN els = 1 .. n
      /\ \A i \in 1 .. n : els[i].key = t[i].key
  BY HoldsFacts
<1>2. Holds(b, s) /\ epigram[e].size \in Nat /\ Len(b) <= epigram[e].size
  BY HeldFacts
<1> PICK odd : odd = {i \in 1 .. n : ~ Mergeable(els[i].key)}
  OBVIOUS
<1> PICK merged : merged = IF odd = {} THEN els ELSE SubSeq(els, 1, Min(odd) - 1)
  OBVIOUS
<1> PICK r : r = EraseAll(b, merged)
  OBVIOUS
<1> PICK x : x = Erased(epigram[e], r)
  OBVIOUS
<1>3. \/ odd = {} /\ Store(e, x, heap, c)
      \/ odd # {} /\ epigram' = [epigram EXCEPT ![e] = x]
  <2>1. {i \in DOMAIN els : ~ Mergeable(els[i].key)} = odd
    BY <1>1
  <2> QED BY <2>1 DEF MergeBytes, MergeElements
<1>4. /\ IsEpigram(epigram[e]) /\ IsEpigram(x) /\ x.bytes = r /\ x.size = epigram[e].size
  <2>1. IsEpigram(epigram[e])
    BY DEF IInv, Formed
  <2>2. x.bytes = r /\ x.size = epigram[e].size
    BY <2>1 DEF Erased, IsEpigram
  <2>3. IsEpigram(x)
    BY <2>1, ErasedEffect
  <2> QED BY <2>1, <2>2, <2>3
<1>5. ASSUME NEW u, Holds(r, u), r = b \/ Len(r) < Len(b) PROVE Len(x.bytes) <= x.size
  <2>1. b \in Seq(Nat) /\ r \in Seq(Nat)
    BY <1>2, <1>5, HoldsFacts
  <2>2. Len(b) \in Nat /\ Len(r) \in Nat
    BY <2>1
  <2>3. Len(r) <= Len(b)
    BY <1>5, <2>2
  <2>4. Len(b) <= epigram[e].size /\ epigram[e].size \in Nat
    BY <1>2
  <2>5. Len(r) <= epigram[e].size
    BY <2>2, <2>3, <2>4
  <2> QED BY <1>4, <2>5
<1>6. CASE odd = {}
  <2> PICK u : u = Abstract!DropAll(s, t)
    OBVIOUS
  <2>1. merged = els /\ Store(e, x, heap, c)
    BY <1>3, <1>6
  <2>2. Holds(r, u) /\ (r = b \/ Len(r) < Len(b))
    <3>1. SameKeys(els, t, n)
      BY <1>1 DEF SameKeys
    <3>2. DropsAll(b, s, els, t)
      BY <1>1, <1>2, <3>1, HoldsAllDropped
    <3> QED BY <2>1, <3>2 DEF DropsAll
  <2>11. x.size \in Nat /\ Len(x.bytes) <= x.size
    BY <1>2, <1>4, <1>5, <2>2
  <2>12. IsEpigram(x) /\ Holds(x.bytes, u)
    BY <1>4, <2>2
  <2>3. Yields([Entries EXCEPT ![e] = u \o t])
    BY <2>1, <2>11, <2>12, StoreYields
  <2>4. Held' /\ Becomes(e, u \o t, "key")
    BY <2>3, YieldsBecomes
  <2>5. \A i \in DOMAIN t : Mergeable(t[i].key)
    BY <1>1, <1>6
  <2> QED BY <2>4, <2>5
<1>7. CASE odd # {}
  <2> PICK m : m = Min(odd)
    OBVIOUS
  <2>1. m \in 1 .. n /\ ~ Mergeable(els[m].key) /\ \A y \in odd : m <= y
    <3>1. odd \subseteq Nat
      BY <1>1
    <3> QED BY <1>7, <3>1, LeastOf
  <2> PICK k : k = m - 1
    OBVIOUS
  <2>2. k \in Nat /\ k + 1 = m /\ k <= n /\ 1 \in Nat
    BY <1>1, <2>1
  <2> PICK part : part = SubSeq(t, 1, k)
    OBVIOUS
  <2> PICK cut : cut = SubSeq(els, 1, k)
    OBVIOUS
  <2>3. DOMAIN cut = 1 .. k /\ DOMAIN part = 1 .. k
        /\ \A j \in 1 .. k : cut[j].key = part[j].key
    <3>1. cut = [j \in 1 .. k |-> els[j]]
      BY <2>2, PrefixIs
    <3>2. part = [j \in 1 .. k |-> t[j]]
      BY <2>2, PrefixIs
    <3>3. \A j \in 1 .. k : j \in 1 .. n
      BY <1>1, <2>2
    <3> QED BY <1>1, <3>1, <3>2, <3>3
  <2>4. merged = cut
    BY <1>7
  <2> PICK u : u = Abstract!DropAll(s, part)
    OBVIOUS
  <2>5. Holds(r, u) /\ (r = b \/ Len(r) < Len(b))
    <3>1. Holds(b, s)
      BY <1>2
    <3>2. r = EraseAll(b, cut)
      BY <2>4
    <3>3. SameKeys(cut, part, k)
      BY <2>3 DEF SameKeys
    <3>4. DropsAll(b, s, cut, part)
      BY <2>2, <3>1, <3>3, HoldsAllDropped
    <3> QED BY <3>2, <3>4 DEF DropsAll
  <2>6. Len(x.bytes) <= x.size
    BY <1>5, <2>5
  <2>11. x.size \in Nat /\ Holds(x.bytes, u) /\ epigram' = [epigram EXCEPT ![e] = x]
    BY <1>2, <1>3, <1>4, <1>7, <2>5
  <2>7. Yields([Entries EXCEPT ![e] = u])
    BY <2>6, <2>11, LessYields
  <2>8. Held' /\ Becomes(e, u, "key")
    BY <2>7, YieldsBecomes
  <2>9. ~ Mergeable(t[m].key) /\ m \in DOMAIN t
    BY <1>1, <2>1
  <2>10. ASSUME NEW j \in 1 .. m - 1 PROVE Mergeable(t[j].key)
    <3>1. j \in 1 .. n /\ ~ (m <= j)
      BY <1>1, <2>1
    <3>2. j \notin odd
      BY <2>1, <3>1
    <3> QED BY <1>1, <3>1, <3>2
  <2> QED BY <2>8, <2>9, <2>10
<1> QED BY <1>6, <1>7

MergesIn(e, t) ==
    \/ /\ \A i \in DOMAIN t : Mergeable(t[i].key)
       /\ Becomes(e, Abstract!DropAll(Entries[e], t) \o t, "key")
    \/ \E i \in DOMAIN t :
         /\ ~ Mergeable(t[i].key)
         /\ \A j \in 1 .. i - 1 : Mergeable(t[j].key)
         /\ Becomes(e, Abstract!DropAll(Entries[e], SubSeq(t, 1, i - 1)), "key")

\* The entries of all the epigrams, as Abstract is given them.
LEMMA EntriesAre ==
  Entries = [e \in Epigrams |-> [i \in DOMAIN contents[e] |-> Entry(contents[e][i])]]
BY DEF Entries, EntriesOf

\* Merging another epigram is a step of Abstract.
LEMMA MergeIsAStep ==
  ASSUME NEW e \in Epigrams, NEW f \in Epigrams, NEW t, t = Entries[f], MergesIn(e, t)
  PROVE  Abstract!Next
<1> PICK w : w = Entries
  OBVIOUS
<1>1. w = [g \in Epigrams |-> [i \in DOMAIN contents[g] |-> Entry(contents[g][i])]]
  BY EntriesAre
<1>2. Abstract!Merge(e, [g \in Epigrams |-> [i \in DOMAIN contents[g] |-> Entry(contents[g][i])]][f])
  <2>1. \/ Abstract!MergeIn(e, [g \in Epigrams |-> [i \in DOMAIN contents[g] |-> Entry(contents[g][i])]][f])
        \/ Abstract!MergeFails(e, [g \in Epigrams |-> [i \in DOMAIN contents[g] |-> Entry(contents[g][i])]][f])
    <3>1. CASE /\ \A i \in DOMAIN t : Mergeable(t[i].key)
               /\ Becomes(e, Abstract!DropAll(w[e], t) \o t, "key")
      <4>1. Abstract!Becomes(e, Abstract!DropAll(w[e], t) \o t, "key")
        BY <3>1, AbstractBecomes
      <4>2. /\ by' = "key"
            /\ [g \in Epigrams |-> [i \in DOMAIN contents[g] |-> Entry(contents[g][i])]]'
                 = [w EXCEPT ![e] = Abstract!DropAll(w[e], t) \o t]
        BY <1>1, <4>1 DEF Abstract!Becomes
      <4> QED BY <1>1, <3>1, <4>2 DEF Abstract!MergeIn, Abstract!Becomes
    <3>2. ASSUME NEW i \in DOMAIN t, ~ Mergeable(t[i].key), \A j \in 1 .. i - 1 : Mergeable(t[j].key),
                 Becomes(e, Abstract!DropAll(w[e], SubSeq(t, 1, i - 1)), "key")
          PROVE Abstract!MergeFails(e, [g \in Epigrams |-> [i_1 \in DOMAIN contents[g] |-> Entry(contents[g][i_1])]][f])
      <4>1. Abstract!Becomes(e, Abstract!DropAll(w[e], SubSeq(t, 1, i - 1)), "key")
        BY <3>2, AbstractBecomes
      <4>2. /\ by' = "key"
            /\ [g \in Epigrams |-> [i_1 \in DOMAIN contents[g] |-> Entry(contents[g][i_1])]]'
                 = [w EXCEPT ![e] = Abstract!DropAll(w[e], SubSeq(t, 1, i - 1))]
        BY <1>1, <4>1 DEF Abstract!Becomes
      <4> QED BY <1>1, <3>2, <4>2 DEF Abstract!MergeFails, Abstract!Becomes
    <3> QED BY <3>1, <3>2 DEF MergesIn
  <2> QED BY <2>1 DEF Abstract!Merge
<1> QED BY <1>2 DEF Abstract!Next, Abstract!Merge

\* Merging one of its elements is a step of Abstract.
LEMMA MergeItemIsAStep ==
  ASSUME NEW e \in Epigrams, NEW f \in Epigrams, NEW k \in DOMAIN Entries[f], NEW t,
         t = <<Entries[f][k]>>, MergesIn(e, t)
  PROVE  Abstract!Next
<1> PICK w : w = Entries
  OBVIOUS
<1>1. w = [g \in Epigrams |-> [i \in DOMAIN contents[g] |-> Entry(contents[g][i])]]
      /\ k \in DOMAIN [g \in Epigrams |-> [i \in DOMAIN contents[g] |-> Entry(contents[g][i])]][f]
  BY EntriesAre
<1>2. Abstract!Merge(e, <<[g \in Epigrams |-> [i \in DOMAIN contents[g] |-> Entry(contents[g][i])]][f][k]>>)
  <2>1. \/ Abstract!MergeIn(e, <<[g \in Epigrams |-> [i \in DOMAIN contents[g] |-> Entry(contents[g][i])]][f][k]>>)
        \/ Abstract!MergeFails(e, <<[g \in Epigrams |-> [i \in DOMAIN contents[g] |-> Entry(contents[g][i])]][f][k]>>)
    <3>1. CASE /\ \A i \in DOMAIN t : Mergeable(t[i].key)
               /\ Becomes(e, Abstract!DropAll(w[e], t) \o t, "key")
      <4>1. Abstract!Becomes(e, Abstract!DropAll(w[e], t) \o t, "key")
        BY <3>1, AbstractBecomes
      <4>2. /\ by' = "key"
            /\ [g \in Epigrams |-> [i \in DOMAIN contents[g] |-> Entry(contents[g][i])]]'
                 = [w EXCEPT ![e] = Abstract!DropAll(w[e], t) \o t]
        BY <1>1, <4>1 DEF Abstract!Becomes
      <4> QED BY <1>1, <3>1, <4>2 DEF Abstract!MergeIn, Abstract!Becomes
    <3>2. ASSUME NEW i \in DOMAIN t, ~ Mergeable(t[i].key), \A j \in 1 .. i - 1 : Mergeable(t[j].key),
                 Becomes(e, Abstract!DropAll(w[e], SubSeq(t, 1, i - 1)), "key")
          PROVE Abstract!MergeFails(e, <<[g \in Epigrams |-> [i_1 \in DOMAIN contents[g] |-> Entry(contents[g][i_1])]][f][k]>>)
      <4>1. Abstract!Becomes(e, Abstract!DropAll(w[e], SubSeq(t, 1, i - 1)), "key")
        BY <3>2, AbstractBecomes
      <4>2. /\ by' = "key"
            /\ [g \in Epigrams |-> [i_1 \in DOMAIN contents[g] |-> Entry(contents[g][i_1])]]'
                 = [w EXCEPT ![e] = Abstract!DropAll(w[e], SubSeq(t, 1, i - 1))]
        BY <1>1, <4>1 DEF Abstract!Becomes
      <4> QED BY <1>1, <3>2, <4>2 DEF Abstract!MergeFails, Abstract!Becomes
    <3> QED BY <3>1, <3>2 DEF MergesIn
  <2> QED BY <2>1 DEF Abstract!Merge
<1> QED BY <1>1, <1>2 DEF Abstract!Next, Abstract!Merge

\* Merge.
LEMMA MergeHolds ==
  ASSUME IInv, Held, Walked, NEW e \in Epigrams, NEW f \in Epigrams, Merge(e, f)
  PROVE  Held' /\ Abstract!Next
<1> PICK t : t = Entries[f]
  OBVIOUS
<1>1. Holds(epigram[f].bytes, t)
  BY HeldFacts
<1>2. MergeBytes(e, epigram[f].bytes) /\ by' = "key"
  BY DEF Merge, Changed
<1>3. Held' /\ MergesIn(e, t)
  BY <1>1, <1>2, MergeBytesHolds DEF MergesIn
<1>4. Abstract!Next
  BY <1>3, MergeIsAStep
<1> QED BY <1>3, <1>4

\* Merging an item.
LEMMA MergeItemHolds ==
  ASSUME IInv, Held, Walked, NEW e \in Epigrams, NEW h \in Handles, MergeItem(e, h)
  PROVE  Held' /\ Abstract!Next
<1> PICK g : g = handle[h]
  OBVIOUS
<1> PICK f : f = g.on
  OBVIOUS
<1> PICK b : b = epigram[f].bytes
  OBVIOUS
<1> PICK t : t = Entries[f]
  OBVIOUS
<1>1. /\ UsedHandle(h) /\ g.found /\ g.sequence = epigram[f].sequence /\ ~ g.element.array
      /\ MergeBytes(e, SubSeq(b, g.element.payload, g.element.end))
      /\ by' = "key"
  BY DEF MergeItem, Changed
<1>2. f \in Epigrams /\ TrueTo(g, epigram[f], contents[f]) /\ epigram[f].end = epigram[f].block
  BY <1>1 DEF UsedHandle, Usable, IInv, Fresh
<1>3. Holds(b, t) /\ contents[f] = Elements(b)
  BY <1>2, HeldFacts
<1>4. DOMAIN Elements(b) = 1 .. Len(t) /\ DOMAIN t = 1 .. Len(t)
  BY <1>3, HoldsFacts
<1>5. g.element \in Range(Elements(b))
  BY <1>1, <1>2, <1>3 DEF TrueTo
<1>6. PICK i \in DOMAIN Elements(b) : g.element = Elements(b)[i]
  BY <1>5 DEF Range
<1>7. i \in 1 .. Len(t) /\ i \in DOMAIN t
  BY <1>4, <1>6
<1> PICK c : c = SubSeq(b, g.element.start, g.element.end)
  OBVIOUS
<1>8. Holds(c, <<t[i]>>) /\ g.element.payload = g.element.start
  <2> PICK x : x = Elements(b)[i]
    OBVIOUS
  <2>1. Holds(SubSeq(b, x.start, x.end), <<t[i]>>) /\ (~ x.array => x.payload = x.start)
    BY <1>3, <1>7, HoldsElement
  <2> QED BY <1>1, <1>6, <2>1
<1>9. MergeBytes(e, c)
  BY <1>1, <1>8
<1>10. Held' /\ MergesIn(e, <<t[i]>>)
  BY <1>1, <1>8, <1>9, MergeBytesHolds DEF MergesIn
<1>11. Abstract!Next
  BY <1>2, <1>7, <1>10, MergeItemIsAStep
<1> QED BY <1>10, <1>11

\* Moving: a heap buffer is handed over, an inline one copied.
LEMMA MoveHolds ==
  ASSUME IInv, Held, Walked, NEW e \in Epigrams, NEW f \in Epigrams, Move(e, f)
  PROVE  Held' /\ Abstract!Move(e, f)
<1> PICK y : y = epigram[f]
  OBVIOUS
<1> PICK t : t = Entries[f]
  OBVIOUS
<1>1. /\ e # f /\ by' = "key"
  BY DEF Move, Changed
<1>2. Holds(y.bytes, t) /\ y.size \in Nat /\ Len(y.bytes) <= y.size
  BY HeldFacts
<1>3. DOMAIN epigram = Epigrams /\ \A k \in Epigrams : IsEpigram(epigram[k])
  BY DEF IInv, Formed
<1>4. \E left \in {<<>>, t} :
        Held' /\ Entries' = [Entries EXCEPT ![e] = t, ![f] = left]
  <2>1. CASE y.block \in HeapBlocks
    <3> PICK n : n = ResetAllocator(e).sequence
      OBVIOUS
    <3> DEFINE xx == [y EXCEPT !.sequence = n]
               yy == [y EXCEPT !.block = f, !.bytes = <<>>]
               s == [Entries EXCEPT ![e] = t, ![f] = <<>>]
    <3>1. epigram' = [epigram EXCEPT ![e] = xx, ![f] = yy]
      BY <2>1 DEF Move
    <3>2. xx.bytes = y.bytes /\ xx.size = y.size
      BY <1>3 DEF IsEpigram
    <3>3. yy.bytes = <<>> /\ yy.size = y.size
      BY <1>3 DEF IsEpigram
    <3> HIDE DEF xx, yy
    <3>4. /\ epigram'[e] = xx /\ epigram'[f] = yy
          /\ \A k \in Epigrams \ {e, f} : epigram'[k] = epigram[k]
      BY <1>1, <1>3, <3>1
    <3>5. s[e] = t /\ s[f] = <<>> /\ (\A k \in Epigrams \ {e, f} : s[k] = Entries[k])
          /\ s = [k \in Epigrams |-> s[k]]
      BY <1>1, EntriesFacts DEF Entries
    <3> HIDE DEF s
    <3>6. ASSUME NEW k \in Epigrams
          PROVE  \E b : /\ b = epigram'[k].bytes /\ Holds(b, s[k])
                        /\ epigram'[k].size \in Nat /\ Len(b) <= epigram'[k].size
      <4>1. CASE k = e
        BY <1>2, <3>2, <3>4, <3>5, <4>1
      <4>2. CASE k = f
        <5>1. Holds(<<>>, s[k]) /\ Len(<<>>) <= y.size
          BY <1>2, <3>5, <4>2, HoldsNothing
        <5> QED BY <1>2, <3>3, <3>4, <4>2, <5>1
      <4>3. CASE k \notin {e, f}
        <5>1. epigram'[k] = epigram[k] /\ s[k] = Entries[k]
          BY <3>4, <3>5, <4>3
        <5> QED BY <5>1, HeldFacts
      <4> QED BY <4>1, <4>2, <4>3
    <3>7. Held' /\ Entries' = s
      BY <3>5, <3>6, YieldsHeld DEF Yields
    <3> QED BY <3>7 DEF s
  <2>2. CASE y.block \notin HeapBlocks
    <3> PICK x : x = ResetAllocator(e)
      OBVIOUS
    <3>1. Store(e, x, Freed(heap, epigram[e].block), y.bytes)
      BY <2>2 DEF Move
    <3>2. IsEpigram(x) /\ x.size = StackSize[e]
      BY ResetEffect DEF IInv
    <3>3. x.bytes = <<>> /\ x.size \in Nat
      BY <3>2, EpigramAssumption DEF ResetAllocator, Inline
    <3>4. Holds(x.bytes, <<>>) /\ Len(x.bytes) <= x.size
      BY <3>3, HoldsNothing
    <3>5. Yields([Entries EXCEPT ![e] = <<>> \o t])
      BY <1>2, <3>1, <3>2, <3>3, <3>4, StoreYields
    <3>6. <<>> \o t = t
      <4>1. t \in Seq(AnyEntries)
        BY <1>2, HoldsFacts
      <4> QED BY <4>1, ConcatEmptySeq
    <3>7. Held' /\ Becomes(e, t, "key")
      BY <1>1, <3>5, <3>6, YieldsBecomes
    <3>8. [Entries EXCEPT ![e] = t] = [Entries EXCEPT ![e] = t, ![f] = t]
      BY <1>1, EntriesFacts DEF Entries
    <3> QED BY <3>7, <3>8 DEF Becomes
  <2> QED BY <2>1, <2>2
<1>5. t = [i \in DOMAIN contents[f] |-> Entry(contents[f][i])]
  BY EntriesFacts
<1>6. Abstract!Move(e, f)
  BY <1>1, <1>4, <1>5 DEF Abstract!Move, Entries, EntriesOf
<1> QED BY <1>4, <1>6

\* Setting a handle is nothing to the entries.
LEMMA HandleSetHolds ==
  ASSUME Held, Walked, UNCHANGED <<epigram, by>>
  PROVE  Held' /\ UNCHANGED <<Entries, by>>
<1>1. \A e \in Epigrams : contents'[e] = contents[e] /\ epigram'[e] = epigram[e]
  BY DEF Walked
<1>2. Held'
  BY <1>1 DEF Held
<1>3. Entries' = Entries
  BY <1>1 DEF Entries, EntriesOf
<1> QED BY <1>2, <1>3

-----------------------------------------------------------------------------
\* At first no bytes hold no entries.
LEMMA InitHolds == Init => Held /\ Abstract!Init
<1> SUFFICES ASSUME Init PROVE Held /\ Abstract!Init
  OBVIOUS
<1>1. ASSUME NEW e \in Epigrams
      PROVE  /\ epigram[e].bytes = <<>> /\ contents[e] = <<>>
             /\ epigram[e].size = StackSize[e] /\ StackSize[e] \in Nat
  BY EpigramAssumption DEF Init, Inline
<1>2. Elements(<<>>) = <<>>
  <2>1. Holds(<<>>, <<>>)
    BY HoldsNothing
  <2>2. DOMAIN Elements(<<>>) = 1 .. Len(<<>>) /\ EntriesOf(Elements(<<>>)) = <<>>
    BY <2>1, HoldsFacts
  <2>3. PICK f : f = [p \in Int |-> WalkBody(f, <<>>, p)] /\ Elements(<<>>) = f[Len(<<>>)]
    <3>1. <<>> \in Seq(Nat)
      OBVIOUS
    <3> QED BY <3>1, ElementsAreWalked
  <2> QED BY <2>3 DEF WalkBody
<1>3. Held
  <2> SUFFICES ASSUME NEW e \in Epigrams
               PROVE  \E b, s : /\ b = epigram[e].bytes /\ Holds(b, s) /\ contents[e] = Elements(b)
                                /\ epigram[e].size \in Nat /\ Len(b) <= epigram[e].size
    BY DEF Held
  <2>1. Len(<<>>) <= epigram[e].size
    BY <1>1
  <2> QED BY <1>1, <1>2, <2>1, HoldsNothing
<1>4. Abstract!Init
  BY <1>1 DEF Abstract!Init, Init
<1> QED BY <1>3, <1>4

\* Every operation keeps the invariant and is a step of Abstract, or changes no entry.
LEMMA NextHolds ==
  ASSUME IInv, Held, Next
  PROVE  Held' /\ [Abstract!Next]_(Abstract!vars)
<1>1. Walked /\ Call
  BY DEF Next, Walked
<1>2. CASE \E h \in Handles, e \in Indexed :
             \/ \E k \in Keys : FindItem(h, e, k)
             \/ \E i \in 0 .. Len(contents[e]) - 1 : Index(h, e, i)
  <2>1. UNCHANGED <<epigram, by>>
    BY <1>2 DEF FindItem, Index
  <2>2. Held' /\ UNCHANGED <<Entries, by>>
    BY <1>1, <2>1, HandleSetHolds
  <2>3. UNCHANGED Abstract!vars
    BY <2>2 DEF Abstract!vars, Entries, EntriesOf, Entry
  <2> QED BY <2>2, <2>3
<1>3. CASE \E h \in Handles, e \in Epigrams : MergeItem(e, h)
  <2>1. PICK h \in Handles, e \in Epigrams : MergeItem(e, h)
    BY <1>3
  <2> QED BY <1>1, <2>1, MergeItemHolds
<1>4. CASE \E h \in Handles : EraseThrough(h)
  <2>1. Held' /\ \E e \in Epigrams : ErasesThrough(e)
    BY <1>1, <1>4, EraseThroughHolds
  <2>2. Abstract!Next
    BY <2>1, EntriesFacts DEF Abstract!Next, ErasesThrough
  <2> QED BY <2>1, <2>2
<1>5. CASE \E h \in Handles : \E v \in Values : Assign(h, v)
  <2>1. PICK h \in Handles, v \in Values : Assign(h, v)
    BY <1>5
  <2>2. v \in AnyValues
    BY EpigramAssumption DEF AnyValues
  <2>3. Held' /\ \E e \in Epigrams : Assigns(e, Stored(v))
    BY <1>1, <2>1, <2>2, AssignHolds
  <2>4. Abstract!Next
    BY <2>3, EntriesFacts DEF Abstract!Next, Assigns
  <2> QED BY <2>3, <2>4
<1>6. CASE \E e \in Epigrams : \E k \in Keys : Erase(e, k)
  <2>1. PICK e \in Epigrams, k \in Keys : Erase(e, k)
    BY <1>6
  <2>2. Held' /\ Abstract!Discard(e, k)
    BY <1>1, <2>1, EraseHolds
  <2> QED BY <2>2 DEF Abstract!Next
<1>7. CASE \E e \in Epigrams : \E k \in Keys : \E v \in Values : In(e, k, v)
  <2>1. PICK e \in Epigrams, k \in Keys, v \in Values : In(e, k, v)
    BY <1>7
  <2>2. k \in AnyKeys /\ v \in AnyValues
    BY EpigramAssumption DEF AnyKeys, AnyValues
  <2>3. Held' /\ Abstract!Add(e, k, Stored(v))
    BY <1>1, <2>1, <2>2, InHolds
  <2> QED BY <2>1, <2>3 DEF Abstract!Next
<1>8. CASE \E e \in Epigrams : Clear(e) \/ Reset(e) \/ Renew(e)
  <2>1. Held' /\ \E e \in Epigrams : Abstract!Empty(e)
    BY <1>1, <1>8, ClearHolds, ResetHolds
  <2> QED BY <2>1 DEF Abstract!Next
<1>9. CASE \E e, f \in Epigrams : Load(e, f) \/ Merge(e, f) \/ Move(e, f)
  <2>1. PICK e \in Epigrams, f \in Epigrams : Load(e, f) \/ Merge(e, f) \/ Move(e, f)
    BY <1>9
  <2>2. CASE Load(e, f)
    <3>1. Held' /\ Abstract!Copy(e, f)
      BY <1>1, <2>2, LoadHolds
    <3> QED BY <3>1 DEF Abstract!Next
  <2>3. CASE Merge(e, f)
    BY <1>1, <2>3, MergeHolds
  <2>4. CASE Move(e, f)
    <3>1. Held' /\ Abstract!Move(e, f)
      BY <1>1, <2>4, MoveHolds
    <3> QED BY <3>1 DEF Abstract!Next
  <2> QED BY <2>1, <2>2, <2>3, <2>4
<1> QED BY <1>1, <1>2, <1>3, <1>4, <1>5, <1>6, <1>7, <1>8, <1>9 DEF Call

\* So every step does.
LEMMA StepHolds == IInv /\ Held /\ [Next]_vars => Held' /\ [Abstract!Next]_(Abstract!vars)
<1> SUFFICES ASSUME IInv, Held, [Next]_vars PROVE Held' /\ [Abstract!Next]_(Abstract!vars)
  OBVIOUS
<1>1. CASE UNCHANGED vars
  <2>1. Held'
    BY <1>1 DEF vars, Held
  <2>2. UNCHANGED Abstract!vars
    BY <1>1 DEF vars, Abstract!vars, Entry
  <2> QED BY <2>1, <2>2
<1>2. CASE Next
  BY <1>2, NextHolds
<1> QED BY <1>1, <1>2

\* What the walk of Iterator finds in the bytes of an epigram are entries, each a key and a
\* value that In could have written, and the bytes fit the buffer's size, whatever was done.
THEOREM BytesAreHeld == Spec => []Held
BY InitHolds, InitKeeps, StepHolds, NextKeeps, PTL DEF Spec

\* The buffers of EpigramHybridAllocator: each in use has one owner, whose bytes fit in it.
THEOREM BytesLieInTheirBuffers == Spec => []BuffersAreOwned
<1>1. IInv /\ Held /\ EachHasOneOwner => BuffersAreOwned
  BY HeldFacts DEF BuffersAreOwned
<1> QED BY <1>1, Invariance, BytesAreHeld, BuffersHaveOneOwner, PTL

\* Every operation of EpigramT, by key, by place or through a handle, does to the bytes what it
\* does to a sequence of entries, and an operation on one epigram leaves the others' alone.
THEOREM BytesAreTheEntries == Spec => ImplementsOrderedEntries
<1>1. Init => Abstract!Init
  BY InitHolds
<1>2. IInv /\ Held /\ [Next]_vars => [Abstract!Next]_(Abstract!vars)
  BY StepHolds
<1> QED BY <1>1, <1>2, Invariance, BytesAreHeld, PTL DEF Spec, ImplementsOrderedEntries, Abstract!Spec
==============================================================================
