--------------------------- MODULE EpigramValues ---------------------------
(* serialization/Epigram.hpp, type handlers, storers and fetchers: how      *)
(* values of every kind become the payload of an element and are fetched    *)
(* again - as what they were, as another type, raw.                         *)
(*                                                                          *)
(* A type is [kind, id, class, version, size, members]: the handler TypeT   *)
(* picks for it, its type id, its class name and version, sizeof, and the   *)
(* members of an object.  A value is its bytes, an enumerator its number,   *)
(* an object its members' values.  A byte is below 2 * Base.  What a fetch  *)
(* reads behind the payload is left open.                                   *)
EXTENDS EpSerialization

CONSTANTS
    Types,
    Items,      \* the values of each type that are stored
    MaxCount,   \* bound: items in a container
    Radix       \* of numbers in text

NoElement == [count |-> 0]
Nothing == [is |-> "nothing"]

VARIABLES
    element,    \* the KeyValue of the element; history: what was stored in it
    fetched     \* history: the last fetch, as which type and what it gave

vars == <<element, fetched>>

Init == element = NoElement /\ fetched = Nothing

-----------------------------------------------------------------------------
(* The type handlers.                                                       *)

Objects == {"object", "versionedObject"}
Named(t) == t.id \in Objects \cup {"enumeration", "pod", "pointer"}

StoreHeader(t) ==
    (IF Named(t) THEN t.class \o <<0>> ELSE <<>>)
      \o (IF t.version > 0 THEN <<t.version>> ELSE <<>>)
      \o (IF t.id = "pod" THEN Encode(t.size) ELSE <<>>)

\* Mutant: the size behind an object is copied, not flipped.
StoreItemUnflipped(t, x) ==
    IF t.id \in Objects
    THEN LET bytes == Serialize(t.members, x) IN bytes \o Encode(Len(bytes))
    ELSE IF t.kind = "string" THEN x \o <<0>>
    ELSE IF t.kind = "enum" THEN Encode(x)
    ELSE IF t.kind = "sized" THEN Encode(Len(x)) \o x ELSE x

\* Objects are followed by their size; a binary or an epigram follows its own.
StoreItem(t, x) ==
    IF t.id \in Objects
    THEN LET bytes == Serialize(t.members, x) IN bytes \o Reverse(Encode(Len(bytes)))
    ELSE IF t.kind = "string" THEN x \o <<0>>
    ELSE IF t.kind = "enum" THEN Encode(x)
    ELSE IF t.kind = "sized" THEN Encode(Len(x)) \o x ELSE x

StoreItems(t, xs) == StoreHeader(t) \o FlattenSeq([i \in DOMAIN xs |-> StoreItem(t, xs[i])])

Failed == [ok |-> FALSE, thrown |-> FALSE]
Throws == [ok |-> FALSE, thrown |-> TRUE]
At(p) == [ok |-> TRUE, at |-> p]

\* Where the items of payload p start for type t, or Failed if it is of another class.
\* A pod of another class or size throws, and so does an object of a later version than
\* its class; objects start at the last byte.
FetchHeader(t, p) ==
    LET name == Len(t.class) + 1
    IN  IF ~ Named(t) THEN At(1)
        ELSE IF ~ IsPrefix(t.class \o <<0>>, p) THEN IF t.id = "pod" THEN Throws ELSE Failed
        ELSE IF t.id = "pod"
        THEN LET size == Decode(p, name + 1, Len(p))
             IN  IF size.value = t.size THEN At(size.next) ELSE Throws
        ELSE IF t.id \notin Objects THEN At(name + 1)
        ELSE IF t.version > 0 /\ (Len(p) = name \/ p[name + 1] > t.version) THEN Throws
        ELSE At(Len(p))

ValueOf(x) == [is |-> "value", value |-> x]
Default == [is |-> "default"]
Thrown == [is |-> "thrown"]
Behind == [is |-> "behind the payload"]

Got(result, next) == [result |-> result, next |-> next]

\* An object is fetched backwards: its size, decoded from at down to first, then itself.
FetchObject(t, p, at, first) ==
    LET size == ReverseDecodeTo(p, at, first)
        start == size.next - size.value
    IN  Got(IF start < 0 THEN Behind ELSE ValueOf(Deserialize(SubSeq(p, start + 1, size.next), t.members)),
            start)

FetchFixed(t, p, at) ==
    LET next == at + t.size
    IN  IF next <= Len(p) + 1 THEN Got(ValueOf(SubSeq(p, at, next - 1)), next)
        ELSE Got(Thrown, at)

FetchString(p, at) ==
    LET null == Min({i \in at .. Len(p) : p[i] = 0})
    IN  Got(ValueOf(SubSeq(p, at, null - 1)), null + 1)

FetchSized(p, at) ==
    LET size == Decode(p, at, Len(p))
        next == size.next + size.value
    IN  Got(ValueOf(SubSeq(p, size.next, next - 1)), next)

FetchEnum(p, at) ==
    LET x == Decode(p, at, Len(p)) IN Got(ValueOf(x.value), x.next)

\* Fetch of one item that starts (an object: ends) at p[at].
Fetch(t, p, at, first) ==
    IF t.kind = "fixed" THEN FetchFixed(t, p, at)
    ELSE IF at \notin DOMAIN p THEN Got(Behind, at)
    ELSE IF t.id \in Objects THEN FetchObject(t, p, at, first)
    ELSE IF t.kind = "string" THEN FetchString(p, at)
    ELSE IF t.kind = "sized" THEN FetchSized(p, at)
    ELSE FetchEnum(p, at)

-----------------------------------------------------------------------------
(* Casts between numbers and text.                                          *)

Numeric(t) == t.id \in {"u8", "u16"}
Byte == 2 * Base

NumberOf(x) == FoldRight(LAMBDA byte, n : byte + Byte * n, x, 0)
BytesOf(n, size) == [i \in 1 .. size |-> (n \div (Byte ^ (i - 1))) % Byte]

Digits(n) ==
    LET from[m \in 0 .. n] ==
            IF m < Radix THEN <<m + 1>> ELSE from[m \div Radix] \o <<(m % Radix) + 1>>
    IN  from[n]
DigitsOf(s) == SelectInSeq(s \o <<0>>, LAMBDA c : c \notin 1 .. Radix) - 1
Parsed(s) == FoldLeft(LAMBDA n, c : n * Radix + c - 1, 0, SubSeq(s, 1, DigitsOf(s)))

\* FundamentalToString: a one-byte number is a character.
Text(s, x) == IF s.size = 1 THEN x ELSE Digits(NumberOf(x))

\* StringToFundamental: what is too large becomes the largest.
FromText(t, s) ==
    IF t.size = 1 THEN IF s = <<>> THEN <<0>> ELSE <<s[1]>>
    ELSE BytesOf(Min({Parsed(s), (Byte ^ t.size) - 1}), t.size)

\* EpigramCast from s to t; anything else gives T ().
Cast(t, s, x) ==
    IF Numeric(t) /\ Numeric(s) THEN ValueOf(BytesOf(NumberOf(x), t.size))
    ELSE IF Numeric(t) /\ s.kind = "string" THEN ValueOf(FromText(t, x))
    ELSE IF t.kind = "string" /\ Numeric(s) THEN ValueOf(Text(s, x))
    ELSE Default

-----------------------------------------------------------------------------
(* The fetchers.                                                            *)

Castable == {s \in Types : Numeric(s) \/ s.kind = "string"}     \* Caster
Casters(id) == {s \in Castable : s.id = id}

FetchCast(t, s, p, at) ==
    LET got == Fetch(s, p, at, 1)
    IN  IF got.result.is = "value" THEN [got EXCEPT !.result = Cast(t, s, @.value)] ELSE got

\* CastingFetcher: the header, and then each item as it is, cast, or not at all.
FetchHeaderAs(t, x) == IF x.id = t.id THEN FetchHeader(t, x.payload) ELSE At(1)
FetchAs(t, x, at, first) ==
    IF x.id = t.id THEN Fetch(t, x.payload, at, first)
    ELSE IF Casters(x.id) = {} THEN Got(Default, at)
    ELSE FetchCast(t, CHOOSE s \in Casters(x.id) : TRUE, x.payload, at)

Missing(header) == IF header.thrown THEN Thrown ELSE Default

\* ItemFetcher.
FetchItem(t, x) ==
    LET header == FetchHeaderAs(t, x)
    IN  IF header.ok THEN FetchAs(t, x, header.at, 1).result ELSE Missing(header)

\* PointerFetcher: no cast; a header of another class is not noticed, and the pointer is
\* copied from address 0.
FetchPointer(t, x) ==
    IF x.id # t.id THEN Default
    ELSE LET header == FetchHeader(t, x.payload)
         IN  IF header.ok THEN Fetch(t, x.payload, header.at, 1).result
             ELSE [is |-> "crash"]

\* ContainerFetcher: count items, objects from the last to the first.  The payload
\* starts where FetchHeader says, which for objects is their last byte.
FetchContainer(t, x) ==
    LET header == FetchHeaderAs(t, x)
        step(r, i) ==
            LET got == FetchAs(t, x, r.next, header.at)
            IN  Got(Append(r.result, got.result), got.next)
        results == FoldLeft(step, Got(<<>>, header.at), [i \in 1 .. x.count |-> i]).result
    IN  IF header.ok
        THEN IF t.id \in Objects THEN Reverse(results) ELSE results
        ELSE [i \in 1 .. x.count |-> Missing(header)]

-----------------------------------------------------------------------------
(* Raw objects: the bytes of one item with the name and version it has.     *)

\* Where item i starts, and behind it; counted from 0, objects from the last.
RawPod(p, first, i) ==
    LET size == Decode(p, first, Len(p))
    IN  [start |-> size.next + size.value * i, end |-> size.next + size.value * (i + 1)]

\* The items from p[first] on, each decoded for where it ends.
RawEnum(p, first, i) ==
    LET starts == FoldLeft(LAMBDA at, j : Decode(p, at, Len(p)).next, first, [j \in 1 .. i |-> j])
    IN  [start |-> starts, end |-> Decode(p, starts, Len(p)).next]

RawEpigram(p, i) ==
    LET next(at, j) == LET size == Decode(p, at, Len(p)) IN size.next + size.value
        size == Decode(p, FoldLeft(next, 1, [j \in 1 .. i |-> j]), Len(p))
    IN  [start |-> size.next, end |-> size.next + size.value]

RawObject(p, first, i) ==
    LET next(at, j) == LET size == ReverseDecodeTo(p, at, first) IN size.next - size.value
        size == ReverseDecodeTo(p, FoldLeft(next, Len(p), [j \in 1 .. i |-> j]), first)
    IN  [start |-> size.next - size.value + 1, end |-> size.next + 1]

\* RawFetcher::Fetch, for an item there is.
RawFetch(x, i) ==
    LET p == x.payload
        null == IF x.id = "epigram" THEN 0 ELSE Min({j \in DOMAIN p : p[j] = 0})
        versioned == x.id = "versionedObject"
        first == null + (IF versioned THEN 2 ELSE 1)
        at == CASE x.id = "pod" -> RawPod(p, first, i)
                [] x.id = "enumeration" -> RawEnum(p, first, i)
                [] x.id = "epigram" -> RawEpigram(p, i)
                [] OTHER -> RawObject(p, first, i)
    IN  [className |-> SubSeq(p, 1, null - 1), data |-> SubSeq(p, at.start, at.end - 1),
         version |-> IF versioned THEN p[null + 1] ELSE 0]

\* AddRawObject: of a pod the size comes first, of an object last and flipped.
AddRaw(id, raw) ==
    LET size == Encode(Len(raw.data))
    IN  raw.className \o <<0>> \o (IF raw.version > 0 THEN <<raw.version>> ELSE <<>>)
          \o CASE id = "pod" -> size \o raw.data
               [] id = "enumeration" -> raw.data
               [] OTHER -> raw.data \o Reverse(size)

-----------------------------------------------------------------------------
(* What is asked of the element.                                            *)

Element(t, xs, array, payload) ==
    [id |-> t.id, array |-> array, count |-> Len(xs), payload |-> payload, type |-> t, items |-> xs]

\* Index or name () with one value, or a container of them.  One element is stored, perhaps
\* copied, and fetched once: a fetch changes nothing.
StoreValues(t) ==
    /\ element = NoElement
    /\ \/ \E x \in Items[t] : element' = Element(t, <<x>>, FALSE, StoreItems(t, <<x>>))
       \/ \E xs \in BoundedSeq(Items[t], MaxCount) : element' = Element(t, xs, TRUE, StoreItems(t, xs))
    /\ fetched' = Nothing

\* An item taken raw and added to an epigram as what it was; an epigram's name is made
\* up by RawFetcher and AddRawObject would write it.
RawItem(i) == IF element.id \in Objects THEN element.count - i ELSE i + 1
Raw == element.id \in Objects \cup {"pod", "enumeration"}
CopyRaw(i) ==
    /\ element.array
    /\ element' = Element(element.type, <<element.items[RawItem(i)]>>, FALSE,
                          AddRaw(element.id, RawFetch(element, i)))
    /\ fetched' = Nothing

Fetches(how, t, result) ==
    /\ fetched' = [is |-> how, type |-> t, result |-> result]
    /\ UNCHANGED element

\* To <T>, operator T, >>.
To(t) == Fetches("item", t, IF t.id = "pointer" THEN FetchPointer(t, element) ELSE FetchItem(t, element))
ToContainer(t) == Fetches("items", t, FetchContainer(t, element))
GetRawObject(i) ==
    Fetches("raw", element.type, [item |-> i, data |-> RawFetch(element, i).data])

Next ==
    \/ \E t \in Types : StoreValues(t)
    \/ /\ element # NoElement /\ fetched = Nothing
       /\ \/ \E t \in Types : To(t) \/ ToContainer(t)
          \/ \E i \in 0 .. element.count - 1 :
               \/ Raw /\ CopyRaw(i)
               \/ (Raw \/ element.id = "epigram") /\ GetRawObject(i)

Spec == Init /\ [][Next]_vars

-----------------------------------------------------------------------------
(* Properties.                                                              *)

\* What x is when it is read as class t, which has the same members as its own, or
\* more, or fewer.
AsRead(t, x) ==
    IF t.id \in Objects
    THEN [i \in DOMAIN t.members |-> IF i \in DOMAIN x THEN [read |-> x[i]] ELSE LeftAlone]
    ELSE x

Later(t1, t2) == t1.version > t2.version
SameClass(t1, t2) ==
    t1.id = t2.id /\ t1.class = t2.class /\ (t1.id = "pod" => t1.size = t2.size)

\* What another class of the same kind is fetched as: an exception for a pod, T () for the
\* rest, but for a pointer, whose header is not looked at.
Refused(t, result) ==
    IF t.id = "pod" THEN result = Thrown ELSE result.is # "value"

\* A container of objects is read only if one byte holds the size of each.
Readable(x) ==
    x.id \in Objects => \A i \in DOMAIN x.items : Len(Serialize(x.type.members, x.items[i])) < Base

\* A single fetch gives the first item, or the last object.
ItemKept(t, result) ==
    LET xs == element.items
    IN  IF Later(element.type, t) THEN result = Thrown
        ELSE xs # <<>> =>
            result = ValueOf(AsRead(t, xs[IF t.id \in Objects THEN Len(xs) ELSE 1]))

ItemsKept(t, results) ==
    Readable(element) /\ ~ Later(element.type, t) =>
        results = [i \in DOMAIN element.items |-> ValueOf(AsRead(t, element.items[i]))]

\* Number or text x of type s, as another one.  A one-byte number is a character.
CastKept(t, s, x, result) ==
    /\ Numeric(s) /\ Numeric(t) /\ NumberOf(x) < Byte ^ t.size => NumberOf(result.value) = NumberOf(x)
    /\ Numeric(s) /\ t.kind = "string" /\ s.size > 1 => Parsed(result.value) = NumberOf(x)
    /\ s.kind = "string" /\ Numeric(t) /\ t.size > 1 /\ Parsed(x) < Byte ^ t.size =>
         NumberOf(result.value) = Parsed(x)

RawBytes(t, x) ==
    IF t.id \in Objects THEN Serialize(t.members, x) ELSE IF t.kind = "enum" THEN Encode(x) ELSE x

\* Whatever was stored is what is fetched: of its own class, every item in its order and
\* an earlier object up to the members it has; of a number or a text, the number in
\* every type it fits and its text; never a value from the bytes of another class, and
\* of a pod of another class or size an exception; and of raw items the one asked for,
\* which is itself when it is stored again.
StoredIsFetched ==
    fetched # Nothing =>
        LET t == fetched.type
            s == element.type
            result == fetched.result
        IN  CASE fetched.is = "raw" ->
                    result.data = RawBytes(s, element.items[RawItem(result.item)])
              [] fetched.is # "raw" /\ SameClass(t, s) ->
                    IF fetched.is = "item" THEN ItemKept(t, result) ELSE ItemsKept(t, result)
              [] fetched.is # "raw" /\ ~ SameClass(t, s) /\ t.id = s.id ->
                    fetched.is = "item" => Refused(t, result)
              [] fetched.is = "item" /\ t.id # s.id ->
                    element.items # <<>> => CastKept(t, s, element.items[1], result)
              [] fetched.is = "items" /\ t.id # s.id ->
                    \A i \in DOMAIN element.items : CastKept(t, s, element.items[i], result[i])
=============================================================================
