-------------------------- MODULE EpSerialization --------------------------
(* serialization/EpSerializationRaw.hpp: how an object's members become its *)
(* bytes (EpSerializer) and are read out of them again (EpDeserializer).    *)
(*                                                                          *)
(* A class is the sequence of its members in the order its Serializer names *)
(* them: plain ones, copied as they lie in memory; compact ones; and        *)
(* strings.  A later version of a class appends members, so the bytes of an *)
(* earlier object end where the later class reads on.                       *)
EXTENDS JdUtils, SequencesExt, FiniteSetsExt

-----------------------------------------------------------------------------
(* EpSerializer: what each member appends to the object's bytes; NumBytes   *)
(* is their length.                                                         *)

Written(m, x) ==
    CASE m.form = "plain" -> x                  \* operator ()
      [] m.form = "compact" -> Encode(x)        \* Compact
      [] m.form = "string" -> x \o <<0>>        \* CString; i_maxStringLength is not used

\* Mutant: a compact member is stored in one byte.
SerializeNarrow(members, values) ==
    FlattenSeq([i \in DOMAIN members |->
        IF members[i].form = "compact" THEN <<values[i] % Base>>
        ELSE Written(members[i], values[i])])

\* Base::Serialize.
Serialize(members, values) ==
    FlattenSeq([i \in DOMAIN members |-> Written(members[i], values[i])])

-----------------------------------------------------------------------------
(* EpDeserializer: the bytes m_ptr points at, their number m_numBytes and   *)
(* m_underrun, with the values read so far.  A member that was not read is  *)
(* left as it was.  Once m_numBytes has wrapped the reader is lost: what it *)
(* reads lies behind the object.                                            *)

LeftAlone == [left |-> "alone"]
Beyond == [read |-> "beyond the object"]

Reader(bytes) == [bytes |-> bytes, values |-> <<>>, underrun |-> FALSE, lost |-> FALSE]

Take(r, x, bytes) == [r EXCEPT !.values = Append(@, [read |-> x]), !.bytes = bytes]
Skip(r) ==
    [r EXCEPT !.values = Append(@, LeftAlone), !.underrun = TRUE]

\* operator () (T &): too few bytes end the reading.
ReadPlain(r, m) ==
    IF Len(r.bytes) >= m.size
    THEN Take(r, SubSeq(r.bytes, 1, m.size), SubSeq(r.bytes, m.size + 1, Len(r.bytes)))
    ELSE [Skip(r) EXCEPT !.bytes = <<>>]

\* Compact, DeCompact: reads no further than the last byte.
ReadCompact(r) ==
    IF r.bytes # <<>>
    THEN LET x == Decode(r.bytes, 1, Len(r.bytes))
         IN  Take(r, x.value, SubSeq(r.bytes, x.next, Len(r.bytes)))
    ELSE Skip(r)

\* CString: the characters before the null, or all there are, but at most m.max; then
\* one byte more is passed over, the null - which need not be there.
ReadString(r, m) ==
    LET nulls == {i \in DOMAIN r.bytes : r.bytes[i] = 0}
        n == Min({IF nulls = {} THEN Len(r.bytes) ELSE Min(nulls) - 1, m.max})
    IN  [Take(r, SubSeq(r.bytes, 1, n), SubSeq(r.bytes, n + 2, Len(r.bytes)))
            EXCEPT !.lost = n + 1 > Len(r.bytes)]

ReadMember(r, m) ==
    IF r.lost THEN [r EXCEPT !.values = Append(@, Beyond)]
    ELSE CASE m.form = "plain" -> ReadPlain(r, m)
           [] m.form = "compact" -> ReadCompact(r)
           [] m.form = "string" -> ReadString(r, m)

\* Base::Deserialize.
Deserialize(bytes, members) ==
    FoldLeft(ReadMember, Reader(bytes), members).values
=============================================================================
