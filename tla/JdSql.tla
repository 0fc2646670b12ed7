-------------------------------- MODULE JdSql ---------------------------------
(***************************************************************************)
(* modules/helpers/JdSql.hpp: tables of rows in an SQL database.  A row has *)
(* an id, a sequence number and named elements; its columns are added when  *)
(* an element first needs one, and named after the element and its type.    *)
(* Tables may be linked to one sequence.                                    *)
(*                                                                          *)
(* The database is sqlite, which outlives the program; any of its           *)
(* statements may fail but FindColumn's, whose failure reads as "no column  *)
(* of this name" and may give an element a second one.  The methods of a    *)
(* table are called by one thread and hold the lock of the database, so     *)
(* each is one step.  Release build: the assertions do nothing.             *)
(***************************************************************************)
EXTENDS Naturals, Sequences, FiniteSets, FiniteSetsExt, SequencesExt

CONSTANTS
    Tables,
    RowIds,             \* of rows that the caller names, JdUuidSqlTable
    NativeIds,          \* of rows that the database numbers, JdSqlTable: a range of naturals
    Messages,           \* what is written: sequences of [name, value]
    Faults,             \* the statements that may fail
    MaxSequence         \* bound: the sequence

ASSUME TablesAssumption ==
    /\ MaxSequence \in Nat
    /\ NativeIds \subseteq Nat \ {0}
    /\ \A m \in Messages : m \in Seq(ToSet(m))

VARIABLES
    database,           \* each table: [extant, columns, rows]
    m_tablesInitialized,
    sequence,           \* the u64 the tables are linked to
    result,             \* what the last call has returned
    written             \* what callers have been told of: by table, row and name

tableVars == <<database, m_tablesInitialized, sequence, result, written>>

EmptyTable == [extant |-> TRUE, columns |-> {}, rows |-> << >>]
NoTable == [EmptyTable EXCEPT !.extant = FALSE]

InitTables ==
    /\ database = [t \in Tables |-> NoTable]
    /\ m_tablesInitialized = [t \in Tables |-> FALSE]
    /\ sequence = 0
    /\ result = "ok"
    /\ written = [t \in Tables |-> [i \in RowIds \cup NativeIds |-> << >>]]

Override(f, g) == [x \in DOMAIN f \cup DOMAIN g |-> IF x \in DOMAIN g THEN g[x] ELSE f[x]]

-----------------------------------------------------------------------------
(* Elements and columns.  A value is [type, count, data], data with an       *)
(* element for each item of an array.  A column is [name, type, class]:     *)
(* "name/type", or, if class, "name/type/class".                            *)

IntegerTypes == {"i8", "i16", "i32", "i64", "u8", "u16", "u32", "u64"}
Floats == {"f32", "f64"}
ObjectTypes == {"object", "pod", "versionedObject"}
HasClass(value) == value.type \in ObjectTypes \cup {"enumeration"}

\* QueryGenerator::EncodeColumns and BindBlobs: how sqlite stores it, "none" if there is no
\* way and the statement is not SQL.
StorageClass(value) ==
    IF value.count > 1 THEN "blob"
    ELSE CASE value.type \in IntegerTypes \cup {"enumeration"} -> "integer"
           [] value.type \in Floats -> "real"
           [] value.type = "string" -> "text"
           [] value.type \in ObjectTypes \cup {"binary", "uuid", "epigram"} -> "blob"
           [] OTHER -> "none"

\* EncodeRow: whether an element comes back from a column.  A blob of no bytes does not,
\* nor does an array that has neither a class nor one of these types.
IsEncoded(column, value) ==
    CASE StorageClass(value) = "text" -> TRUE
      [] StorageClass(value) = "integer" -> column.type \in IntegerTypes \cup {"enumeration"}
      [] StorageClass(value) = "real" -> column.type \in Floats
      [] StorageClass(value) = "blob" ->
           /\ value.count > 1 \/ value.data # <<>> \/ value.type = "versionedObject"
           /\ column.class \/ column.type \in {"binary", "uuid", "epigram", "f64"}

\* What comes back.  Only an array of f64 is read as one: of uuids it is the first, of
\* the rest one item, whose bytes are the payload of them all.
ReadAs(value) ==
    IF value.count <= 1 \/ value.type = "f64" THEN value
    ELSE IF value.type = "uuid" THEN [value EXCEPT !.count = 1, !.data = <<Head(@)>>]
    ELSE [type |-> value.type, payload |-> value]

EncodeRow(table, row) ==
    LET names == {n \in DOMAIN row.values :
                    \E c \in table.columns : c.name = n /\ IsEncoded(c, row.values[n])}
    IN  [n \in names |-> ReadAs(row.values[n])]

Columns(message) == ToSet(message)
NamesOf(message) == {e.name : e \in Columns(message)}
ValuesOf(message) ==
    [n \in NamesOf(message) |-> (CHOOSE e \in Columns(message) : e.name = n).value]

\* Mutant: a column is looked for with its type.
FindColumnOfType(table, element) ==
    \E c \in table.columns : c.name = element.name /\ c.type = element.value.type

\* By its name, up to the slash.
FindColumn(table, element) == \E c \in table.columns : c.name = element.name

\* In a statement; and as it is added, for an array without its class.
ColumnOf(e) == [name |-> e.name, type |-> e.value.type, class |-> HasClass(e.value)]
AddedFor(e) == [ColumnOf(e) EXCEPT !.class = @ /\ e.value.count <= 1]

\* The elements that a column is added for, by their places in the message.
New(table, message) ==
    {i \in DOMAIN message :
        /\ ~ FindColumn(table, message[i])
        /\ \A j \in 1 .. i - 1 : message[j].name # message[i].name}

AddColumns(table, message, places) ==
    [table EXCEPT !.columns = @ \cup {AddedFor(message[i]) : i \in places}]

\* Whether "SET [name/type]=value, ..." names columns there are, and values there is SQL for.
IsStatement(table, message) ==
    /\ message # <<>>
    /\ \A e \in Columns(message) :
         /\ ColumnOf(e) \in table.columns
         /\ StorageClass(e.value) # "none"

-----------------------------------------------------------------------------
(* What the methods do to a table.  A step is [table, seq, result].         *)

\* Mutant: a table does not say where its numbers end.
SetupUnnumbered(t, fault) ==
    IF m_tablesInitialized[t] \/ fault = "setup"
    THEN [table |-> database[t], seq |-> sequence, result |-> "ok"]
    ELSE [table |-> IF database[t].extant THEN database[t] ELSE EmptyTable, seq |-> sequence,
          result |-> "ok"]

Done(table, seq, res) == [table |-> table, seq |-> seq, result |-> res]
HighestSeq(table) == Max({0} \cup {table.rows[i].seq : i \in DOMAIN table.rows})

\* The sequence goes on from the highest in the table.
SetupDatabase(t, fault) ==
    IF m_tablesInitialized[t] \/ fault = "setup" THEN Done(database[t], sequence, "ok")
    ELSE LET table == IF database[t].extant THEN database[t] ELSE EmptyTable
         IN  Done(table, Max({sequence, HighestSeq(table)}), "ok")

HasRow(table, id, fault) == table.extant /\ fault # "query" /\ id \in DOMAIN table.rows

PutRow(table, id, row) == [table EXCEPT !.rows = Override(@, [i \in {id} |-> row])]
DropRow(table, id) == [table EXCEPT !.rows = [i \in DOMAIN @ \ {id} |-> @[i]]]

\* The columns first, up to one that cannot be added; then the row, if there is one.
ModifyRowInternal(step, id, message, fault) ==
    LET new == New(step.table, message)
        table == AddColumns(step.table, message, new)
        seq == step.seq + 1
    IN  IF ~ step.table.extant THEN Done(step.table, step.seq, "error")
        ELSE IF fault = "alter" /\ new # {}
        THEN Done(AddColumns(step.table, message, {i \in new : \E j \in new : i < j}),
                  step.seq, "error")
        ELSE IF fault = "update" \/ ~ IsStatement(table, message) THEN Done(table, seq, "error")
        ELSE IF id \notin DOMAIN table.rows THEN Done(table, seq, "ok")
        ELSE Done(PutRow(table, id, [seq |-> seq,
                    values |-> Override(table.rows[id].values, ValuesOf(message))]), seq, "ok")

\* INSERT, ON CONFLICT REPLACE.
Insert(step, id, fault) ==
    IF fault = "insert" \/ ~ step.table.extant THEN Done(step.table, step.seq + 1, "error")
    ELSE Done(PutRow(step.table, id, [seq |-> step.seq + 1, values |-> << >>]),
              step.seq + 1, "ok")

\* By the caller's id: what the insertion has returned is lost if there are columns.
CreateRow(step, id, message, eraseExtant, fault) ==
    IF ~ eraseExtant /\ HasRow(step.table, id, fault)
    THEN Done(step.table, step.seq, IF message # <<>> THEN "rowAlreadyExtant" ELSE "ok")
    ELSE LET inserted == Insert(step, id, fault)
         IN  IF message # <<>> THEN ModifyRowInternal(inserted, id, message, fault) ELSE inserted

\* By the database's.
CreateNativeRow(step, id, message, fault) ==
    LET inserted == Insert(step, id, fault)
    IN  IF inserted.result = "ok" /\ message # <<>>
        THEN ModifyRowInternal(inserted, id, message, fault) ELSE inserted

CreateOrModifyRow(step, id, message, fault) ==
    IF HasRow(step.table, id, fault) THEN ModifyRowInternal(step, id, message, fault)
    ELSE CreateRow(step, id, message, FALSE, fault)

EraseRow(step, id, fault) ==
    IF fault = "delete" \/ ~ step.table.extant THEN Done(step.table, step.seq, "error")
    ELSE Done(DropRow(step.table, id), step.seq, "ok")

-----------------------------------------------------------------------------
(* Queries.                                                                 *)

GetRow(table, id) ==
    IF table.extant /\ id \in DOMAIN table.rows THEN EncodeRow(table, table.rows[id]) ELSE << >>

CountRows(table) == Cardinality(DOMAIN table.rows)
SelectAll(table) == DOMAIN table.rows

\* The rows with all these elements; no row if one has no column.
Select(table, message) ==
    IF ~ IsStatement(table, message) THEN {}
    ELSE {i \in DOMAIN table.rows :
            \A e \in Columns(message) :
              e.name \in DOMAIN table.rows[i].values /\ table.rows[i].values[e.name] = e.value}

SelectRow(table, message) ==
    IF Cardinality(Select(table, message)) = 1
    THEN GetRow(table, CHOOSE i \in Select(table, message) : TRUE) ELSE << >>

-----------------------------------------------------------------------------
(* Calls.                                                                   *)

\* The table is set up first, unless that fails.
Call(t, fault, step) ==
    /\ step.seq <= MaxSequence
    /\ database' = [database EXCEPT ![t] = step.table]
    /\ m_tablesInitialized' = [m_tablesInitialized EXCEPT ![t] = @ \/ fault # "setup"]
    /\ sequence' = step.seq
    /\ result' = step.result

\* The caller is told: these values, on top of those it knows; nothing after an error.
Tell(t, id, known) ==
    written' = [written EXCEPT ![t][id] = IF result' = "ok" THEN known ELSE << >>]

Create(t, id, message, eraseExtant, fault) ==
    /\ Call(t, fault, CreateRow(SetupDatabase(t, fault), id, message, eraseExtant, fault))
    /\ IF message # <<>> /\ result' = "ok" THEN Tell(t, id, ValuesOf(message))
       ELSE IF result' = "rowAlreadyExtant" THEN UNCHANGED written
       ELSE Tell(t, id, << >>)

CreateNative(t, message, fault) ==
    LET setup == SetupDatabase(t, fault)
        id == Max({0} \cup (DOMAIN setup.table.rows \cap NativeIds)) + 1
    IN  /\ id \in NativeIds
        /\ Call(t, fault, CreateNativeRow(setup, id, message, fault))
        /\ Tell(t, id, ValuesOf(message))

Modify(t, id, message, fault) ==
    /\ Call(t, fault, ModifyRowInternal(SetupDatabase(t, fault), id, message, fault))
    /\ Tell(t, id, Override(written[t][id], ValuesOf(message)))

CreateOrModify(t, id, message, fault) ==
    LET setup == SetupDatabase(t, fault) IN
    /\ Call(t, fault, CreateOrModifyRow(setup, id, message, fault))
    /\ Tell(t, id, IF HasRow(setup.table, id, fault)
                   THEN Override(written[t][id], ValuesOf(message)) ELSE ValuesOf(message))

Erase(t, id, fault) ==
    /\ Call(t, fault, EraseRow(SetupDatabase(t, fault), id, fault))
    /\ Tell(t, id, << >>)

\* ConnectToSQL, which may drop the table.
Drop(t) ==
    /\ ~ m_tablesInitialized[t]
    /\ database' = [database EXCEPT ![t] = NoTable]
    /\ result' = "ok"
    /\ written' = [written EXCEPT ![t] = [i \in DOMAIN @ |-> << >>]]
    /\ UNCHANGED <<m_tablesInitialized, sequence>>

\* The program ends, or crashes, and starts again.
Restart ==
    /\ \E t \in Tables : m_tablesInitialized[t]
    /\ m_tablesInitialized' = [t \in Tables |-> FALSE]
    /\ sequence' = 0
    /\ UNCHANGED <<database, result, written>>

NextTables ==
    \/ \E t \in Tables, m \in Messages, fault \in Faults :
         \/ \E id \in RowIds :
              \/ \E erase \in BOOLEAN : Create(t, id, m, erase, fault)
              \/ Modify(t, id, m, fault)
              \/ CreateOrModify(t, id, m, fault)
              \/ Erase(t, id, fault)
         \/ CreateNative(t, m, fault)
    \/ \E t \in Tables : Drop(t)
    \/ Restart

TablesSpec == InitTables /\ [][NextTables]_tableVars

-----------------------------------------------------------------------------
\* What callers have been told of is what a row reads as, over failures in the middle of a
\* call, replaced rows, columns of another type and restarts; except for what no query
\* gives back, and for arrays that are read as one other item.  An element has one column.
RowsReadAsWritten ==
  \A t \in Tables :
    /\ \A c, d \in database[t].columns : c.name = d.name => c = d
    /\ \A i \in DOMAIN database[t].rows : \A n \in DOMAIN written[t][i] :
         LET value == written[t][i][n]
             row == GetRow(database[t], i)
         IN  IF IsEncoded(ColumnOf([name |-> n, value |-> value]), value)
             THEN n \in DOMAIN row /\ row[n] = ReadAs(value)
             ELSE n \notin DOMAIN row

\* A write of a table that is set up will have a number above all in it, whatever has been
\* erased, dropped or lost in a restart.  (A table whose setup has failed numbers from 0.)
SequenceIsAhead ==
    \A t \in Tables : m_tablesInitialized[t] => sequence >= HighestSeq(database[t])

\* The queries agree: a row that is selected by elements has these elements.
QueriesAgree ==
    \A t \in Tables, m \in Messages :
      LET table == database[t] IN
      /\ Select(table, m) \subseteq SelectAll(table)
      /\ Cardinality(Select(table, m)) <= CountRows(table)
      /\ (SelectRow(table, m) # << >>) =>
           \A e \in Columns(m) : IsEncoded(ColumnOf(e), e.value) =>
             e.name \in DOMAIN SelectRow(table, m) /\ SelectRow(table, m)[e.name] = ReadAs(e.value)

\* What a table promises.
TablesAreKept == RowsReadAsWritten /\ SequenceIsAhead /\ QueriesAgree
=============================================================================
