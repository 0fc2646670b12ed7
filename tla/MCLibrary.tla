------------------------------ MODULE MCLibrary ------------------------------
(* The parts of the library that are checked by themselves, each on its own *)
(* small instance: the initial state chooses one, and the others stay where *)
(* they begin.  The fibers, the tables, the signal and the allocator have   *)
(* symbols of their own here; the others are instances.                     *)
EXTENDS JdFiber, JdSql, JdSignalSlot, JdCircularAllocator, TLC

CONSTANTS f1, f2, f3, l1, l2, l3, ring, r, t1, t2, x1, x2, x3, none

VARIABLES
    subject,
    element, fetched,                                                   \* EpigramValues
    listed, order,                                                      \* JdList
    record, linked, freeSize, m_totalResourceSize, keeps, used, reinserted,     \* JdCache
    size, m_memory, m_totalAllocatedBytes, m_totalFreeBytes, asked,     \* JdMemoryPool
    graph, live                                                         \* JdGraph

-----------------------------------------------------------------------------
\* One fiber can switch to another that switches to a third, and a released fiber's memory
\* is used again.
MCFibers == {f1, f2, f3}

-----------------------------------------------------------------------------
(* Values: two types of each kind, which are told apart by size, by class   *)
(* or by version.                                                           *)

Type(kind, id, class, version, bytes, members) ==
    [kind |-> kind, id |-> id, class |-> class, version |-> version, size |-> bytes,
     members |-> members]
Number(id, bytes) == Type("fixed", id, <<>>, 0, bytes, <<>>)
Sized(id) == Type("sized", id, <<>>, 0, 0, <<>>)
Enum(class) == Type("enum", "enumeration", class, 0, 0, <<>>)
Object(class, members) == Type("object", "object", class, 0, 0, members)
Versioned(version, members) == Type("object", "versionedObject", <<5, 5>>, version, 0, members)

Plain(bytes) == [form |-> "plain", size |-> bytes]
Compact == [form |-> "compact"]
CString == [form |-> "string", max |-> 2]

Stores(type, items) == type :> items

MCItems ==
    Stores(Number("u8", 1), {<<1>>, <<6>>})
    @@ Stores(Number("u16", 2), {<<1, 0>>, <<7, 7>>, <<2, 1>>})
    @@ Stores(Type("string", "string", <<>>, 0, 0, <<>>), {<<>>, <<2, 1, 4>>, <<3>>})
    @@ Stores(Sized("binary"), {<<>>, <<0, 3>>, <<1, 2, 3, 4>>})
    @@ Stores(Sized("epigram"), {<<>>, <<0, 3>>, <<1, 2, 3, 4>>})
    @@ Stores(Enum(<<3>>), {0, 3, 7})
    @@ Stores(Enum(<<3, 4>>), {0, 3, 7})
    @@ Stores(Number("none", 0), {<<>>})
    @@ Stores(Type("fixed", "pod", <<5>>, 0, 2, <<>>), {<<0, 5>>, <<2, 0>>})
    @@ Stores(Type("fixed", "pod", <<5>>, 0, 1, <<>>), {<<5>>})
    @@ Stores(Type("fixed", "pod", <<6>>, 0, 2, <<>>), {<<0, 5>>, <<2, 0>>})
    @@ Stores(Type("fixed", "pointer", <<5>>, 0, 1, <<>>), {<<1>>})
    @@ Stores(Type("fixed", "pointer", <<6>>, 0, 1, <<>>), {<<1>>})
    @@ Stores(Versioned(1, <<Plain(1)>>), {<<<<1>>>>, <<<<0>>>>})
    @@ Stores(Versioned(2, <<Plain(1), Compact, Plain(2)>>),
              {<<<<1>>, 2, <<0, 1>>>>, <<<<0>>, 5, <<2, 2>>>>})
    @@ Stores(Object(<<6>>, <<CString>>), {<<<<>>>>, <<<<2, 2>>>>})
    @@ Stores(Object(<<6>>, <<CString, Compact>>), {<<<<>>, 1>>, <<<<2>>, 4>>})
    @@ Stores(Object(<<7>>, <<Compact, Compact>>), {<<1, 2>>, <<4, 17>>})

\* Eight values in a byte, four of them in a byte of a length.
Fetching == INSTANCE EpigramValues WITH
    Base <- 4, Types <- DOMAIN MCItems, Items <- MCItems, MaxCount <- 2, Radix <- 2

-----------------------------------------------------------------------------
(* Tables: one, of rows with an id and rows without, and messages that give *)
(* a name another type, another number of values, or none; arrays are of    *)
(* items that are read as such, as one other item, or not at all.           *)

Written(name, type, count, data) ==
    [name |-> name, value |-> [type |-> type, count |-> count, data |-> data]]

MCMessages == {
    <<>>,
    <<Written("a", "i32", 1, <<1>>)>>,
    <<Written("a", "u64", 1, <<1>>)>>,
    <<Written("a", "i32", 1, <<2>>), Written("b", "f64", 2, <<1, 2>>)>>,
    <<Written("b", "binary", 1, <<>>)>>,
    <<Written("b", "binary", 2, <<1, 2>>)>>,
    <<Written("b", "uuid", 2, <<1, 2>>)>>,
    <<Written("b", "object", 1, <<1>>)>>,
    <<Written("b", "object", 2, <<1, 2>>)>>,
    <<Written("b", "enumeration", 1, <<1>>)>>,
    <<Written("b", "enumeration", 2, <<1, 2>>)>>,
    <<Written("b", "bool", 1, <<1>>)>>}

MCTables == {"table"}
MCRowIds == {r}
MCNativeIds == {1}
MCFaults == {"none", "setup", "insert", "alter", "update", "delete", "query"}

-----------------------------------------------------------------------------
MCLinks == {l1, l2, l3}

\* A ring of four words whose indices wrap at eight.
MCThreads == {t1, t2}
MCRequests == {0, 2}
MCBuffers == {[buffer |-> 4, max |-> 2], [buffer |-> 3, max |-> 1], [buffer |-> 2, max |-> 0]}

List == INSTANCE JdList WITH Items <- {x1, x2, x3}, Null <- none, link <- listed

Cache == INSTANCE JdCache WITH
    Records <- {x1, x2, x3}, Sizes <- 0 .. 2, MaxAcquired <- 2, link <- linked

\* Requests that just fit a page or two, and just do not.
Pool == INSTANCE JdMemoryPool WITH
    Chunks <- {1, 2, 3}, Page <- 16, Header <- 1, Requests <- {9, 14, 15, 16, 27, 28}

Graph == INSTANCE JdGraph WITH Nodes <- {x1, x2, x3}, Root <- none, ElementValues <- {1}

-----------------------------------------------------------------------------
Subjects == {"fiber", "values", "tables", "signal", "allocator", "list", "cache", "pool", "graph"}

LibraryInit ==
    /\ subject \in Subjects
    /\ Init /\ Fetching!Init /\ InitTables /\ InitSignal /\ InitRing
    /\ List!Init /\ Cache!Init /\ Pool!Init /\ Graph!Init
    /\ subject # "signal" => link[ring].function = NoFunction
    /\ subject # "allocator" => m_maxAllocationSize = 1
    /\ subject # "cache" => ~ keeps

\* Only s takes steps.
Only(s) ==
    /\ subject = s
    /\ UNCHANGED subject
    /\ IF s = "fiber" THEN TRUE ELSE UNCHANGED vars
    /\ IF s = "values" THEN TRUE ELSE UNCHANGED <<element, fetched>>
    /\ IF s = "tables" THEN TRUE ELSE UNCHANGED tableVars
    /\ IF s = "signal" THEN TRUE ELSE UNCHANGED signalVars
    /\ IF s = "allocator" THEN TRUE ELSE UNCHANGED ringVars
    /\ IF s = "list" THEN TRUE ELSE UNCHANGED <<listed, order>>
    /\ IF s = "cache" THEN TRUE
       ELSE UNCHANGED <<record, linked, freeSize, m_totalResourceSize, keeps, used, reinserted>>
    /\ IF s = "pool" THEN TRUE
       ELSE UNCHANGED <<size, m_memory, m_totalAllocatedBytes, m_totalFreeBytes, asked>>
    /\ IF s = "graph" THEN TRUE ELSE UNCHANGED <<graph, live>>

LibraryNext ==
    \/ Only("fiber") /\ Next
    \/ Only("values") /\ Fetching!Next
    \/ Only("tables") /\ NextTables
    \/ Only("signal") /\ NextSignal
    \/ Only("allocator") /\ NextRing
    \/ Only("list") /\ List!Next
    \/ Only("cache") /\ Cache!Next
    \/ Only("pool") /\ Pool!Next
    \/ Only("graph") /\ Graph!Next

LibrarySpec == LibraryInit /\ [][LibraryNext]_<<subject, vars, tableVars, element, fetched,
    signalVars, ringVars,
    listed, order, record, linked, freeSize, m_totalResourceSize, keeps, used, reinserted,
    size, m_memory, m_totalAllocatedBytes, m_totalFreeBytes, asked, graph, live>>

-----------------------------------------------------------------------------
\* Every value put into an epigram is what is fetched from it again
\* (EpigramValues!StoredIsFetched).
StoredIsFetched == subject = "values" => Fetching!StoredIsFetched

\* What the containers say of themselves is so: chunks are apart and sleepers notified
\* (RingIsKept), the list is in order both ways (JdList!ListIsInOrder),
\* the cache's lists are a partition (JdCache!CacheIsKept), so are the pool's blocks
\* (JdMemoryPool!PoolIsKept), and nodes live while something leads to them
\* (JdGraph!GraphIsKept).
StructuresAreKept ==
    CASE subject = "allocator" -> RingIsKept
      [] subject = "list" -> List!ListIsInOrder
      [] subject = "cache" -> Cache!CacheIsKept
      [] subject = "pool" -> Pool!PoolIsKept
      [] subject = "graph" -> Graph!GraphIsKept
      [] OTHER -> TRUE
=============================================================================
