---------------------------- MODULE EpilogServer -----------------------------
(***************************************************************************)
(* trace/server: the log server.  One thread accepts a connection, runs its *)
(* session to the end and only then accepts the next; the session cuts the  *)
(* stream into messages and pushes them into a queue; EpilogCliServer takes *)
(* them out and prints what its categories let through.                     *)
(*                                                                          *)
(* Release build: the assertion on the size of a message is not there.  Of  *)
(* a payload that does not fit an EpilogMsg the queue keeps what fits, and  *)
(* what Run copies after that is whatever lies behind the slot.             *)
(***************************************************************************)
EXTENDS EpilogClient, SequencesExt

CONSTANTS
    NoConnection,
    Session,            \* the thread of RunSession
    ServerQueueSize,    \* the slots of the server's queue, 1024 in the code
    PayloadSize,        \* the units of payload an EpilogMsg holds, 488 bytes in the code
    Hide, Show,         \* --hide, --show: sequences of names, empty if not given
    Level               \* --level

ASSUME ServerAssumption ==
    /\ NoConnection \notin Connections
    /\ ServerQueueSize \in Nat /\ PayloadSize \in Nat
    /\ \A k \in Classes : k # "" /\ (k \in DOMAIN CategoryOf => CategoryOf[k] # "")

VARIABLES
    serving,            \* the connection of the session
    served,             \* the connections accepted so far
    data,               \* the units read and not yet made into a message
    serverQueue,
    serverLine,         \* whether the session waits for a slot in it
    classes,            \* the classes announced
    m_categoryMap,      \* by name: its filter and level
    m_classIdToCategory,\* by class: the name of its category
    m_threads,          \* the threads seen, in the order of their indexes
    display             \* what has been printed, in order

serverVars == <<serving, served, data, serverQueue, serverLine, classes, m_categoryMap,
                m_classIdToCategory, m_threads, display>>

-----------------------------------------------------------------------------
(* main: the options.  The categories are a sequence of [name, filter,      *)
(* level].                                                                  *)

Named(categories, name) == {i \in DOMAIN categories : categories[i].name = name}
Unfiltered(name) == [name |-> name, filter |-> FALSE, level |-> 0]

\* A name that is not there yet is added; "*" is a name too, and stands for all.
ConfigureCategory(categories, name, field, value) ==
    LET known == IF Named(categories, name) = {} THEN Append(categories, Unfiltered(name))
                 ELSE categories
    IN  [i \in DOMAIN known |->
           IF known[i].name = name \/ name = "*" THEN [known[i] EXCEPT ![field] = value]
           ELSE known[i]]

\* SplitCategories takes the names off the end of the list: FoldRight, from the last.
ConfigureCategories(categories, names, field, value) ==
    FoldRight(LAMBDA name, so_far : ConfigureCategory(so_far, name, field, value),
              names, categories)

Configured ==
    LET hidden == ConfigureCategories(<<>>, Hide, "filter", TRUE)
        shown == IF Show = <<>> THEN hidden
                 ELSE ConfigureCategories(ConfigureCategory(hidden, "*", "filter", TRUE),
                                          Show, "filter", FALSE)
    IN  ConfigureCategory(shown, "*", "level", Level)

\* EpilogCliServer's constructor.
CategoryMap(categories) ==
    [n \in {categories[i].name : i \in DOMAIN categories} |->
       categories[CHOOSE i \in Named(categories, n) : TRUE]]

ServerInit ==
    /\ serving = NoConnection /\ served = {}
    /\ data = <<>> /\ serverQueue = <<>> /\ serverLine = <<>>
    /\ classes = {} /\ m_categoryMap = CategoryMap(Configured)
    /\ m_classIdToCategory = [k \in {} |-> ""]
    /\ m_threads = <<>> /\ display = <<>>

-----------------------------------------------------------------------------
(* StartServer and RunSession.                                              *)

Accept(k) ==
    /\ serving = NoConnection
    /\ stream[k] # "none" /\ k \notin served
    /\ serving' = k /\ served' = served \cup {k}
    /\ data' = <<>>
    /\ UNCHANGED <<clientVars, serverQueue, serverLine, classes, m_categoryMap, m_classIdToCategory,
                   m_threads, display>>

Whole == data # <<>> /\ Len(data) >= data[1].size + 1

\* read_some: any part of what is there, once all whole messages are pushed.
ReadSome(n) ==
    /\ serving # NoConnection /\ ~ Whole
    /\ n \in 1 .. Len(wire[serving])
    /\ data' = data \o SubSeq(wire[serving], 1, n)
    /\ wire' = [wire EXCEPT ![serving] = SubSeq(@, n + 1, Len(@))]
    /\ UNCHANGED <<stream, sessionVars, queueVars, loggerVars, runnerVars, m_categories,
                   serving, served, serverQueue, serverLine, classes, m_categoryMap, m_classIdToCategory,
                   m_threads, display>>

\* The first unit is taken for a header.  The text is the one that was sent if it all fits the
\* slot, else it ends in what lies behind, which is not told apart: the message is not whole.
EpilogMsg(units) ==
    [from |-> serving[1], msg |-> units[1].msg, size |-> units[1].size,
     whole |-> units[1].part = 1 /\ units[1].size <= PayloadSize]

\* i_queue->Push, in the thread of the session, the only one that pushes: it is woken by
\* releases only, and so has its slot when it is.  (Wake-ups for no reason are left out.)
ChangeServerLine(next) ==
    /\ serverLine' = next
    /\ UNCHANGED <<clientVars, serving, served, data, serverQueue, classes, m_categoryMap,
                   m_classIdToCategory, m_threads, display>>

WaitToPush ==
    \/ /\ Whole /\ MayJoin(serverLine, Session, Len(serverQueue), ServerQueueSize)
       /\ ChangeServerLine(Joined(serverLine, Session))
    \/ \E next \in Waits(serverLine, Session, Len(serverQueue), ServerQueueSize) :
          ChangeServerLine(next)

\* What was read of the next message is moved to the front.
PushMessage ==
    /\ Whole /\ MayCommit(serverLine, Session, Len(serverQueue), ServerQueueSize)
    /\ serverLine' = Committed(serverLine)
    /\ serverQueue' = Append(serverQueue, EpilogMsg(data))
    /\ data' = SubSeq(data, data[1].size + 2, Len(data))
    /\ UNCHANGED <<clientVars, serving, served, classes, m_categoryMap, m_classIdToCategory,
                   m_threads, display>>

\* At the end of the stream, or when it breaks, the session is over and the next is accepted.
EndSession ==
    /\ serving # NoConnection /\ ~ Whole
    /\ stream[serving] \in {"closed", "dead"} /\ wire[serving] = <<>>
    /\ serving' = NoConnection /\ data' = <<>>
    /\ UNCHANGED <<clientVars, served, serverQueue, serverLine, classes, m_categoryMap,
                   m_classIdToCategory, m_threads, display>>

-----------------------------------------------------------------------------
(* EpilogCliServer::Run, which takes a message, handles and releases it.    *)

Viewing == Head(serverQueue)

\* The category of the class, or, for want of one, a category named like the class.
CategoryFor(k) ==
    IF k \in DOMAIN m_classIdToCategory THEN m_categoryMap[m_classIdToCategory[k]]
    ELSE Unfiltered(IF k \in classes THEN k ELSE "")

\* Warnings and what is special get through; the rest must not be filtered, and of the level.
IsWarningOrFatal(level) == level % 16 >= 12
IsShown(category, level) ==
    \/ IsWarningOrFatal(level)
    \/ ~ category.filter /\ (level % 16 >= category.level \/ level \div 16 > 0)

IndexIn(threads, t) == CHOOSE i \in DOMAIN threads : threads[i] = t

\* A message without payload is taken for the first of a session.
ThreadsBefore(m) == IF m.size = 0 THEN <<>> ELSE m_threads
ThreadsWith(threads, t) ==
    IF \E i \in DOMAIN threads : threads[i] = t THEN threads ELSE Append(threads, t)

Display(m) ==
    LET log == m.msg.log
        category == CategoryFor(log.class)
        threads == ThreadsWith(ThreadsBefore(m), log.thread)
    IN  IF IsShown(category, log.level)
        THEN /\ m_threads' = threads
             /\ display' = Append(display,
                  [from |-> m.from, id |-> log.id, class |-> log.class, name |-> category.name,
                   index |-> IndexIn(threads, log.thread), whole |-> m.whole,
                   text |-> m.msg.text])
        ELSE m_threads' = ThreadsBefore(m) /\ UNCHANGED display

\* Mutant: a category that a program defines is always a new one.
CategoriesWithNew(name) == (name :> Unfiltered(name)) @@ m_categoryMap

\* The category of this name, made if the options do not name it.
CategoriesWith(name) ==
    [n \in DOMAIN m_categoryMap \cup {name} |->
       IF n \in DOMAIN m_categoryMap THEN m_categoryMap[n] ELSE Unfiltered(name)]

ClassesWith(class, name) ==
    [k \in DOMAIN m_classIdToCategory \cup {class} |->
       IF k = class THEN name ELSE m_classIdToCategory[k]]

HandleMessage ==
    /\ serverQueue # <<>>
    /\ serverQueue' = Tail(serverQueue) /\ serverLine' = Notified(serverLine)
    /\ CASE Viewing.msg.type = "log" ->
              /\ Display(Viewing)
              /\ UNCHANGED <<classes, m_categoryMap, m_classIdToCategory>>
         [] Viewing.msg.type = "class" ->
              /\ classes' = classes \cup {Viewing.msg.class}
              /\ UNCHANGED <<m_categoryMap, m_classIdToCategory, m_threads, display>>
         [] Viewing.msg.type = "category" ->
              LET name == CategoryOf[Viewing.msg.class] IN
              /\ m_categoryMap' = CategoriesWith(name)
              /\ m_classIdToCategory' = ClassesWith(Viewing.msg.class, name)
              /\ UNCHANGED <<classes, m_threads, display>>
    /\ UNCHANGED <<clientVars, serving, served, data>>

ServerStep ==
    \/ WaitToPush \/ PushMessage \/ EndSession \/ HandleMessage \/ \E n \in 1 .. WireSize : ReadSome(n)
ServerNext == (ServerStep \/ \E k \in Connections : Accept(k)) /\ UNCHANGED plan
=============================================================================
