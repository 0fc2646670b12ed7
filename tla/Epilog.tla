-------------------------------- MODULE Epilog --------------------------------
(***************************************************************************)
(* Programs that log, and the server they log to, side by side.             *)
(***************************************************************************)
EXTENDS EpilogServer

vars == <<clientVars, serverVars, plan>>

Init == ClientInit /\ ServerInit
Next == (ClientNext /\ UNCHANGED serverVars) \/ ServerNext

\* Threads of a program, and of the server, go on when they can; nobody has to log or to
\* quit, and nothing has to be accepted.
Fairness == ClientFairness /\ WF_serverVars(ServerStep)

Spec == Init /\ [][Next]_vars
FairSpec == Spec /\ Fairness

-----------------------------------------------------------------------------
\* The messages of a program's queue, of a stream, and of the server's queue.
Formats == UNION {p.formats : p \in Plans}
LogMsg(id, k, t, f, v1) ==
    [type |-> "log", id |-> id, class |-> k, thread |-> t, level |-> f.level,
     event |-> EpilogEvent(f, v1)]
LogMsgs ==
    {LogMsg(id, k, t, f, v1) :
        id \in Nat, k \in Classes, t \in Threads, f \in Formats, v1 \in Nat}
Definable == Classes \cap DOMAIN CategoryOf
CategoryMsgs == {CategoryMsg(k) : k \in Definable}
QueuedMsgs == LogMsgs \cup CategoryMsgs \cup {QuitMsg}

TextOf(log, v) == EpilogF(log.event.format, [n \in 1 .. log.event.args |-> v])
LogUnit(log, text_) == [type |-> "log", log |-> log, text |-> text_]
LogUnits == {LogUnit(log, TextOf(log, v)) : log \in LogMsgs, v \in Nat}
StreamMsgs == CategoryMsgs \cup {[type |-> "class", class |-> k] : k \in Classes} \cup LogUnits
Units == [part : Nat, size : Nat, msg : StreamMsgs]
ServerMsgs == [from : Clients, msg : StreamMsgs, size : Nat, whole : BOOLEAN]
Texts == {TextOf(log, v) : log \in LogMsgs, v \in Nat}
Names ==
    Classes \cup {""} \cup {CategoryOf[k] : k \in DOMAIN CategoryOf}
      \cup DOMAIN CategoryMap(Configured)
Displayed ==
    [from : Clients, id : Nat, class : Classes, name : Names, index : Nat, whole : BOOLEAN,
     text : Texts]

ClientTypeOK ==
    /\ plan \in Plans
    /\ m_clientCount \in [Clients -> Nat] /\ m_enabled \in [Clients -> BOOLEAN]
    /\ m_logFile \in [Clients -> {"none", "open", "closed"}]
    /\ m_categories \in [Clients -> SUBSET Classes]
    /\ m_queue \in [Clients -> Seq(QueuedMsgs)] /\ counted \in [Clients -> Nat]
    /\ main \in [Clients -> {"idle", "quit", "join"}]
    /\ defining \in [Clients -> SUBSET Definable]
    /\ session \in [Clients -> 0 .. MaxSessions]
    /\ pushing \in [Clients -> [Threads -> LogMsgs \cup {Nothing}]]
    /\ text \in [Clients -> [Threads -> Nat]]
    /\ runner \in [Clients -> {"none", "connect", "wait", "view", "announce", "exited"}]
    /\ numMessages \in [Clients -> Nat] /\ quit \in [Clients -> BOOLEAN]
    /\ locations \in [Clients -> SUBSET Classes]
    /\ out \in [Clients -> Seq(Units)] /\ wire \in [Connections -> Seq(Units)]
    /\ stream \in [Connections -> {"none", "open", "closed", "dead"}]
    /\ pushed \in [Clients -> Seq(LogMsgs)]
    /\ handled \in [Clients -> Seq([id : Nat, text : Texts])]

ServerTypeOK ==
    /\ serving \in Connections \cup {NoConnection} /\ served \in SUBSET Connections
    /\ data \in Seq(Units) /\ (data # <<>> => serving # NoConnection)
    /\ serverQueue \in Seq(ServerMsgs)
    /\ classes \in SUBSET Classes
    /\ DOMAIN m_categoryMap \subseteq Names
    /\ \A name \in DOMAIN m_categoryMap : m_categoryMap[name].name = name
    /\ DOMAIN m_classIdToCategory \subseteq Classes
    /\ \A k \in DOMAIN m_classIdToCategory :
        m_classIdToCategory[k] \in DOMAIN m_categoryMap
    /\ m_threads \in Seq(Threads) /\ display \in Seq(Displayed)

LinesTypeOK == line \in [Clients -> Lines(Threads \cup {Main})] /\ serverLine \in Lines({Session})

StateTypeOK == ClientTypeOK /\ ServerTypeOK
TypeOK == StateTypeOK /\ LinesTypeOK

-----------------------------------------------------------------------------
PlaceOf(c, id) == CHOOSE i \in DOMAIN pushed[c] : pushed[c][i].id = id

\* What a program logs is shown in the order it was queued in, each log once at most, over
\* queue, stream, the server's reading and its queue, over all sessions and failures.
ShownInOrder ==
    \A i, j \in DOMAIN display :
      LET c == display[i].from IN
      /\ display[i].id \in {pushed[c][n].id : n \in DOMAIN pushed[c]}
      /\ i < j /\ display[j].from = c =>
            PlaceOf(c, display[i].id) < PlaceOf(c, display[j].id)

\* And with the text its strings had when it was made, though the thread that made it has
\* gone on; its class is known by then; and it is whole, unless it is longer than a message
\* of the server's.
ShownAsLogged ==
    /\ ShownInOrder
    /\ \A i \in DOMAIN display : LET d == display[i] IN
         LET log == pushed[d.from][PlaceOf(d.from, d.id)] IN
         /\ d.name # ""
         /\ d.class = log.class
         /\ ~ log.event.pointer => d.text = TextOf(log, log.id)
         /\ d.whole <=> Len(d.text) <= PayloadSize

LevelOf(d) == pushed[d.from][PlaceOf(d.from, d.id)].level
NamesIn(s) == {s[i] : i \in DOMAIN s}

\* Once the server knows the category of a class, one named by --hide, warnings and worse are
\* all that is shown of it: the category that a program defines is the one the options set up.
HiddenStaysHidden ==
    \A i \in DOMAIN display :
      display[i].name \in NamesIn(Hide) => IsWarningOrFatal(LevelOf(display[i]))

\* A use of the options: --show takes back nothing that --hide names, and no class is called
\* like a category that is hidden (until its own is known, a class is a category by its name).
HideTakesEffect ==
    /\ \A name \in NamesIn(Hide) :
         name \in DOMAIN CategoryMap(Configured) /\ CategoryMap(Configured)[name].filter
    /\ NamesIn(Hide) \cap Classes = {}

LogsUpTo(queue, n) == {i \in 1 .. n : queue[i].type = "log"}

\* The logs in the queue are, in this order, those that were pushed after the ones handled.
InTurn(queue, done, logs) ==
    /\ Len(done) + Cardinality(LogsUpTo(queue, Len(queue))) = Len(logs)
    /\ \A i \in DOMAIN done : done[i].id = logs[i].id
    /\ \A i \in LogsUpTo(queue, Len(queue)) :
         queue[i] = logs[Len(done) + Cardinality(LogsUpTo(queue, i))]

HandledInTurn(c) == InTurn(m_queue[c], handled[c], pushed[c])

\* When the library's thread is over, all that was pushed before the quit message has been
\* handled: Quit, which joins that thread, flushes.  Only a broken stream or a log whose
\* arguments do not fit its format leaves more than that in the queue.
QuitFlushes ==
    \A c \in Clients :
      /\ HandledInTurn(c)
      /\ runner[c] = "exited" =>
           \/ stream[Connection(c)] = "dead"
           \/ /\ m_queue[c] # <<>>
              /\ \/ Viewed(c) = QuitMsg
                 \/ Viewed(c).type = "log" /\ ~ Fits(Viewed(c).event)

Served(c) == serving = Connection(c) \/ (stream[Connection(c)] = "none" /\ runner[c] # "connect")

LogIds == UNION {1 .. p.logs : p \in Plans}
\* In the queue, and ahead of any quit message, which is never taken out of it.
Queued(c, id) ==
    \E n \in DOMAIN m_queue[c] :
      /\ m_queue[c][n].type = "log" /\ m_queue[c][n].id = id
      /\ \A p \in 1 .. n : m_queue[c][p] # QuitMsg
Handled(c, id) == \E n \in DOMAIN handled[c] : handled[c][n].id = id

\* Nobody is left asleep for ever beside a free slot, of a program's queue or the server's.
SleepersHear(c) ==
    []<>(~ Stranded(line[c], Len(m_queue[c]), QueueSize)
           /\ ~ Stranded(serverLine, Len(serverQueue), ServerQueueSize))

\* Nobody makes room in a full queue when the thread that reads it is over, or waits for more
\* because what is in it was counted for an earlier session's thread.
FullForGood(c) ==
    /\ Len(m_queue[c]) >= QueueSize
    /\ runner[c] = "exited" \/ (runner[c] = "wait" /\ counted[c] = 0)

\* While its session is served, or printed, a log in the queue is handled, or the thread
\* that would do it is over; if a quit message is ahead of it, it may wait for ever.  And
\* Quit comes back, from the call on, if its session is served, or is not sent anywhere,
\* unless what the quit message of an earlier session holds up fills the queue.  All this as
\* long as nobody is left asleep beside a free slot, and until the program ends with a null one.
LogsAreHandled ==
    \A c \in Clients : SleepersHear(c) =>
      /\ \A id \in LogIds :
           (session[c] > 0 /\ Served(c) /\ Queued(c, id))
             ~> (runner[c] = "exited" \/ Handled(c, id) \/ Crashed(c))
      /\ (main[c] \in {"quit", "join"} /\ Served(c))
             ~> (main[c] = "idle" \/ FullForGood(c) \/ Crashed(c))
=============================================================================
