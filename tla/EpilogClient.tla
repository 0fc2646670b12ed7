---------------------------- MODULE EpilogClient -----------------------------
(***************************************************************************)
(* trace/Epilog.hpp and EpilogLib.cpp: the tracing library as it is linked  *)
(* into a program.  Threads log; what they log is copied into one queue; a  *)
(* thread of the library (CEpigramRunner) formats it and sends it to a      *)
(* server, or, without one, prints it.                                      *)
(*                                                                          *)
(* Each program is a member of Clients and has one connection per session.  *)
(* Connect and Quit are called by one thread of a program, its main thread, *)
(* as the static Session objects do; DefineCategory too.  The queue is a    *)
(* bounded FIFO queue (JdMessageQueueProofs), from the first message not    *)
(* yet released; who finds it full waits in line, and may be left asleep or *)
(* end the program there (JdMessageSlots).  A stream is a sequence of       *)
(* units, a header or a piece of payload each.                              *)
(***************************************************************************)
EXTENDS JdMessageSlots, FiniteSets

CONSTANTS
    Clients,
    Threads,            \* pthread_self (), which programs may have in common
    Main,               \* the main thread of a program
    Classes,            \* addresses of class names, likewise
    CategoryOf,         \* the classes that have a category, and its name
    QueueSize,          \* the slots of m_queue, 2048 in the code
    WireSize,           \* the units a stream takes before a write blocks
    MaxSessions,        \* bound: connections of a program, in any plan
    MaxNested,          \* bound: sessions it has at once
    Plans               \* what the programs may do: see plan

ASSUME PlansAssumption ==
    \A p \in Plans :
        /\ p.logs \in Nat /\ p.sessions \in 0 .. MaxSessions
        /\ p.threads \in [Clients -> SUBSET Threads]
        /\ p.streams \subseteq BOOLEAN
        /\ \A f \in p.formats :
             f.format \in Seq(STRING) /\ f.args \in Nat /\ f.pointer \in BOOLEAN /\ f.level \in Nat
ASSUME MainAssumption == Main \notin Threads
ASSUME SizesAssumption == MaxSessions \in Nat /\ QueueSize \in Nat /\ WireSize \in Nat

Connections == Clients \X (1 .. MaxSessions)

VARIABLES
    m_clientCount, m_enabled, m_logFile,
    m_categories,       \* the classes that have one
    m_queue,            \* committed and not released
    line,               \* who waits for a slot in it
    counted,            \* of the messages, how many WaitForMessages has not handed out
    main,               \* where the main thread is
    defining,           \* the class whose category it is about to push, if any
    session,            \* which session it is, 0 before the first
    pushing,            \* what each thread is about to push
    text,               \* what is in the buffer each thread builds its text in
    runner,             \* where the library's thread is
    numMessages, quit,  \* of its batch: how many more; whether it has seen the end
    locations,          \* the classes it has announced
    out,                \* the units it is about to write
    wire,               \* the units in each stream
    stream,             \* each connection: "none", "open", "closed" or "dead"
    pushed, handled,    \* all logs pushed; all formatted, with their text
    plan                \* what the programs do, one of Plans:
                        \*   calls    the calls each makes
                        \*   threads  the threads that log, of each program
                        \*   formats  what they log: [format, args, pointer, level]
                        \*   logs     bound: how many logs, of all programs
                        \*   sessions bound: the connections of a program
                        \*   file     whether they ask for a file
                        \*   streams  whether a server may be found, may be missing
                        \*   breaks   whether a stream may break

connectionVars == <<wire, stream>>
sessionVars == <<m_clientCount, m_enabled, m_logFile, main, defining, session>>
queueVars == <<m_queue, line, counted>>
loggerVars == <<pushing, text, pushed>>
runnerVars == <<runner, numMessages, quit, locations, out, handled>>
clientVars == <<connectionVars, sessionVars, queueVars, loggerVars, runnerVars, m_categories>>

Nothing == [type |-> "none"]
QuitMsg == [type |-> "quit"]
CategoryMsg(k) == [type |-> "category", class |-> k]

Connection(c) == <<c, session[c]>>
Connected(c) == session[c] > 0 /\ stream[Connection(c)] # "none"

ClientInit ==
    /\ plan \in Plans
    /\ m_clientCount = [c \in Clients |-> 0] /\ m_enabled = [c \in Clients |-> FALSE]
    /\ m_logFile = [c \in Clients |-> "none"]
    /\ m_categories = [c \in Clients |-> {}]
    /\ m_queue = [c \in Clients |-> <<>>] /\ line = [c \in Clients |-> <<>>]
    /\ defining = [c \in Clients |-> {}] /\ counted = [c \in Clients |-> 0]
    /\ main = [c \in Clients |-> "idle"] /\ session = [c \in Clients |-> 0]
    /\ pushing = [c \in Clients |-> [t \in Threads |-> Nothing]]
    /\ text = [c \in Clients |-> [t \in Threads |-> 0]]
    /\ runner = [c \in Clients |-> "none"]
    /\ numMessages = [c \in Clients |-> 0] /\ quit = [c \in Clients |-> FALSE]
    /\ locations = [c \in Clients |-> {}] /\ out = [c \in Clients |-> <<>>]
    /\ wire = [k \in Connections |-> <<>>] /\ stream = [k \in Connections |-> "none"]
    /\ pushed = [c \in Clients |-> <<>>] /\ handled = [c \in Clients |-> <<>>]

-----------------------------------------------------------------------------
(* Formatting.  A format is a sequence of what EpilogF reads at a time: an  *)
(* "@", that stands for the next argument, an "@@", that stands for "@", or *)
(* any other character.                                                     *)

Insertions(format) == {i \in DOMAIN format : format[i] = "@"}

\* Too few arguments, or too many, throw.
Fits(event) == Cardinality(Insertions(event.format)) = event.args

EpilogF(format, args) ==
    [i \in DOMAIN format |->
        CASE format[i] = "@" -> args[Cardinality(Insertions(format) \cap (1 .. i))]
          [] format[i] = "@@" -> "@"
          [] OTHER -> format[i]]

\* Mutant: a string is not copied.
CastByReference(c, t, pointer) == 0

\* A string, or a `const char *`, is copied into the event; any other pointer is kept as it
\* is (0), and read when the event is formatted.
Cast(c, t, pointer) == IF pointer THEN 0 ELSE text'[c][t]

\* EpilogEvent0 .. EpilogEvent6: all arguments of an event are the same here.
EpilogEvent(f, v1) == [format |-> f.format, args |-> f.args, pointer |-> f.pointer, v1 |-> v1]
CreateEpilogEvent(c, t, f) == EpilogEvent(f, Cast(c, t, f.pointer))

\* EpilogEventN::FormatString, in the library's thread.
FormatString(c, m) ==
    LET value == IF m.event.v1 = 0 THEN text[c][m.thread] ELSE m.event.v1 IN
    EpilogF(m.event.format, [i \in 1 .. m.event.args |-> value])

-----------------------------------------------------------------------------
(* The program: sessions, categories, logging.                              *)

Idle(c) == main[c] = "idle" /\ defining[c] = {}

\* The first session of several makes the connection, and the thread.
Connect(c, logToFile) ==
    /\ Idle(c)
    /\ m_clientCount[c] < IF "nest" \in plan.calls[c] THEN MaxNested ELSE 1
    /\ m_clientCount[c] = 0 => session[c] < plan.sessions
    /\ m_clientCount' = [m_clientCount EXCEPT ![c] = @ + 1]
    /\ IF m_clientCount[c] = 0
       THEN /\ m_enabled' = [m_enabled EXCEPT ![c] = TRUE]
            /\ m_logFile' = [m_logFile EXCEPT ![c] = IF logToFile THEN "open" ELSE @]
            /\ session' = [session EXCEPT ![c] = @ + 1]
            /\ runner' = [runner EXCEPT ![c] = "connect"]
            /\ numMessages' = [numMessages EXCEPT ![c] = 0]
            /\ quit' = [quit EXCEPT ![c] = FALSE]
            /\ locations' = [locations EXCEPT ![c] = {}]
            /\ out' = [out EXCEPT ![c] = <<>>]
       ELSE UNCHANGED <<m_enabled, m_logFile, session, runner, numMessages, quit, locations, out>>
    /\ UNCHANGED <<connectionVars, main, defining, queueVars, loggerVars, handled, m_categories>>

\* Mutant: Quit also tells the thread itself.
QuitAtOnce(c) ==
    /\ Idle(c) /\ m_clientCount[c] > 0
    /\ m_clientCount' = [m_clientCount EXCEPT ![c] = @ - 1]
    /\ main' = [main EXCEPT ![c] = IF m_clientCount[c] = 1 THEN "quit" ELSE @]
    /\ quit' = [quit EXCEPT ![c] = m_clientCount[c] = 1]
    /\ UNCHANGED <<connectionVars, m_enabled, m_logFile, defining, session, queueVars, loggerVars,
                   runner, numMessages, locations, out, handled, m_categories>>

Quit(c) ==
    /\ Idle(c) /\ m_clientCount[c] > 0
    /\ m_clientCount' = [m_clientCount EXCEPT ![c] = @ - 1]
    /\ main' = [main EXCEPT ![c] = IF m_clientCount[c] = 1 THEN "quit" ELSE @]
    /\ UNCHANGED <<connectionVars, m_enabled, m_logFile, defining, session, queueVars, loggerVars,
                   runnerVars, m_categories>>

\* m_queue.Push.  A thread that has something to push draws a ticket, if there is no slot
\* at once, and waits until releases wake it.  (Wake-ups for no reason are left out here.)
AboutToPush(c, t) ==
    IF t = Main THEN main[c] = "quit" \/ defining[c] # {} ELSE pushing[c][t] # Nothing

ChangeLine(c, next) ==
    /\ line' = [line EXCEPT ![c] = next]
    /\ UNCHANGED <<connectionVars, sessionVars, m_queue, counted, loggerVars, runnerVars,
                   m_categories>>

JoinLine(c, t) ==
    /\ AboutToPush(c, t) /\ MayJoin(line[c], t, Len(m_queue[c]), QueueSize)
    /\ ChangeLine(c, Joined(line[c], t))

WaitInLine(c, t) ==
    \E next \in Waits(line[c], t, Len(m_queue[c]), QueueSize) : ChangeLine(c, next)

\* With its slot, it commits what it has to push.
Push(c, t, m) ==
    /\ MayCommit(line[c], t, Len(m_queue[c]), QueueSize)
    /\ line' = [line EXCEPT ![c] = Committed(@)]
    /\ m_queue' = [m_queue EXCEPT ![c] = Append(@, m)]
    /\ counted' = [counted EXCEPT ![c] = @ + 1]

PushQuit(c) ==
    /\ main[c] = "quit"
    /\ Push(c, Main, QuitMsg)
    /\ main' = [main EXCEPT ![c] = "join"]
    /\ UNCHANGED <<connectionVars, m_clientCount, m_enabled, m_logFile, defining, session,
                   loggerVars, runnerVars, m_categories>>

\* m_thread.join (); the file is closed and m_logFile left as it is.
Join(c) ==
    /\ main[c] = "join" /\ runner[c] = "exited"
    /\ main' = [main EXCEPT ![c] = "idle"]
    /\ m_logFile' = [m_logFile EXCEPT ![c] = IF @ = "none" THEN @ ELSE "closed"]
    /\ UNCHANGED <<connectionVars, m_clientCount, m_enabled, defining, session, queueVars, loggerVars,
                   runnerVars, m_categories>>

\* epg_Enable and epg_Disable, or Mute.
Enable(c, enabled) ==
    /\ m_enabled' = [m_enabled EXCEPT ![c] = enabled]
    /\ UNCHANGED <<connectionVars, m_clientCount, m_logFile, main, defining, session, queueVars,
                   loggerVars, runnerVars, m_categories>>

\* Once per class: ClassCategory and m_categories both see to it.
DefineCategory(c, k) ==
    /\ Idle(c) /\ m_enabled[c]
    /\ k \in DOMAIN CategoryOf \ m_categories[c]
    /\ m_categories' = [m_categories EXCEPT ![c] = @ \cup {k}]
    /\ defining' = [defining EXCEPT ![c] = {k}]
    /\ UNCHANGED <<connectionVars, m_clientCount, m_enabled, m_logFile, main, session, queueVars,
                   loggerVars, runnerVars>>

PushCategory(c) ==
    /\ \E k \in defining[c] : Push(c, Main, CategoryMsg(k))
    /\ defining' = [defining EXCEPT ![c] = {}]
    /\ UNCHANGED <<connectionVars, m_clientCount, m_enabled, m_logFile, main, session, loggerVars,
                   runnerVars, m_categories>>

\* The logs of a run, of all programs, are numbered.
Logs == {i \in 1 .. plan.logs : \E c \in Clients, t \in Threads : text[c][t] >= i}

\* epilog (...): the caller builds its text, and the event is made of it.
LogDeferred(c, t, k, f) ==
    /\ m_enabled[c] /\ pushing[c][t] = Nothing
    /\ Cardinality(Logs) < plan.logs
    /\ text' = [text EXCEPT ![c][t] = Cardinality(Logs) + 1]
    /\ pushing' = [pushing EXCEPT ![c][t] =
            [type |-> "log", id |-> text'[c][t], class |-> k, thread |-> t, level |-> f.level,
             event |-> CreateEpilogEvent(c, t, f)]]
    /\ UNCHANGED <<connectionVars, sessionVars, queueVars, pushed, runnerVars, m_categories>>

PushLog(c, t) ==
    /\ pushing[c][t] # Nothing
    /\ Push(c, t, pushing[c][t])
    /\ pushing' = [pushing EXCEPT ![c][t] = Nothing]
    /\ pushed' = [pushed EXCEPT ![c] = Append(@, pushing[c][t])]
    /\ UNCHANGED <<connectionVars, sessionVars, text, runnerVars, m_categories>>

-----------------------------------------------------------------------------
(* CEpigramRunner::operator ().                                             *)

\* A size is a number of units: one of header, and the payload.
Record(m, size) == [i \in 1 .. size + 1 |-> [part |-> i, size |-> size, msg |-> m]]

Go(c, place) == runner' = [runner EXCEPT ![c] = place]

\* The server is found, or it is not and the log is printed.
RunnerConnects(c) ==
    /\ runner[c] = "connect"
    /\ Go(c, "wait")
    /\ \E found \in plan.streams :
         stream' = [stream EXCEPT ![Connection(c)] = IF found THEN "open" ELSE @]
    /\ UNCHANGED <<wire, sessionVars, queueVars, loggerVars, numMessages, quit, locations, out,
                   handled, m_categories>>

\* Mutant: what is left of the count when it has slept is not kept.
WaitForOne(c) ==
    /\ runner[c] = "wait" /\ counted[c] > 0
    /\ numMessages' = [numMessages EXCEPT ![c] = 1]
    /\ counted' = [counted EXCEPT ![c] = 0]
    /\ Go(c, "view")
    /\ UNCHANGED <<connectionVars, sessionVars, m_queue, line, loggerVars, quit, locations, out,
                   handled, m_categories>>

\* All there are, or, after having slept, the one it slept for.
WaitForMessages(c) ==
    /\ runner[c] = "wait" /\ counted[c] > 0
    /\ \E n \in {1, counted[c]} :
         /\ numMessages' = [numMessages EXCEPT ![c] = n]
         /\ counted' = [counted EXCEPT ![c] = @ - n]
    /\ Go(c, "view")
    /\ UNCHANGED <<connectionVars, sessionVars, m_queue, line, loggerVars, quit, locations, out,
                   handled, m_categories>>

Viewed(c) == Head(m_queue[c])

\* The batch goes on after the quit message, which is not released: the message viewed
\* is always that one.
SeeQuit(c) ==
    /\ runner[c] = "view" /\ out[c] = <<>> /\ numMessages[c] > 0
    /\ Viewed(c) = QuitMsg
    /\ quit' = [quit EXCEPT ![c] = TRUE]
    /\ numMessages' = [numMessages EXCEPT ![c] = @ - 1]
    /\ UNCHANGED <<connectionVars, sessionVars, queueVars, loggerVars, runner, locations, out,
                   handled, m_categories>>

\* What is written ahead of a message: the name of its class, the first time.
Announced(c) == IF Viewed(c).class \notin locations[c] /\ Connected(c)
                THEN Record([type |-> "class", class |-> Viewed(c).class], 1) ELSE <<>>

ViewMessage(c) ==
    /\ runner[c] = "view" /\ out[c] = <<>> /\ numMessages[c] > 0
    /\ Viewed(c) # QuitMsg
    /\ locations' = [locations EXCEPT ![c] = @ \cup {Viewed(c).class}]
    /\ out' = [out EXCEPT ![c] = Announced(c)]
    /\ Go(c, "announce")
    /\ UNCHANGED <<connectionVars, sessionVars, queueVars, loggerVars, numMessages, quit,
                   handled, m_categories>>

\* boost::asio::write, a unit at a time.
Write(c) ==
    /\ out[c] # <<>>
    /\ stream[Connection(c)] = "open"
    /\ Len(wire[Connection(c)]) < WireSize
    /\ wire' = [wire EXCEPT ![Connection(c)] = Append(@, Head(out[c]))]
    /\ out' = [out EXCEPT ![c] = Tail(@)]
    /\ UNCHANGED <<stream, sessionVars, queueVars, loggerVars, runner, numMessages, quit,
                   locations, handled, m_categories>>

\* Mutant: the next call views the same message.
KeepMessage(c) == UNCHANGED <<m_queue, line>>

ReleaseMessage(c) ==
    /\ m_queue' = [m_queue EXCEPT ![c] = Tail(@)]
    /\ line' = [line EXCEPT ![c] = Notified(@)]

\* What of the batch is left, and what is to be written.
Take(c, units) ==
    /\ Go(c, "view")
    /\ numMessages' = [numMessages EXCEPT ![c] = @ - 1]
    /\ out' = [out EXCEPT ![c] = IF Connected(c) THEN units ELSE <<>>]

\* A log is formatted, handed to file and handler, and released before it is written.
HandleLog(c) ==
    /\ runner[c] = "announce" /\ out[c] = <<>> /\ Viewed(c).type = "log"
    /\ Fits(Viewed(c).event)
    /\ LET shown == FormatString(c, Viewed(c)) IN
         /\ handled' = [handled EXCEPT ![c] = Append(@, [id |-> Viewed(c).id, text |-> shown])]
         /\ Take(c, Record([type |-> "log", log |-> Viewed(c), text |-> shown], Len(shown)))
    /\ ReleaseMessage(c)
    /\ UNCHANGED <<connectionVars, sessionVars, counted, loggerVars, quit, locations, m_categories>>

HandleCategory(c) ==
    /\ runner[c] = "announce" /\ out[c] = <<>> /\ Viewed(c).type = "category"
    /\ Take(c, Record(Viewed(c), 1))
    /\ ReleaseMessage(c)
    /\ UNCHANGED <<connectionVars, sessionVars, counted, loggerVars, quit, locations, handled,
                   m_categories>>

\* Whatever the thread ends with, it closes its socket.
Exit(c) ==
    /\ Go(c, "exited")
    /\ out' = [out EXCEPT ![c] = <<>>]
    /\ stream' = [stream EXCEPT ![Connection(c)] = IF @ = "open" THEN "closed" ELSE @]
    /\ UNCHANGED <<wire, sessionVars, queueVars, loggerVars, numMessages, quit, locations,
                   handled, m_categories>>

\* Mutant: the thread has forgotten by the end of the batch that it is to quit.
EndBatchOnly(c) ==
    /\ runner[c] = "view" /\ out[c] = <<>> /\ numMessages[c] = 0
    /\ Go(c, "wait")
    /\ UNCHANGED <<connectionVars, sessionVars, queueVars, loggerVars, numMessages, quit,
                   locations, out, handled, m_categories>>

EndBatch(c) ==
    /\ runner[c] = "view" /\ out[c] = <<>> /\ numMessages[c] = 0
    /\ IF quit[c] THEN Exit(c)
       ELSE /\ Go(c, "wait")
            /\ UNCHANGED <<connectionVars, sessionVars, queueVars, loggerVars, numMessages,
                           quit, locations, out, handled, m_categories>>

\* catch (...): a format that does not fit its arguments ends the thread, with its message
\* unreleased; so does a stream that is dead.
Throw(c) ==
    \/ /\ runner[c] = "announce" /\ out[c] = <<>> /\ Viewed(c).type = "log"
       /\ ~ Fits(Viewed(c).event)
       /\ Exit(c)
    \/ /\ out[c] # <<>>
       /\ stream[Connection(c)] = "dead"
       /\ Exit(c)

\* The network fails, and what is on its way is lost.
Break(k) ==
    /\ plan.breaks /\ stream[k] = "open"
    /\ stream' = [stream EXCEPT ![k] = "dead"]
    /\ wire' = [wire EXCEPT ![k] = <<>>]
    /\ UNCHANGED <<sessionVars, queueVars, loggerVars, runnerVars, m_categories>>

-----------------------------------------------------------------------------
RunnerStep(c) ==
    \/ RunnerConnects(c) \/ WaitForMessages(c) \/ SeeQuit(c) \/ ViewMessage(c) \/ Write(c)
    \/ HandleLog(c) \/ HandleCategory(c) \/ EndBatch(c) \/ Throw(c)

MainStep(c) ==
    PushCategory(c) \/ PushQuit(c) \/ Join(c) \/ JoinLine(c, Main) \/ WaitInLine(c, Main)

LoggerStep(c, t) == PushLog(c, t) \/ JoinLine(c, t) \/ WaitInLine(c, t)

ProgramStep(c) ==
    \/ "connect" \in plan.calls[c] /\ Connect(c, plan.file)
    \/ "quit" \in plan.calls[c] /\ Quit(c)
    \/ "enable" \in plan.calls[c] /\ \E enabled \in BOOLEAN : Enable(c, enabled)
    \/ "define" \in plan.calls[c] /\ \E k \in Classes : DefineCategory(c, k)
    \/ \E t \in plan.threads[c], k \in Classes, f \in plan.formats : LogDeferred(c, t, k, f)

\* Writing to the null slot ends a program,
Crashed(c) == SlotIsNull(line[c])

\* and its socket is closed.
Die(c) ==
    /\ Crashed(c) /\ Connected(c)
    /\ stream[Connection(c)] = "open"
    /\ stream' = [stream EXCEPT ![Connection(c)] = "closed"]
    /\ UNCHANGED <<wire, sessionVars, queueVars, loggerVars, runnerVars, m_categories>>

ClientNext ==
    /\ \/ \E c \in Clients :
            \/ /\ ~ Crashed(c)
               /\ \/ RunnerStep(c) \/ MainStep(c) \/ ProgramStep(c)
                  \/ \E t \in Threads : LoggerStep(c, t)
            \/ Die(c)
       \/ \E k \in Connections : Break(k)
    /\ UNCHANGED plan

ClientFairness ==
    \A c \in Clients :
      /\ WF_clientVars(~ Crashed(c) /\ RunnerStep(c)) /\ WF_clientVars(~ Crashed(c) /\ MainStep(c))
      /\ WF_clientVars(Die(c))
      /\ \A t \in Threads : WF_clientVars(~ Crashed(c) /\ LoggerStep(c, t))
=============================================================================
