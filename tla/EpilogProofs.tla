---------------------------- MODULE EpilogProofs -----------------------------
(***************************************************************************)
(* Programs that log, and their server, for any number of programs, threads *)
(* and sessions, any plans, and any capacity of the queues and the streams. *)
(***************************************************************************)
EXTENDS Epilog, FunctionTheorems, FiniteSetTheorems, SequenceTheorems, TLAPS

-----------------------------------------------------------------------------
(* Types.                                                                   *)

LEMMA FormatTypes ==
    ASSUME NEW f \in Formats
    PROVE  f.format \in Seq(STRING) /\ f.args \in Nat /\ f.pointer \in BOOLEAN /\ f.level \in Nat
  BY PlansAssumption DEF Formats

LEMMA LogFields ==
    ASSUME NEW m \in LogMsgs
    PROVE  /\ m.type = "log" /\ m.id \in Nat /\ m.class \in Classes /\ m.thread \in Threads
           /\ m.level \in Nat
           /\ m.event.v1 \in Nat /\ m.event.format \in Seq(STRING) /\ m.event.args \in Nat
           /\ m.event.pointer \in BOOLEAN
<1>1. PICK id \in Nat, k \in Classes, t \in Threads, f \in Formats, v1 \in Nat :
        m = LogMsg(id, k, t, f, v1)
  BY DEF LogMsgs
<1> QED
  BY <1>1, FormatTypes DEF LogMsg, EpilogEvent

\* What kind a queued message is of shows what it is.
LEMMA QueuedKinds ==
    ASSUME NEW m \in QueuedMsgs
    PROVE  /\ m.type = "log" <=> m \in LogMsgs
           /\ m.type = "category" <=> m \in CategoryMsgs
           /\ m.type = "quit" <=> m = QuitMsg
           /\ m # QuitMsg => m.class \in Classes
<1>1. m \in LogMsgs => m.type = "log" /\ m.class \in Classes
  BY LogFields
<1>2. m \in CategoryMsgs => m.type = "category" /\ m.class \in Classes
  BY DEF CategoryMsgs, CategoryMsg, Definable
<1>3. QuitMsg.type = "quit"
  BY DEF QuitMsg
<1> QED
  BY <1>1, <1>2, <1>3 DEF QueuedMsgs

LEMMA TextLength ==
    ASSUME NEW log \in LogMsgs, NEW v
    PROVE  Len(TextOf(log, v)) \in Nat /\ Len(TextOf(log, v)) = Len(log.event.format)
<1> DEFINE format == log.event.format
<1>1. format \in Seq(STRING)
  BY LogFields
<1>2. DOMAIN format = 1 .. Len(format) /\ Len(format) \in Nat
  BY <1>1
<1> QED
  BY <1>2 DEF TextOf, EpilogF

LEMMA RecordType ==
    ASSUME NEW m \in StreamMsgs, NEW size \in Nat
    PROVE  /\ Record(m, size) \in Seq(Units) /\ Len(Record(m, size)) = size + 1
           /\ \A i \in 1 .. size + 1 : Record(m, size)[i] = [part |-> i, size |-> size, msg |-> m]
<1>1. \A i \in 1 .. size + 1 : [part |-> i, size |-> size, msg |-> m] \in Units
  BY DEF Units
<1> QED
  BY <1>1 DEF Record

\* The number of the next log.
LEMMA LogsAreNumbered ==
    ASSUME StateTypeOK
    PROVE  IsFiniteSet(Logs) /\ Cardinality(Logs) \in Nat
<1>1. plan.logs \in Nat
  BY PlansAssumption DEF StateTypeOK, ClientTypeOK
<1>2. Logs \subseteq 1 .. plan.logs /\ IsFiniteSet(1 .. plan.logs)
  BY <1>1, FS_Interval DEF Logs
<1> QED
  BY <1>2, FS_Subset, FS_CardinalityType

\* What a log prints as is the text its arguments give it, whatever value they have by now.
LEMMA Formatted ==
    ASSUME StateTypeOK, NEW c \in Clients, NEW m \in LogMsgs
    PROVE  \E v \in Nat :
              /\ FormatString(c, m) = TextOf(m, v)
              /\ m.event.v1 # 0 => v = m.event.v1
<1> DEFINE v == IF m.event.v1 = 0 THEN text[c][m.thread] ELSE m.event.v1
<1>1. v \in Nat
  BY LogFields DEF StateTypeOK, ClientTypeOK
<1>2. FormatString(c, m) = TextOf(m, v)
  BY DEF FormatString, TextOf
<1> QED
  BY <1>1, <1>2

-----------------------------------------------------------------------------
(* The steps of a program keep the types.                                   *)

LEMMA ConnectTypes ==
    ASSUME StateTypeOK, plan' = plan, NEW c \in Clients, Connect(c, plan.file)
    PROVE  ClientTypeOK'
<1>1. plan.sessions \in 0 .. MaxSessions /\ MaxSessions \in Nat
  BY PlansAssumption, SizesAssumption DEF StateTypeOK, ClientTypeOK
<1>2. m_clientCount' \in [Clients -> Nat]
  BY DEF StateTypeOK, ClientTypeOK, Connect
<1>3. CASE m_clientCount[c] = 0
  <2>1. session' \in [Clients -> 0 .. MaxSessions]
    <3>1. session[c] + 1 \in 0 .. MaxSessions
      BY <1>1, <1>3 DEF StateTypeOK, ClientTypeOK, Connect
    <3>2. session' = [session EXCEPT ![c] = session[c] + 1]
      BY <1>3 DEF Connect
    <3> QED
      BY <3>1, <3>2 DEF StateTypeOK, ClientTypeOK
  <2>2. m_logFile' \in [Clients -> {"none", "open", "closed"}]
    <3>1. m_logFile' = [m_logFile EXCEPT ![c] = IF plan.file THEN "open" ELSE m_logFile[c]]
      BY <1>3 DEF Connect, StateTypeOK, ClientTypeOK
    <3>2. m_logFile \in [Clients -> {"none", "open", "closed"}]
      BY DEF StateTypeOK, ClientTypeOK
    <3> QED
      BY <3>1, <3>2
  <2>3. /\ m_enabled' \in [Clients -> BOOLEAN]
        /\ runner' \in [Clients -> {"none", "connect", "wait", "view", "announce", "exited"}]
        /\ numMessages' \in [Clients -> Nat] /\ quit' \in [Clients -> BOOLEAN]
        /\ locations' \in [Clients -> SUBSET Classes] /\ out' \in [Clients -> Seq(Units)]
    <3>1. /\ m_enabled' = [m_enabled EXCEPT ![c] = TRUE]
          /\ runner' = [runner EXCEPT ![c] = "connect"]
          /\ numMessages' = [numMessages EXCEPT ![c] = 0]
          /\ quit' = [quit EXCEPT ![c] = FALSE]
          /\ locations' = [locations EXCEPT ![c] = {}]
          /\ out' = [out EXCEPT ![c] = <<>>]
      BY <1>3 DEF Connect
    <3>2. <<>> \in Seq(Units)
      OBVIOUS
    <3> QED
      BY <3>1, <3>2 DEF StateTypeOK, ClientTypeOK
  <2> QED
    BY <1>2, <2>1, <2>2, <2>3
       DEF Connect, StateTypeOK, ClientTypeOK, connectionVars, queueVars, loggerVars
<1>4. CASE m_clientCount[c] # 0
  BY <1>2, <1>4 DEF Connect, StateTypeOK, ClientTypeOK, connectionVars, queueVars, loggerVars
<1> QED
  BY <1>3, <1>4

\* What is queued next.
LEMMA PushTypes ==
    ASSUME StateTypeOK, NEW c \in Clients, NEW t, NEW m \in QueuedMsgs, Push(c, t, m)
    PROVE  m_queue' \in [Clients -> Seq(QueuedMsgs)] /\ counted' \in [Clients -> Nat]
  BY DEF StateTypeOK, ClientTypeOK, Push

\* The category about to be pushed.
LEMMA PushedCategory ==
    ASSUME StateTypeOK, NEW c \in Clients, PushCategory(c)
    PROVE  \E m \in QueuedMsgs : m.type = "category" /\ Push(c, Main, m)
<1>1. PICK k \in defining[c] : Push(c, Main, CategoryMsg(k))
  BY DEF PushCategory
<1>2. k \in Definable
  BY DEF StateTypeOK, ClientTypeOK
<1>3. CategoryMsg(k) \in QueuedMsgs /\ CategoryMsg(k).type = "category"
  BY <1>2 DEF Definable, QueuedMsgs, CategoryMsgs, CategoryMsg
<1> QED
  BY <1>1, <1>3

LEMMA MainTypes ==
    ASSUME StateTypeOK, plan' = plan, NEW c \in Clients,
           PushCategory(c) \/ PushQuit(c) \/ Join(c)
    PROVE  ClientTypeOK'
<1> USE DEF connectionVars, sessionVars, queueVars, loggerVars, runnerVars
<1>1. CASE PushQuit(c)
  <2>1. m_queue' \in [Clients -> Seq(QueuedMsgs)] /\ counted' \in [Clients -> Nat]
    BY <1>1, PushTypes DEF PushQuit, QueuedMsgs
  <2> QED
    BY <1>1, <2>1 DEF PushQuit, StateTypeOK, ClientTypeOK
<1>2. CASE Join(c)
  BY <1>2 DEF Join, StateTypeOK, ClientTypeOK
<1>3. CASE PushCategory(c)
  <2>1. m_queue' \in [Clients -> Seq(QueuedMsgs)] /\ counted' \in [Clients -> Nat]
    BY <1>3, PushTypes, PushedCategory
  <2> QED
    BY <1>3, <2>1 DEF PushCategory, StateTypeOK, ClientTypeOK
<1> QED
  BY <1>1, <1>2, <1>3

LEMMA ProgramTypes ==
    ASSUME StateTypeOK, plan' = plan, NEW c \in Clients, ProgramStep(c)
    PROVE  ClientTypeOK'
<1> USE DEF connectionVars, sessionVars, queueVars, loggerVars, runnerVars
<1>1. CASE Connect(c, plan.file)
  BY <1>1, ConnectTypes
<1>2. CASE Quit(c)
  <2>1. m_clientCount' \in [Clients -> Nat]
    BY <1>2 DEF Quit, StateTypeOK, ClientTypeOK
  <2> QED
    BY <1>2, <2>1 DEF Quit, StateTypeOK, ClientTypeOK
<1>3. ASSUME NEW enabled \in BOOLEAN, Enable(c, enabled) PROVE ClientTypeOK'
  BY <1>3 DEF Enable, StateTypeOK, ClientTypeOK
<1>4. ASSUME NEW k \in Classes, DefineCategory(c, k) PROVE ClientTypeOK'
  <2>1. k \in Definable
    BY <1>4 DEF DefineCategory, Definable
  <2>2. m_categories' \in [Clients -> SUBSET Classes]
    BY <1>4 DEF DefineCategory, StateTypeOK, ClientTypeOK
  <2> QED
    BY <1>4, <2>1, <2>2 DEF DefineCategory, StateTypeOK, ClientTypeOK
<1>5. ASSUME NEW t \in plan.threads[c], NEW k \in Classes, NEW f \in plan.formats,
             LogDeferred(c, t, k, f)
      PROVE  ClientTypeOK'
  <2>1. t \in Threads /\ f \in Formats
    BY PlansAssumption DEF StateTypeOK, ClientTypeOK, Formats
  <2>2. text' \in [Clients -> [Threads -> Nat]] /\ text'[c][t] \in Nat
    <3> DEFINE next == Cardinality(Logs) + 1
    <3>1. next \in Nat
      BY LogsAreNumbered
    <3>2. text' = [text EXCEPT ![c][t] = next]
      BY <1>5 DEF LogDeferred
    <3> HIDE DEF next
    <3> QED
      BY <2>1, <3>1, <3>2 DEF StateTypeOK, ClientTypeOK
  <2> DEFINE v1 == Cast(c, t, f.pointer)
             m == [type |-> "log", id |-> text'[c][t], class |-> k, thread |-> t,
                   level |-> f.level, event |-> CreateEpilogEvent(c, t, f)]
  <2>3. v1 \in Nat
    BY <2>2 DEF Cast
  <2>4. m = LogMsg(text'[c][t], k, t, f, v1)
    BY DEF LogMsg, CreateEpilogEvent
  <2>5. m \in LogMsgs
    <3> HIDE DEF v1, m
    <3> QED
      BY <2>1, <2>2, <2>3, <2>4 DEF LogMsgs
  <2>6. pushing' = [pushing EXCEPT ![c][t] = m]
    BY <1>5 DEF LogDeferred
  <2>7. pushing' \in [Clients -> [Threads -> LogMsgs \cup {Nothing}]]
    <3> HIDE DEF m
    <3> QED
      BY <2>1, <2>5, <2>6 DEF StateTypeOK, ClientTypeOK
  <2> QED
    BY <1>5, <2>2, <2>7 DEF LogDeferred, StateTypeOK, ClientTypeOK
<1> QED
  BY <1>1, <1>2, <1>3, <1>4, <1>5 DEF ProgramStep

LEMMA PushLogTypes ==
    ASSUME StateTypeOK, plan' = plan, NEW c \in Clients, NEW t \in Threads, PushLog(c, t)
    PROVE  ClientTypeOK' /\ pushing[c][t] \in LogMsgs
<1> USE DEF connectionVars, sessionVars, queueVars, loggerVars, runnerVars
<1>1. pushing[c][t] \in LogMsgs
  BY DEF PushLog, StateTypeOK, ClientTypeOK
<1>2. m_queue' \in [Clients -> Seq(QueuedMsgs)] /\ counted' \in [Clients -> Nat]
  BY <1>1, PushTypes DEF PushLog, QueuedMsgs
<1>3. pushed' \in [Clients -> Seq(LogMsgs)]
  BY <1>1 DEF PushLog, StateTypeOK, ClientTypeOK
<1>4. pushing' \in [Clients -> [Threads -> LogMsgs \cup {Nothing}]]
  BY DEF PushLog, StateTypeOK, ClientTypeOK
<1> QED
  BY <1>1, <1>2, <1>3, <1>4 DEF PushLog, StateTypeOK, ClientTypeOK

\* The message a runner is at.
LEMMA ViewedTypes ==
    ASSUME StateTypeOK, NEW c \in Clients, m_queue[c] # <<>>
    PROVE  Viewed(c) \in QueuedMsgs /\ Tail(m_queue[c]) \in Seq(QueuedMsgs)
  BY DEF StateTypeOK, ClientTypeOK, Viewed

\* The connection of a runner that has one.
LEMMA ConnectionTypes ==
    ASSUME StateTypeOK, NEW c \in Clients, session[c] > 0
    PROVE  Connection(c) \in Connections
  BY SizesAssumption DEF StateTypeOK, ClientTypeOK, Connection, Connections

\* A runner goes on to another message.
LEMMA TakeTypes ==
    ASSUME StateTypeOK, NEW c \in Clients, numMessages[c] > 0, NEW units \in Seq(Units),
           Take(c, units)
    PROVE  /\ runner' \in [Clients -> {"none", "connect", "wait", "view", "announce", "exited"}]
           /\ numMessages' \in [Clients -> Nat] /\ out' \in [Clients -> Seq(Units)]
<1>1. numMessages[c] - 1 \in Nat
  BY DEF StateTypeOK, ClientTypeOK
<1>2. numMessages' = [numMessages EXCEPT ![c] = numMessages[c] - 1]
  BY DEF Take
<1>3. \E u \in Seq(Units) : out' = [out EXCEPT ![c] = u]
  <2>1. <<>> \in Seq(Units)
    OBVIOUS
  <2> QED
    BY <2>1 DEF Take
<1>4. runner' = [runner EXCEPT ![c] = "view"]
  BY DEF Take, Go
<1> QED
  BY <1>1, <1>2, <1>3, <1>4 DEF StateTypeOK, ClientTypeOK

LEMMA ExitTypes ==
    ASSUME StateTypeOK, plan' = plan, NEW c \in Clients, Exit(c)
    PROVE  ClientTypeOK'
<1>1. /\ runner' = [runner EXCEPT ![c] = "exited"]
      /\ out' = [out EXCEPT ![c] = <<>>]
  BY DEF Exit, Go
<1>2. out' \in [Clients -> Seq(Units)]
  <2>1. <<>> \in Seq(Units)
    OBVIOUS
  <2> QED
    BY <1>1, <2>1 DEF StateTypeOK, ClientTypeOK
<1>3. stream' \in [Connections -> {"none", "open", "closed", "dead"}]
  BY DEF Exit, StateTypeOK, ClientTypeOK
<1> QED
  BY <1>1, <1>2, <1>3
     DEF Exit, StateTypeOK, ClientTypeOK, sessionVars, queueVars, loggerVars

\* While a message is announced it is in the queue and counts as not yet taken, and so are
\* the others of the batch, and those that are counted.
Batch(c) ==
    /\ numMessages[c] + counted[c] <= Len(m_queue[c])
    /\ runner[c] = "announce" =>
         /\ numMessages[c] > 0
         /\ Viewed(c) # QuitMsg
         /\ Viewed(c).class \in locations[c]
    /\ quit[c] => m_queue[c] # <<>> /\ Viewed(c) = QuitMsg
    /\ out[c] # <<>> => runner[c] \in {"view", "announce"}
    /\ runner[c] # "none" => session[c] > 0

Batches == \A c \in Clients : Batch(c)

LEMMA SessionsBegun ==
    ASSUME StateTypeOK, NEW c \in Clients, Batch(c)
    PROVE  runner[c] # "none" => session[c] \in 1 .. MaxSessions
<1>1. session[c] \in 0 .. MaxSessions /\ MaxSessions \in Nat
  BY SizesAssumption DEF StateTypeOK, ClientTypeOK
<1>2. runner[c] # "none" => session[c] > 0
  BY DEF Batch
<1> QED
  BY <1>1, <1>2

LEMMA Unreleased ==
    ASSUME StateTypeOK, NEW c \in Clients, Batch(c), numMessages[c] > 0 \/ runner[c] = "announce"
    PROVE  m_queue[c] # <<>> /\ numMessages[c] > 0
<1>1. numMessages[c] \in Nat /\ counted[c] \in Nat /\ m_queue[c] \in Seq(QueuedMsgs)
  BY DEF StateTypeOK, ClientTypeOK
<1>2. numMessages[c] > 0
  BY DEF Batch
<1>3. Len(m_queue[c]) > 0
  BY <1>1, <1>2 DEF Batch
<1> QED
  BY <1>1, <1>2, <1>3

\* What a runner writes of a log.
LEMMA LogUnitType ==
    ASSUME StateTypeOK, NEW c \in Clients, NEW m \in LogMsgs
    PROVE  /\ FormatString(c, m) \in Texts
           /\ LogUnit(m, FormatString(c, m)) \in StreamMsgs
           /\ Len(FormatString(c, m)) \in Nat
<1>1. PICK v \in Nat : FormatString(c, m) = TextOf(m, v)
  BY Formatted
<1> QED
  BY <1>1, TextLength DEF Texts, StreamMsgs, LogUnits

LEMMA RunnerTypes ==
    ASSUME StateTypeOK, plan' = plan, NEW c \in Clients, Batch(c), RunnerStep(c)
    PROVE  ClientTypeOK'
<1> USE DEF connectionVars, sessionVars, queueVars, loggerVars, runnerVars
<1>1. CASE RunnerConnects(c)
  <2>1. PICK found \in BOOLEAN :
          stream' = [stream EXCEPT ![Connection(c)] = IF found THEN "open" ELSE @]
    BY <1>1, PlansAssumption DEF RunnerConnects, StateTypeOK, ClientTypeOK
  <2>2. stream' \in [Connections -> {"none", "open", "closed", "dead"}]
    BY <2>1 DEF StateTypeOK, ClientTypeOK
  <2>3. runner' \in [Clients -> {"none", "connect", "wait", "view", "announce", "exited"}]
    BY <1>1 DEF RunnerConnects, Go, StateTypeOK, ClientTypeOK
  <2> QED
    BY <1>1, <2>2, <2>3 DEF RunnerConnects, StateTypeOK, ClientTypeOK
<1>2. CASE WaitForMessages(c)
  <2>1. PICK n \in {1, counted[c]} :
          /\ numMessages' = [numMessages EXCEPT ![c] = n]
          /\ counted' = [counted EXCEPT ![c] = @ - n]
    BY <1>2 DEF WaitForMessages
  <2>2. counted[c] \in Nat /\ counted[c] > 0 /\ n \in Nat /\ counted[c] - n \in Nat
    BY <1>2, <2>1 DEF WaitForMessages, StateTypeOK, ClientTypeOK
  <2>3. numMessages' \in [Clients -> Nat] /\ counted' \in [Clients -> Nat]
    BY <2>1, <2>2 DEF StateTypeOK, ClientTypeOK
  <2>4. runner' \in [Clients -> {"none", "connect", "wait", "view", "announce", "exited"}]
    BY <1>2 DEF WaitForMessages, Go, StateTypeOK, ClientTypeOK
  <2> QED
    BY <1>2, <2>3, <2>4 DEF WaitForMessages, StateTypeOK, ClientTypeOK
<1>3. CASE SeeQuit(c)
  <2>1. numMessages' \in [Clients -> Nat] /\ quit' \in [Clients -> BOOLEAN]
    BY <1>3 DEF SeeQuit, StateTypeOK, ClientTypeOK
  <2> QED
    BY <1>3, <2>1 DEF SeeQuit, StateTypeOK, ClientTypeOK
<1>4. CASE ViewMessage(c)
  <2>1. Viewed(c) \in QueuedMsgs /\ Viewed(c).class \in Classes
    BY <1>4, Unreleased, ViewedTypes, QueuedKinds DEF ViewMessage
  <2>2. Announced(c) \in Seq(Units)
    <3>1. [type |-> "class", class |-> Viewed(c).class] \in StreamMsgs
      BY <2>1 DEF StreamMsgs
    <3> QED
      BY <3>1, RecordType DEF Announced
  <2>3. locations' \in [Clients -> SUBSET Classes]
    BY <1>4, <2>1 DEF ViewMessage, StateTypeOK, ClientTypeOK
  <2>4. out' = [out EXCEPT ![c] = Announced(c)]
    BY <1>4 DEF ViewMessage
  <2>5. out' \in [Clients -> Seq(Units)]
    BY <2>2, <2>4 DEF StateTypeOK, ClientTypeOK
  <2>6. runner' \in [Clients -> {"none", "connect", "wait", "view", "announce", "exited"}]
    BY <1>4 DEF ViewMessage, Go, StateTypeOK, ClientTypeOK
  <2> QED
    BY <1>4, <2>3, <2>5, <2>6 DEF ViewMessage, StateTypeOK, ClientTypeOK
<1>5. CASE Write(c)
  <2>1. Head(out[c]) \in Units /\ Tail(out[c]) \in Seq(Units)
    BY <1>5 DEF Write, StateTypeOK, ClientTypeOK
  <2>2. out' \in [Clients -> Seq(Units)]
    BY <1>5, <2>1 DEF Write, StateTypeOK, ClientTypeOK
  <2>3. wire' \in [Connections -> Seq(Units)]
    <3> DEFINE k == Connection(c)  u == Head(out[c])
    <3>1. wire' = [wire EXCEPT ![k] = Append(@, u)]
      BY <1>5 DEF Write
    <3>2. wire \in [Connections -> Seq(Units)] /\ u \in Units
      BY <2>1 DEF StateTypeOK, ClientTypeOK
    <3> HIDE DEF k, u
    <3>3. CASE k \in Connections
      <4>1. Append(wire[k], u) \in Seq(Units)
        BY <3>2, <3>3
      <4> QED
        BY <3>1, <3>2, <4>1
    <3>4. CASE k \notin Connections
      BY <3>1, <3>2, <3>4
    <3> QED
      BY <3>3, <3>4
  <2> QED
    BY <1>5, <2>2, <2>3 DEF Write, StateTypeOK, ClientTypeOK
<1>6. CASE HandleLog(c) \/ HandleCategory(c)
  <2>1. m_queue[c] # <<>> /\ numMessages[c] > 0
    BY <1>6, Unreleased DEF HandleLog, HandleCategory
  <2>2. Viewed(c) \in QueuedMsgs /\ Tail(m_queue[c]) \in Seq(QueuedMsgs)
    BY <2>1, ViewedTypes
  <2>3. m_queue' \in [Clients -> Seq(QueuedMsgs)]
    BY <1>6, <2>2 DEF HandleLog, HandleCategory, ReleaseMessage, StateTypeOK, ClientTypeOK
  <2>4. CASE HandleLog(c)
    <3> DEFINE shown == FormatString(c, Viewed(c))
               units == Record(LogUnit(Viewed(c), shown), Len(shown))
    <3>1. Viewed(c) \in LogMsgs
      BY <2>2, <2>4, QueuedKinds DEF HandleLog
    <3>2. units \in Seq(Units)
      BY <3>1, LogUnitType, RecordType
    <3>3. Take(c, units)
      BY <2>4 DEF HandleLog, LogUnit
    <3>4. /\ runner' \in [Clients -> {"none", "connect", "wait", "view", "announce", "exited"}]
          /\ numMessages' \in [Clients -> Nat] /\ out' \in [Clients -> Seq(Units)]
      <4> HIDE DEF units
      <4> QED
        BY <2>1, <3>2, <3>3, TakeTypes
    <3>5. handled' \in [Clients -> Seq([id : Nat, text : Texts])]
      <4>1. [id |-> Viewed(c).id, text |-> shown] \in [id : Nat, text : Texts]
        BY <3>1, LogUnitType, LogFields
      <4>2. handled' = [handled EXCEPT ![c] = Append(@, [id |-> Viewed(c).id, text |-> shown])]
        BY <2>4 DEF HandleLog
      <4>3. handled \in [Clients -> Seq([id : Nat, text : Texts])]
        BY DEF StateTypeOK, ClientTypeOK
      <4> DEFINE entry == [id |-> Viewed(c).id, text |-> shown]
                 Entries == [id : Nat, text : Texts]
      <4>4. entry \in Entries /\ handled \in [Clients -> Seq(Entries)]
            /\ handled' = [handled EXCEPT ![c] = Append(@, entry)]
        BY <4>1, <4>2, <4>3
      <4> HIDE DEF entry, Entries
      <4>5. handled' \in [Clients -> Seq(Entries)]
        BY <4>4
      <4> QED
        BY <4>5 DEF Entries
    <3> QED
      BY <2>3, <2>4, <3>4, <3>5 DEF HandleLog, StateTypeOK, ClientTypeOK
  <2>5. CASE HandleCategory(c)
    <3>1. Viewed(c) \in CategoryMsgs
      BY <2>2, <2>5, QueuedKinds DEF HandleCategory
    <3>2. Record(Viewed(c), 1) \in Seq(Units)
      BY <3>1, RecordType DEF StreamMsgs
    <3>3. /\ runner' \in [Clients -> {"none", "connect", "wait", "view", "announce", "exited"}]
          /\ numMessages' \in [Clients -> Nat] /\ out' \in [Clients -> Seq(Units)]
      BY <2>1, <2>5, <3>2, TakeTypes DEF HandleCategory
    <3> QED
      BY <2>3, <2>5, <3>3 DEF HandleCategory, StateTypeOK, ClientTypeOK
  <2> QED
    BY <1>6, <2>4, <2>5
<1>7. CASE EndBatch(c)
  <2>1. CASE quit[c]
    BY <1>7, <2>1, ExitTypes DEF EndBatch
  <2>2. CASE ~ quit[c]
    BY <1>7, <2>2 DEF EndBatch, Go, StateTypeOK, ClientTypeOK
  <2> QED
    BY <2>1, <2>2
<1>8. CASE Throw(c)
  BY <1>8, ExitTypes DEF Throw
<1> QED
  BY <1>1, <1>2, <1>3, <1>4, <1>5, <1>6, <1>7, <1>8 DEF RunnerStep

\* What a program does, but for waiting in line and its end.
ClientStep(c) ==
    /\ ~ Crashed(c)
    /\ \/ RunnerStep(c) \/ PushCategory(c) \/ PushQuit(c) \/ Join(c) \/ ProgramStep(c)
       \/ \E t \in Threads : PushLog(c, t)

\* What is a program's own.
Own(c) ==
    <<m_queue[c], counted[c], session[c], runner[c], numMessages[c], quit[c], locations[c],
      out[c], pushed[c], handled[c], pushing[c], text[c], m_clientCount[c], main[c]>>

LEMMA OthersAreApart ==
    ASSUME StateTypeOK, NEW c \in Clients, NEW d \in Clients, d # c, ClientStep(c)
    PROVE  /\ Own(d)' = Own(d)
           /\ \A s \in 1 .. MaxSessions :
                wire'[<<d, s>>] = wire[<<d, s>>] /\ stream'[<<d, s>>] = stream[<<d, s>>]
<1> USE DEF connectionVars, sessionVars, queueVars, loggerVars, runnerVars, Own
<1>0. \A s \in 1 .. MaxSessions : <<d, s>> \in Connections /\ <<d, s>> # Connection(c)
  BY DEF Connections, Connection
<1>t. wire \in [Connections -> Seq(Units)]
      /\ stream \in [Connections -> {"none", "open", "closed", "dead"}]
  BY DEF StateTypeOK, ClientTypeOK
<1>e. ASSUME Exit(c)
      PROVE  /\ Own(d)' = Own(d)
             /\ \A s \in 1 .. MaxSessions :
                  wire'[<<d, s>>] = wire[<<d, s>>] /\ stream'[<<d, s>>] = stream[<<d, s>>]
  <2>1. Own(d)' = Own(d)
    BY <1>e DEF Exit, Go, StateTypeOK, ClientTypeOK
  <2>2. wire' = wire
        /\ stream' = [stream EXCEPT ![Connection(c)] = IF @ = "open" THEN "closed" ELSE @]
    BY <1>e DEF Exit
  <2> QED
    BY <1>0, <1>t, <2>1, <2>2
<1>1. ASSUME RunnerStep(c)
      PROVE  /\ Own(d)' = Own(d)
             /\ \A s \in 1 .. MaxSessions :
                  wire'[<<d, s>>] = wire[<<d, s>>] /\ stream'[<<d, s>>] = stream[<<d, s>>]
  <2>1. CASE RunnerConnects(c)
    <3>1. Own(d)' = Own(d)
      BY <2>1 DEF RunnerConnects, Go, StateTypeOK, ClientTypeOK
    <3>2. wire' = wire /\ \E found \in plan.streams :
            stream' = [stream EXCEPT ![Connection(c)] = IF found THEN "open" ELSE @]
      BY <2>1 DEF RunnerConnects
    <3> QED
      BY <1>0, <1>t, <3>1, <3>2
  <2>2. CASE WaitForMessages(c)
    <3>1. \E n \in {1, counted[c]} :
            /\ numMessages' = [numMessages EXCEPT ![c] = n]
            /\ counted' = [counted EXCEPT ![c] = @ - n]
      BY <2>2 DEF WaitForMessages
    <3>2. numMessages'[d] = numMessages[d] /\ counted'[d] = counted[d]
      BY <3>1 DEF StateTypeOK, ClientTypeOK
    <3> QED
      BY <2>2, <3>2 DEF WaitForMessages, Go, StateTypeOK, ClientTypeOK
  <2>3. CASE SeeQuit(c)
    BY <2>3 DEF SeeQuit, StateTypeOK, ClientTypeOK
  <2>4. CASE ViewMessage(c)
    BY <2>4 DEF ViewMessage, Go, StateTypeOK, ClientTypeOK
  <2>5. CASE Write(c)
    <3>1. Own(d)' = Own(d)
      BY <2>5 DEF Write, StateTypeOK, ClientTypeOK
    <3>2. stream' = stream /\ wire' = [wire EXCEPT ![Connection(c)] = Append(@, Head(out[c]))]
      BY <2>5 DEF Write
    <3> QED
      BY <1>0, <1>t, <3>1, <3>2
  <2>6. CASE HandleLog(c) \/ HandleCategory(c)
    <3>1. /\ \E r : runner' = [runner EXCEPT ![c] = r]
          /\ \E n : numMessages' = [numMessages EXCEPT ![c] = n]
          /\ \E u : out' = [out EXCEPT ![c] = u]
          /\ \E q : m_queue' = [m_queue EXCEPT ![c] = q]
          /\ \E h : handled' = [handled EXCEPT ![c] = h] \/ handled' = handled
      BY <2>6 DEF HandleLog, HandleCategory, Take, Go, ReleaseMessage
    <3>2. /\ runner'[d] = runner[d] /\ numMessages'[d] = numMessages[d] /\ out'[d] = out[d]
          /\ m_queue'[d] = m_queue[d] /\ handled'[d] = handled[d]
      BY <3>1 DEF StateTypeOK, ClientTypeOK
    <3> QED
      BY <2>6, <3>2 DEF HandleLog, HandleCategory
  <2>7. CASE EndBatch(c)
    <3>1. CASE quit[c]
      BY <2>7, <3>1, <1>e DEF EndBatch
    <3>2. CASE ~ quit[c]
      BY <2>7, <3>2 DEF EndBatch, Go, StateTypeOK, ClientTypeOK
    <3> QED
      BY <3>1, <3>2
  <2>8. CASE Throw(c)
    BY <2>8, <1>e DEF Throw
  <2> QED
    BY <1>1, <2>1, <2>2, <2>3, <2>4, <2>5, <2>6, <2>7, <2>8 DEF RunnerStep
<1>2. CASE PushCategory(c) \/ PushQuit(c) \/ Join(c)
  BY <1>2 DEF PushCategory, PushQuit, Join, Push, StateTypeOK, ClientTypeOK
<1>3. CASE ProgramStep(c)
  <2>1. CASE Connect(c, plan.file)
    <3>1. CASE m_clientCount[c] = 0
      BY <2>1, <3>1 DEF Connect, StateTypeOK, ClientTypeOK
    <3>2. CASE m_clientCount[c] # 0
      BY <2>1, <3>2 DEF Connect
    <3> QED
      BY <3>1, <3>2
  <2>2. CASE Quit(c)
    BY <2>2 DEF Quit
  <2>3. ASSUME NEW enabled \in BOOLEAN, Enable(c, enabled) PROVE UNCHANGED <<Own(d), wire, stream>>
    BY <2>3 DEF Enable
  <2>4. ASSUME NEW k \in Classes, DefineCategory(c, k) PROVE UNCHANGED <<Own(d), wire, stream>>
    BY <2>4 DEF DefineCategory, StateTypeOK, ClientTypeOK
  <2>5. ASSUME NEW t \in plan.threads[c], NEW k \in Classes, NEW f \in plan.formats,
               LogDeferred(c, t, k, f)
        PROVE  UNCHANGED <<Own(d), wire, stream>>
    <3>1. \E x, y : text' = [text EXCEPT ![c][t] = x] /\ pushing' = [pushing EXCEPT ![c][t] = y]
      BY <2>5 DEF LogDeferred
    <3>2. text'[d] = text[d] /\ pushing'[d] = pushing[d]
      BY <3>1 DEF StateTypeOK, ClientTypeOK
    <3> QED
      BY <2>5, <3>2 DEF LogDeferred
  <2> QED
    BY <1>3, <2>1, <2>2, <2>3, <2>4, <2>5 DEF ProgramStep
<1>4. ASSUME NEW t \in Threads, PushLog(c, t) PROVE UNCHANGED <<Own(d), wire, stream>>
  <2>1. \E x : pushing' = [pushing EXCEPT ![c][t] = x]
    BY <1>4 DEF PushLog
  <2>2. pushing'[d] = pushing[d]
    BY <2>1 DEF StateTypeOK, ClientTypeOK
  <2> QED
    BY <1>4, <2>2 DEF PushLog, Push, StateTypeOK, ClientTypeOK
<1> QED
  BY <1>1, <1>2, <1>3, <1>4 DEF ClientStep

-----------------------------------------------------------------------------
(* Waiting in line.                                                         *)

\* A thread that waits, or is woken, or leaves the line, leaves it a line of these threads.
LEMMA LineKept ==
    ASSUME NEW T, NEW row \in Lines(T)
    PROVE  /\ \A t \in T : Joined(row, t) \in Lines(T)
           /\ \A t, length, slots : Waits(row, t, length, slots) \subseteq Lines(T)
           /\ \A t : Wakes(row, t) \subseteq Lines(T)
           /\ Notified(row) \in Lines(T) /\ Committed(row) \in Lines(T)
<1> DEFINE P == [thread : T, place : LinePlaces, tried : BOOLEAN]
<1>0. row \in Seq(P)
  BY DEF Lines
<1> HIDE DEF P
<1>1. row \in Seq(P) /\ DOMAIN row = 1 .. Len(row) /\ \A i \in DOMAIN row : row[i] \in P
  BY <1>0
<1>2. \A p \in P : /\ Woken(p) \in P
                  /\ [p EXCEPT !.place = "enter"] \in P /\ [p EXCEPT !.place = "asleep"] \in P
  BY DEF Woken, LinePlaces, P
<1>3. \A i \in DOMAIN row, p \in P : [row EXCEPT ![i] = p] \in Seq(P)
  BY <1>1
<1>4. \A t \in T : Joined(row, t) \in Lines(T)
  BY <1>1 DEF Joined, Lines, LinePlaces, P
<1>5. ASSUME NEW t, NEW length, NEW slots, NEW next \in Waits(row, t, length, slots)
      PROVE  next \in Seq(P)
  <2>1. PICK i \in DOMAIN row : \/ next = [row EXCEPT ![i] = [@ EXCEPT !.place = "enter"]]
                                \/ next = [row EXCEPT ![i] = [@ EXCEPT !.place = "asleep"]]
    BY <1>5 DEF Waits
  <2> QED
    BY <1>1, <1>2, <1>3, <2>1
<1>6. ASSUME NEW t, NEW next \in Wakes(row, t)
      PROVE  next \in Seq(P)
  <2>1. PICK i \in DOMAIN row : next = [row EXCEPT ![i] = Woken(row[i])]
    BY <1>6 DEF Wakes
  <2> QED
    BY <1>1, <1>2, <1>3, <2>1
<1>7. Notified(row) \in Lines(T)
  <2>1. Notified(row) \in [1 .. Len(row) -> P]
    BY <1>1, <1>2 DEF Notified
  <2> QED
    BY <1>1, <2>1 DEF Lines, P
<1>8. Committed(row) \in Lines(T)
  BY <1>1 DEF Committed, Lines, P
<1> QED
  BY <1>4, <1>5, <1>6, <1>7, <1>8 DEF Lines, P

\* Everything but the lines.
Rests ==
    /\ UNCHANGED <<connectionVars, sessionVars, m_queue, counted, loggerVars, runnerVars,
                   m_categories, plan>>
    /\ UNCHANGED <<serving, served, data, serverQueue, classes, m_categoryMap,
                   m_classIdToCategory, m_threads, display>>

LEMMA StutterRests == UNCHANGED vars => Rests
  BY DEF Rests, vars, clientVars, serverVars, connectionVars, sessionVars, queueVars, loggerVars,
         runnerVars

WaitStep(c) ==
    /\ ~ Crashed(c)
    /\ \E t \in Threads \cup {Main} : JoinLine(c, t) \/ WaitInLine(c, t)

LEMMA WaitStepRests ==
    ASSUME plan' = plan, UNCHANGED serverVars, NEW c \in Clients, WaitStep(c)
    PROVE  Rests
  BY DEF WaitStep, JoinLine, WaitInLine, ChangeLine, Rests, serverVars

LEMMA WaitToPushRests ==
    ASSUME plan' = plan, WaitToPush
    PROVE  Rests
  BY DEF WaitToPush, ChangeServerLine, Rests, clientVars, queueVars

\* What the programs do.
LEMMA ClientSteps ==
    ASSUME ClientNext
    PROVE  /\ plan' = plan
           /\ \/ \E c \in Clients : ClientStep(c) \/ WaitStep(c) \/ Die(c)
              \/ \E k \in Connections : Break(k)
<1>1. ASSUME NEW c \in Clients, ~ Crashed(c), MainStep(c) PROVE ClientStep(c) \/ WaitStep(c)
  BY <1>1 DEF MainStep, ClientStep, WaitStep
<1>2. ASSUME NEW c \in Clients, NEW t \in Threads, ~ Crashed(c), LoggerStep(c, t)
      PROVE  ClientStep(c) \/ WaitStep(c)
  BY <1>2 DEF LoggerStep, ClientStep, WaitStep
<1> QED
  BY <1>1, <1>2 DEF ClientNext, ClientStep

\* What becomes of the lines of the programs.
LEMMA LinesAfter ==
    ASSUME LinesTypeOK, ClientNext
    PROVE  /\ line' \in [Clients -> Lines(Threads \cup {Main})]
           /\ \A c \in Clients : Crashed(c) => Crashed(c)'
<1> DEFINE L == Lines(Threads \cup {Main})
<1>t. line \in [Clients -> L]
  BY DEF LinesTypeOK
<1>0. line' = line => line' \in [Clients -> L] /\ \A c \in Clients : Crashed(c) => Crashed(c)'
  BY <1>t DEF Crashed
<1>1. ASSUME NEW c \in Clients, ~ Crashed(c), NEW row \in L, line' = [line EXCEPT ![c] = row]
      PROVE  line' \in [Clients -> L] /\ \A d \in Clients : Crashed(d) => Crashed(d)'
  <2>1. \A d \in Clients : d # c => line'[d] = line[d]
    BY <1>t, <1>1
  <2> QED
    BY <1>t, <1>1, <2>1 DEF Crashed
<1> HIDE DEF L
<1>2. ASSUME NEW c \in Clients
      PROVE  /\ \A t \in Threads \cup {Main} : Joined(line[c], t) \in L
             /\ \A t, length, slots : Waits(line[c], t, length, slots) \subseteq L
             /\ Notified(line[c]) \in L /\ Committed(line[c]) \in L
  BY <1>t, LineKept DEF L
<1>3. ASSUME NEW c \in Clients, ClientStep(c)
      PROVE  line' \in [Clients -> L] /\ \A d \in Clients : Crashed(d) => Crashed(d)'
  <2>1. \/ line' = line
        \/ line' = [line EXCEPT ![c] = Committed(line[c])]
        \/ line' = [line EXCEPT ![c] = Notified(line[c])]
    BY <1>3 DEF ClientStep, RunnerStep, ProgramStep, RunnerConnects, WaitForMessages, SeeQuit,
                ViewMessage, Write, HandleLog, HandleCategory, ReleaseMessage, EndBatch, Throw,
                Exit, PushCategory, PushQuit, PushLog, Push, Join, Connect, Quit, Enable,
                DefineCategory, LogDeferred, queueVars
  <2> QED
    BY <1>0, <1>1, <1>2, <1>3, <2>1 DEF ClientStep
<1>4. ASSUME NEW c \in Clients, WaitStep(c)
      PROVE  line' \in [Clients -> L] /\ \A d \in Clients : Crashed(d) => Crashed(d)'
  <2>1. PICK t \in Threads \cup {Main} : JoinLine(c, t) \/ WaitInLine(c, t)
    BY <1>4 DEF WaitStep
  <2>2. PICK row \in L : line' = [line EXCEPT ![c] = row]
    BY <1>2, <2>1 DEF JoinLine, WaitInLine, ChangeLine
  <2> QED
    BY <1>1, <1>4, <2>2 DEF WaitStep
<1>5. ASSUME NEW c \in Clients, Die(c) PROVE line' = line
  BY <1>5 DEF Die, queueVars
<1>6. ASSUME NEW k \in Connections, Break(k) PROVE line' = line
  BY <1>6 DEF Break, queueVars
<1> QED
  BY <1>0, <1>3, <1>4, <1>5, <1>6, ClientSteps DEF L

LEMMA ServerLineAfter ==
    ASSUME LinesTypeOK, ServerNext
    PROVE  line' = line /\ serverLine' \in Lines({Session})
<1> DEFINE L == Lines({Session})
<1>t. serverLine \in L
  BY DEF LinesTypeOK
<1> HIDE DEF L
<1>1. /\ Joined(serverLine, Session) \in L
      /\ \A t, length, slots : Waits(serverLine, t, length, slots) \subseteq L
      /\ Notified(serverLine) \in L /\ Committed(serverLine) \in L
  BY <1>t, LineKept DEF L
<1>2. WaitToPush => serverLine' \in L /\ line' = line
  BY <1>1 DEF WaitToPush, ChangeServerLine, clientVars, queueVars
<1>3. PushMessage \/ HandleMessage => serverLine' \in L /\ line' = line
  BY <1>1 DEF PushMessage, HandleMessage, clientVars, queueVars
<1>4. ASSUME \/ EndSession \/ (\E n \in 1 .. WireSize : ReadSome(n))
             \/ \E k \in Connections : Accept(k)
      PROVE  serverLine' \in L /\ line' = line
  BY <1>t, <1>4 DEF EndSession, ReadSome, Accept, clientVars, queueVars
<1> QED
  BY <1>2, <1>3, <1>4 DEF ServerNext, ServerStep, L

\* Each line is one of its threads, and no program comes back from its end.
LEMMA LinesKept ==
    ASSUME LinesTypeOK, [Next]_vars
    PROVE  LinesTypeOK' /\ \A c \in Clients : Crashed(c) => Crashed(c)'
<1>1. CASE ClientNext /\ UNCHANGED serverVars
  BY <1>1, LinesAfter DEF LinesTypeOK, serverVars
<1>2. CASE ServerNext
  BY <1>2, ServerLineAfter DEF LinesTypeOK, Crashed
<1>3. CASE UNCHANGED vars
  BY <1>3 DEF vars, clientVars, queueVars, serverVars, LinesTypeOK, Crashed
<1> QED
  BY <1>1, <1>2, <1>3 DEF Next

LEMMA LinesBegin ==
    ASSUME Init
    PROVE  LinesTypeOK
<1>1. \A T : <<>> \in Lines(T)
  BY DEF Lines
<1> QED
  BY <1>1 DEF Init, ClientInit, ServerInit, LinesTypeOK

-----------------------------------------------------------------------------
(* The batch of a runner.                                                   *)

LEMMA PushedBatch ==
    ASSUME StateTypeOK, NEW c \in Clients, Batch(c), NEW t, NEW m \in QueuedMsgs, Push(c, t, m),
           UNCHANGED <<session[c], runner[c], numMessages[c], quit[c], locations[c], out[c]>>
    PROVE  Batch(c)'
<1>1. /\ m_queue[c] \in Seq(QueuedMsgs) /\ m_queue'[c] = Append(m_queue[c], m)
      /\ counted'[c] = counted[c] + 1 /\ counted[c] \in Nat /\ numMessages[c] \in Nat
  BY DEF Push, StateTypeOK, ClientTypeOK
<1>2. Len(m_queue'[c]) = Len(m_queue[c]) + 1 /\ m_queue'[c] # <<>>
  BY <1>1
<1>3. m_queue[c] # <<>> => Viewed(c)' = Viewed(c)
  BY <1>1 DEF Viewed
<1>4. runner[c] = "announce" \/ quit[c] => m_queue[c] # <<>>
  BY Unreleased DEF Batch
<1> QED
  BY <1>1, <1>2, <1>3, <1>4 DEF Batch

LEMMA BatchStep ==
    ASSUME StateTypeOK, plan' = plan, NEW c \in Clients, Batch(c), ClientStep(c)
    PROVE  Batch(c)'
<1> USE DEF connectionVars, sessionVars, queueVars, loggerVars, runnerVars
<1>t. /\ m_queue[c] \in Seq(QueuedMsgs) /\ counted[c] \in Nat /\ numMessages[c] \in Nat
      /\ session[c] \in Nat
  BY SizesAssumption DEF StateTypeOK, ClientTypeOK
<1>e. ASSUME Exit(c), session[c] > 0 PROVE Batch(c)'
  BY <1>e DEF Exit, Go, Batch, Viewed, StateTypeOK, ClientTypeOK
<1>1. CASE RunnerStep(c)
  <2>1. CASE RunnerConnects(c)
    BY <2>1 DEF RunnerConnects, Go, Batch, Viewed, StateTypeOK, ClientTypeOK
  <2>2. CASE WaitForMessages(c)
    <3>1. PICK n \in {1, counted[c]} :
            /\ numMessages' = [numMessages EXCEPT ![c] = n]
            /\ counted' = [counted EXCEPT ![c] = @ - n]
      BY <2>2 DEF WaitForMessages
    <3>2. numMessages'[c] = n /\ counted'[c] = counted[c] - n
      BY <3>1 DEF StateTypeOK, ClientTypeOK
    <3>3. numMessages'[c] + counted'[c] <= Len(m_queue[c])
      <4>1. numMessages[c] + counted[c] <= Len(m_queue[c])
        BY DEF Batch
      <4>2. Len(m_queue[c]) \in Nat /\ n \in Nat
        BY <1>t
      <4>3. n + (counted[c] - n) <= Len(m_queue[c])
        BY <1>t, <4>1, <4>2
      <4> QED
        BY <3>2, <4>3
    <3> QED
      BY <2>2, <3>3 DEF WaitForMessages, Go, Batch, Viewed, StateTypeOK, ClientTypeOK
  <2>3. CASE SeeQuit(c)
    <3>1. m_queue[c] # <<>>
      BY <2>3, Unreleased DEF SeeQuit
    <3>2. numMessages'[c] = numMessages[c] - 1
      BY <2>3 DEF SeeQuit, StateTypeOK, ClientTypeOK
    <3>3. numMessages'[c] + counted[c] <= Len(m_queue[c])
      BY <1>t, <3>2 DEF Batch
    <3>4. runner[c] = "view"
      BY <2>3 DEF SeeQuit
    <3> QED
      BY <2>3, <3>1, <3>3, <3>4 DEF SeeQuit, Batch, Viewed, StateTypeOK, ClientTypeOK
  <2>4. CASE ViewMessage(c)
    <3>1. locations'[c] = locations[c] \cup {Viewed(c).class}
      BY <2>4 DEF ViewMessage, StateTypeOK, ClientTypeOK
    <3> QED
      BY <2>4, <3>1 DEF ViewMessage, Go, Batch, Viewed, StateTypeOK, ClientTypeOK
  <2>5. CASE Write(c)
    BY <2>5 DEF Write, Batch, Viewed
  <2>6. CASE HandleLog(c) \/ HandleCategory(c)
    <3>1. /\ m_queue' = [m_queue EXCEPT ![c] = Tail(@)] /\ counted' = counted
          /\ quit' = quit /\ session' = session
          /\ numMessages' = [numMessages EXCEPT ![c] = @ - 1]
          /\ runner' = [runner EXCEPT ![c] = "view"] /\ runner[c] = "announce"
      BY <2>6 DEF HandleLog, HandleCategory, ReleaseMessage, Take, Go
    <3>2. m_queue'[c] = Tail(m_queue[c]) /\ numMessages'[c] = numMessages[c] - 1
          /\ runner'[c] = "view"
      BY <3>1 DEF StateTypeOK, ClientTypeOK
    <3>3. m_queue[c] # <<>> /\ ~ quit[c]
      BY <3>1, Unreleased DEF Batch, Viewed
    <3>4. Len(m_queue'[c]) = Len(m_queue[c]) - 1
      BY <1>t, <3>2, <3>3
    <3> QED
      BY <1>t, <3>1, <3>2, <3>3, <3>4 DEF Batch
  <2>7. CASE EndBatch(c)
    <3>1. CASE quit[c]
      BY <2>7, <3>1, <1>e DEF EndBatch, Batch
    <3>2. CASE ~ quit[c]
      BY <2>7, <3>2 DEF EndBatch, Go, Batch, Viewed, StateTypeOK, ClientTypeOK
    <3> QED
      BY <3>1, <3>2
  <2>8. CASE Throw(c)
    <3>1. CASE runner[c] = "announce"
      BY <2>8, <3>1, <1>e DEF Throw, Batch
    <3>2. CASE out[c] # <<>> /\ runner[c] # "announce"
      BY <2>8, <3>2, <1>e DEF Throw, Batch, Exit
    <3> QED
      BY <2>8, <3>1, <3>2 DEF Throw
  <2> QED
    BY <1>1, <2>1, <2>2, <2>3, <2>4, <2>5, <2>6, <2>7, <2>8 DEF RunnerStep
<1>2. CASE PushCategory(c) \/ PushQuit(c) \/ Join(c)
  <2>1. CASE PushQuit(c)
    BY <2>1, PushedBatch DEF PushQuit, QueuedMsgs
  <2>2. CASE Join(c)
    BY <2>2 DEF Join, Batch, Viewed
  <2>3. CASE PushCategory(c)
    BY <2>3, PushedCategory, PushedBatch DEF PushCategory
  <2> QED
    BY <1>2, <2>1, <2>2, <2>3
<1>3. CASE ProgramStep(c)
  <2>1. CASE Connect(c, plan.file)
    <3>1. CASE m_clientCount[c] = 0
      <4>1. /\ session'[c] = session[c] + 1 /\ runner'[c] = "connect" /\ numMessages'[c] = 0
            /\ ~ quit'[c] /\ out'[c] = <<>> /\ UNCHANGED queueVars
        BY <2>1, <3>1 DEF Connect, StateTypeOK, ClientTypeOK
      <4>2. counted[c] <= Len(m_queue[c])
        BY <1>t DEF Batch
      <4> QED
        BY <1>t, <4>1, <4>2 DEF Batch
    <3>2. CASE m_clientCount[c] # 0
      BY <2>1, <3>2 DEF Connect, Batch, Viewed
    <3> QED
      BY <3>1, <3>2
  <2>2. CASE Quit(c)
    BY <2>2 DEF Quit, Batch, Viewed
  <2>3. ASSUME NEW enabled \in BOOLEAN, Enable(c, enabled) PROVE Batch(c)'
    BY <2>3 DEF Enable, Batch, Viewed
  <2>4. ASSUME NEW k \in Classes, DefineCategory(c, k) PROVE Batch(c)'
    BY <2>4 DEF DefineCategory, Batch, Viewed
  <2>5. ASSUME NEW t \in plan.threads[c], NEW k \in Classes, NEW f \in plan.formats,
               LogDeferred(c, t, k, f)
        PROVE  Batch(c)'
    BY <2>5 DEF LogDeferred, Batch, Viewed
  <2> QED
    BY <1>3, <2>1, <2>2, <2>3, <2>4, <2>5 DEF ProgramStep
<1>4. ASSUME NEW t \in Threads, PushLog(c, t) PROVE Batch(c)'
  <2>1. pushing[c][t] \in QueuedMsgs
    BY <1>4, PushLogTypes DEF QueuedMsgs
  <2> QED
    BY <1>4, <2>1, PushedBatch DEF PushLog
<1> QED
  BY <1>1, <1>2, <1>3, <1>4 DEF ClientStep

-----------------------------------------------------------------------------
(* The logs of a queue, by rank.                                            *)

LEMMA LogRanks ==
    ASSUME NEW q \in Seq(QueuedMsgs), NEW n \in 0 .. Len(q)
    PROVE  IsFiniteSet(LogsUpTo(q, n)) /\ Cardinality(LogsUpTo(q, n)) \in 0 .. n
<1>1. n \in Nat /\ LogsUpTo(q, n) \in SUBSET (1 .. n)
  BY DEF LogsUpTo
<1>2. IsFiniteSet(1 .. n) /\ Cardinality(1 .. n) = n
  BY <1>1, FS_Interval
<1>3. IsFiniteSet(LogsUpTo(q, n)) /\ Cardinality(LogsUpTo(q, n)) <= Cardinality(1 .. n)
  BY <1>1, <1>2, FS_Subset
<1> QED
  BY <1>2, <1>3, FS_CardinalityType

\* A queued log is ranked after those before it, and in its own place up to it.
LEMMA LaterLogs ==
    ASSUME NEW q \in Seq(QueuedMsgs), NEW i \in DOMAIN q, q[i].type = "log"
    PROVE  Cardinality(LogsUpTo(q, i)) \in 1 .. Cardinality(LogsUpTo(q, Len(q)))
<1> DEFINE n == Len(q)
<1>1. n \in Nat /\ i \in 1 .. n
  OBVIOUS
<1>2. LogsUpTo(q, i) \in SUBSET LogsUpTo(q, n) /\ LogsUpTo(q, i) # {}
  BY <1>1 DEF LogsUpTo
<1>3. IsFiniteSet(LogsUpTo(q, i)) /\ IsFiniteSet(LogsUpTo(q, n))
      /\ Cardinality(LogsUpTo(q, i)) \in Nat /\ Cardinality(LogsUpTo(q, n)) \in Nat
  BY <1>1, LogRanks
<1>4. Cardinality(LogsUpTo(q, i)) <= Cardinality(LogsUpTo(q, n))
  BY <1>2, <1>3, FS_Subset
<1>5. Cardinality(LogsUpTo(q, i)) # 0
  BY <1>2, <1>3, FS_EmptySet
<1> QED
  BY <1>3, <1>4, <1>5

\* A message put at the end leaves the ranks of the others.
LEMMA AppendedRanks ==
    ASSUME NEW q \in Seq(QueuedMsgs), NEW m \in QueuedMsgs, NEW q2, q2 = Append(q, m)
    PROVE  /\ Len(q2) = Len(q) + 1
           /\ \A n \in 0 .. Len(q) : LogsUpTo(q2, n) = LogsUpTo(q, n)
           /\ Cardinality(LogsUpTo(q2, Len(q) + 1)) =
                Cardinality(LogsUpTo(q, Len(q))) + IF m.type = "log" THEN 1 ELSE 0
<1> DEFINE len == Len(q)
<1>1. /\ q \in Seq(QueuedMsgs) /\ len \in Nat /\ Len(q2) = len + 1
      /\ q2[len + 1] = m /\ \A i \in 1 .. len : q2[i] = q[i]
  OBVIOUS
<1>2. \A n \in 0 .. len : LogsUpTo(q2, n) = LogsUpTo(q, n)
  BY <1>1 DEF LogsUpTo
<1>3. LogsUpTo(q2, len + 1) = LogsUpTo(q, len) \cup (IF m.type = "log" THEN {len + 1} ELSE {})
  BY <1>1 DEF LogsUpTo
<1>4. IsFiniteSet(LogsUpTo(q, len)) /\ len + 1 \notin LogsUpTo(q, len)
      /\ Cardinality(LogsUpTo(q, len)) \in Nat
  BY <1>1, LogRanks DEF LogsUpTo
<1>5. Cardinality(LogsUpTo(q, len) \cup {len + 1}) = Cardinality(LogsUpTo(q, len)) + 1
  BY <1>4, FS_AddElement
<1>6. Cardinality(LogsUpTo(q2, len + 1)) =
        Cardinality(LogsUpTo(q, len)) + IF m.type = "log" THEN 1 ELSE 0
  <2>1. CASE m.type = "log"
    <3>1. LogsUpTo(q2, len + 1) = LogsUpTo(q, len) \cup {len + 1}
      BY <1>3, <2>1
    <3> QED
      BY <1>5, <2>1, <3>1
  <2>2. CASE m.type # "log"
    <3>1. LogsUpTo(q2, len + 1) = LogsUpTo(q, len)
      BY <1>3, <2>2
    <3> QED
      BY <1>4, <2>2, <3>1
  <2> QED
    BY <2>1, <2>2
<1> QED
  BY <1>1, <1>2, <1>6

\* The message taken off the front leaves each of the others one place further up, and of
\* one rank less if it was a log.
LEMMA ReleasedRanks ==
    ASSUME NEW q \in Seq(QueuedMsgs), q # <<>>, NEW q2, q2 = Tail(q),
           NEW n \in 0 .. Len(q) - 1
    PROVE  Cardinality(LogsUpTo(q2, n)) =
             Cardinality(LogsUpTo(q, n + 1)) - IF Head(q).type = "log" THEN 1 ELSE 0
<1> DEFINE old == LogsUpTo(q, n + 1) \ {1}
           new == LogsUpTo(q2, n)
           shift == [i \in old |-> i - 1]
<1>1. /\ q \in Seq(QueuedMsgs) /\ Len(q) \in Nat /\ Len(q) >= 1
      /\ n \in Nat /\ n + 1 \in 0 .. Len(q)
      /\ \A i \in 1 .. n : q2[i] = q[i + 1]
  OBVIOUS
<1>2. old = {i \in 2 .. n + 1 : q[i].type = "log"}
  BY <1>1 DEF LogsUpTo
<1>3. new = {i \in 1 .. n : q[i + 1].type = "log"}
  BY <1>1 DEF LogsUpTo
<1>4. IsFiniteSet(LogsUpTo(q, n + 1)) /\ Cardinality(LogsUpTo(q, n + 1)) \in Nat
  BY <1>1, LogRanks
<1>5. IsFiniteSet(old)
      /\ Cardinality(old) = Cardinality(LogsUpTo(q, n + 1)) - IF Head(q).type = "log" THEN 1 ELSE 0
  <2>1. 1 \in LogsUpTo(q, n + 1) <=> Head(q).type = "log"
    BY <1>1 DEF LogsUpTo
  <2> QED
    BY <1>4, <2>1, FS_RemoveElement
<1>6. shift \in Bijection(old, new)
  <2> HIDE DEF old, new
  <2>1. \A i \in old : i \in 2 .. n + 1 /\ i - 1 \in new
    BY <1>1, <1>2, <1>3
  <2>2. \A i \in new : i \in 1 .. n /\ i + 1 \in old
    BY <1>1, <1>2, <1>3
  <2>3. shift \in [old -> new]
    BY <2>1
  <2>4. \A i, j \in old : shift[i] = shift[j] => i = j
    BY <2>1
  <2>5. \A j \in new : \E i \in old : shift[i] = j
    <3> SUFFICES ASSUME NEW j \in new PROVE \E i \in old : shift[i] = j
      OBVIOUS
    <3>1. j + 1 \in old /\ shift[j + 1] = j
      BY <2>2
    <3> QED
      BY <3>1
  <2> QED
    BY <2>3, <2>4, <2>5, Fun_IsBij
<1>7. Cardinality(new) = Cardinality(old)
  <2>1. ExistsBijection(old, new)
    BY <1>6 DEF ExistsBijection
  <2> HIDE DEF old, new
  <2> QED
    BY <1>5, <2>1, FS_Bijection
<1> QED
  BY <1>5, <1>7

-----------------------------------------------------------------------------
(* What is handled is what was pushed, in turn.                             *)

\* The numbers of what is handled, and of what was pushed.
Numbered(done, logs) ==
    /\ logs \in Seq(LogMsgs) /\ Len(done) \in Nat /\ DOMAIN done = 1 .. Len(done)

\* What is handled after one more log.
Longer(done, done2, id) ==
    /\ Len(done2) = Len(done) + 1 /\ DOMAIN done2 = 1 .. Len(done2)
    /\ \A i \in 1 .. Len(done) : done2[i] = done[i]
    /\ done2[Len(done) + 1].id = id

LEMMA AppendedInTurn ==
    ASSUME NEW q \in Seq(QueuedMsgs), NEW done, NEW logs, Numbered(done, logs),
           InTurn(q, done, logs), NEW m \in QueuedMsgs, NEW logs2,
           m.type = "log" => logs2 = Append(logs, m), m.type # "log" => logs2 = logs
    PROVE  InTurn(Append(q, m), done, logs2)
<1> DEFINE q2 == Append(q, m)  len == Len(q)  n == Len(done)
           All == Cardinality(LogsUpTo(q, len))
           one == IF m.type = "log" THEN 1 ELSE 0
<1>1. logs \in Seq(LogMsgs) /\ n \in Nat /\ len \in Nat /\ Len(logs) \in Nat
      /\ DOMAIN done = 1 .. n
  BY DEF Numbered
<1>2. /\ n + All = Len(logs)
      /\ \A i \in 1 .. n : done[i].id = logs[i].id
      /\ \A i \in LogsUpTo(q, len) : q[i] = logs[n + Cardinality(LogsUpTo(q, i))]
  BY <1>1 DEF InTurn
<1>3. /\ Len(q2) = len + 1
      /\ \A i \in 0 .. len : LogsUpTo(q2, i) = LogsUpTo(q, i)
      /\ Cardinality(LogsUpTo(q2, len + 1)) = All + one
  BY AppendedRanks
<1>4. q2[len + 1] = m /\ \A i \in 1 .. len : q2[i] = q[i]
  OBVIOUS
<1>5. All \in Nat /\ one \in {0, 1}
  BY <1>1, LogRanks
<1>6. /\ Len(logs2) = Len(logs) + one
      /\ \A i \in 1 .. Len(logs) : logs2[i] = logs[i]
      /\ m.type = "log" => logs2[Len(logs) + 1] = m
  <2>1. CASE m.type = "log"
    <3>1. m \in LogMsgs /\ logs2 = Append(logs, m)
      BY <2>1, QueuedKinds
    <3> QED
      BY <1>1, <2>1, <3>1
  <2>2. CASE m.type # "log"
    BY <1>1, <2>2
  <2> QED
    BY <2>1, <2>2
<1> HIDE DEF q2, len, n, All, one
<1>7. \A i \in 1 .. n : done[i].id = logs2[i].id
  BY <1>1, <1>2, <1>5, <1>6
<1>8. ASSUME NEW i \in LogsUpTo(q2, Len(q2))
      PROVE  q2[i] = logs2[n + Cardinality(LogsUpTo(q2, i))]
  <2>1. i \in 1 .. len + 1 /\ q2[i].type = "log"
    BY <1>3 DEF LogsUpTo
  <2>2. CASE i \in 1 .. len
    <3>1. i \in LogsUpTo(q, len) /\ LogsUpTo(q2, i) = LogsUpTo(q, i) /\ q2[i] = q[i]
      BY <1>1, <1>3, <1>4, <2>1, <2>2 DEF LogsUpTo
    <3>2. Cardinality(LogsUpTo(q, i)) \in 1 .. All
      BY <1>4, <2>1, <2>2, LaterLogs DEF All, len
    <3>3. n + Cardinality(LogsUpTo(q, i)) \in 1 .. Len(logs)
      BY <1>1, <1>2, <1>5, <3>2
    <3> QED
      BY <1>2, <1>6, <3>1, <3>3
  <2>3. CASE i = len + 1
    <3>1. m.type = "log" /\ q2[i] = m
      BY <1>4, <2>1, <2>3
    <3>2. Cardinality(LogsUpTo(q2, i)) = All + 1
      BY <1>3, <2>3, <3>1 DEF one
    <3>3. n + (All + 1) = Len(logs) + 1
      BY <1>1, <1>2, <1>5
    <3> QED
      BY <1>6, <3>1, <3>2, <3>3
  <2> QED
    BY <1>1, <2>1, <2>2, <2>3
<1>9. n + Cardinality(LogsUpTo(q2, Len(q2))) = Len(logs2)
  BY <1>1, <1>2, <1>3, <1>5, <1>6
<1> QED
  BY <1>1, <1>7, <1>8, <1>9 DEF InTurn, n, q2

\* The message at the front is released, and handled if it is a log.
LEMMA ReleasedInTurn ==
    ASSUME NEW q \in Seq(QueuedMsgs), q # <<>>, NEW done, NEW logs, Numbered(done, logs),
           InTurn(q, done, logs), NEW done2,
           IF Head(q).type = "log" THEN Longer(done, done2, Head(q).id) ELSE done2 = done
    PROVE  InTurn(Tail(q), done2, logs)
<1> DEFINE q2 == Tail(q)  len == Len(q)  n == Len(done)
           All == Cardinality(LogsUpTo(q, len))
           one == IF Head(q).type = "log" THEN 1 ELSE 0
<1>q. /\ len \in Nat /\ len >= 1 /\ Head(q) = q[1] /\ q2 \in Seq(QueuedMsgs)
      /\ Len(q2) = len - 1 /\ \A i \in 1 .. len - 1 : q2[i] = q[i + 1]
  OBVIOUS
<1>1. /\ logs \in Seq(LogMsgs) /\ n \in Nat /\ Len(logs) \in Nat /\ DOMAIN done = 1 .. n
  BY DEF Numbered
<1>2. /\ n + All = Len(logs)
      /\ \A i \in 1 .. n : done[i].id = logs[i].id
      /\ \A i \in LogsUpTo(q, len) : q[i] = logs[n + Cardinality(LogsUpTo(q, i))]
  BY <1>1 DEF InTurn
<1>3. \A i \in 0 .. len - 1 :
        Cardinality(LogsUpTo(q2, i)) = Cardinality(LogsUpTo(q, i + 1)) - one
  BY ReleasedRanks
<1>4. All \in Nat /\ one \in {0, 1}
  BY <1>q, LogRanks
<1>5. /\ Len(done2) = n + one
      /\ \A i \in 1 .. n : done2[i] = done[i]
      /\ one = 1 => done2[n + 1].id = q[1].id
      /\ DOMAIN done2 = 1 .. n + one
  <2>1. CASE Head(q).type = "log"
    BY <1>q, <2>1 DEF Longer
  <2>2. CASE Head(q).type # "log"
    BY <1>1, <2>2
  <2> QED
    BY <2>1, <2>2
\* the one at the front is the next
<1>6. one = 1 => q[1] = logs[n + 1] /\ n + 1 <= Len(logs)
  <2> SUFFICES ASSUME one = 1 PROVE q[1] = logs[n + 1] /\ n + 1 <= Len(logs)
    OBVIOUS
  <2>1. q[1].type = "log"
    BY <1>q
  <2>2. 1 \in LogsUpTo(q, len) /\ LogsUpTo(q, 1) = {1} /\ 1 \in DOMAIN q
    BY <1>q, <2>1 DEF LogsUpTo
  <2>3. Cardinality(LogsUpTo(q, 1)) = 1
    BY <2>2, FS_Singleton
  <2>4. 1 \in 1 .. All
    BY <2>1, <2>2, <2>3, LaterLogs
  <2> HIDE DEF All, len, n
  <2> QED
    BY <1>1, <1>2, <1>4, <2>2, <2>3, <2>4
<1> HIDE DEF q2, len, n, All, one
<1>7. \A i \in 1 .. n + one : done2[i].id = logs[i].id
  BY <1>1, <1>2, <1>4, <1>5, <1>6
<1>8. ASSUME NEW i \in LogsUpTo(q2, Len(q2))
      PROVE  q2[i] = logs[n + one + Cardinality(LogsUpTo(q2, i))]
  <2>1. i \in 1 .. len - 1 /\ q2[i].type = "log"
    BY <1>q DEF LogsUpTo
  <2>2. i \in 0 .. len - 1 /\ i + 1 \in 1 .. len /\ i + 1 \in 0 .. len /\ q2[i] = q[i + 1]
    BY <1>q, <2>1
  <2>3. i + 1 \in LogsUpTo(q, len)
    BY <2>1, <2>2 DEF LogsUpTo
  <2>4. q2[i] = logs[n + Cardinality(LogsUpTo(q, i + 1))]
    BY <1>2, <2>2, <2>3
  <2>5. Cardinality(LogsUpTo(q2, i)) = Cardinality(LogsUpTo(q, i + 1)) - one
    BY <1>3, <2>2
  <2>6. Cardinality(LogsUpTo(q, i + 1)) \in Nat
    BY <2>2, LogRanks DEF len
  <2>7. n + one + Cardinality(LogsUpTo(q2, i)) = n + Cardinality(LogsUpTo(q, i + 1))
    BY <1>1, <1>4, <2>5, <2>6
  <2> QED
    BY <2>4, <2>7
<1>9. n + one + Cardinality(LogsUpTo(q2, Len(q2))) = Len(logs)
  <2>1. len - 1 \in 0 .. len - 1 /\ len - 1 + 1 = len
    BY <1>q
  <2>2. Cardinality(LogsUpTo(q2, len - 1)) = All - one
    BY <1>3, <2>1 DEF All
  <2> QED
    BY <1>q, <1>1, <1>2, <1>4, <2>2
<1> QED
  BY <1>5, <1>7, <1>8, <1>9 DEF InTurn, q2

LEMMA TurnStep ==
    ASSUME StateTypeOK, NEW c \in Clients, Batch(c), HandledInTurn(c), ClientStep(c)
    PROVE  HandledInTurn(c)'
<1> USE DEF connectionVars, sessionVars, queueVars, loggerVars, runnerVars
<1>t. /\ m_queue[c] \in Seq(QueuedMsgs) /\ Numbered(handled[c], pushed[c])
      /\ Len(handled[c]) \in Nat
  <2> DEFINE Entries == [id : Nat, text : Texts]
  <2>1. handled[c] \in Seq(Entries)
    BY DEF StateTypeOK, ClientTypeOK
  <2> HIDE DEF Entries
  <2>2. Len(handled[c]) \in Nat /\ DOMAIN handled[c] = 1 .. Len(handled[c])
    BY <2>1
  <2> QED
    BY <2>2 DEF StateTypeOK, ClientTypeOK, Numbered
<1>i. InTurn(m_queue[c], handled[c], pushed[c])
  BY DEF HandledInTurn
<1>p. SUFFICES InTurn(m_queue'[c], handled'[c], pushed'[c])
  BY DEF HandledInTurn
<1>1. CASE HandleLog(c)
  <2> DEFINE h == [id |-> Viewed(c).id, text |-> FormatString(c, Viewed(c))]
  <2>1. m_queue[c] # <<>> /\ Head(m_queue[c]).type = "log" /\ h.id = Head(m_queue[c]).id
    BY <1>1, Unreleased DEF HandleLog, Viewed
  <2>2. m_queue'[c] = Tail(m_queue[c]) /\ pushed'[c] = pushed[c]
    BY <1>1 DEF HandleLog, ReleaseMessage, StateTypeOK, ClientTypeOK
  <2>3. handled'[c] = Append(handled[c], h)
    BY <1>1 DEF HandleLog, StateTypeOK, ClientTypeOK
  <2> HIDE DEF h
  <2>4. Longer(handled[c], handled'[c], h.id)
    BY <1>t, <2>3 DEF Longer
  <2> QED
    BY <1>t, <1>i, <2>1, <2>2, <2>4, ReleasedInTurn
<1>2. CASE HandleCategory(c)
  <2>1. m_queue[c] # <<>> /\ Head(m_queue[c]).type # "log"
    BY <1>2, Unreleased DEF HandleCategory, Viewed
  <2>2. m_queue'[c] = Tail(m_queue[c]) /\ pushed'[c] = pushed[c] /\ handled'[c] = handled[c]
    BY <1>2 DEF HandleCategory, ReleaseMessage, StateTypeOK, ClientTypeOK
  <2> QED
    BY <1>t, <1>i, <2>1, <2>2, ReleasedInTurn DEF Numbered
<1>3. CASE PushQuit(c)
  <2>1. QuitMsg \in QueuedMsgs /\ QuitMsg.type # "log"
    BY DEF QueuedMsgs, QuitMsg
  <2>2. m_queue'[c] = Append(m_queue[c], QuitMsg) /\ pushed'[c] = pushed[c]
        /\ handled'[c] = handled[c]
    BY <1>3 DEF PushQuit, Push, StateTypeOK, ClientTypeOK
  <2> QED
    BY <1>t, <1>i, <2>1, <2>2, AppendedInTurn
<1>4. CASE PushCategory(c)
  <2>1. PICK m \in QueuedMsgs : m.type = "category" /\ Push(c, Main, m)
    BY <1>4, PushedCategory
  <2>2. m_queue'[c] = Append(m_queue[c], m) /\ pushed'[c] = pushed[c]
        /\ handled'[c] = handled[c]
    BY <1>4, <2>1 DEF PushCategory, Push, StateTypeOK, ClientTypeOK
  <2> QED
    BY <1>t, <1>i, <2>1, <2>2, AppendedInTurn
<1>5. ASSUME NEW t \in Threads, PushLog(c, t)
      PROVE  InTurn(m_queue'[c], handled'[c], pushed'[c])
  <2>1. pushing[c][t] \in LogMsgs
    BY <1>5 DEF PushLog, StateTypeOK, ClientTypeOK
  <2>2. pushing[c][t] \in QueuedMsgs /\ pushing[c][t].type = "log"
    BY <2>1, LogFields DEF QueuedMsgs
  <2>3. m_queue'[c] = Append(m_queue[c], pushing[c][t]) /\ handled'[c] = handled[c]
        /\ pushed'[c] = Append(pushed[c], pushing[c][t])
    BY <1>5 DEF PushLog, Push, StateTypeOK, ClientTypeOK
  <2> QED
    BY <1>t, <1>i, <2>2, <2>3, AppendedInTurn
<1>6. m_queue' = m_queue /\ pushed' = pushed /\ handled' = handled
        => InTurn(m_queue'[c], handled'[c], pushed'[c])
  BY <1>i
<1>7. CASE RunnerConnects(c) \/ WaitForMessages(c) \/ SeeQuit(c) \/ ViewMessage(c)
           \/ Write(c) \/ EndBatch(c) \/ Throw(c)
  BY <1>6, <1>7 DEF RunnerConnects, WaitForMessages, SeeQuit, ViewMessage, Write, EndBatch,
                    Throw, Exit
<1>8. CASE \/ Join(c) \/ Connect(c, plan.file) \/ Quit(c)
           \/ (\E enabled \in BOOLEAN : Enable(c, enabled))
           \/ \E k \in Classes : DefineCategory(c, k)
  BY <1>6, <1>8 DEF Join, Connect, Quit, Enable, DefineCategory
<1>9. CASE \E t \in plan.threads[c], k \in Classes, f \in plan.formats : LogDeferred(c, t, k, f)
  BY <1>6, <1>9 DEF LogDeferred
<1> QED
  BY <1>1, <1>2, <1>3, <1>4, <1>5, <1>7, <1>8, <1>9
     DEF ClientStep, RunnerStep, ProgramStep

-----------------------------------------------------------------------------
(* The end of a runner.                                                     *)

\* What it left unreleased, once it is over.
Finished(c) ==
    runner[c] = "exited" =>
      \/ stream[Connection(c)] = "dead"
      \/ /\ m_queue[c] # <<>>
         /\ \/ Viewed(c) = QuitMsg
            \/ Viewed(c).type = "log" /\ ~ Fits(Viewed(c).event)

LEMMA PushedFinished ==
    ASSUME StateTypeOK, NEW c \in Clients, Finished(c), NEW t, NEW m \in QueuedMsgs, Push(c, t, m),
           runner' = runner, stream' = stream, session' = session
    PROVE  Finished(c)'
<1>1. m_queue[c] \in Seq(QueuedMsgs) /\ m_queue'[c] = Append(m_queue[c], m)
  BY DEF Push, StateTypeOK, ClientTypeOK
<1>2. m_queue'[c] # <<>>
  BY <1>1
<1>3. m_queue[c] # <<>> => Viewed(c)' = Viewed(c)
  BY <1>1 DEF Viewed
<1> QED
  BY <1>2, <1>3 DEF Finished, Connection

LEMMA FinishedStep ==
    ASSUME StateTypeOK, NEW c \in Clients, Batch(c), Finished(c), ClientStep(c)
    PROVE  Finished(c)'
<1> USE DEF connectionVars, sessionVars, queueVars, loggerVars, runnerVars
<1>1. CASE RunnerConnects(c) \/ WaitForMessages(c) \/ ViewMessage(c)
           \/ HandleLog(c) \/ HandleCategory(c)
  <2>1. runner'[c] # "exited"
    BY <1>1 DEF RunnerConnects, WaitForMessages, ViewMessage, HandleLog, HandleCategory, Take,
                Go, StateTypeOK, ClientTypeOK
  <2> QED
    BY <2>1 DEF Finished
<1>2. CASE SeeQuit(c) \/ Write(c)
  BY <1>2 DEF SeeQuit, Write, Batch, Finished
<1>3. CASE EndBatch(c)
  <2>1. CASE quit[c]
    BY <1>3, <2>1 DEF EndBatch, Exit, Batch, Finished, Viewed
  <2>2. CASE ~ quit[c]
    <3>1. runner'[c] # "exited"
      BY <1>3, <2>2 DEF EndBatch, Go, StateTypeOK, ClientTypeOK
    <3> QED
      BY <3>1 DEF Finished
  <2> QED
    BY <2>1, <2>2
<1>4. CASE Throw(c)
  <2>1. m_queue' = m_queue /\ session' = session
    BY <1>4 DEF Throw, Exit
  <2>2. CASE runner[c] = "announce" /\ Viewed(c).type = "log" /\ ~ Fits(Viewed(c).event)
    <3>1. m_queue[c] # <<>>
      BY <2>2, Unreleased
    <3> QED
      BY <2>1, <2>2, <3>1 DEF Finished, Viewed
  <2>3. CASE stream[Connection(c)] = "dead" /\ Exit(c)
    <3>1. stream'[Connection(c)] = "dead"
      BY <2>3 DEF Exit, StateTypeOK, ClientTypeOK
    <3> QED
      BY <2>1, <3>1 DEF Finished, Connection
  <2> QED
    BY <1>4, <2>2, <2>3 DEF Throw
<1>5. CASE PushQuit(c)
  BY <1>5, PushedFinished DEF PushQuit, QueuedMsgs
<1>6. CASE PushCategory(c)
  BY <1>6, PushedCategory, PushedFinished DEF PushCategory
<1>7. ASSUME NEW t \in Threads, PushLog(c, t) PROVE Finished(c)'
  <2>1. pushing[c][t] \in QueuedMsgs
    BY <1>7 DEF PushLog, StateTypeOK, ClientTypeOK, QueuedMsgs
  <2> QED
    BY <1>7, <2>1, PushedFinished DEF PushLog
<1>8. CASE Connect(c, plan.file)
  <2>1. CASE m_clientCount[c] = 0
    <3>1. runner'[c] # "exited"
      BY <1>8, <2>1 DEF Connect, StateTypeOK, ClientTypeOK
    <3> QED
      BY <3>1 DEF Finished
  <2>2. CASE m_clientCount[c] # 0
    BY <1>8, <2>2 DEF Connect, Finished, Connection, Viewed
  <2> QED
    BY <2>1, <2>2
<1>9. CASE Join(c) \/ Quit(c) \/ (\E enabled \in BOOLEAN : Enable(c, enabled))
           \/ (\E k \in Classes : DefineCategory(c, k))
           \/ \E t \in plan.threads[c], k \in Classes, f \in plan.formats : LogDeferred(c, t, k, f)
  <2>1. UNCHANGED <<runner, stream, session, m_queue>>
    BY <1>9 DEF Join, Quit, Enable, DefineCategory, LogDeferred
  <2> QED
    BY <2>1 DEF Finished, Connection, Viewed
<1> QED
  BY <1>1, <1>2, <1>3, <1>4, <1>5, <1>6, <1>7, <1>8, <1>9
     DEF ClientStep, RunnerStep, ProgramStep

-----------------------------------------------------------------------------
(* The programs together.                                                   *)

ClientInv == \A c \in Clients : Batch(c) /\ HandledInTurn(c) /\ Finished(c)

LEMMA ClientStepInv ==
    ASSUME StateTypeOK, ClientInv, plan' = plan, NEW c \in Clients, ClientStep(c)
    PROVE  ClientTypeOK' /\ ClientInv'
<1>1. Batch(c) /\ HandledInTurn(c) /\ Finished(c)
  BY DEF ClientInv
<1>2. ClientTypeOK'
  BY <1>1, RunnerTypes, MainTypes, ProgramTypes, PushLogTypes DEF ClientStep
<1>3. Batch(c)' /\ HandledInTurn(c)' /\ Finished(c)'
  BY <1>1, BatchStep, TurnStep, FinishedStep
<1>4. ASSUME NEW d \in Clients, d # c PROVE Batch(d)' /\ HandledInTurn(d)' /\ Finished(d)'
  <2>1. /\ Own(d)' = Own(d)
        /\ \A s \in 1 .. MaxSessions : stream'[<<d, s>>] = stream[<<d, s>>]
    BY <1>4, OthersAreApart
  <2>2. Batch(d) /\ HandledInTurn(d) /\ Finished(d)
    BY DEF ClientInv
  <2>3. Batch(d)' /\ HandledInTurn(d)'
    BY <2>1, <2>2 DEF Own, Batch, HandledInTurn, Viewed
  <2>4. runner[d] # "none" => session[d] \in 1 .. MaxSessions
    BY <2>2, SessionsBegun
  <2>5. Finished(d)'
    <3>1. CASE runner[d] = "exited"
      <4>1. stream'[<<d, session[d]>>] = stream[<<d, session[d]>>]
        BY <2>1, <2>4, <3>1
      <4> QED
        BY <2>1, <2>2, <3>1, <4>1 DEF Own, Finished, Connection, Viewed
    <3>2. CASE runner[d] # "exited"
      BY <2>1, <3>2 DEF Own, Finished
    <3> QED
      BY <3>1, <3>2
  <2> QED
    BY <2>3, <2>5
<1> QED
  BY <1>2, <1>3, <1>4 DEF ClientInv

\* A program's socket is closed at its end.
LEMMA DieInv ==
    ASSUME StateTypeOK, ClientInv, plan' = plan, NEW d \in Clients, Die(d)
    PROVE  ClientTypeOK' /\ ClientInv'
<1> USE DEF sessionVars, queueVars, loggerVars, runnerVars
<1>1. ClientTypeOK'
  BY DEF Die, StateTypeOK, ClientTypeOK
<1>2. ASSUME NEW c \in Clients PROVE Batch(c)' /\ HandledInTurn(c)' /\ Finished(c)'
  <2>1. Batch(c) /\ HandledInTurn(c) /\ Finished(c)
    BY DEF ClientInv
  <2>2. Batch(c)' /\ HandledInTurn(c)'
    BY <2>1 DEF Die, Batch, HandledInTurn, Viewed
  <2>3. stream[Connection(c)] = "dead" => stream'[Connection(c)] = "dead"
    BY DEF Die, StateTypeOK, ClientTypeOK
  <2>4. Finished(c)'
    BY <2>1, <2>3 DEF Die, Finished, Connection, Viewed
  <2> QED
    BY <2>2, <2>4
<1> QED
  BY <1>1, <1>2 DEF ClientInv

LEMMA BreakInv ==
    ASSUME StateTypeOK, ClientInv, plan' = plan, NEW k \in Connections, Break(k)
    PROVE  ClientTypeOK' /\ ClientInv'
<1> USE DEF sessionVars, queueVars, loggerVars, runnerVars
<1>1. ClientTypeOK'
  <2>1. <<>> \in Seq(Units)
    OBVIOUS
  <2>2. wire' \in [Connections -> Seq(Units)]
        /\ stream' \in [Connections -> {"none", "open", "closed", "dead"}]
    BY <2>1 DEF Break, StateTypeOK, ClientTypeOK
  <2> QED
    BY <2>2 DEF Break, StateTypeOK, ClientTypeOK
<1>2. ASSUME NEW c \in Clients PROVE Batch(c)' /\ HandledInTurn(c)' /\ Finished(c)'
  <2>1. Batch(c) /\ HandledInTurn(c) /\ Finished(c)
    BY DEF ClientInv
  <2>2. Batch(c)' /\ HandledInTurn(c)'
    BY <2>1 DEF Break, Batch, HandledInTurn, Viewed
  <2>3. stream[Connection(c)] = "dead" => stream'[Connection(c)] = "dead"
    BY DEF Break, StateTypeOK, ClientTypeOK
  <2>4. Finished(c)'
    BY <2>1, <2>3 DEF Break, Finished, Connection, Viewed
  <2> QED
    BY <2>2, <2>4
<1> QED
  BY <1>1, <1>2 DEF ClientInv

-----------------------------------------------------------------------------
(* The server.                                                              *)

LEMMA PushMessageTypes ==
    ASSUME StateTypeOK, PushMessage
    PROVE  data' \in Seq(Units) /\ serverQueue' \in Seq(ServerMsgs) /\ serving # NoConnection
<1>1. data \in Seq(Units) /\ data # <<>> /\ serving \in Connections /\ serving # NoConnection
  BY DEF PushMessage, Whole, StateTypeOK, ServerTypeOK
<1>2. data[1] \in Units
  BY <1>1
<1>3. data[1].size \in Nat /\ data[1].msg \in StreamMsgs
  BY <1>2 DEF Units
<1>4. SubSeq(data, data[1].size + 2, Len(data)) \in Seq(Units)
  BY <1>1, <1>3
<1>5. serving[1] \in Clients
  BY <1>1 DEF Connections
<1>6. EpilogMsg(data) \in ServerMsgs
  BY <1>3, <1>5 DEF EpilogMsg, ServerMsgs
<1> QED
  BY <1>1, <1>4, <1>6 DEF PushMessage, StateTypeOK, ServerTypeOK

\* A message of the server's, taken apart.
LEMMA ServerMsgKinds ==
    ASSUME NEW m \in ServerMsgs
    PROVE  /\ m.from \in Clients /\ m.size \in Nat /\ m.whole \in BOOLEAN
           /\ m.msg.type = "log" =>
                /\ m.msg.log \in LogMsgs
                /\ \E v \in Nat : m.msg.text = TextOf(m.msg.log, v)
           /\ m.msg.type = "class" => m.msg.class \in Classes
           /\ m.msg.type = "category" => m.msg.class \in Classes \cap DOMAIN CategoryOf
           /\ m.msg.type \in {"log", "class", "category"}
<1>1. m.from \in Clients /\ m.size \in Nat /\ m.whole \in BOOLEAN /\ m.msg \in StreamMsgs
  BY DEF ServerMsgs
<1>2. CASE m.msg \in LogUnits
  <2>1. PICK log \in LogMsgs, v \in Nat : m.msg = LogUnit(log, TextOf(log, v))
    BY <1>2 DEF LogUnits
  <2> QED
    BY <1>1, <2>1 DEF LogUnit
<1>3. CASE m.msg \in CategoryMsgs
  BY <1>1, <1>3 DEF CategoryMsgs, CategoryMsg, Definable
<1>4. CASE m.msg \in {[type |-> "class", class |-> k] : k \in Classes}
  BY <1>1, <1>4
<1> QED
  BY <1>1, <1>2, <1>3, <1>4 DEF StreamMsgs

\* The category of a class is named, and the name is one the server may know.
LEMMA CategoryNames ==
    ASSUME StateTypeOK, NEW k \in Classes
    PROVE  CategoryFor(k).name \in Names
<1>1. CASE k \in DOMAIN m_classIdToCategory
  <2>1. m_classIdToCategory[k] \in DOMAIN m_categoryMap
    BY <1>1 DEF StateTypeOK, ServerTypeOK
  <2> QED
    BY <1>1, <2>1 DEF StateTypeOK, ServerTypeOK, CategoryFor
<1>2. CASE k \notin DOMAIN m_classIdToCategory
  BY <1>2 DEF CategoryFor, Unfiltered, Names
<1> QED
  BY <1>1, <1>2

\* A thread is looked up among threads it is one of.
LEMMA ThreadTypes ==
    ASSUME StateTypeOK, NEW m \in ServerMsgs, NEW t \in Threads
    PROVE  /\ ThreadsBefore(m) \in Seq(Threads)
           /\ ThreadsWith(ThreadsBefore(m), t) \in Seq(Threads)
           /\ IndexIn(ThreadsWith(ThreadsBefore(m), t), t) \in Nat
<1> DEFINE before == ThreadsBefore(m)  with == ThreadsWith(before, t)
<1>1. before \in Seq(Threads)
  <2>1. <<>> \in Seq(Threads) /\ m_threads \in Seq(Threads)
    BY DEF StateTypeOK, ServerTypeOK
  <2> QED
    BY <2>1 DEF ThreadsBefore
<1> HIDE DEF before
<1>2. with \in Seq(Threads)
  BY <1>1 DEF ThreadsWith
<1>3. \E i \in DOMAIN with : with[i] = t
  <2>1. CASE \E i \in DOMAIN before : before[i] = t
    BY <2>1 DEF ThreadsWith
  <2>2. CASE ~ \E i \in DOMAIN before : before[i] = t
    <3>1. with = Append(before, t)
      BY <2>2 DEF ThreadsWith
    <3>2. Len(before) + 1 \in DOMAIN with /\ with[Len(before) + 1] = t
      BY <1>1, <3>1
    <3> QED
      BY <3>2
  <2> QED
    BY <2>1, <2>2
<1> HIDE DEF with
<1>4. IndexIn(with, t) \in DOMAIN with
  BY <1>3 DEF IndexIn
<1>5. IndexIn(with, t) \in Nat
  BY <1>2, <1>4
<1> QED
  BY <1>1, <1>2, <1>5 DEF with, before

LEMMA HandleTypes ==
    ASSUME StateTypeOK, HandleMessage
    PROVE  ServerTypeOK'
<1>1. Viewing \in ServerMsgs /\ serverQueue' \in Seq(ServerMsgs)
  BY DEF HandleMessage, Viewing, StateTypeOK, ServerTypeOK
<1>2. UNCHANGED <<serving, served, data>>
  BY DEF HandleMessage
<1>3. CASE Viewing.msg.type = "log"
  <2> DEFINE log == Viewing.msg.log  t == log.thread
             threads == ThreadsWith(ThreadsBefore(Viewing), t)
             d == [from |-> Viewing.from, id |-> log.id, class |-> log.class,
                   name |-> CategoryFor(log.class).name, index |-> IndexIn(threads, t),
                   whole |-> Viewing.whole, text |-> Viewing.msg.text]
  <2>1. /\ log \in LogMsgs /\ Viewing.from \in Clients /\ Viewing.whole \in BOOLEAN
        /\ Viewing.msg.text \in Texts
    BY <1>1, <1>3, ServerMsgKinds DEF Texts
  <2>2. log.id \in Nat /\ log.class \in Classes /\ t \in Threads
    BY <2>1, LogFields
  <2>3. /\ ThreadsBefore(Viewing) \in Seq(Threads) /\ threads \in Seq(Threads)
        /\ IndexIn(threads, t) \in Nat
    BY <1>1, <2>2, ThreadTypes
  <2>4. d \in Displayed
    BY <2>1, <2>2, <2>3, CategoryNames DEF Displayed
  <2>5. Display(Viewing) /\ UNCHANGED <<classes, m_categoryMap, m_classIdToCategory>>
    BY <1>3 DEF HandleMessage
  <2>6. m_threads' \in {ThreadsBefore(Viewing), threads}
        /\ (display' = Append(display, d) \/ display' = display)
    BY <2>5 DEF Display
  <2> HIDE DEF d, threads
  <2>7. m_threads' \in Seq(Threads)
    BY <2>3, <2>6
  <2>8. display' \in Seq(Displayed)
    <3>1. display \in Seq(Displayed)
      BY DEF StateTypeOK, ServerTypeOK
    <3> QED
      BY <2>4, <2>6, <3>1
  <2> QED
    BY <1>1, <1>2, <2>5, <2>7, <2>8 DEF StateTypeOK, ServerTypeOK
<1>4. CASE Viewing.msg.type = "class"
  <2>1. classes' = classes \cup {Viewing.msg.class}
        /\ UNCHANGED <<m_categoryMap, m_classIdToCategory, m_threads, display>>
    BY <1>4 DEF HandleMessage
  <2>2. Viewing.msg.class \in Classes
    BY <1>1, <1>4, ServerMsgKinds
  <2> QED
    BY <1>1, <1>2, <2>1, <2>2 DEF StateTypeOK, ServerTypeOK
<1>5. CASE Viewing.msg.type = "category"
  <2> DEFINE k == Viewing.msg.class  name == CategoryOf[k]
  <2>1. k \in Classes \cap DOMAIN CategoryOf
    BY <1>1, <1>5, ServerMsgKinds
  <2>2. name \in Names
    BY <2>1 DEF Names
  <2>3. /\ m_categoryMap' = CategoriesWith(name)
        /\ m_classIdToCategory' = ClassesWith(k, name)
        /\ UNCHANGED <<classes, m_threads, display>>
    BY <1>5 DEF HandleMessage
  <2> HIDE DEF k, name
  <2>4. /\ DOMAIN m_categoryMap' = DOMAIN m_categoryMap \cup {name}
        /\ \A n \in DOMAIN m_categoryMap' :
             m_categoryMap'[n] = IF n \in DOMAIN m_categoryMap THEN m_categoryMap[n]
                                 ELSE Unfiltered(name)
    BY <2>3 DEF CategoriesWith
  <2>5. /\ DOMAIN m_classIdToCategory' = DOMAIN m_classIdToCategory \cup {k}
        /\ \A x \in DOMAIN m_classIdToCategory' :
             m_classIdToCategory'[x] = IF x = k THEN name ELSE m_classIdToCategory[x]
    BY <2>3 DEF ClassesWith
  <2>6. \A n \in DOMAIN m_categoryMap' : m_categoryMap'[n].name = n
    BY <2>4 DEF StateTypeOK, ServerTypeOK, Unfiltered
  <2>7. \A x \in DOMAIN m_classIdToCategory' : m_classIdToCategory'[x] \in DOMAIN m_categoryMap'
    BY <2>4, <2>5 DEF StateTypeOK, ServerTypeOK
  <2> QED
    BY <1>1, <1>2, <2>1, <2>2, <2>3, <2>4, <2>5, <2>6, <2>7 DEF StateTypeOK, ServerTypeOK
<1> QED
  BY <1>1, <1>3, <1>4, <1>5, ServerMsgKinds

\* The server takes units off a stream, and touches nothing else of a program.
LEMMA ServerStepInv ==
    ASSUME StateTypeOK, ClientInv, ServerNext
    PROVE  StateTypeOK' /\ ClientInv'
<1> USE DEF clientVars, connectionVars, sessionVars, queueVars, loggerVars, runnerVars
<1>i. ClientInv'
  <2>1. UNCHANGED <<stream, session, m_queue, counted, runner, numMessages, quit, locations,
                    out, pushed, handled>>
    BY DEF ServerNext, ServerStep, WaitToPush, ChangeServerLine, PushMessage, EndSession,
           HandleMessage, ReadSome, Accept
  <2> QED
    BY <2>1 DEF ClientInv, Batch, HandledInTurn, Finished, Connection, Viewed
<1>t. SUFFICES StateTypeOK'
  BY <1>i
<1>0. clientVars' = clientVars => ClientTypeOK'
  BY DEF ServerNext, StateTypeOK, ClientTypeOK
<1>1. ASSUME NEW n \in 1 .. WireSize, ReadSome(n) PROVE StateTypeOK'
  <2> DEFINE read == SubSeq(wire[serving], 1, n)
             rest == SubSeq(wire[serving], n + 1, Len(wire[serving]))
  <2>1. serving \in Connections /\ n \in Nat /\ wire \in [Connections -> Seq(Units)]
        /\ data \in Seq(Units)
    BY <1>1 DEF ReadSome, StateTypeOK, ClientTypeOK, ServerTypeOK
  <2>2. read \in Seq(Units) /\ rest \in Seq(Units)
    <3> DEFINE w == wire[serving]
    <3>1. w \in Seq(Units) /\ n \in 1 .. Len(w)
      BY <1>1, <2>1 DEF ReadSome
    <3> QED
      BY <2>1, <3>1
  <2>3. data' = data \o read /\ wire' = [wire EXCEPT ![serving] = rest]
    BY <1>1 DEF ReadSome
  <2> HIDE DEF read, rest
  <2>4. data' \in Seq(Units) /\ wire' \in [Connections -> Seq(Units)]
    BY <2>1, <2>2, <2>3
  <2>5. serving' # NoConnection
    BY <1>1 DEF ReadSome
  <2>6. ClientTypeOK'
    BY <1>1, <2>4 DEF ReadSome, ServerNext, StateTypeOK, ClientTypeOK
  <2> QED
    BY <1>1, <2>4, <2>5, <2>6 DEF ReadSome, StateTypeOK, ServerTypeOK
<1>2. CASE PushMessage
  <2>1. ClientTypeOK'
    BY <1>0, <1>2 DEF PushMessage
  <2> QED
    BY <1>2, <2>1, PushMessageTypes DEF PushMessage, StateTypeOK, ServerTypeOK
<1>3. CASE EndSession
  <2>1. <<>> \in Seq(Units)
    OBVIOUS
  <2>2. ClientTypeOK'
    BY <1>0, <1>3 DEF EndSession
  <2> QED
    BY <1>3, <2>1, <2>2 DEF EndSession, StateTypeOK, ServerTypeOK
<1>4. CASE HandleMessage
  <2>1. ClientTypeOK'
    BY <1>0, <1>4 DEF HandleMessage
  <2> QED
    BY <1>4, <2>1, HandleTypes DEF StateTypeOK
<1>5. ASSUME NEW k \in Connections, Accept(k) PROVE StateTypeOK'
  <2>0. <<>> \in Seq(Units)
    OBVIOUS
  <2>1. k # NoConnection
    BY ServerAssumption
  <2>2. ClientTypeOK'
    BY <1>0, <1>5 DEF Accept
  <2>3. serving' \in Connections /\ served' \in SUBSET Connections /\ data' = <<>>
        /\ UNCHANGED <<serverQueue, classes, m_categoryMap, m_classIdToCategory, m_threads,
                       display>>
    BY <1>5 DEF Accept, StateTypeOK, ServerTypeOK
  <2>4. ServerTypeOK'
    BY <2>0, <2>1, <2>3 DEF StateTypeOK, ServerTypeOK
  <2> QED
    BY <2>2, <2>4 DEF StateTypeOK
<1>6. CASE WaitToPush
  <2>1. ClientTypeOK'
    BY <1>0, <1>6 DEF WaitToPush, ChangeServerLine
  <2> QED
    BY <1>6, <2>1 DEF WaitToPush, ChangeServerLine, StateTypeOK, ServerTypeOK
<1> QED
  BY <1>1, <1>2, <1>3, <1>4, <1>5, <1>6 DEF ServerNext, ServerStep

-----------------------------------------------------------------------------
(* Programs and server.                                                     *)

LEMMA Initial ==
    ASSUME Init
    PROVE  StateTypeOK /\ ClientInv
<1> USE DEF Init, ClientInit, ServerInit
<1>1. ClientTypeOK
  <2>1. <<>> \in Seq(QueuedMsgs) /\ <<>> \in Seq(Units) /\ <<>> \in Seq(LogMsgs)
        /\ <<>> \in Seq([id : Nat, text : Texts])
    OBVIOUS
  <2> QED
    BY <2>1, SizesAssumption DEF ClientTypeOK
<1>2. ServerTypeOK
  <2> DEFINE names == {Configured[i].name : i \in DOMAIN Configured}
             at(n) == CHOOSE i \in Named(Configured, n) : TRUE
  <2>1. ASSUME NEW n \in names PROVE at(n) \in DOMAIN Configured /\ Configured[at(n)].name = n
    <3>1. \E i \in Named(Configured, n) : TRUE
      BY DEF Named
    <3>2. at(n) \in Named(Configured, n)
      BY <3>1
    <3> QED
      BY <3>2 DEF Named
  <2>2. m_categoryMap = [n \in names |-> Configured[at(n)]]
    BY DEF CategoryMap
  <2> HIDE DEF at, names
  <2>3. \A n \in DOMAIN m_categoryMap : m_categoryMap[n].name = n
    BY <2>1, <2>2
  <2>4. DOMAIN m_categoryMap \subseteq Names
    BY DEF Names
  <2>5. <<>> \in Seq(Units) /\ <<>> \in Seq(ServerMsgs) /\ <<>> \in Seq(Threads)
        /\ <<>> \in Seq(Displayed)
    OBVIOUS
  <2> QED
    BY <2>3, <2>4, <2>5 DEF ServerTypeOK
<1>3. ASSUME NEW c \in Clients PROVE Batch(c) /\ HandledInTurn(c) /\ Finished(c)
  <2>1. Batch(c) /\ Finished(c)
    BY DEF Batch, Finished
  <2>2. LogsUpTo(<<>>, Len(<<>>)) = {} /\ Len(<<>>) = 0 /\ DOMAIN <<>> = {}
    BY DEF LogsUpTo
  <2>3. Cardinality(LogsUpTo(<<>>, Len(<<>>))) = 0
    BY <2>2, FS_EmptySet
  <2>4. InTurn(<<>>, <<>>, <<>>)
    BY <2>2, <2>3 DEF InTurn
  <2> QED
    BY <2>1, <2>4 DEF HandledInTurn
<1> QED
  BY <1>1, <1>2, <1>3 DEF StateTypeOK, ClientInv

LEMMA Preserved ==
    ASSUME StateTypeOK, ClientInv, [Next]_vars
    PROVE  StateTypeOK' /\ ClientInv'
<1>0. ASSUME Rests PROVE StateTypeOK' /\ ClientInv'
  <2> USE <1>0 DEF Rests, connectionVars, sessionVars, loggerVars, runnerVars
  <2>1. ClientTypeOK'
    BY DEF StateTypeOK, ClientTypeOK
  <2>2. ServerTypeOK'
    BY DEF StateTypeOK, ServerTypeOK
  <2>3. ClientInv'
    BY DEF ClientInv, Batch, HandledInTurn, Finished, Connection, Viewed
  <2> QED
    BY <2>1, <2>2, <2>3 DEF StateTypeOK
<1>1. CASE ServerNext
  BY <1>1, ServerStepInv
<1>2. CASE ClientNext /\ UNCHANGED serverVars
  <2>1. plan' = plan /\ UNCHANGED serverVars
    BY <1>2, ClientSteps
  <2>2. ServerTypeOK'
    BY <2>1 DEF serverVars, StateTypeOK, ServerTypeOK
  <2>3. ASSUME NEW c \in Clients, ClientStep(c) PROVE ClientTypeOK' /\ ClientInv'
    BY <2>1, <2>3, ClientStepInv
  <2>4. ASSUME NEW k \in Connections, Break(k) PROVE ClientTypeOK' /\ ClientInv'
    BY <2>1, <2>4, BreakInv
  <2>5. ASSUME NEW c \in Clients, Die(c) PROVE ClientTypeOK' /\ ClientInv'
    BY <2>1, <2>5, DieInv
  <2>6. ASSUME NEW c \in Clients, WaitStep(c) PROVE ClientTypeOK' /\ ClientInv'
    BY <1>0, <2>1, <2>6, WaitStepRests DEF StateTypeOK
  <2> QED
    BY <1>2, <2>2, <2>3, <2>4, <2>5, <2>6, ClientSteps DEF StateTypeOK
<1>3. CASE UNCHANGED vars
  BY <1>0, <1>3, StutterRests
<1> QED
  BY <1>1, <1>2, <1>3 DEF Next

THEOREM Invariance == Spec => [](StateTypeOK /\ ClientInv)
<1>1. Init => StateTypeOK /\ ClientInv
  BY Initial
<1>2. StateTypeOK /\ ClientInv /\ [Next]_vars => (StateTypeOK /\ ClientInv)'
  BY Preserved
<1> QED
  BY <1>1, <1>2, PTL DEF Spec

\* Who waits in a program's line is one of its threads, and in the server's its session.
THEOREM LinesInvariance == Spec => []LinesTypeOK
<1>1. Init => LinesTypeOK
  BY LinesBegin
<1>2. LinesTypeOK /\ [Next]_vars => LinesTypeOK'
  BY LinesKept
<1> QED
  BY <1>1, <1>2, PTL DEF Spec

\* Every variable is of its type: what is in a program's queue, on a stream and in the
\* server's queue is made of logs some plan may make, and what is displayed too.
THEOREM TypeCorrect == Spec => []TypeOK
<1>1. StateTypeOK /\ LinesTypeOK => TypeOK
  BY DEF TypeOK
<1> QED
  BY <1>1, Invariance, LinesInvariance, PTL

\* Quit flushes: what is handled is what was pushed, in turn, and when a runner is over,
\* nothing is ahead of the quit message, unless the stream broke or a log does not fit.
THEOREM QuitAlwaysFlushes == Spec => []QuitFlushes
<1>1. ClientInv => QuitFlushes
  BY DEF ClientInv, Finished, QuitFlushes
<1> QED
  BY <1>1, Invariance, PTL

-----------------------------------------------------------------------------
(* Lines of units.  A line is cut into messages from its beginning; what    *)
(* keeps that right is that each unit of a line is in its place.            *)

Framed(row) ==
    \A i \in DOMAIN row :
      LET start == i - row[i].part  size == row[i].size IN
      /\ row[i].part \in 1 .. size + 1 /\ start >= 0
      /\ \A j \in 1 .. size + 1 :
           start + j <= Len(row) =>
             row[start + j] = [part |-> j, size |-> size, msg |-> row[i].msg]
      /\ start + size + 2 <= Len(row) => row[start + size + 2].part = 1

\* It ends with a message.
Complete(row) == row # <<>> => row[Len(row)].part = row[Len(row)].size + 1

\* Something is missing at the end.
Cut(row, line2) == Len(line2) <= Len(row) /\ \A i \in DOMAIN line2 : line2[i] = row[i]

\* The first n units are gone.
Without(row, n, line2) ==
    /\ n <= Len(row) /\ Len(line2) = Len(row) - n
    /\ \A i \in DOMAIN line2 : line2[i] = row[i + n]

\* A message is put behind it.
With(row, m, size, line2) ==
    /\ line2 \in Seq(Units) /\ Len(line2) = Len(row) + size + 1
    /\ \A i \in 1 .. Len(row) : line2[i] = row[i]
    /\ \A i \in 1 .. size + 1 :
         line2[Len(row) + i] = [part |-> i, size |-> size, msg |-> m]

LogsAt(seq) == {i \in DOMAIN seq : seq[i].msg.type = "log"}
IdAt(seq, i) == seq[i].msg.log.id
IdsIn(seq) == {IdAt(seq, i) : i \in LogsAt(seq)}

\* One log was pushed before another.
Before(logs, x, y) ==
    \E i, j \in DOMAIN logs : i < j /\ logs[i].id = x /\ logs[j].id = y

\* A log is one of the first n.
Taken(logs, n, x) == \E i \in DOMAIN logs : i <= n /\ logs[i].id = x

\* What is sent of a log is what was made, and the log is of the first n.
Sent(logs, n, m) ==
    /\ \E i \in DOMAIN logs : i <= n /\ logs[i] = m.log
    /\ ~ m.log.event.pointer => m.text = TextOf(m.log, m.log.id)

\* The logs of a line, of the first n, are in it one after the other.
GoodLine(logs, n, row) ==
    /\ Framed(row)
    /\ \A i \in LogsAt(row) :
         Sent(logs, n, row[i].msg) /\ row[i].size = Len(row[i].msg.text)
    /\ \A i, j \in LogsAt(row) :
         i - row[i].part < j - row[j].part => Before(logs, IdAt(row, i), IdAt(row, j))

ClassMsg(k) == [type |-> "class", class |-> k]
AnnouncedIn(seq, n) == {k \in Classes : \E i \in DOMAIN seq : i <= n /\ seq[i].msg = ClassMsg(k)}

\* The class of a log is known, or announced ahead of it.
NamedLine(known, row) ==
    \A i \in LogsAt(row) : row[i].msg.log.class \in known \cup AnnouncedIn(row, i)

LEMMA FramedCut ==
    ASSUME NEW row \in Seq(Units), NEW line2 \in Seq(Units), Framed(row), Cut(row, line2)
    PROVE  Framed(line2)
<1> DEFINE n == Len(row)  n2 == Len(line2)
<1>1. n \in Nat /\ n2 \in Nat /\ n2 <= n /\ DOMAIN row = 1 .. n /\ DOMAIN line2 = 1 .. n2
      /\ \A i \in 1 .. n2 : line2[i] = row[i]
  BY DEF Cut
<1> SUFFICES ASSUME NEW i \in DOMAIN line2
             PROVE  /\ line2[i].part \in 1 .. line2[i].size + 1 /\ i - line2[i].part >= 0
                    /\ \A j \in 1 .. line2[i].size + 1 : i - line2[i].part + j <= n2 =>
                         line2[i - line2[i].part + j] =
                           [part |-> j, size |-> line2[i].size, msg |-> line2[i].msg]
                    /\ i - line2[i].part + line2[i].size + 2 <= n2 =>
                         line2[i - line2[i].part + line2[i].size + 2].part = 1
  BY DEF Framed
<1>2. i \in 1 .. n2 /\ i \in 1 .. n /\ line2[i] = row[i] /\ row[i] \in Units
  BY <1>1
<1> DEFINE part == row[i].part  size == row[i].size  start == i - part
<1>3. part \in Nat /\ size \in Nat
  BY <1>2 DEF Units
<1>4. /\ part \in 1 .. size + 1 /\ start >= 0
      /\ \A j \in 1 .. size + 1 : start + j <= n =>
           row[start + j] = [part |-> j, size |-> size, msg |-> row[i].msg]
      /\ start + size + 2 <= n => row[start + size + 2].part = 1
  BY <1>1, <1>2 DEF Framed
<1> HIDE DEF n, n2, part, size, start
<1>5. i \in Nat /\ start \in Nat
  BY <1>1, <1>2, <1>3, <1>4 DEF start
<1>6. \A j \in 1 .. size + 1 : start + j <= n2 =>
        line2[start + j] = [part |-> j, size |-> size, msg |-> row[i].msg]
  <2> SUFFICES ASSUME NEW j \in 1 .. size + 1, start + j <= n2
               PROVE  line2[start + j] = [part |-> j, size |-> size, msg |-> row[i].msg]
    OBVIOUS
  <2>1. start + j \in 1 .. n2 /\ start + j <= n
    BY <1>1, <1>3, <1>5
  <2> QED
    BY <1>1, <1>4, <2>1
<1>7. start + size + 2 <= n2 => line2[start + size + 2].part = 1
  <2> SUFFICES ASSUME start + size + 2 <= n2 PROVE line2[start + size + 2].part = 1
    OBVIOUS
  <2>1. start + size + 2 \in 1 .. n2 /\ start + size + 2 <= n
    BY <1>1, <1>3, <1>5
  <2> QED
    BY <1>1, <1>4, <2>1
<1> QED
  BY <1>2, <1>4, <1>6, <1>7 DEF part, size, start, n2

\* One line after another.
LEMMA Concatenated ==
    ASSUME NEW s \in Seq(Units), NEW t \in Seq(Units)
    PROVE  /\ s \o t \in Seq(Units) /\ Len(s \o t) = Len(s) + Len(t)
           /\ \A i \in 1 .. Len(s) : (s \o t)[i] = s[i]
           /\ \A i \in 1 .. Len(t) : (s \o t)[Len(s) + i] = t[i]
  OBVIOUS

LEMMA Extended ==
    ASSUME NEW row \in Seq(Units), NEW m \in StreamMsgs, NEW size \in Nat,
           NEW line2, line2 = row \o Record(m, size)
    PROVE  With(row, m, size, line2)
<1> DEFINE n == Len(row)  n2 == Len(line2)
<1>1. Record(m, size) \in Seq(Units) /\ Len(Record(m, size)) = size + 1
      /\ \A i \in 1 .. size + 1 : Record(m, size)[i] = [part |-> i, size |-> size, msg |-> m]
  BY RecordType
<1> DEFINE rec == Record(m, size)
<1>2. /\ line2 \in Seq(Units) /\ Len(line2) = Len(row) + Len(rec)
      /\ \A i \in 1 .. Len(row) : line2[i] = row[i]
      /\ \A i \in 1 .. Len(rec) : line2[Len(row) + i] = rec[i]
  <2> HIDE DEF rec
  <2> QED
    BY <1>1, Concatenated DEF rec
<1> HIDE DEF rec
<1>3. n \in Nat /\ n2 = n + (size + 1) /\ DOMAIN row = 1 .. n /\ DOMAIN line2 = 1 .. n2
  BY <1>1, <1>2 DEF rec
<1> QED
  BY <1>1, <1>2, <1>3 DEF rec, With

LEMMA FramedRecord ==
    ASSUME NEW row \in Seq(Units), Framed(row), Complete(row), NEW m \in StreamMsgs,
           NEW size \in Nat,
           NEW line2, With(row, m, size, line2)
    PROVE  Framed(line2) /\ Complete(line2)
<1> DEFINE n == Len(row)  n2 == Len(line2)
<1>1. /\ n \in Nat /\ n2 = n + size + 1 /\ DOMAIN row = 1 .. n /\ DOMAIN line2 = 1 .. n2
      /\ \A i \in 1 .. n : line2[i] = row[i]
      /\ \A i \in 1 .. size + 1 : line2[n + i] = [part |-> i, size |-> size, msg |-> m]
  BY DEF With
<1>2. Complete(line2)
  <2>1. line2[n2] = [part |-> size + 1, size |-> size, msg |-> m]
    <3>1. n2 = n + (size + 1) /\ size + 1 \in 1 .. size + 1
      BY <1>1
    <3> QED
      BY <1>1, <3>1
  <2> QED
    BY <2>1 DEF Complete
<1>3. ASSUME NEW i \in 1 .. n2
      PROVE  /\ line2[i].part \in 1 .. line2[i].size + 1 /\ i - line2[i].part >= 0
             /\ \A j \in 1 .. line2[i].size + 1 : i - line2[i].part + j <= n2 =>
                  line2[i - line2[i].part + j] =
                    [part |-> j, size |-> line2[i].size, msg |-> line2[i].msg]
             /\ i - line2[i].part + line2[i].size + 2 <= n2 =>
                  line2[i - line2[i].part + line2[i].size + 2].part = 1
  <2>1. CASE i \in 1 .. n
    <3> DEFINE part == row[i].part  s == row[i].size  start == i - part
    <3>1. line2[i] = row[i] /\ row[i] \in Units
      BY <1>1, <2>1
    <3>2. part \in Nat /\ s \in Nat
      BY <3>1 DEF Units
    <3>3. /\ part \in 1 .. s + 1 /\ start >= 0
          /\ \A j \in 1 .. s + 1 : start + j <= n =>
               row[start + j] = [part |-> j, size |-> s, msg |-> row[i].msg]
          /\ start + s + 2 <= n => row[start + s + 2].part = 1
      BY <1>1, <2>1 DEF Framed
    <3>c. n >= 1 => row[n].part = row[n].size + 1
      BY DEF Complete
    <3> HIDE DEF n, n2, part, s, start
    <3>4. i \in Nat /\ start \in Nat /\ start + 1 <= i /\ n >= 1
      BY <1>1, <2>1, <3>2, <3>3 DEF start
    \* the message of i ends with the line, or before
    <3>5. start + s + 1 <= n
      <4> SUFFICES ASSUME ~ (start + s + 1 <= n) PROVE FALSE
        OBVIOUS
      <4>1. n - start \in 1 .. s /\ n - start \in 1 .. s + 1 /\ start + (n - start) = n
            /\ start + (n - start) <= n
        BY <1>1, <2>1, <3>2, <3>4
      <4>2. row[start + (n - start)] = [part |-> n - start, size |-> s, msg |-> row[i].msg]
        BY <3>3, <4>1
      <4>3. row[n].part = n - start /\ row[n].size = s
        BY <4>1, <4>2
      <4> QED
        BY <3>2, <3>4, <3>c, <4>1, <4>3
    <3>6. \A j \in 1 .. s + 1 : start + j <= n2 =>
            line2[start + j] = [part |-> j, size |-> s, msg |-> row[i].msg]
      <4> SUFFICES ASSUME NEW j \in 1 .. s + 1
                   PROVE  line2[start + j] = [part |-> j, size |-> s, msg |-> row[i].msg]
        OBVIOUS
      <4>1. start + j \in 1 .. n /\ start + j <= n
        BY <1>1, <3>2, <3>4, <3>5
      <4> QED
        BY <1>1, <3>3, <4>1
    <3>7. start + s + 2 <= n2 => line2[start + s + 2].part = 1
      <4>1. CASE start + s + 2 <= n
        <5>1. start + s + 2 \in 1 .. n
          BY <1>1, <3>2, <3>4, <4>1
        <5> QED
          BY <1>1, <3>3, <4>1, <5>1
      <4>2. CASE ~ (start + s + 2 <= n)
        <5>1. start + s + 2 = n + 1 /\ 1 \in 1 .. size + 1
          BY <1>1, <3>2, <3>4, <3>5, <4>2
        <5>2. line2[n + 1] = [part |-> 1, size |-> size, msg |-> m]
          BY <1>1, <5>1
        <5>3. line2[n + 1].part = 1
          BY <5>2
        <5> QED
          BY <5>1, <5>3
      <4> QED
        BY <4>1, <4>2
    <3> QED
      BY <3>1, <3>3, <3>6, <3>7 DEF part, s, start
  <2>2. CASE i \in n + 1 .. n2
    <3> DEFINE p == i - n
    <3>1. p \in 1 .. size + 1 /\ i = n + p /\ n \in Nat
      BY <1>1, <2>2
    <3>2. line2[i] = [part |-> p, size |-> size, msg |-> m]
      BY <1>1, <3>1
    <3>0. i - p = n
      BY <3>1
    <3>3. line2[i].part = p /\ line2[i].size = size /\ line2[i].msg = m
      BY <3>2
    <3>4. ~ (n + size + 2 <= n2) /\ i - p >= 0
      BY <1>1, <3>1
    <3>5. \A j \in 1 .. size + 1 : line2[n + j] = [part |-> j, size |-> size, msg |-> m]
      BY <1>1
    <3>6. line2[i].part \in 1 .. line2[i].size + 1
      BY <3>1, <3>3
    <3> HIDE DEF p, n, n2
    <3> QED
      BY <3>0, <3>3, <3>4, <3>5, <3>6
  <2>3. i \in 1 .. n \/ i \in n + 1 .. n2
    BY <1>1
  <2> QED
    BY <2>1, <2>2, <2>3
<1>4. Framed(line2)
  BY <1>1, <1>3 DEF Framed
<1> QED
  BY <1>2, <1>4

LEMMA FramedWithout ==
    ASSUME NEW row \in Seq(Units), NEW line2 \in Seq(Units), Framed(row), row # <<>>,
           Without(row, row[1].size + 1, line2)
    PROVE  /\ Framed(line2) /\ row[1].part = 1
           /\ \A i \in DOMAIN line2 : i - line2[i].part >= 0
<1> DEFINE n == Len(row)  n2 == Len(line2)  gone == row[1].size + 1
<1>1. /\ n \in Nat /\ n2 \in Nat /\ n >= 1 /\ DOMAIN row = 1 .. n /\ DOMAIN line2 = 1 .. n2
      /\ row[1] \in Units /\ gone \in Nat /\ gone >= 1 /\ gone <= n /\ n2 = n - gone
      /\ \A i \in 1 .. n2 : line2[i] = row[i + gone]
  <2>1. row[1] \in Units /\ Len(row) >= 1
    OBVIOUS
  <2>2. row[1].size \in Nat
    BY <2>1 DEF Units
  <2>3. /\ n \in Nat /\ n2 \in Nat /\ DOMAIN row = 1 .. n /\ DOMAIN line2 = 1 .. n2
        /\ gone <= n /\ n2 = n - gone /\ \A i \in DOMAIN line2 : line2[i] = row[i + gone]
    BY DEF Without
  <2>4. gone \in Nat /\ gone >= 1
    BY <2>2
  <2> HIDE DEF n2, gone
  <2> QED
    BY <2>1, <2>3, <2>4
<1>2. ASSUME NEW i \in 1 .. n
      PROVE  /\ row[i].part \in Nat /\ row[i].size \in Nat
             /\ row[i].part \in 1 .. row[i].size + 1 /\ i - row[i].part >= 0
             /\ \A j \in 1 .. row[i].size + 1 : i - row[i].part + j <= n =>
                  row[i - row[i].part + j] =
                    [part |-> j, size |-> row[i].size, msg |-> row[i].msg]
             /\ i - row[i].part + row[i].size + 2 <= n =>
                  row[i - row[i].part + row[i].size + 2].part = 1
  <2>1. row[i] \in Units
    BY <1>1
  <2>2. row[i].part \in Nat /\ row[i].size \in Nat
    BY <2>1 DEF Units
  <2> QED
    BY <1>1, <2>2 DEF Framed
<1>3. row[1].part = 1
  BY <1>1, <1>2
\* the first message is its own, and the rest begins with another
<1>4. /\ \A j \in 1 .. gone : row[j].part = j /\ row[j].size = row[1].size
      /\ gone + 1 <= n => row[gone + 1].part = 1
  <2>1. row[1].part = 1 /\ row[1].size \in Nat /\ 1 - row[1].part = 0
    BY <1>1, <1>2, <1>3
  <2>2. ASSUME NEW j \in 1 .. gone PROVE row[j].part = j /\ row[j].size = row[1].size
    <3>1. j \in 1 .. row[1].size + 1 /\ 1 - row[1].part + j = j /\ j <= n
      BY <1>1, <2>1
    <3>2. 1 \in 1 .. n
      BY <1>1
    <3>3. row[1 - row[1].part + j] =
            [part |-> j, size |-> row[1].size, msg |-> row[1].msg]
      BY <1>2, <3>1, <3>2
    <3>4. row[j] = [part |-> j, size |-> row[1].size, msg |-> row[1].msg]
      BY <3>1, <3>3
    <3> QED
      BY <3>4
  <2>3. 1 - row[1].part + row[1].size + 2 = gone + 1
    BY <2>1
  <2> QED
    BY <1>1, <1>2, <2>2, <2>3
<1> HIDE DEF n, n2, gone
\* so a message of the rest is all in it
<1>5. ASSUME NEW i \in gone + 1 .. n PROVE i - row[i].part >= gone
  <2> DEFINE part == row[i].part  size == row[i].size  start == i - part
  <2>1. i \in 1 .. n /\ part \in Nat /\ size \in Nat /\ part \in 1 .. size + 1 /\ start >= 0
    BY <1>1, <1>2
  <2>2. \A j \in 1 .. size + 1 :
          start + j <= n => row[start + j].part = j /\ row[start + j].size = size
    <3> SUFFICES ASSUME NEW j \in 1 .. size + 1, start + j <= n
                 PROVE  row[start + j].part = j /\ row[start + j].size = size
      OBVIOUS
    <3>1. row[start + j] = [part |-> j, size |-> size, msg |-> row[i].msg]
      BY <1>2, <2>1
    <3> QED
      BY <3>1
  <2>3. SUFFICES ASSUME start < gone PROVE FALSE
    BY <1>1, <2>1
  <2> HIDE DEF part, size
  <2>4. i \in Nat /\ start \in Nat /\ i = start + part
    BY <1>1, <2>1
  <2> HIDE DEF start
  \* the unit at gone would be of the message of i, and of the first
  <2>5. gone - start \in 1 .. size + 1 /\ start + (gone - start) = gone /\ gone <= n
        /\ gone \in 1 .. gone
    BY <1>1, <2>1, <2>3, <2>4
  <2>6. row[gone].part = gone - start /\ row[gone].size = size
    BY <2>2, <2>5
  <2>7. gone = gone - start /\ row[1].size = size
    BY <1>4, <2>5, <2>6
  <2>8. start = 0 /\ gone = size + 1 /\ part <= gone /\ part = i
    BY <1>1, <2>1, <2>4, <2>7 DEF gone
  <2> QED
    BY <1>1, <2>1, <2>8
<1>6. ASSUME NEW i \in 1 .. n2
      PROVE  /\ line2[i].part \in 1 .. line2[i].size + 1 /\ i - line2[i].part >= 0
             /\ \A j \in 1 .. line2[i].size + 1 : i - line2[i].part + j <= n2 =>
                  line2[i - line2[i].part + j] =
                    [part |-> j, size |-> line2[i].size, msg |-> line2[i].msg]
             /\ i - line2[i].part + line2[i].size + 2 <= n2 =>
                  line2[i - line2[i].part + line2[i].size + 2].part = 1
  <2> DEFINE i1 == i + gone  part == row[i1].part  size == row[i1].size  start == i - part
  <2>1. i1 \in 1 .. n /\ i1 \in gone + 1 .. n /\ line2[i] = row[i1]
    BY <1>1
  <2>2. part \in Nat /\ size \in Nat /\ part \in 1 .. size + 1 /\ i1 - part >= gone
    BY <1>2, <1>5, <2>1
  <2>3. /\ \A j \in 1 .. size + 1 : i1 - part + j <= n =>
             row[i1 - part + j] = [part |-> j, size |-> size, msg |-> row[i1].msg]
        /\ i1 - part + size + 2 <= n => row[i1 - part + size + 2].part = 1
    BY <1>2, <2>1
  <2>4. start \in Nat /\ i1 - part = start + gone
    BY <1>1, <2>1, <2>2
  <2> HIDE DEF i1, part, size, start
  <2>5. ASSUME NEW j \in 1 .. size + 1, start + j <= n2
        PROVE  line2[start + j] = [part |-> j, size |-> size, msg |-> row[i1].msg]
    <3>1. start + j \in 1 .. n2 /\ start + gone + j = (start + j) + gone /\ start + gone + j <= n
      BY <1>1, <2>2, <2>4, <2>5
    <3> QED
      BY <1>1, <2>3, <2>4, <3>1
  <2>6. start + size + 2 <= n2 => line2[start + size + 2].part = 1
    <3> SUFFICES ASSUME start + size + 2 <= n2 PROVE line2[start + size + 2].part = 1
      OBVIOUS
    <3>1. start + size + 2 \in 1 .. n2 /\ start + gone + size + 2 = (start + size + 2) + gone
          /\ start + gone + size + 2 <= n
      BY <1>1, <2>2, <2>4
    <3> QED
      BY <1>1, <2>3, <2>4, <3>1
  <2> QED
    BY <2>1, <2>2, <2>4, <2>5, <2>6 DEF part, size, start
<1> QED
  BY <1>1, <1>3, <1>6 DEF Framed, n2

-----------------------------------------------------------------------------
(* Logs, in a line and before one another.                                  *)

\* More logs, behind the ones there are.
Behind(logs, logs2) == Len(logs) <= Len(logs2) /\ \A i \in DOMAIN logs : logs2[i] = logs[i]

LEMMA BehindDomain ==
    ASSUME NEW logs \in Seq(LogMsgs), NEW logs2 \in Seq(LogMsgs), Behind(logs, logs2)
    PROVE  \A i \in DOMAIN logs : i \in DOMAIN logs2 /\ logs2[i] = logs[i]
<1>1. DOMAIN logs = 1 .. Len(logs) /\ DOMAIN logs2 = 1 .. Len(logs2)
      /\ Len(logs) \in Nat /\ Len(logs2) \in Nat
  OBVIOUS
<1> QED
  BY <1>1 DEF Behind

LEMMA BeforeBehind ==
    ASSUME NEW logs \in Seq(LogMsgs), NEW logs2 \in Seq(LogMsgs), Behind(logs, logs2),
           NEW x, NEW y, Before(logs, x, y)
    PROVE  Before(logs2, x, y)
  BY BehindDomain DEF Before

LEMMA SentBehind ==
    ASSUME NEW logs \in Seq(LogMsgs), NEW logs2 \in Seq(LogMsgs), Behind(logs, logs2),
           NEW n \in Nat, NEW n2 \in Nat, n <= n2, NEW m, Sent(logs, n, m)
    PROVE  Sent(logs2, n2, m)
<1>1. PICK i \in DOMAIN logs : i <= n /\ logs[i] = m.log
  BY DEF Sent
<1>2. i \in DOMAIN logs2 /\ logs2[i] = m.log /\ i \in Nat
  BY <1>1, BehindDomain
<1>3. i <= n2
  BY <1>1, <1>2
<1> QED
  BY <1>2, <1>3 DEF Sent

LEMMA SentTaken ==
    ASSUME NEW logs, NEW n, NEW m, Sent(logs, n, m)
    PROVE  Taken(logs, n, m.log.id)
  BY DEF Sent, Taken

\* What is next is behind all that was taken.
LEMMA TakenBefore ==
    ASSUME NEW logs \in Seq(LogMsgs), NEW n \in Nat, n + 1 \in DOMAIN logs,
           NEW x, Taken(logs, n, x)
    PROVE  Before(logs, x, logs[n + 1].id)
<1>1. PICK i \in DOMAIN logs : i <= n /\ logs[i].id = x
  BY DEF Taken
<1>2. i \in Nat /\ i < n + 1
  BY <1>1
<1> QED
  BY <1>1, <1>2 DEF Before

LEMMA GoodBehind ==
    ASSUME NEW logs \in Seq(LogMsgs), NEW logs2 \in Seq(LogMsgs), Behind(logs, logs2),
           NEW n \in Nat, NEW n2 \in Nat, n <= n2, NEW row, GoodLine(logs, n, row)
    PROVE  GoodLine(logs2, n2, row)
  BY BeforeBehind, SentBehind DEF GoodLine

LEMMA GoodCut ==
    ASSUME NEW row \in Seq(Units), NEW line2 \in Seq(Units), Cut(row, line2),
           NEW logs, NEW n, GoodLine(logs, n, row)
    PROVE  GoodLine(logs, n, line2) /\ IdsIn(line2) \subseteq IdsIn(row)
<1>1. Framed(line2)
  BY FramedCut DEF GoodLine
<1>2. \A i \in LogsAt(line2) : i \in LogsAt(row) /\ line2[i] = row[i]
  <2>1. /\ Len(row) \in Nat /\ Len(line2) \in Nat /\ DOMAIN row = 1 .. Len(row)
        /\ DOMAIN line2 = 1 .. Len(line2)
    OBVIOUS
  <2> QED
    BY <2>1 DEF Cut, LogsAt
<1> QED
  BY <1>1, <1>2 DEF GoodLine, IdsIn, IdAt

LEMMA GoodWithout ==
    ASSUME NEW row \in Seq(Units), NEW line2 \in Seq(Units), row # <<>>,
           Without(row, row[1].size + 1, line2), NEW logs, NEW n, GoodLine(logs, n, row)
    PROVE  /\ GoodLine(logs, n, line2) /\ IdsIn(line2) \subseteq IdsIn(row)
           /\ row[1].part = 1
           /\ row[1].msg.type = "log" =>
                /\ Sent(logs, n, row[1].msg) /\ row[1].size = Len(row[1].msg.text)
                /\ IdAt(row, 1) \in IdsIn(row)
                /\ \A y \in IdsIn(line2) : Before(logs, IdAt(row, 1), y)
<1> DEFINE gone == row[1].size + 1
<1>1. Framed(line2) /\ row[1].part = 1 /\ \A i \in DOMAIN line2 : i - line2[i].part >= 0
  BY FramedWithout DEF GoodLine
<1>2. 1 \in DOMAIN row /\ row[1] \in Units
  <2>1. Len(row) >= 1 /\ Len(row) \in Nat /\ DOMAIN row = 1 .. Len(row)
    OBVIOUS
  <2> QED
    BY <2>1
<1>3. gone \in Nat /\ gone >= 1
  BY <1>2 DEF Units
<1>4. \A i \in LogsAt(line2) :
        /\ i \in Nat /\ i + gone \in LogsAt(row) /\ line2[i] = row[i + gone]
        /\ line2[i].part \in Nat /\ i - line2[i].part >= 0
  <2> SUFFICES ASSUME NEW i \in LogsAt(line2)
               PROVE  /\ i \in Nat /\ i + gone \in LogsAt(row) /\ line2[i] = row[i + gone]
                      /\ line2[i].part \in Nat /\ i - line2[i].part >= 0
    OBVIOUS
  <2>1. i \in DOMAIN line2 /\ line2[i].msg.type = "log"
    BY DEF LogsAt
  <2>2. line2[i] \in Units
    BY <2>1
  <2>3. /\ Len(row) \in Nat /\ Len(line2) \in Nat /\ DOMAIN row = 1 .. Len(row)
        /\ DOMAIN line2 = 1 .. Len(line2)
    OBVIOUS
  <2>4. gone <= Len(row) /\ Len(line2) = Len(row) - gone /\ line2[i] = row[i + gone]
    BY <2>1 DEF Without
  <2>5. line2[i].part \in Nat
    BY <2>2 DEF Units
  <2> HIDE DEF gone
  <2>6. i \in Nat /\ i + gone \in DOMAIN row
    BY <1>3, <2>1, <2>3, <2>4
  <2> QED
    BY <1>1, <2>1, <2>4, <2>5, <2>6 DEF LogsAt
<1> HIDE DEF gone
<1>5. \A i, j \in LogsAt(line2) : i - line2[i].part < j - line2[j].part =>
        Before(logs, IdAt(line2, i), IdAt(line2, j))
  <2> SUFFICES ASSUME NEW i \in LogsAt(line2), NEW j \in LogsAt(line2),
                      i - line2[i].part < j - line2[j].part
               PROVE  Before(logs, IdAt(line2, i), IdAt(line2, j))
    OBVIOUS
  <2>0. i \in Nat /\ j \in Nat /\ line2[i].part \in Nat /\ line2[j].part \in Nat
    BY <1>4
  <2>1. (i + gone) - line2[i].part < (j + gone) - line2[j].part
    <3> DEFINE p == line2[i].part  q == line2[j].part
    <3>1. p \in Nat /\ q \in Nat /\ i - p < j - q
      BY <2>0
    <3> HIDE DEF p, q
    <3>2. (i + gone) - p < (j + gone) - q
      BY <1>3, <2>0, <3>1
    <3> QED
      BY <3>2 DEF p, q
  <2>2. Before(logs, IdAt(row, i + gone), IdAt(row, j + gone))
    BY <1>4, <2>1 DEF GoodLine
  <2> QED
    BY <1>4, <2>2 DEF IdAt
<1>6. \A i \in LogsAt(line2) :
        Sent(logs, n, line2[i].msg) /\ line2[i].size = Len(line2[i].msg.text)
  BY <1>4 DEF GoodLine
<1>7. IdsIn(line2) \subseteq IdsIn(row)
  BY <1>4 DEF IdsIn, IdAt
<1>8. ASSUME row[1].msg.type = "log"
      PROVE  /\ Sent(logs, n, row[1].msg) /\ row[1].size = Len(row[1].msg.text)
             /\ IdAt(row, 1) \in IdsIn(row)
             /\ \A y \in IdsIn(line2) : Before(logs, IdAt(row, 1), y)
  <2>1. 1 \in LogsAt(row)
    BY <1>2, <1>8 DEF LogsAt
  <2>2. ASSUME NEW i \in LogsAt(line2) PROVE Before(logs, IdAt(row, 1), IdAt(line2, i))
    <3>1. 1 - row[1].part < (i + gone) - line2[i].part
      BY <1>1, <1>3, <1>4
    <3>2. Before(logs, IdAt(row, 1), IdAt(row, i + gone))
      BY <1>4, <2>1, <3>1 DEF GoodLine
    <3> QED
      BY <1>4, <3>2 DEF IdAt
  <2> QED
    BY <2>1, <2>2 DEF GoodLine, IdsIn
<1> QED
  BY <1>1, <1>5, <1>6, <1>7, <1>8 DEF GoodLine

LEMMA GoodRecord ==
    ASSUME NEW row \in Seq(Units), Complete(row), NEW m \in StreamMsgs, NEW size \in Nat,
           NEW line2, With(row, m, size, line2),
           NEW logs \in Seq(LogMsgs), NEW n \in Nat, NEW n2 \in Nat, n <= n2,
           GoodLine(logs, n, row),
           m.type = "log" =>
             /\ n2 = n + 1 /\ n + 1 \in DOMAIN logs /\ logs[n + 1] = m.log
             /\ ~ m.log.event.pointer => m.text = TextOf(m.log, m.log.id)
             /\ size = Len(m.text)
    PROVE  /\ GoodLine(logs, n2, line2) /\ Complete(line2)
           /\ \A y \in IdsIn(line2) : y \in IdsIn(row) \/ (m.type = "log" /\ y = m.log.id)
<1> DEFINE len == Len(row)
<1>1. Framed(line2) /\ Complete(line2)
  BY FramedRecord DEF GoodLine
<1>2. /\ line2 \in Seq(Units) /\ len \in Nat /\ Len(line2) = len + size + 1
      /\ DOMAIN row = 1 .. len /\ DOMAIN line2 = 1 .. Len(line2)
      /\ \A i \in 1 .. len : line2[i] = row[i]
      /\ \A i \in 1 .. size + 1 : line2[len + i] = [part |-> i, size |-> size, msg |-> m]
  BY DEF With
<1> HIDE DEF len
<1>3. ASSUME NEW i \in LogsAt(line2)
      PROVE  \/ /\ i \in LogsAt(row) /\ line2[i] = row[i]
                /\ i - line2[i].part < len
             \/ /\ m.type = "log" /\ line2[i].msg = m /\ line2[i].size = size
                /\ i - line2[i].part = len
  <2>1. i \in 1 .. len + size + 1 /\ line2[i].msg.type = "log"
    BY <1>2 DEF LogsAt
  <2>2. CASE i \in 1 .. len
    <3>1. line2[i] = row[i] /\ i \in LogsAt(row) /\ row[i] \in Units
      BY <1>2, <2>1, <2>2 DEF LogsAt
    <3>2. row[i].part \in 1 .. row[i].size + 1 /\ row[i].size \in Nat
      BY <1>2, <2>2, <3>1 DEF GoodLine, Framed, Units
    <3>3. row[i].part >= 1 /\ row[i].part \in Nat
      BY <3>2
    <3>4. i - row[i].part < len
      BY <1>2, <2>2, <3>3
    <3> QED
      BY <3>1, <3>4
  <2>3. CASE ~ (i \in 1 .. len)
    <3>1. i - len \in 1 .. size + 1 /\ i = len + (i - len)
      BY <1>2, <2>1, <2>3
    <3>2. line2[i] = [part |-> i - len, size |-> size, msg |-> m]
      BY <1>2, <3>1
    <3>3. line2[i].part = i - len /\ line2[i].size = size /\ line2[i].msg = m
      BY <3>2
    <3>4. i - (i - len) = len
      BY <1>2, <2>1
    <3> QED
      BY <2>1, <3>3, <3>4
  <2> QED
    BY <2>2, <2>3
<1>4. m.type = "log" => Sent(logs, n2, m)
  <2>1. n + 1 \in DOMAIN logs /\ n2 = n + 1 => n + 1 <= n2
    BY DEF Sent
  <2> QED
    BY <2>1 DEF Sent
<1>5. Behind(logs, logs)
  BY DEF Behind
<1>6. ASSUME NEW i \in LogsAt(line2)
      PROVE  Sent(logs, n2, line2[i].msg) /\ line2[i].size = Len(line2[i].msg.text)
  <2>1. CASE i \in LogsAt(row) /\ line2[i] = row[i]
    <3>1. Sent(logs, n, row[i].msg) /\ row[i].size = Len(row[i].msg.text)
      BY <2>1 DEF GoodLine
    <3> QED
      BY <1>5, <2>1, <3>1, SentBehind
  <2>2. CASE m.type = "log" /\ line2[i].msg = m /\ line2[i].size = size
    BY <1>4, <2>2
  <2> QED
    BY <1>3, <2>1, <2>2
<1>7. ASSUME NEW i \in LogsAt(line2), NEW j \in LogsAt(line2),
             i - line2[i].part < j - line2[j].part
      PROVE  Before(logs, IdAt(line2, i), IdAt(line2, j))
  <2>1. CASE i \in LogsAt(row) /\ line2[i] = row[i]
    <3>1. CASE j \in LogsAt(row) /\ line2[j] = row[j]
      BY <1>7, <2>1, <3>1 DEF GoodLine, IdAt
    <3>2. CASE m.type = "log" /\ line2[j].msg = m
      <4>1. Sent(logs, n, row[i].msg)
        BY <2>1 DEF GoodLine
      <4>2. Before(logs, row[i].msg.log.id, logs[n + 1].id)
        BY <3>2, <4>1, SentTaken, TakenBefore
      <4> QED
        BY <2>1, <3>2, <4>2 DEF IdAt
    <3> QED
      BY <1>3, <3>1, <3>2
  <2>2. CASE i - line2[i].part = len
    <3>1. j - line2[j].part < len \/ j - line2[j].part = len
      BY <1>3
    <3>2. j - line2[j].part \in Int
      <4>1. j \in DOMAIN line2 /\ line2[j] \in Units
        BY <1>2 DEF LogsAt
      <4> QED
        BY <1>2, <4>1 DEF Units
    <3>3. len < j - line2[j].part
      BY <1>7, <2>2
    <3> DEFINE s == j - line2[j].part
    <3> HIDE DEF s
    <3>4. FALSE
      BY <1>2, <3>1, <3>2, <3>3 DEF s
    <3> QED
      BY <3>4
  <2> QED
    BY <1>3, <2>1, <2>2
<1>8. \A y \in IdsIn(line2) : y \in IdsIn(row) \/ (m.type = "log" /\ y = m.log.id)
  BY <1>3 DEF IdsIn, IdAt
<1> QED
  BY <1>1, <1>6, <1>7, <1>8 DEF GoodLine

\* What is announced in a line, and known of the classes of its logs.
LEMMA NamedMore ==
    ASSUME NEW known, NEW known2, known \subseteq known2, NEW row, NamedLine(known, row)
    PROVE  NamedLine(known2, row)
  BY DEF NamedLine

LEMMA NamedCut ==
    ASSUME NEW known, NEW row \in Seq(Units), NEW line2 \in Seq(Units), Cut(row, line2),
           NamedLine(known, row)
    PROVE  NamedLine(known, line2)
<1>1. /\ Len(row) \in Nat /\ Len(line2) \in Nat /\ DOMAIN row = 1 .. Len(row)
      /\ DOMAIN line2 = 1 .. Len(line2) /\ Len(line2) <= Len(row)
      /\ \A i \in DOMAIN line2 : line2[i] = row[i]
  BY DEF Cut
<1> SUFFICES ASSUME NEW i \in LogsAt(line2)
             PROVE  line2[i].msg.log.class \in known \cup AnnouncedIn(line2, i)
  BY DEF NamedLine
<1>2. i \in DOMAIN line2 /\ i \in LogsAt(row) /\ line2[i] = row[i]
  BY <1>1 DEF LogsAt
<1>3. AnnouncedIn(row, i) \subseteq AnnouncedIn(line2, i)
  <2> SUFFICES ASSUME NEW x \in Classes, NEW j \in DOMAIN row, j <= i, row[j].msg = ClassMsg(x)
               PROVE  \E j2 \in DOMAIN line2 : j2 <= i /\ line2[j2].msg = ClassMsg(x)
    BY DEF AnnouncedIn
  <2>1. j \in DOMAIN line2
    BY <1>1, <1>2
  <2> QED
    BY <1>1, <2>1
<1> QED
  BY <1>2, <1>3 DEF NamedLine

LEMMA NamedWithout ==
    ASSUME NEW known, NEW known2, known \subseteq known2,
           NEW row \in Seq(Units), NEW line2 \in Seq(Units), row # <<>>, Framed(row),
           Without(row, row[1].size + 1, line2),
           \A x \in Classes : row[1].msg = ClassMsg(x) => x \in known2
    PROVE  /\ NamedLine(known, row) => NamedLine(known2, line2)
           /\ \A S : S \subseteq known \cup AnnouncedIn(row, Len(row)) =>
                S \subseteq known2 \cup AnnouncedIn(line2, Len(line2))
<1> DEFINE gone == row[1].size + 1
<1>1. /\ Len(row) \in Nat /\ Len(line2) \in Nat /\ DOMAIN row = 1 .. Len(row)
      /\ DOMAIN line2 = 1 .. Len(line2) /\ Len(line2) = Len(row) - gone
      /\ 1 \in DOMAIN row /\ row[1].size \in Nat /\ gone <= Len(row)
      /\ \A i \in DOMAIN line2 : line2[i] = row[i + gone]
  <2>1. row[1] \in Units /\ 1 \in DOMAIN row
    OBVIOUS
  <2>2. row[1].size \in Nat
    BY <2>1 DEF Units
  <2> QED
    BY <2>1, <2>2 DEF Without
<1>2. gone \in Nat
  BY <1>1
\* what the first message announces, or the rest
<1>3. ASSUME NEW i \in Nat, NEW x \in AnnouncedIn(row, i + gone)
      PROVE  x \in known2 \cup AnnouncedIn(line2, i)
  <2>1. PICK j \in DOMAIN row : j <= i + gone /\ row[j].msg = ClassMsg(x)
    BY <1>3 DEF AnnouncedIn
  <2>2. x \in Classes
    BY <1>3 DEF AnnouncedIn
  <2>3. CASE j <= gone
    <3>1. row[j].msg = row[1].msg
      <4>1. row[1].part = 1
        BY FramedWithout
      <4>2. j \in 1 .. row[1].size + 1 /\ 1 - row[1].part + j = j /\ j <= Len(row)
        BY <1>1, <2>3, <4>1
      <4>3. row[1 - row[1].part + j] = [part |-> j, size |-> row[1].size, msg |-> row[1].msg]
        BY <1>1, <4>2 DEF Framed
      <4>4. row[j] = [part |-> j, size |-> row[1].size, msg |-> row[1].msg]
        BY <4>2, <4>3
      <4> QED
        BY <4>4
    <3> QED
      BY <2>1, <2>2, <3>1
  <2>4. CASE ~ (j <= gone)
    <3> HIDE DEF gone
    <3>1. j - gone \in DOMAIN line2 /\ j - gone <= i /\ (j - gone) + gone = j
      BY <1>1, <1>2, <2>1, <2>4
    <3>2. line2[j - gone].msg = ClassMsg(x)
      BY <1>1, <2>1, <3>1
    <3> QED
      BY <2>2, <3>1, <3>2 DEF AnnouncedIn
  <2> QED
    BY <2>3, <2>4
<1> HIDE DEF gone
<1>4. ASSUME NamedLine(known, row), NEW i \in LogsAt(line2)
      PROVE  line2[i].msg.log.class \in known2 \cup AnnouncedIn(line2, i)
  <2>1. i \in DOMAIN line2 /\ i \in Nat /\ line2[i].msg.type = "log" /\ line2[i] = row[i + gone]
    BY <1>1 DEF LogsAt
  <2>2. i + gone \in LogsAt(row)
    BY <1>1, <1>2, <2>1 DEF LogsAt
  <2>3. line2[i].msg.log.class \in known \cup AnnouncedIn(row, i + gone)
    BY <1>4, <2>1, <2>2 DEF NamedLine
  <2> QED
    BY <1>3, <2>1, <2>3
<1>5. ASSUME NEW S, S \subseteq known \cup AnnouncedIn(row, Len(row))
      PROVE  S \subseteq known2 \cup AnnouncedIn(line2, Len(line2))
  <2>1. Len(line2) + gone = Len(row)
    BY <1>1, <1>2
  <2> QED
    BY <1>1, <1>3, <1>5, <2>1
<1> QED
  BY <1>4, <1>5 DEF NamedLine

LEMMA NamedRecord ==
    ASSUME NEW known, NEW row \in Seq(Units), NEW m \in StreamMsgs, NEW size \in Nat,
           NEW line2, With(row, m, size, line2)
    PROVE  /\ AnnouncedIn(row, Len(row)) \subseteq AnnouncedIn(line2, Len(line2))
           /\ \A x \in Classes : m = ClassMsg(x) => x \in AnnouncedIn(line2, Len(line2))
           /\ /\ NamedLine(known, row)
              /\ m.type = "log" => m.log.class \in known \cup AnnouncedIn(row, Len(row))
              => NamedLine(known, line2)
<1>1. /\ line2 \in Seq(Units) /\ Len(row) \in Nat /\ Len(line2) = Len(row) + size + 1
      /\ DOMAIN row = 1 .. Len(row) /\ DOMAIN line2 = 1 .. Len(line2)
      /\ \A i \in 1 .. Len(row) : line2[i] = row[i]
      /\ \A i \in 1 .. size + 1 : line2[Len(row) + i] = [part |-> i, size |-> size, msg |-> m]
  BY DEF With
<1>2. \A i \in DOMAIN row : i \in DOMAIN line2 /\ line2[i] = row[i]
  BY <1>1
<1>3. ASSUME NEW i \in Nat PROVE AnnouncedIn(row, i) \subseteq AnnouncedIn(line2, i)
  BY <1>2 DEF AnnouncedIn
<1>4. AnnouncedIn(row, Len(row)) \subseteq AnnouncedIn(line2, Len(line2))
  <2>1. \A i \in DOMAIN row : i <= Len(line2)
    BY <1>1
  <2> QED
    BY <1>2, <2>1 DEF AnnouncedIn
<1>5. ASSUME NEW x \in Classes, m = ClassMsg(x) PROVE x \in AnnouncedIn(line2, Len(line2))
  <2>1. Len(row) + 1 \in DOMAIN line2 /\ Len(row) + 1 <= Len(line2) /\ 1 \in 1 .. size + 1
    BY <1>1
  <2>2. line2[Len(row) + 1] = [part |-> 1, size |-> size, msg |-> m]
    BY <1>1, <2>1
  <2>3. line2[Len(row) + 1].msg = m
    BY <2>2
  <2> QED
    BY <1>5, <2>1, <2>3 DEF AnnouncedIn
<1>6. ASSUME NamedLine(known, row),
             m.type = "log" => m.log.class \in known \cup AnnouncedIn(row, Len(row)),
             NEW i \in LogsAt(line2)
      PROVE  line2[i].msg.log.class \in known \cup AnnouncedIn(line2, i)
  <2>1. i \in DOMAIN line2 /\ line2[i].msg.type = "log"
    BY DEF LogsAt
  <2>2. CASE i \in DOMAIN row
    <3>1. i \in LogsAt(row) /\ line2[i] = row[i] /\ i \in Nat
      BY <1>1, <1>2, <2>1, <2>2 DEF LogsAt
    <3> QED
      BY <1>3, <1>6, <3>1 DEF NamedLine
  <2>3. CASE ~ (i \in DOMAIN row)
    <3>1. i - Len(row) \in 1 .. size + 1 /\ i = Len(row) + (i - Len(row)) /\ i \in Nat
          /\ Len(row) <= i
      BY <1>1, <2>1, <2>3
    <3>2. line2[i] = [part |-> i - Len(row), size |-> size, msg |-> m]
      BY <1>1, <3>1
    <3>3. line2[i].msg = m
      BY <3>2
    <3>4. AnnouncedIn(row, Len(row)) \subseteq AnnouncedIn(line2, i)
      <4>1. \A j \in DOMAIN row : j <= i
        BY <1>1, <3>1
      <4> QED
        BY <1>2, <4>1 DEF AnnouncedIn
    <3> QED
      BY <1>6, <2>1, <3>3, <3>4
  <2> QED
    BY <2>2, <2>3
<1> QED
  BY <1>4, <1>5, <1>6 DEF NamedLine

-----------------------------------------------------------------------------
(* The invariant.                                                           *)

\* All that is on its way, or is to be, from the server's reading to the runner's writing.
Line(k) ==
    (IF serving = k THEN data ELSE <<>>) \o wire[k]
      \o (IF stream[k] = "open" THEN out[k[1]] ELSE <<>>)

\* Nothing is taken out of the queue any more.
Blocked(c) ==
    /\ m_queue[c] # <<>>
    /\ Viewed(c) = QuitMsg \/ (Viewed(c).type = "log" /\ ~ Fits(Viewed(c).event))

\* A stream is open only while its session's runner is at work, and closed, not broken, only
\* if the runner ended before the queue was empty, or the program did.
StreamOK(c, s) == LET k == <<c, s>> IN
    /\ stream[k] = "open" => s = session[c] /\ runner[c] \in {"wait", "view", "announce"}
    /\ s > session[c] => stream[k] = "none"
    /\ stream[k] \in {"none", "dead"} => wire[k] = <<>>
    /\ stream[k] = "closed" => Blocked(c) \/ Crashed(c)

\* A session begins when no runner is left.
Streams(c) ==
    /\ m_clientCount[c] = 0 /\ main[c] = "idle" => runner[c] \in {"none", "exited"}
    /\ runner[c] = "connect" => stream[Connection(c)] = "none" /\ locations[c] = {}
    /\ \A s \in 1 .. MaxSessions : StreamOK(c, s)

\* A program that has ended is not there again.
NobodyComesBack == \A c \in Clients : Crashed(c) => Crashed(c)'

AllStreams ==
    /\ \A c \in Clients : Streams(c)
    /\ \A k \in Connections : serving = k => stream[k] # "none"

\* A log has its own number, which its arguments are, if they are not pointers.
AsMade(m) == m.id # 0 /\ (~ m.event.pointer => m.event.v1 = m.id)

Distinct(logs) == \A i, j \in DOMAIN logs : logs[i].id = logs[j].id => i = j

Numbers(c) ==
    /\ \A t \in Threads : text[c][t] <= Cardinality(Logs)
    /\ Distinct(pushed[c])
    /\ \A i \in DOMAIN pushed[c] :
         AsMade(pushed[c][i]) /\ pushed[c][i].id <= Cardinality(Logs)
    /\ \A t \in Threads : pushing[c][t] # Nothing =>
         /\ AsMade(pushing[c][t]) /\ pushing[c][t].id <= Cardinality(Logs)
         /\ \A i \in DOMAIN pushed[c] : pushed[c][i].id # pushing[c][t].id
         /\ \A u \in Threads :
              pushing[c][u] # Nothing /\ pushing[c][u].id = pushing[c][t].id => u = t

AllNumbers == \A c \in Clients : Numbers(c)

SoundLines ==
    \A k \in Connections :
      /\ GoodLine(pushed[k[1]], Len(handled[k[1]]), Line(k))
      /\ stream[k] = "open" => Complete(Line(k))

\* Of two sessions of a program, only one that is served may have left logs to the other.
Sessions ==
    \A k, l \in Connections : k[1] = l[1] /\ k[2] < l[2] =>
      \A x \in IdsIn(Line(k)), y \in IdsIn(Line(l)) :
        serving = k /\ Before(pushed[k[1]], x, y)

From(seq, c) == {i \in DOMAIN seq : seq[i].from = c}
Arrived(queue, shown, c) ==
    {IdAt(queue, i) : i \in LogsAt(queue) \cap From(queue, c)}
      \cup {shown[i].id : i \in From(shown, c)}

\* What has arrived is ahead of what is on its way.
Arriving ==
    \A k \in Connections :
      \A x \in Arrived(serverQueue, display, k[1]), y \in IdsIn(Line(k)) :
        Before(pushed[k[1]], x, y)

\* logs are the logs pushed, count those handled, of each program.
Waiting(logs, count, queue) ==
    /\ \A i \in LogsAt(queue) : LET m == queue[i] IN
         /\ Sent(logs[m.from], count[m.from], m.msg)
         /\ m.whole <=> Len(m.msg.text) <= PayloadSize
    /\ \A i, j \in LogsAt(queue) : i < j /\ queue[i].from = queue[j].from =>
         Before(logs[queue[i].from], IdAt(queue, i), IdAt(queue, j))

RightlyShown(logs, n, d) ==
    /\ d.name # ""
    /\ d.whole <=> Len(d.text) <= PayloadSize
    /\ \E i \in DOMAIN logs :
         /\ i <= n /\ logs[i].id = d.id /\ logs[i].class = d.class
         /\ ~ logs[i].event.pointer => d.text = TextOf(logs[i], logs[i].id)

Shown(logs, count, shown, queue) ==
    /\ \A i \in DOMAIN shown :
         RightlyShown(logs[shown[i].from], count[shown[i].from], shown[i])
    /\ \A i, j \in DOMAIN shown : i < j /\ shown[i].from = shown[j].from =>
         Before(logs[shown[i].from], shown[i].id, shown[j].id)
    /\ \A i \in DOMAIN shown, j \in LogsAt(queue) : shown[i].from = queue[j].from =>
         Before(logs[shown[i].from], shown[i].id, IdAt(queue, j))

Counts == [c \in Clients |-> Len(handled[c])]

\* The classes the server has been told of, or will be by what it has in its queue.
Known == classes \cup AnnouncedIn(serverQueue, Len(serverQueue))

Announcements ==
    /\ NamedLine(classes, serverQueue)
    /\ \A k \in Connections : NamedLine(Known, Line(k))
    /\ \A k \in Connections : stream[k] = "open" =>
         locations[k[1]] \subseteq Known \cup AnnouncedIn(Line(k), Len(Line(k)))
    /\ \A k \in DOMAIN m_classIdToCategory : m_classIdToCategory[k] # ""

OrderInv ==
    /\ AllNumbers /\ AllStreams /\ SoundLines /\ Sessions /\ Arriving
    /\ Waiting(pushed, Counts, serverQueue) /\ Shown(pushed, Counts, display, serverQueue)
    /\ Announcements

-----------------------------------------------------------------------------
(* Numbers.                                                                 *)

LEMMA NumbersKept ==
    ASSUME AllNumbers, UNCHANGED <<plan, text, pushing, pushed>>
    PROVE  AllNumbers'
<1>1. Logs' = Logs
  BY DEF Logs
<1> QED
  BY <1>1 DEF AllNumbers, Numbers, Distinct, AsMade

\* One more log is one more number.
LEMMA LogDeferredCounts ==
    ASSUME StateTypeOK, AllNumbers, plan' = plan, NEW c \in Clients, NEW t \in Threads,
           NEW k \in Classes, NEW f \in Formats, LogDeferred(c, t, k, f)
    PROVE  /\ text'[c][t] = Cardinality(Logs) + 1 /\ Cardinality(Logs') = Cardinality(Logs) + 1
           /\ \A d \in Clients, u \in Threads :
                text'[d][u] = text[d][u] \/ text'[d][u] = Cardinality(Logs) + 1
<1> DEFINE n == Cardinality(Logs)
<1>1. n \in Nat /\ plan.logs \in Nat /\ n < plan.logs
  BY LogsAreNumbered, PlansAssumption DEF StateTypeOK, ClientTypeOK, LogDeferred
<1>2. \A d \in Clients, u \in Threads : text[d][u] <= n /\ text[d][u] \in Nat
  BY DEF AllNumbers, Numbers, StateTypeOK, ClientTypeOK
<1>3. text' = [text EXCEPT ![c][t] = n + 1]
  BY DEF LogDeferred
<1>4. text'[c][t] = n + 1
      /\ \A d \in Clients, u \in Threads : text'[d][u] = text[d][u] \/ text'[d][u] = n + 1
  BY <1>3 DEF StateTypeOK, ClientTypeOK
<1> HIDE DEF n
<1>5. Logs' = 1 .. n + 1
  <2>1. Logs' = {i \in 1 .. plan.logs : \E d \in Clients, u \in Threads : text'[d][u] >= i}
    BY DEF Logs
  <2>2. \A d \in Clients, u \in Threads : text'[d][u] <= n + 1
    <3> SUFFICES ASSUME NEW d \in Clients, NEW u \in Threads PROVE text'[d][u] <= n + 1
      OBVIOUS
    <3>1. text[d][u] <= n /\ text[d][u] \in Nat
      BY <1>2
    <3>2. text'[d][u] = text[d][u] \/ text'[d][u] = n + 1
      BY <1>4
    <3> QED
      BY <1>1, <3>1, <3>2
  <2>3. \A i \in 1 .. n + 1 : i \in 1 .. plan.logs /\ text'[c][t] >= i
    BY <1>1, <1>4
  <2>4. ASSUME NEW i \in 1 .. plan.logs, NEW d \in Clients, NEW u \in Threads, text'[d][u] >= i
        PROVE  i \in 1 .. n + 1
    <3>1. text'[d][u] <= n + 1 /\ text'[d][u] \in Nat
      <4>1. text[d][u] \in Nat
        BY <1>2
      <4>2. text'[d][u] = text[d][u] \/ text'[d][u] = n + 1
        BY <1>4
      <4> QED
        BY <1>1, <2>2, <4>1, <4>2
    <3> QED
      BY <1>1, <2>4, <3>1
  <2> QED
    BY <2>1, <2>3, <2>4
<1>6. Cardinality(1 .. n + 1) = n + 1
  BY <1>1, FS_Interval
<1> QED
  BY <1>4, <1>5, <1>6 DEF n

LEMMA LogDeferredNumbers ==
    ASSUME StateTypeOK, AllNumbers, plan' = plan, NEW c \in Clients, NEW t \in Threads,
           NEW k \in Classes, NEW f \in Formats, LogDeferred(c, t, k, f)
    PROVE  AllNumbers'
<1> DEFINE n == Cardinality(Logs)
           m == [type |-> "log", id |-> n + 1, class |-> k, thread |-> t, level |-> f.level,
                 event |-> CreateEpilogEvent(c, t, f)]
<1>1. /\ n \in Nat /\ text'[c][t] = n + 1 /\ Cardinality(Logs)' = n + 1
      /\ \A d \in Clients, u \in Threads : text'[d][u] = text[d][u] \/ text'[d][u] = n + 1
  BY LogDeferredCounts, LogsAreNumbered
<1>2. /\ pushing' = [pushing EXCEPT ![c][t] = m] /\ pushed' = pushed
      /\ pushing[c][t] = Nothing
  BY <1>1 DEF LogDeferred
<1>3. AsMade(m) /\ m.id = n + 1
  <2>1. m.event.pointer = f.pointer /\ m.event.v1 = IF f.pointer THEN 0 ELSE n + 1
    BY <1>1 DEF CreateEpilogEvent, EpilogEvent, Cast
  <2> QED
    BY <1>1, <2>1 DEF AsMade
<1>4. /\ pushing'[c][t] = m
      /\ \A d \in Clients, u \in Threads : d # c \/ u # t => pushing'[d][u] = pushing[d][u]
  BY <1>2 DEF StateTypeOK, ClientTypeOK
<1> HIDE DEF m
<1> SUFFICES ASSUME NEW d \in Clients PROVE Numbers(d)'
  BY DEF AllNumbers
<1>5. Numbers(d)
  BY DEF AllNumbers
<1>6. \A i \in DOMAIN pushed[d] : pushed[d][i].id \in Nat
  <2>1. pushed[d] \in Seq(LogMsgs)
    BY DEF StateTypeOK, ClientTypeOK
  <2>2. \A i \in DOMAIN pushed[d] : pushed[d][i] \in LogMsgs
    BY <2>1
  <2> QED
    BY <2>2, LogFields
<1>7. \A u \in Threads : pushing[d][u] # Nothing => pushing[d][u].id \in Nat
  BY LogFields DEF StateTypeOK, ClientTypeOK
<1>8. \A u \in Threads : text[d][u] \in Nat
  BY DEF StateTypeOK, ClientTypeOK
<1> HIDE DEF n
<1>9. \A u \in Threads : text'[d][u] <= n + 1
  <2> SUFFICES ASSUME NEW u \in Threads PROVE text'[d][u] <= n + 1
    OBVIOUS
  <2>1. text[d][u] <= n /\ text[d][u] \in Nat
    BY <1>5, <1>8 DEF Numbers, n
  <2> QED
    BY <1>1, <2>1
<1>10. \A i \in DOMAIN pushed[d] : AsMade(pushed[d][i]) /\ pushed[d][i].id <= n
  BY <1>5 DEF Numbers, n
<1>11. \A i \in DOMAIN pushed[d] : pushed[d][i].id <= n + 1 /\ pushed[d][i].id # n + 1
  <2> SUFFICES ASSUME NEW i \in DOMAIN pushed[d]
               PROVE  pushed[d][i].id <= n + 1 /\ pushed[d][i].id # n + 1
    OBVIOUS
  <2>1. pushed[d][i].id <= n /\ pushed[d][i].id \in Nat
    BY <1>6, <1>10
  <2> QED
    BY <1>1, <2>1
<1>12. \A u \in Threads : pushing[d][u] # Nothing =>
         AsMade(pushing[d][u]) /\ pushing[d][u].id <= n + 1 /\ pushing[d][u].id # n + 1
  <2> SUFFICES ASSUME NEW u \in Threads, pushing[d][u] # Nothing
               PROVE  AsMade(pushing[d][u]) /\ pushing[d][u].id <= n + 1
                      /\ pushing[d][u].id # n + 1
    OBVIOUS
  <2>1. AsMade(pushing[d][u]) /\ pushing[d][u].id <= n /\ pushing[d][u].id \in Nat
    BY <1>5, <1>7 DEF Numbers, n
  <2> QED
    BY <1>1, <2>1
<1>13. ASSUME NEW u \in Threads, pushing'[d][u] # Nothing
       PROVE  /\ AsMade(pushing'[d][u]) /\ pushing'[d][u].id <= n + 1
              /\ \A i \in DOMAIN pushed[d] : pushed[d][i].id # pushing'[d][u].id
              /\ \A w \in Threads :
                   pushing'[d][w] # Nothing /\ pushing'[d][w].id = pushing'[d][u].id => w = u
  <2>1. CASE d = c /\ u = t
    <3>1. pushing'[d][u] = m
      BY <1>4, <2>1
    <3>2. n + 1 <= n + 1
      BY <1>1
    <3>3. \A w \in Threads : w # u => pushing'[d][w] = pushing[d][w]
      BY <1>4, <2>1
    <3> QED
      BY <1>3, <1>11, <1>12, <3>1, <3>2, <3>3
  <2>2. CASE ~ (d = c /\ u = t)
    <3>1. pushing'[d][u] = pushing[d][u]
      BY <1>4, <2>2
    <3>2. \A w \in Threads : pushing'[d][w] = pushing[d][w] \/ pushing'[d][w] = m
      BY <1>4
    <3>3. /\ \A i \in DOMAIN pushed[d] : pushed[d][i].id # pushing[d][u].id
          /\ \A w \in Threads :
               pushing[d][w] # Nothing /\ pushing[d][w].id = pushing[d][u].id => w = u
      BY <1>5, <1>13, <3>1 DEF Numbers
    <3> QED
      BY <1>3, <1>12, <1>13, <3>1, <3>2, <3>3
  <2> QED
    BY <2>1, <2>2
<1>14. Distinct(pushed[d])
  BY <1>5 DEF Numbers
<1> QED
  BY <1>1, <1>2, <1>9, <1>10, <1>11, <1>13, <1>14 DEF Numbers, Distinct, AsMade

LEMMA PushLogNumbers ==
    ASSUME StateTypeOK, AllNumbers, plan' = plan, NEW c \in Clients, NEW t \in Threads, PushLog(c, t)
    PROVE  AllNumbers'
<1> DEFINE m == pushing[c][t]
<1>1. /\ m # Nothing /\ m \in LogMsgs
      /\ pushing' = [pushing EXCEPT ![c][t] = Nothing]
      /\ pushed' = [pushed EXCEPT ![c] = Append(@, m)] /\ text' = text
  BY DEF PushLog, StateTypeOK, ClientTypeOK
<1>2. Logs' = Logs
  BY <1>1 DEF Logs
<1>3. \A d \in Clients, u \in Threads :
        pushing'[d][u] # Nothing => pushing'[d][u] = pushing[d][u] /\ (d # c \/ u # t)
  BY <1>1 DEF StateTypeOK, ClientTypeOK
<1>4. /\ AsMade(m) /\ m.id <= Cardinality(Logs)
      /\ \A i \in DOMAIN pushed[c] : pushed[c][i].id # m.id
      /\ \A u \in Threads : pushing[c][u] # Nothing /\ pushing[c][u].id = m.id => u = t
  BY <1>1 DEF AllNumbers, Numbers
<1>5. /\ \A d \in Clients : d # c => pushed'[d] = pushed[d]
      /\ \A i \in DOMAIN pushed'[c] :
           (i \in DOMAIN pushed[c] /\ pushed'[c][i] = pushed[c][i])
           \/ (i = Len(pushed[c]) + 1 /\ pushed'[c][i] = m)
  <2>1. pushed[c] \in Seq(LogMsgs) /\ pushed'[c] = Append(pushed[c], m)
    BY <1>1 DEF StateTypeOK, ClientTypeOK
  <2>2. \A i \in 1 .. Len(pushed[c]) + 1 : i \in 1 .. Len(pushed[c]) \/ i = Len(pushed[c]) + 1
    BY <2>1
  <2>3. DOMAIN pushed'[c] = 1 .. Len(pushed[c]) + 1 /\ DOMAIN pushed[c] = 1 .. Len(pushed[c])
        /\ pushed'[c][Len(pushed[c]) + 1] = m
        /\ \A i \in 1 .. Len(pushed[c]) : pushed'[c][i] = pushed[c][i]
    BY <1>1, <2>1
  <2>4. \A d \in Clients : d # c => pushed'[d] = pushed[d]
    BY <1>1 DEF StateTypeOK, ClientTypeOK
  <2> QED
    BY <2>2, <2>3, <2>4
<1> HIDE DEF m
<1> SUFFICES ASSUME NEW d \in Clients PROVE Numbers(d)'
  BY DEF AllNumbers
<1>6. Numbers(d)
  BY DEF AllNumbers
<1>7. CASE d # c
  <2>1. pushed'[d] = pushed[d]
    BY <1>5, <1>7
  <2>2. pushing'[d] = pushing[d]
    BY <1>1, <1>7 DEF StateTypeOK, ClientTypeOK
  <2>3. /\ \A u \in Threads : text[d][u] <= Cardinality(Logs)
        /\ Distinct(pushed'[d])
        /\ \A i \in DOMAIN pushed'[d] :
             AsMade(pushed'[d][i]) /\ pushed'[d][i].id <= Cardinality(Logs)
    BY <1>6, <2>1 DEF Numbers
  <2>4. ASSUME NEW u \in Threads, pushing'[d][u] # Nothing
        PROVE  /\ AsMade(pushing'[d][u]) /\ pushing'[d][u].id <= Cardinality(Logs)
               /\ \A i \in DOMAIN pushed'[d] : pushed'[d][i].id # pushing'[d][u].id
               /\ \A w \in Threads :
                    pushing'[d][w] # Nothing /\ pushing'[d][w].id = pushing'[d][u].id => w = u
    BY <1>6, <2>1, <2>2, <2>4 DEF Numbers
  <2> QED
    BY <1>1, <1>2, <2>3, <2>4 DEF Numbers, Distinct, AsMade
<1>8. CASE d = c
  <2>1. Distinct(pushed'[c]) /\ \A i \in DOMAIN pushed'[c] :
          AsMade(pushed'[c][i]) /\ pushed'[c][i].id <= Cardinality(Logs)
    <3>1. Distinct(pushed[c]) /\ \A i \in DOMAIN pushed[c] :
            AsMade(pushed[c][i]) /\ pushed[c][i].id <= Cardinality(Logs)
      BY <1>6, <1>8 DEF Numbers
    <3> QED
      BY <1>4, <1>5, <3>1 DEF Distinct
  <2>2. ASSUME NEW u \in Threads, pushing'[c][u] # Nothing
        PROVE  /\ AsMade(pushing'[c][u]) /\ pushing'[c][u].id <= Cardinality(Logs)
               /\ \A i \in DOMAIN pushed'[c] : pushed'[c][i].id # pushing'[c][u].id
               /\ \A w \in Threads :
                    pushing'[c][w] # Nothing /\ pushing'[c][w].id = pushing'[c][u].id => w = u
    <3>1. pushing'[c][u] = pushing[c][u] /\ u # t
      BY <1>3, <2>2
    <3>2. /\ AsMade(pushing[c][u]) /\ pushing[c][u].id <= Cardinality(Logs)
          /\ \A i \in DOMAIN pushed[c] : pushed[c][i].id # pushing[c][u].id
          /\ \A w \in Threads :
               pushing[c][w] # Nothing /\ pushing[c][w].id = pushing[c][u].id => w = u
      BY <1>6, <1>8, <2>2, <3>1 DEF Numbers
    <3>3. m.id # pushing[c][u].id
      BY <1>4, <2>2, <3>1
    <3> QED
      BY <1>3, <1>5, <3>1, <3>2, <3>3
  <2>3. \A u \in Threads : text[c][u] <= Cardinality(Logs)
    BY <1>6, <1>8 DEF Numbers
  <2>4. Numbers(c)'
    BY <1>1, <1>2, <2>1, <2>2, <2>3 DEF Numbers, Distinct, AsMade
  <2> QED
    BY <1>8, <2>4
<1> QED
  BY <1>7, <1>8

LEMMA NumbersStep ==
    ASSUME StateTypeOK, AllNumbers, plan' = plan, NEW c \in Clients, ClientStep(c)
    PROVE  AllNumbers'
<1> USE DEF connectionVars, sessionVars, queueVars, loggerVars, runnerVars
<1>1. CASE RunnerStep(c)
  <2>1. UNCHANGED <<text, pushing, pushed>>
    BY <1>1 DEF RunnerStep, RunnerConnects, WaitForMessages, SeeQuit, ViewMessage, Write,
                HandleLog, HandleCategory, EndBatch, Throw, Exit
  <2> QED
    BY <2>1, NumbersKept
<1>2. CASE PushCategory(c) \/ PushQuit(c) \/ Join(c)
  <2>1. UNCHANGED <<text, pushing, pushed>>
    BY <1>2 DEF PushCategory, PushQuit, Join
  <2> QED
    BY <2>1, NumbersKept
<1>3. CASE ProgramStep(c)
  <2>1. ASSUME NEW t \in plan.threads[c], NEW k \in Classes, NEW f \in plan.formats,
               LogDeferred(c, t, k, f)
        PROVE  AllNumbers'
    <3>1. t \in Threads /\ f \in Formats
      BY PlansAssumption DEF StateTypeOK, ClientTypeOK, Formats
    <3> QED
      BY <2>1, <3>1, LogDeferredNumbers
  <2>2. CASE \/ Connect(c, plan.file) \/ Quit(c) \/ \E enabled \in BOOLEAN : Enable(c, enabled)
             \/ \E k \in Classes : DefineCategory(c, k)
    <3>1. UNCHANGED <<text, pushing, pushed>>
      BY <2>2 DEF Connect, Quit, Enable, DefineCategory
    <3> QED
      BY <3>1, NumbersKept
  <2> QED
    BY <1>3, <2>1, <2>2 DEF ProgramStep
<1>4. CASE \E t \in Threads : PushLog(c, t)
  BY <1>4, PushLogNumbers
<1> QED
  BY <1>1, <1>2, <1>3, <1>4 DEF ClientStep

-----------------------------------------------------------------------------
(* Streams.                                                                 *)

LEMMA BlockedStep ==
    ASSUME StateTypeOK, NEW c \in Clients, Batch(c), ClientStep(c), Blocked(c)
    PROVE  Blocked(c)'
<1> USE DEF connectionVars, sessionVars, queueVars, loggerVars, runnerVars
<1>1. ASSUME NEW m, m_queue'[c] = Append(m_queue[c], m) PROVE Blocked(c)'
  <2>1. m_queue[c] \in Seq(QueuedMsgs) /\ m_queue[c] # <<>>
    BY DEF StateTypeOK, ClientTypeOK, Blocked
  <2>2. m_queue'[c] # <<>> /\ Head(m_queue'[c]) = Head(m_queue[c])
    <3> DEFINE S == QueuedMsgs \cup {m}
    <3>1. m_queue[c] \in Seq(S) /\ m \in S
      BY <2>1, SeqMonotonic
    <3> HIDE DEF S
    <3> QED
      BY <1>1, <2>1, <3>1
  <2> QED
    BY <2>2 DEF Blocked, Viewed
<1>2. m_queue'[c] = m_queue[c] => Blocked(c)'
  BY DEF Blocked, Viewed
<1>3. ~ HandleLog(c) /\ ~ HandleCategory(c)
  <2>1. QuitMsg.type = "quit"
    BY DEF QuitMsg
  <2> QED
    BY <2>1 DEF Blocked, HandleLog, HandleCategory
<1>4. \A t, m : Push(c, t, m) => m_queue'[c] = Append(m_queue[c], m)
  BY DEF Push, StateTypeOK, ClientTypeOK
<1>5. CASE RunnerStep(c)
  <2>1. m_queue' = m_queue
    BY <1>3, <1>5 DEF RunnerStep, RunnerConnects, WaitForMessages, SeeQuit, ViewMessage, Write,
                      EndBatch, Throw, Exit
  <2> QED
    BY <1>2, <2>1
<1>6. CASE PushCategory(c) \/ PushQuit(c) \/ Join(c)
  BY <1>1, <1>2, <1>4, <1>6 DEF PushCategory, PushQuit, Join
<1>7. CASE ProgramStep(c)
  <2>1. m_queue' = m_queue
    BY <1>7 DEF ProgramStep, Connect, Quit, Enable, DefineCategory, LogDeferred
  <2> QED
    BY <1>2, <2>1
<1>8. CASE \E t \in Threads : PushLog(c, t)
  BY <1>1, <1>4, <1>8 DEF PushLog
<1> QED
  BY <1>5, <1>6, <1>7, <1>8 DEF ClientStep

LEMMA RunnerAtWork ==
    ASSUME NEW c \in Clients, Batch(c), RunnerStep(c)
    PROVE  runner[c] \in {"connect", "wait", "view", "announce"}
  BY DEF RunnerStep, RunnerConnects, WaitForMessages, SeeQuit, ViewMessage, Write,
         HandleLog, HandleCategory, EndBatch, Throw, Batch

LEMMA StreamsStep ==
    ASSUME StateTypeOK, ClientTypeOK', plan' = plan, NEW c \in Clients, Batch(c), Finished(c),
           Streams(c), ClientStep(c)
    PROVE  Streams(c)' /\ \A s \in 1 .. MaxSessions :
                            stream[<<c, s>>] # "none" => stream'[<<c, s>>] # "none"
<1> USE DEF connectionVars, sessionVars, queueVars, loggerVars, runnerVars
<1>t. /\ \A s \in 1 .. MaxSessions : <<c, s>> \in Connections
      /\ session[c] \in 0 .. MaxSessions /\ MaxSessions \in Nat /\ m_clientCount[c] \in Nat
      /\ runner[c] # "none" => session[c] \in 1 .. MaxSessions
      /\ Connection(c) = <<c, session[c]>>
  <2>1. session[c] \in 0 .. MaxSessions /\ MaxSessions \in Nat /\ m_clientCount[c] \in Nat
    BY SizesAssumption DEF StateTypeOK, ClientTypeOK
  <2>2. \A s \in 1 .. MaxSessions : <<c, s>> \in Connections
    BY DEF Connections
  <2> QED
    BY <2>1, <2>2 DEF Connection, Batch
<1>b. Blocked(c) => Blocked(c)'
  BY BlockedStep
<1>s. \A s \in 1 .. MaxSessions : StreamOK(c, s) /\ (stream[<<c, s>>] = "closed" => Blocked(c))
  BY DEF Streams, StreamOK, ClientStep
\* what does not touch the streams
<1>u. ASSUME UNCHANGED <<wire, stream, session>>,
             runner'[c] = runner[c] \/ runner'[c] \in {"wait", "view", "announce"}
      PROVE  \A s \in 1 .. MaxSessions : StreamOK(c, s)'
  BY <1>b, <1>s, <1>u DEF StreamOK
<1>v. UNCHANGED stream => \A s \in 1 .. MaxSessions :
                            stream[<<c, s>>] # "none" => stream'[<<c, s>>] # "none"
  OBVIOUS
<1>e. ASSUME Exit(c), runner[c] \in {"view", "announce"}
      PROVE  /\ Streams(c)'
             /\ \A s \in 1 .. MaxSessions :
                  stream[<<c, s>>] # "none" => stream'[<<c, s>>] # "none"
  <2>1. /\ runner'[c] = "exited" /\ wire' = wire /\ session' = session
        /\ stream' = [stream EXCEPT ![Connection(c)] =
                        IF stream[Connection(c)] = "open" THEN "closed" ELSE stream[Connection(c)]]
    BY <1>e DEF Exit, Go, StateTypeOK, ClientTypeOK
  <2>2. Finished(c)'
    BY FinishedStep
  <2>3. stream'[Connection(c)] = "dead" \/ Blocked(c)'
    BY <2>1, <2>2 DEF Finished, Blocked, Connection
  <2>4. ASSUME NEW s \in 1 .. MaxSessions
        PROVE  StreamOK(c, s)' /\ (stream[<<c, s>>] # "none" => stream'[<<c, s>>] # "none")
    <3>1. StreamOK(c, s) /\ <<c, s>> \in Connections /\ (stream[<<c, s>>] = "closed" => Blocked(c))
      BY <1>s, <1>t
    <3>2. CASE s = session[c]
      <4>1. <<c, s>> = Connection(c)
        BY <1>t, <3>2
      <4>2. stream'[<<c, s>>] = IF stream[<<c, s>>] = "open" THEN "closed" ELSE stream[<<c, s>>]
        BY <2>1, <3>1, <4>1 DEF StateTypeOK, ClientTypeOK
      <4> QED
        BY <1>b, <2>1, <2>3, <3>1, <4>1, <4>2 DEF StreamOK
    <3>3. CASE s # session[c]
      <4>1. <<c, s>> # Connection(c)
        BY <1>t, <3>3
      <4>2. stream'[<<c, s>>] = stream[<<c, s>>]
        BY <2>1, <3>1, <4>1 DEF StateTypeOK, ClientTypeOK
      <4> QED
        BY <1>b, <2>1, <3>1, <3>3, <4>2 DEF StreamOK
    <3> QED
      BY <3>2, <3>3
  <2> QED
    BY <2>1, <2>4 DEF Streams
<1>1. CASE RunnerStep(c)
  <2>0. ~ (m_clientCount[c] = 0 /\ main[c] = "idle")
    BY <1>1, RunnerAtWork DEF Streams
  <2>1. CASE RunnerConnects(c)
    <3>1. /\ runner[c] = "connect" /\ runner'[c] = "wait" /\ stream[Connection(c)] = "none"
          /\ UNCHANGED <<wire, session, m_clientCount, main, m_queue>>
      BY <2>1 DEF RunnerConnects, Go, StateTypeOK, ClientTypeOK, Streams
    <3>2. \E x \in {"none", "open"} : stream' = [stream EXCEPT ![Connection(c)] = x]
      BY <2>1, <3>1 DEF RunnerConnects
    <3>3. ASSUME NEW s \in 1 .. MaxSessions
          PROVE  StreamOK(c, s)' /\ (stream[<<c, s>>] # "none" => stream'[<<c, s>>] # "none")
      <4>1. /\ StreamOK(c, s) /\ <<c, s>> \in Connections
            /\ stream[<<c, s>>] = "closed" => Blocked(c)
        BY <1>s, <1>t
      <4>2. CASE s = session[c]
        <5>1. <<c, s>> = Connection(c)
          BY <1>t, <4>2
        <5>2. stream'[<<c, s>>] \in {"none", "open"}
          BY <3>2, <4>1, <5>1 DEF StateTypeOK, ClientTypeOK
        <5>3. ~ (s > session[c])
          BY <1>t, <4>2
        <5> QED
          BY <3>1, <4>1, <4>2, <5>1, <5>2, <5>3 DEF StreamOK
      <4>3. CASE s # session[c]
        <5>1. <<c, s>> # Connection(c)
          BY <1>t, <4>3
        <5>2. stream'[<<c, s>>] = stream[<<c, s>>]
          BY <3>2, <4>1, <5>1 DEF StateTypeOK, ClientTypeOK
        <5> QED
          BY <1>b, <3>1, <4>1, <4>3, <5>2 DEF StreamOK
      <4> QED
        BY <4>2, <4>3
    <3> QED
      BY <2>0, <3>1, <3>3 DEF Streams
  <2>2. CASE \/ WaitForMessages(c) \/ SeeQuit(c) \/ ViewMessage(c) \/ HandleLog(c)
             \/ HandleCategory(c) \/ (EndBatch(c) /\ ~ quit[c])
    <3>1. runner'[c] \in {"wait", "view", "announce"}
          /\ UNCHANGED <<wire, stream, session, m_clientCount, main>>
      BY <2>2 DEF WaitForMessages, SeeQuit, ViewMessage, HandleLog, HandleCategory, EndBatch,
                  Take, Go, StateTypeOK, ClientTypeOK
    <3> QED
      BY <1>u, <1>v, <2>0, <3>1 DEF Streams
  <2>3. CASE Write(c)
    <3>1. /\ stream[Connection(c)] = "open"
          /\ UNCHANGED <<stream, session, m_clientCount, main, runner, locations, m_queue>>
          /\ \E x : wire' = [wire EXCEPT ![Connection(c)] = x]
      BY <2>3 DEF Write
    <3>2. ASSUME NEW s \in 1 .. MaxSessions PROVE StreamOK(c, s)'
      <4>1. /\ StreamOK(c, s) /\ <<c, s>> \in Connections
            /\ stream[<<c, s>>] = "closed" => Blocked(c)
        BY <1>s, <1>t
      <4>2. <<c, s>> = Connection(c) \/ wire'[<<c, s>>] = wire[<<c, s>>]
        BY <3>1, <4>1 DEF StateTypeOK, ClientTypeOK
      <4> QED
        BY <1>b, <3>1, <4>1, <4>2 DEF StreamOK
    <3> QED
      BY <1>v, <2>0, <3>1, <3>2 DEF Streams, Connection
  <2>4. CASE EndBatch(c) /\ quit[c]
    BY <1>e, <2>4 DEF EndBatch
  <2>5. CASE Throw(c)
    BY <1>e, <2>5 DEF Throw, Batch
  <2> QED
    BY <1>1, <2>1, <2>2, <2>3, <2>4, <2>5 DEF RunnerStep
<1>2. CASE PushQuit(c)
  <2>1. UNCHANGED <<wire, stream, session, runner, locations>> /\ main'[c] = "join"
    BY <1>2 DEF PushQuit, StateTypeOK, ClientTypeOK
  <2> QED
    BY <1>u, <1>v, <2>1 DEF Streams, Connection
<1>3. CASE Join(c)
  <2>1. UNCHANGED <<wire, stream, session, runner, locations>> /\ runner[c] = "exited"
    BY <1>3 DEF Join
  <2> QED
    BY <1>u, <1>v, <2>1 DEF Streams, Connection
<1>4. CASE Connect(c, plan.file)
  <2>1. CASE m_clientCount[c] = 0
    <3>1. /\ runner[c] \in {"none", "exited"} /\ runner'[c] = "connect"
          /\ session'[c] = session[c] + 1 /\ session'[c] \in 0 .. MaxSessions
          /\ m_clientCount'[c] = 1 /\ locations'[c] = {} /\ UNCHANGED <<wire, stream>>
      BY <1>4, <2>1 DEF Connect, Idle, Streams, StateTypeOK, ClientTypeOK
    <3>2. ASSUME NEW s \in 1 .. MaxSessions PROVE StreamOK(c, s)'
      <4>1. StreamOK(c, s) /\ (stream[<<c, s>>] = "closed" => Blocked(c))
        BY <1>s
      <4>2. s > session[c] + 1 => s > session[c]
        BY <1>t
      <4> QED
        BY <1>b, <3>1, <4>1, <4>2 DEF StreamOK
    <3>3. stream'[Connection(c)'] = "none"
      <4>1. session[c] + 1 \in 1 .. MaxSessions /\ session[c] + 1 > session[c]
        BY <1>t, <3>1
      <4>2. stream[<<c, session[c] + 1>>] = "none"
        BY <1>s, <4>1 DEF StreamOK
      <4> QED
        BY <3>1, <4>2 DEF Connection
    <3> QED
      BY <1>v, <3>1, <3>2, <3>3 DEF Streams
  <2>2. CASE m_clientCount[c] # 0
    <3>1. /\ UNCHANGED <<wire, stream, session, runner, locations>>
          /\ m_clientCount'[c] = m_clientCount[c] + 1
      BY <1>4, <2>2 DEF Connect, StateTypeOK, ClientTypeOK
    <3>2. m_clientCount'[c] # 0
      BY <1>t, <3>1
    <3> QED
      BY <1>u, <1>v, <3>1, <3>2 DEF Streams, Connection
  <2> QED
    BY <2>1, <2>2
<1>5. CASE Quit(c)
  <2>1. /\ UNCHANGED <<wire, stream, session, runner, locations>> /\ m_clientCount[c] > 0
        /\ m_clientCount'[c] = m_clientCount[c] - 1
        /\ m_clientCount[c] = 1 => main'[c] = "quit"
    BY <1>5 DEF Quit, StateTypeOK, ClientTypeOK
  <2>2. m_clientCount'[c] # 0 \/ main'[c] = "quit"
    BY <1>t, <2>1
  <2> QED
    BY <1>u, <1>v, <2>1, <2>2 DEF Streams, Connection
<1>6. CASE \/ (\E enabled \in BOOLEAN : Enable(c, enabled))
           \/ PushCategory(c) \/ (\E k \in Classes : DefineCategory(c, k))
           \/ (\E t \in plan.threads[c], k \in Classes, f \in plan.formats : LogDeferred(c, t, k, f))
           \/ \E t \in Threads : PushLog(c, t)
  <2>1. UNCHANGED <<wire, stream, session, runner, locations, m_clientCount, main>>
    BY <1>6 DEF Enable, PushCategory, DefineCategory, LogDeferred, PushLog
  <2> QED
    BY <1>u, <1>v, <2>1 DEF Streams, Connection
<1> QED
  BY <1>1, <1>2, <1>3, <1>4, <1>5, <1>6 DEF ClientStep, ProgramStep

\* The streams of the others.
LEMMA OtherStreams ==
    ASSUME StateTypeOK, NEW c \in Clients, NEW d \in Clients, d # c, ClientStep(c), Batch(d), Streams(d),
           NobodyComesBack
    PROVE  Streams(d)'
<1>1. /\ Own(d)' = Own(d)
      /\ \A s \in 1 .. MaxSessions :
           wire'[<<d, s>>] = wire[<<d, s>>] /\ stream'[<<d, s>>] = stream[<<d, s>>]
  BY OthersAreApart
<1>2. runner[d] # "none" => session[d] \in 1 .. MaxSessions
  BY SessionsBegun
<1>3. Blocked(d)' = Blocked(d)
  BY <1>1 DEF Own, Blocked, Viewed
<1>4. ASSUME NEW s \in 1 .. MaxSessions PROVE StreamOK(d, s)'
  BY <1>1, <1>3 DEF Own, Streams, StreamOK, NobodyComesBack
<1>5. Connection(d)' = Connection(d) /\ Connection(d) = <<d, session[d]>>
  BY <1>1 DEF Own, Connection
<1>6. runner'[d] = "connect" => stream'[Connection(d)'] = "none" /\ locations'[d] = {}
  BY <1>1, <1>2, <1>5 DEF Own, Streams
<1> QED
  BY <1>1, <1>4, <1>6 DEF Own, Streams

LEMMA AllStreamsStep ==
    ASSUME StateTypeOK, StateTypeOK', ClientInv, AllStreams, plan' = plan, UNCHANGED serverVars,
           NEW c \in Clients, ClientStep(c), NobodyComesBack
    PROVE  AllStreams'
<1>1. Batch(c) /\ Finished(c) /\ Streams(c)
  BY DEF ClientInv, AllStreams
<1>2. Streams(c)' /\ \A s \in 1 .. MaxSessions :
                       stream[<<c, s>>] # "none" => stream'[<<c, s>>] # "none"
  BY <1>1, StreamsStep DEF StateTypeOK
<1>3. ASSUME NEW d \in Clients PROVE Streams(d)'
  BY <1>2, OtherStreams DEF ClientInv, AllStreams
<1>4. ASSUME NEW k \in Connections, serving' = k PROVE stream'[k] # "none"
  <2>1. stream[k] # "none"
    BY <1>4 DEF AllStreams, serverVars
  <2>2. PICK d \in Clients, s \in 1 .. MaxSessions : k = <<d, s>>
    BY DEF Connections
  <2> QED
    BY <1>2, <2>1, <2>2, OthersAreApart
<1> QED
  BY <1>3, <1>4 DEF AllStreams

-----------------------------------------------------------------------------
(* Lines, as a program goes on.                                             *)

LEMMA Regrouped ==
    ASSUME NEW d \in Seq(Units), NEW r \in Seq(Units), NEW s \in Seq(Units)
    PROVE  (d \o r) \o s = d \o (r \o s)
  BY ConcatAssociative

LEMMA Moved ==
    ASSUME NEW d \in Seq(Units), NEW w \in Seq(Units), NEW o \in Seq(Units), o # <<>>
    PROVE  (d \o w) \o o = (d \o Append(w, Head(o))) \o Tail(o)
<1> DEFINE h == <<Head(o)>>
<1>1. h \in Seq(Units) /\ Tail(o) \in Seq(Units) /\ o = h \o Tail(o)
  <2>1. Head(o) \in Units /\ Tail(o) \in Seq(Units) /\ Len(Tail(o)) = Len(o) - 1
        /\ \A i \in 1 .. Len(Tail(o)) : Tail(o)[i] = o[i + 1]
    BY HeadTailProperties
  <2>2. h \in Seq(Units) /\ Len(h) = 1 /\ h[1] = o[1]
    BY <2>1
  <2> DEFINE t == Tail(o)  u == h \o t
  <2>3. /\ u \in Seq(Units) /\ Len(u) = Len(h) + Len(t)
        /\ \A i \in 1 .. Len(h) + Len(t) : u[i] = IF i <= Len(h) THEN h[i] ELSE t[i - Len(h)]
    <3>1. t \in Seq(Units) /\ h \in Seq(Units)
      BY <2>1, <2>2
    <3> HIDE DEF h, t
    <3> QED
      BY <3>1, ConcatProperties
  <2> HIDE DEF h, t, u
  <2>4. Len(o) \in Nat /\ Len(t) = Len(o) - 1
    BY <2>1 DEF t
  <2>5. \A i \in 1 .. Len(o) : o[i] = u[i]
    <3> SUFFICES ASSUME NEW i \in 1 .. Len(o) PROVE o[i] = u[i]
      OBVIOUS
    <3>1. CASE i = 1
      BY <2>2, <2>3, <2>4, <3>1
    <3>2. CASE i # 1
      <4>1. i - 1 \in 1 .. Len(t) /\ (i - 1) + 1 = i /\ ~ (i <= 1) /\ i \in 1 .. Len(h) + Len(t)
        BY <2>2, <2>4, <3>2
      <4>2. t[i - 1] = o[i]
        BY <2>1, <4>1 DEF t
      <4> QED
        BY <2>2, <2>3, <4>1, <4>2
    <3> QED
      BY <3>1, <3>2
  <2>6. Len(o) = Len(u)
    BY <2>2, <2>3, <2>4
  <2>7. o = u
    BY <2>3, <2>5, <2>6, SeqEqual
  <2> QED
    BY <2>1, <2>2, <2>7 DEF u, t
<1>2. Append(w, Head(o)) = w \o h
  <2>1. Head(o) \in Units
    BY HeadTailProperties
  <2> QED
    BY <2>1, AppendIsConcat
<1> HIDE DEF h
<1>3. w \o h \in Seq(Units)
  BY <1>1, ConcatProperties
<1>4. (d \o (w \o h)) \o Tail(o) = d \o ((w \o h) \o Tail(o))
  <2> DEFINE v == w \o h  t == Tail(o)
  <2>1. v \in Seq(Units) /\ t \in Seq(Units)
    BY <1>1, <1>3
  <2> HIDE DEF v, t
  <2>2. (d \o v) \o t = d \o (v \o t)
    BY <2>1, Regrouped
  <2> QED
    BY <2>2 DEF v, t
<1>5. (w \o h) \o Tail(o) = w \o (h \o Tail(o))
  BY <1>1, Regrouped
<1>6. (d \o w) \o o = d \o (w \o o)
  BY Regrouped
<1> QED
  BY <1>1, <1>2, <1>4, <1>5, <1>6

\* Of the parts of a line.
ReadOf(k) == IF serving = k THEN data ELSE <<>>
ToWrite(k) == IF stream[k] = "open" THEN out[k[1]] ELSE <<>>

LEMMA LineParts ==
    ASSUME StateTypeOK, NEW k \in Connections
    PROVE  /\ Line(k) = (ReadOf(k) \o wire[k]) \o ToWrite(k)
           /\ ReadOf(k) \in Seq(Units) /\ wire[k] \in Seq(Units) /\ ToWrite(k) \in Seq(Units)
           /\ ReadOf(k) \o wire[k] \in Seq(Units)
           /\ Line(k) \in Seq(Units)
<1>1. k[1] \in Clients
  BY DEF Connections
<1>2. ReadOf(k) \in Seq(Units) /\ wire[k] \in Seq(Units) /\ ToWrite(k) \in Seq(Units)
  <2>1. data \in Seq(Units) /\ wire[k] \in Seq(Units) /\ out[k[1]] \in Seq(Units)
    BY <1>1 DEF StateTypeOK, ClientTypeOK, ServerTypeOK
  <2>2. <<>> \in Seq(Units)
    OBVIOUS
  <2> QED
    BY <2>1, <2>2 DEF ReadOf, ToWrite
<1>3. Line(k) = (ReadOf(k) \o wire[k]) \o ToWrite(k)
  BY DEF Line, ReadOf, ToWrite
<1> QED
  BY <1>2, <1>3, ConcatProperties

\* A program writes a message: it is one it is at, and what is announced is of it.
Sends(c, m, size) ==
    /\ m \in StreamMsgs /\ size \in Nat
    /\ m.type = "log" =>
         /\ Len(handled'[c]) = Len(handled[c]) + 1
         /\ Len(handled[c]) + 1 \in DOMAIN pushed[c]
         /\ pushed[c][Len(handled[c]) + 1] = m.log
         /\ ~ m.log.event.pointer => m.text = TextOf(m.log, m.log.id)
         /\ size = Len(m.text)
         /\ m.log.class \in locations[c]
         /\ ~ Blocked(c) /\ ~ Crashed(c)
    /\ locations'[c] \subseteq locations[c] \cup {x \in Classes : m = ClassMsg(x)}

Extends(k, m, size) ==
    /\ stream[k] = "open" /\ stream'[k] = "open"
    /\ With(Line(k), m, size, Line(k)')
    /\ Sends(k[1], m, size)

\* Nothing is announced that was not.
Stays(k) ==
    /\ Line(k)' = Line(k)
    /\ stream'[k] = "open" =>
         \/ stream[k] = "open" /\ locations'[k[1]] \subseteq locations[k[1]]
         \/ Line(k)' = <<>> /\ locations'[k[1]] = {}

\* What a runner puts out is at the end of its line, if that is still open.
LEMMA PutOut ==
    ASSUME StateTypeOK, NEW c \in Clients, NEW m, NEW size, Sends(c, m, size),
           out[c] = <<>>, out'[c] = IF Connected(c) THEN Record(m, size) ELSE <<>>,
           session[c] > 0, UNCHANGED <<serving, data, wire, stream>>,
           NEW s \in 1 .. MaxSessions, StreamOK(c, s), stream[<<c, s>>] = "open"
    PROVE  Extends(<<c, s>>, m, size)
<1> DEFINE k == <<c, s>>
<1>1. k \in Connections /\ k = Connection(c) /\ Connected(c) /\ k[1] = c
  BY DEF StreamOK, Connections, Connection, Connected
<1>2. /\ ToWrite(k) = <<>> /\ ToWrite(k)' = Record(m, size)
      /\ ReadOf(k)' = ReadOf(k) /\ wire'[k] = wire[k]
  BY <1>1 DEF ToWrite, ReadOf
<1>3. Line(k) = ReadOf(k) \o wire[k] /\ ReadOf(k) \o wire[k] \in Seq(Units)
  BY <1>1, <1>2, LineParts, ConcatEmptySeq
<1>4. Line(k)' = (ReadOf(k)' \o wire'[k]) \o ToWrite(k)'
  BY DEF Line, ReadOf, ToWrite
<1>5. Line(k)' = Line(k) \o Record(m, size)
  BY <1>2, <1>3, <1>4
<1>6. With(Line(k), m, size, Line(k)')
  BY <1>3, <1>5, Extended DEF Sends
<1> QED
  BY <1>1, <1>6 DEF Extends

LEMMA NothingPutOut ==
    ASSUME NEW k, UNCHANGED <<serving, data>>, wire'[k] = wire[k],
           ToWrite(k)' = ToWrite(k)
    PROVE  Line(k)' = Line(k)
  BY DEF Line, ToWrite

\* What is viewed is the first that was pushed and is not handled.
LEMMA HandledNext ==
    ASSUME StateTypeOK, NEW c \in Clients, Batch(c), HandledInTurn(c), HandleLog(c)
    PROVE  /\ m_queue[c] # <<>> /\ Viewed(c) \in LogMsgs
           /\ Len(handled[c]) + 1 \in DOMAIN pushed[c]
           /\ pushed[c][Len(handled[c]) + 1] = Viewed(c)
           /\ Len(handled[c]) \in Nat /\ Len(handled'[c]) = Len(handled[c]) + 1
<1> DEFINE q == m_queue[c]
<1>1. q # <<>> /\ q \in Seq(QueuedMsgs) /\ Viewed(c) = q[1] /\ Viewed(c) \in QueuedMsgs
      /\ q[1].type = "log"
  <2>1. q # <<>> /\ q \in Seq(QueuedMsgs)
    BY Unreleased DEF HandleLog, StateTypeOK, ClientTypeOK
  <2> QED
    BY <2>1 DEF HandleLog, Viewed
<1>2. Viewed(c) \in LogMsgs
  BY <1>1, QueuedKinds
<1>3. LogsUpTo(q, 1) = {1}
  BY <1>1 DEF LogsUpTo
<1>4. Cardinality(LogsUpTo(q, 1)) = 1
  BY <1>3, FS_Singleton
<1>5. 1 \in LogsUpTo(q, Len(q)) /\ IsFiniteSet(LogsUpTo(q, Len(q)))
      /\ Cardinality(LogsUpTo(q, Len(q))) \in Nat
  <2>1. Len(q) \in Nat /\ Len(q) >= 1 /\ Len(q) \in 0 .. Len(q)
    BY <1>1
  <2> QED
    BY <1>1, <2>1, LogRanks DEF LogsUpTo
<1>6. Cardinality(LogsUpTo(q, Len(q))) >= 1
  <2>1. Cardinality(LogsUpTo(q, Len(q))) # 0
    BY <1>5, FS_EmptySet
  <2> QED
    BY <1>5, <2>1
<1>7. /\ Len(handled[c]) \in Nat /\ Len(handled'[c]) = Len(handled[c]) + 1
      /\ pushed[c] \in Seq(LogMsgs)
  <2> DEFINE Entries == [id : Nat, text : Texts]
             h == [id |-> Viewed(c).id, text |-> FormatString(c, Viewed(c))]
  <2>1. handled[c] \in Seq(Entries) /\ handled'[c] = Append(handled[c], h)
    BY DEF StateTypeOK, ClientTypeOK, HandleLog
  <2> HIDE DEF Entries, h
  <2>2. Len(handled[c]) \in Nat /\ Len(handled'[c]) = Len(handled[c]) + 1
    BY <2>1
  <2> QED
    BY <2>2 DEF StateTypeOK, ClientTypeOK
<1>8. InTurn(q, handled[c], pushed[c])
  BY DEF HandledInTurn
<1> HIDE DEF q
<1>9. Len(handled[c]) + Cardinality(LogsUpTo(q, Len(q))) = Len(pushed[c])
      /\ q[1] = pushed[c][Len(handled[c]) + 1]
  BY <1>4, <1>5, <1>8 DEF InTurn
<1>10. Len(handled[c]) + 1 \in DOMAIN pushed[c]
  BY <1>5, <1>6, <1>7, <1>9
<1> QED
  BY <1>1, <1>2, <1>7, <1>9, <1>10 DEF q

LEMMA HandleLogSends ==
    ASSUME StateTypeOK, NEW c \in Clients, Batch(c), HandledInTurn(c), AllNumbers, HandleLog(c),
           ~ Crashed(c)
    PROVE  Sends(c, LogUnit(Viewed(c), FormatString(c, Viewed(c))),
                 Len(FormatString(c, Viewed(c))))
<1> DEFINE shown == FormatString(c, Viewed(c))  m == LogUnit(Viewed(c), shown)
<1>1. /\ m_queue[c] # <<>> /\ Viewed(c) \in LogMsgs
      /\ Len(handled[c]) + 1 \in DOMAIN pushed[c]
      /\ pushed[c][Len(handled[c]) + 1] = Viewed(c)
      /\ Len(handled'[c]) = Len(handled[c]) + 1
  BY HandledNext
<1>2. m \in StreamMsgs /\ Len(shown) \in Nat
  BY <1>1, LogUnitType
<1>3. m.log = Viewed(c) /\ m.text = shown
  BY DEF LogUnit
<1>4. AsMade(Viewed(c))
  BY <1>1 DEF AllNumbers, Numbers
<1>5. ~ Viewed(c).event.pointer => shown = TextOf(Viewed(c), Viewed(c).id)
  BY <1>1, <1>4, Formatted DEF AsMade
<1>6. ~ Blocked(c)
  <2>1. Viewed(c).type = "log" /\ QuitMsg.type = "quit"
    BY DEF HandleLog, QuitMsg
  <2> QED
    BY <2>1 DEF HandleLog, Blocked
<1>7. Viewed(c).class \in locations[c] /\ locations' = locations
  BY DEF HandleLog, Batch
<1> HIDE DEF m, shown
<1> QED
  BY <1>1, <1>2, <1>3, <1>5, <1>6, <1>7 DEF Sends, m, shown

LEMMA LineStep ==
    ASSUME StateTypeOK, NEW c \in Clients, Batch(c), HandledInTurn(c), Streams(c), AllNumbers,
           UNCHANGED serverVars, ClientStep(c),
           NEW s \in 1 .. MaxSessions, serving = <<c, s>> => stream[<<c, s>>] # "none"
    PROVE  Stays(<<c, s>>) \/ \E m, size : Extends(<<c, s>>, m, size)
<1> DEFINE k == <<c, s>>
<1> USE DEF connectionVars, sessionVars, queueVars, loggerVars, runnerVars
<1>0. /\ k \in Connections /\ k[1] = c /\ StreamOK(c, s)
      /\ UNCHANGED <<serving, data>>
      /\ stream[k] = "open" => k = Connection(c) /\ session[c] > 0
  BY DEF Connections, Streams, StreamOK, serverVars, Connection
\* what leaves alone what a line is made of
<1>k. ASSUME wire' = wire, stream' = stream, out' = out, locations' = locations
      PROVE  Stays(k)
  <2>1. Line(k)' = Line(k)
    BY <1>0, <1>k, NothingPutOut DEF ToWrite
  <2> QED
    BY <1>k, <2>1 DEF Stays
<1>m. ASSUME NEW m, NEW size, Sends(c, m, size), out[c] = <<>>,
             out'[c] = IF Connected(c) THEN Record(m, size) ELSE <<>>,
             UNCHANGED <<wire, stream>>
      PROVE  Stays(k) \/ Extends(k, m, size)
  <2>1. CASE stream[k] = "open"
    BY <1>0, <1>m, <2>1, PutOut
  <2>2. CASE stream[k] # "open"
    <3>1. Line(k)' = Line(k)
      BY <1>0, <1>m, <2>2, NothingPutOut DEF ToWrite
    <3> QED
      BY <1>m, <2>2, <3>1 DEF Stays
  <2> QED
    BY <2>1, <2>2
<1>e. ASSUME Exit(c), out[c] = <<>> \/ stream[Connection(c)] = "dead" PROVE Stays(k)
  <2>1. stream'[k] # "open"
    BY <1>0, <1>e DEF Exit, StateTypeOK, ClientTypeOK
  <2>2. ToWrite(k) = <<>> /\ ToWrite(k)' = <<>>
    BY <1>0, <1>e, <2>1 DEF ToWrite
  <2>3. Line(k)' = Line(k)
    BY <1>0, <1>e, <2>2, NothingPutOut DEF Exit
  <2> QED
    BY <2>1, <2>3 DEF Stays
<1>1. CASE RunnerConnects(c)
  <2>1. /\ runner[c] = "connect" /\ stream[Connection(c)] = "none" /\ locations[c] = {}
        /\ out[c] = <<>> /\ UNCHANGED <<wire, out, locations>>
    BY <1>1 DEF RunnerConnects, Streams, Batch
  <2>2. k = Connection(c) \/ stream'[k] = stream[k]
    BY <1>0, <1>1 DEF RunnerConnects, StateTypeOK, ClientTypeOK
  <2>3. stream[k] # "open"
    BY <2>1, <1>0
  <2>4. ToWrite(k) = <<>> /\ ToWrite(k)' = <<>>
    BY <1>0, <2>1, <2>3 DEF ToWrite
  <2>5. Line(k)' = Line(k)
    BY <1>0, <2>1, <2>4, NothingPutOut
  <2>6. k = Connection(c) => Line(k) = <<>>
    BY <1>0, <2>1, <2>4 DEF StreamOK, Line, ToWrite
  <2> QED
    BY <1>0, <2>1, <2>2, <2>3, <2>5, <2>6 DEF Stays
<1>2. CASE WaitForMessages(c) \/ SeeQuit(c)
  BY <1>k, <1>2 DEF WaitForMessages, SeeQuit
<1>3. CASE ViewMessage(c)
  <2> DEFINE x == Viewed(c).class
  <2>1. /\ out[c] = <<>> /\ UNCHANGED <<wire, stream>> /\ out'[c] = Announced(c)
        /\ locations'[c] = locations[c] \cup {x}
    BY <1>3 DEF ViewMessage, StateTypeOK, ClientTypeOK
  <2>2. CASE x \in locations[c]
    <3>1. ToWrite(k)' = ToWrite(k)
      BY <1>0, <2>1, <2>2 DEF ToWrite, Announced
    <3>2. Line(k)' = Line(k)
      BY <1>0, <2>1, <3>1, NothingPutOut
    <3> QED
      BY <1>0, <2>1, <2>2, <3>2 DEF Stays
  <2>3. CASE x \notin locations[c]
    <3>1. x \in Classes
      BY <1>3, Unreleased, ViewedTypes, QueuedKinds DEF ViewMessage
    <3>2. ClassMsg(x) \in StreamMsgs /\ ClassMsg(x).type # "log"
      BY <3>1 DEF ClassMsg, StreamMsgs
    <3>3. Sends(c, ClassMsg(x), 1)
      BY <2>1, <3>1, <3>2 DEF Sends
    <3>4. out'[c] = IF Connected(c) THEN Record(ClassMsg(x), 1) ELSE <<>>
      BY <2>1, <2>3 DEF Announced, ClassMsg
    <3> QED
      BY <1>m, <2>1, <3>3, <3>4
  <2> QED
    BY <2>2, <2>3
<1>4. CASE Write(c)
  <2>1. /\ out[c] # <<>> /\ stream[Connection(c)] = "open" /\ UNCHANGED <<stream, locations>>
        /\ out'[c] = Tail(out[c])
        /\ wire' = [wire EXCEPT ![Connection(c)] = Append(wire[Connection(c)], Head(out[c]))]
    BY <1>4 DEF Write, StateTypeOK, ClientTypeOK
  <2>2. CASE k = Connection(c)
    <3>1. wire'[k] = Append(wire[k], Head(out[c])) /\ ToWrite(k) = out[c]
          /\ ToWrite(k)' = Tail(out[c]) /\ ReadOf(k)' = ReadOf(k)
      BY <1>0, <2>1, <2>2 DEF ToWrite, ReadOf, StateTypeOK, ClientTypeOK
    <3>2. Line(k)' = (ReadOf(k)' \o wire'[k]) \o ToWrite(k)'
      BY DEF Line, ReadOf, ToWrite
    <3>3. /\ Line(k) = (ReadOf(k) \o wire[k]) \o out[c]
          /\ ReadOf(k) \in Seq(Units) /\ wire[k] \in Seq(Units) /\ out[c] \in Seq(Units)
      BY <1>0, <3>1, LineParts
    <3>4. Line(k) = (ReadOf(k) \o Append(wire[k], Head(out[c]))) \o Tail(out[c])
      BY <2>1, <3>3, Moved
    <3>5. Line(k)' = Line(k)
      BY <3>1, <3>2, <3>4
    <3> QED
      BY <2>1, <2>2, <3>5 DEF Stays
  <2>3. CASE k # Connection(c)
    <3>1. wire'[k] = wire[k] /\ stream[k] # "open"
      BY <1>0, <2>1, <2>3 DEF StateTypeOK, ClientTypeOK
    <3>2. Line(k)' = Line(k)
      BY <1>0, <2>1, <3>1, NothingPutOut DEF ToWrite
    <3> QED
      BY <2>1, <3>1, <3>2 DEF Stays
  <2> QED
    BY <2>2, <2>3
<1>5. CASE HandleLog(c)
  <2> DEFINE shown == FormatString(c, Viewed(c))  m == LogUnit(Viewed(c), shown)
  <2>1. Sends(c, m, Len(shown))
    BY <1>5, HandleLogSends DEF ClientStep
  <2>2. /\ out[c] = <<>> /\ UNCHANGED <<wire, stream>>
        /\ out'[c] = IF Connected(c) THEN Record(m, Len(shown)) ELSE <<>>
    BY <1>5 DEF HandleLog, Take, LogUnit, StateTypeOK, ClientTypeOK
  <2> HIDE DEF shown, m
  <2> QED
    BY <1>m, <2>1, <2>2
<1>6. CASE HandleCategory(c)
  <2>1. /\ out[c] = <<>> /\ UNCHANGED <<wire, stream, locations>>
        /\ out'[c] = IF Connected(c) THEN Record(Viewed(c), 1) ELSE <<>>
    BY <1>6 DEF HandleCategory, Take, StateTypeOK, ClientTypeOK
  <2>2. Viewed(c) \in QueuedMsgs /\ Viewed(c).type = "category"
    BY <1>6, Unreleased, ViewedTypes DEF HandleCategory
  <2>3. Viewed(c) \in StreamMsgs
    BY <2>2, QueuedKinds DEF StreamMsgs
  <2>4. Sends(c, Viewed(c), 1)
    BY <2>1, <2>2, <2>3 DEF Sends
  <2> QED
    BY <1>m, <2>1, <2>4
<1>7. CASE EndBatch(c)
  <2>1. CASE quit[c]
    BY <1>7, <1>e, <2>1 DEF EndBatch
  <2>2. CASE ~ quit[c]
    BY <1>7, <1>k, <2>2 DEF EndBatch
  <2> QED
    BY <2>1, <2>2
<1>8. CASE Throw(c)
  BY <1>8, <1>e DEF Throw
<1>9. CASE Connect(c, plan.file)
  <2>1. CASE m_clientCount[c] = 0
    <3>1. runner[c] \in {"none", "exited"} /\ UNCHANGED <<wire, stream>>
      BY <1>9, <2>1 DEF Connect, Idle, Streams
    <3>2. stream[k] # "open"
      BY <1>0, <3>1 DEF StreamOK
    <3>3. Line(k)' = Line(k)
      BY <1>0, <3>1, <3>2, NothingPutOut DEF ToWrite
    <3> QED
      BY <3>1, <3>2, <3>3 DEF Stays
  <2>2. CASE m_clientCount[c] # 0
    BY <1>9, <1>k, <2>2 DEF Connect
  <2> QED
    BY <2>1, <2>2
<1>10. CASE \/ PushCategory(c) \/ PushQuit(c) \/ Join(c) \/ Quit(c)
            \/ \E enabled \in BOOLEAN : Enable(c, enabled)
            \/ \E x \in Classes : DefineCategory(c, x)
            \/ \E t \in plan.threads[c], x \in Classes, f \in plan.formats : LogDeferred(c, t, x, f)
            \/ \E t \in Threads : PushLog(c, t)
  <2>1. UNCHANGED <<wire, stream, out, locations>>
    BY <1>10 DEF PushCategory, PushQuit, Join, Quit, Enable, DefineCategory, LogDeferred, PushLog
  <2> QED
    BY <1>k, <2>1
<1> QED
  BY <1>1, <1>2, <1>3, <1>4, <1>5, <1>6, <1>7, <1>8, <1>9, <1>10
     DEF ClientStep, RunnerStep, ProgramStep

-----------------------------------------------------------------------------
(* A program's step.                                                        *)

\* The logs of all programs, and how many of each are handled.
Grows(logs, count, logs2, count2) ==
    \A c \in Clients :
      /\ logs[c] \in Seq(LogMsgs) /\ logs2[c] \in Seq(LogMsgs) /\ Behind(logs[c], logs2[c])
      /\ count[c] \in Nat /\ count2[c] \in Nat /\ count[c] <= count2[c]

LEMMA LogTypes ==
    ASSUME StateTypeOK, NEW c \in Clients
    PROVE  pushed[c] \in Seq(LogMsgs) /\ Len(handled[c]) \in Nat /\ Counts[c] = Len(handled[c])
<1> DEFINE Entries == [id : Nat, text : Texts]
<1>1. handled[c] \in Seq(Entries) /\ pushed[c] \in Seq(LogMsgs)
  BY DEF StateTypeOK, ClientTypeOK
<1> HIDE DEF Entries
<1> QED
  BY <1>1 DEF Counts

LEMMA LogsGrow ==
    ASSUME StateTypeOK, StateTypeOK', ClientInv, NEW c \in Clients, ClientStep(c)
    PROVE  Grows(pushed, Counts, pushed', Counts')
<1> USE DEF connectionVars, sessionVars, queueVars, loggerVars, runnerVars
<1>0. \A d \in Clients : Behind(pushed[d], pushed[d])
  BY LogTypes DEF Behind
<1>1. Behind(pushed[c], pushed'[c])
  <2>1. ASSUME NEW t \in Threads, PushLog(c, t) PROVE Behind(pushed[c], pushed'[c])
    <3>1. /\ pushed[c] \in Seq(LogMsgs) /\ pushing[c][t] \in LogMsgs
          /\ pushed'[c] = Append(pushed[c], pushing[c][t])
      BY <2>1 DEF PushLog, StateTypeOK, ClientTypeOK
    <3>2. Len(pushed'[c]) = Len(pushed[c]) + 1 /\ Len(pushed[c]) \in Nat
          /\ \A i \in DOMAIN pushed[c] : pushed'[c][i] = pushed[c][i]
      BY <3>1
    <3> QED
      BY <3>2 DEF Behind
  <2>2. CASE RunnerStep(c) \/ PushCategory(c) \/ PushQuit(c) \/ Join(c) \/ ProgramStep(c)
    <3>1. pushed' = pushed
      BY <2>2 DEF RunnerStep, RunnerConnects, WaitForMessages, SeeQuit, ViewMessage, Write,
                  HandleLog, HandleCategory, EndBatch, Throw, Exit, PushCategory, PushQuit, Join,
                  ProgramStep, Connect, Quit, Enable, DefineCategory, LogDeferred
    <3> QED
      BY <1>0, <3>1
  <2> QED
    BY <2>1, <2>2 DEF ClientStep
<1>2. Len(handled[c]) <= Len(handled'[c])
  <2>1. CASE HandleLog(c)
    BY <2>1, HandledNext DEF ClientInv
  <2>2. CASE ~ HandleLog(c)
    <3>1. handled' = handled
      BY <2>2 DEF ClientStep, RunnerStep, RunnerConnects, WaitForMessages, SeeQuit, ViewMessage,
                  Write, HandleCategory, EndBatch, Throw, Exit, PushCategory, PushQuit, Join,
                  ProgramStep, Connect, Quit, Enable, DefineCategory, LogDeferred, PushLog
    <3> QED
      BY <3>1, LogTypes
  <2> QED
    BY <2>1, <2>2
<1>3. \A d \in Clients : d # c => pushed'[d] = pushed[d] /\ handled'[d] = handled[d]
  BY OthersAreApart DEF Own
<1>4. ASSUME NEW d \in Clients
      PROVE  /\ pushed[d] \in Seq(LogMsgs) /\ pushed'[d] \in Seq(LogMsgs)
             /\ Counts[d] = Len(handled[d]) /\ Counts'[d] = Len(handled'[d])
             /\ Counts[d] \in Nat /\ Counts'[d] \in Nat
  <2>1. pushed'[d] \in Seq(LogMsgs) /\ Counts'[d] = Len(handled'[d])
    BY DEF StateTypeOK, ClientTypeOK, Counts
  <2>2. Len(handled'[d]) \in Nat
    <3> DEFINE Entries == [id : Nat, text : Texts]
    <3>1. handled'[d] \in Seq(Entries)
      BY DEF StateTypeOK, ClientTypeOK
    <3> HIDE DEF Entries
    <3> QED
      BY <3>1
  <2> QED
    BY <2>1, <2>2, LogTypes
<1>5. ASSUME NEW d \in Clients PROVE Behind(pushed[d], pushed'[d]) /\ Counts[d] <= Counts'[d]
  BY <1>0, <1>1, <1>2, <1>3, <1>4
<1> QED
  BY <1>4, <1>5 DEF Grows

LEMMA LinesGoOn ==
    ASSUME StateTypeOK, ClientInv, AllNumbers, AllStreams, UNCHANGED serverVars,
           NEW c \in Clients, ClientStep(c), NEW k \in Connections
    PROVE  Stays(k) \/ \E m, size : Extends(k, m, size)
<1>1. PICK d \in Clients, s \in 1 .. MaxSessions : k = <<d, s>>
  BY DEF Connections
<1>2. CASE d = c
  BY <1>1, <1>2, LineStep DEF ClientInv, AllStreams
<1>3. CASE d # c
  <2>1. Own(d)' = Own(d) /\ wire'[k] = wire[k] /\ stream'[k] = stream[k]
    BY <1>1, <1>3, OthersAreApart
  <2>2. out'[d] = out[d] /\ locations'[d] = locations[d] /\ k[1] = d
    BY <1>1, <2>1 DEF Own
  <2>3. Line(k)' = Line(k)
    BY <2>1, <2>2, NothingPutOut DEF ToWrite, serverVars
  <2> QED
    BY <2>1, <2>2, <2>3 DEF Stays
<1> QED
  BY <1>2, <1>3

\* What a line has more.
LEMMA LineGrows ==
    ASSUME StateTypeOK, SoundLines, NEW k \in Connections, NEW m, NEW size, Extends(k, m, size)
    PROVE  /\ GoodLine(pushed[k[1]], Len(handled'[k[1]]), Line(k)') \/ m.type # "log"
           /\ GoodLine(pushed[k[1]], Len(handled[k[1]]), Line(k)') \/ m.type = "log"
           /\ Complete(Line(k)')
           /\ \A y \in IdsIn(Line(k)') :
                y \in IdsIn(Line(k)) \/ (m.type = "log" /\ y = m.log.id)
<1>1. k[1] \in Clients /\ Line(k) \in Seq(Units)
  BY LineParts DEF Connections
<1> DEFINE n == Len(handled[k[1]])  n2 == IF m.type = "log" THEN n + 1 ELSE n
<1>2. n \in Nat /\ n2 \in Nat /\ n <= n2 /\ pushed[k[1]] \in Seq(LogMsgs)
  BY <1>1, LogTypes
<1>3. GoodLine(pushed[k[1]], n, Line(k)) /\ Complete(Line(k))
  BY DEF SoundLines, Extends
<1>4. /\ m \in StreamMsgs /\ size \in Nat /\ With(Line(k), m, size, Line(k)')
      /\ m.type = "log" =>
           /\ n2 = n + 1 /\ n + 1 \in DOMAIN pushed[k[1]] /\ pushed[k[1]][n + 1] = m.log
           /\ ~ m.log.event.pointer => m.text = TextOf(m.log, m.log.id)
           /\ size = Len(m.text)
           /\ Len(handled'[k[1]]) = n + 1
  BY DEF Extends, Sends
<1> HIDE DEF n, n2
<1>5. /\ GoodLine(pushed[k[1]], n2, Line(k)') /\ Complete(Line(k)')
      /\ \A y \in IdsIn(Line(k)') : y \in IdsIn(Line(k)) \/ (m.type = "log" /\ y = m.log.id)
  BY <1>1, <1>2, <1>3, <1>4, GoodRecord
<1> QED
  BY <1>4, <1>5 DEF n, n2

LEMMA LinesStep ==
    ASSUME StateTypeOK, SoundLines, Grows(pushed, Counts, pushed', Counts'),
           \A k \in Connections : Stays(k) \/ \E m, size : Extends(k, m, size)
    PROVE  SoundLines'
<1> SUFFICES ASSUME NEW k \in Connections
             PROVE  /\ GoodLine(pushed'[k[1]], Len(handled'[k[1]]), Line(k)')
                    /\ stream'[k] = "open" => Complete(Line(k)')
  BY DEF SoundLines
<1> DEFINE d == k[1]
<1>1. d \in Clients
  BY DEF Connections
<1>2. /\ pushed[d] \in Seq(LogMsgs) /\ pushed'[d] \in Seq(LogMsgs) /\ Behind(pushed[d], pushed'[d])
      /\ Len(handled[d]) \in Nat /\ Len(handled'[d]) \in Nat
      /\ Len(handled[d]) <= Len(handled'[d])
  BY <1>1 DEF Grows, Counts
<1>3. GoodLine(pushed[d], Len(handled[d]), Line(k)) /\ (stream[k] = "open" => Complete(Line(k)))
  BY DEF SoundLines
<1> HIDE DEF d
<1>4. CASE Stays(k)
  <2>1. GoodLine(pushed'[d], Len(handled'[d]), Line(k)')
    BY <1>2, <1>3, <1>4, GoodBehind DEF Stays
  <2>2. stream'[k] = "open" => Complete(Line(k)')
    BY <1>3, <1>4 DEF Stays, Complete
  <2> QED
    BY <2>1, <2>2 DEF d
<1>5. ASSUME NEW m, NEW size, Extends(k, m, size)
      PROVE  /\ GoodLine(pushed'[d], Len(handled'[d]), Line(k)')
             /\ stream'[k] = "open" => Complete(Line(k)')
  <2>1. PICK n \in {Len(handled[d]), Len(handled'[d])} : GoodLine(pushed[d], n, Line(k)')
    BY <1>5, LineGrows DEF d
  <2>2. n \in Nat /\ n <= Len(handled'[d])
    BY <1>2
  <2> QED
    BY <1>2, <1>5, <2>1, <2>2, GoodBehind, LineGrows
<1> QED
  BY <1>4, <1>5 DEF d

\* The logs of a line are among those handled.
LEMMA LineTaken ==
    ASSUME SoundLines, NEW k \in Connections, NEW x \in IdsIn(Line(k))
    PROVE  Taken(pushed[k[1]], Len(handled[k[1]]), x)
<1>1. PICK i \in LogsAt(Line(k)) : x = IdAt(Line(k), i)
  BY DEF IdsIn
<1>2. Sent(pushed[k[1]], Len(handled[k[1]]), Line(k)[i].msg)
  BY DEF SoundLines, GoodLine
<1> QED
  BY <1>1, <1>2, SentTaken DEF IdAt

LEMMA NoIdsIn == IdsIn(<<>>) = {}
  BY DEF IdsIn, LogsAt

LEMMA SessionsStep ==
    ASSUME StateTypeOK, AllStreams, SoundLines, Sessions, Grows(pushed, Counts, pushed', Counts'),
           \A k \in Connections : Stays(k) \/ \E m, size : Extends(k, m, size),
           UNCHANGED serverVars
    PROVE  Sessions'
<1> SUFFICES ASSUME NEW k \in Connections, NEW l \in Connections, k[1] = l[1], k[2] < l[2],
                    NEW x \in IdsIn(Line(k)'), NEW y \in IdsIn(Line(l)')
             PROVE  serving' = k /\ Before(pushed'[k[1]], x, y)
  BY DEF Sessions
<1> DEFINE d == k[1]
<1>1. /\ d \in Clients /\ k = <<d, k[2]>> /\ l = <<d, l[2]>>
      /\ k[2] \in 1 .. MaxSessions /\ l[2] \in 1 .. MaxSessions
  BY DEF Connections
<1>2. StreamOK(d, k[2]) /\ StreamOK(d, l[2]) /\ session[d] \in Nat
  BY <1>1, SizesAssumption DEF AllStreams, Streams, StateTypeOK, ClientTypeOK
<1>3. /\ pushed[d] \in Seq(LogMsgs) /\ pushed'[d] \in Seq(LogMsgs) /\ Behind(pushed[d], pushed'[d])
      /\ Len(handled[d]) \in Nat
  BY <1>1, LogTypes DEF Grows
<1> SUFFICES serving = k /\ Before(pushed[d], x, y)
  BY <1>3, BeforeBehind DEF serverVars
\* a line that is extended is open
<1>4. stream[l] = "open" => stream[k] # "open"
  BY <1>1, <1>2 DEF StreamOK
<1>5. stream[k] = "open" => stream[l] = "none" /\ Line(l) = <<>>
  <2>1. stream[k] = "open" => l[2] > session[d]
    BY <1>1, <1>2 DEF StreamOK
  <2>2. stream[k] = "open" => stream[l] = "none" /\ wire[l] = <<>> /\ serving # l
    BY <1>1, <1>2, <2>1 DEF StreamOK, AllStreams
  <2> QED
    BY <2>2 DEF Line
<1>6. ASSUME NEW z \in Connections, stream[z] # "open" PROVE Line(z)' = Line(z)
  BY <1>6 DEF Stays, Extends
<1>7. x \in IdsIn(Line(k))
  <2>1. CASE stream[k] = "open"
    <3>1. Line(l)' = <<>>
      BY <1>5, <1>6, <2>1
    <3> QED
      BY <3>1, NoIdsIn
  <2>2. CASE stream[k] # "open"
    BY <1>6, <2>2
  <2> QED
    BY <2>1, <2>2
<1>8. CASE y \in IdsIn(Line(l))
  BY <1>7, <1>8 DEF Sessions
<1>9. CASE y \notin IdsIn(Line(l))
  <2>1. PICK m, size : Extends(l, m, size)
    BY <1>9 DEF Stays
  <2>2. m.type = "log" /\ y = m.log.id
    BY <1>9, <2>1, LineGrows
  <2>3. /\ Len(handled[d]) + 1 \in DOMAIN pushed[d]
        /\ pushed[d][Len(handled[d]) + 1] = m.log /\ ~ Blocked(d) /\ ~ Crashed(d)
        /\ stream[l] = "open"
    BY <2>1, <2>2 DEF Extends, Sends
  <2>4. Before(pushed[d], x, y)
    <3>1. Taken(pushed[d], Len(handled[d]), x)
      BY <1>7, LineTaken
    <3> QED
      BY <1>3, <2>2, <2>3, <3>1, TakenBefore
  <2>5. stream[k] \in {"none", "dead"}
    BY <1>1, <1>2, <1>4, <2>3 DEF StreamOK, StateTypeOK, ClientTypeOK
  <2>6. wire[k] = <<>> /\ stream[k] # "open"
    BY <1>1, <1>2, <2>5 DEF StreamOK
  <2>7. serving # k => Line(k) = <<>>
    BY <2>6 DEF Line
  <2> QED
    BY <1>7, <2>4, <2>7, NoIdsIn
<1> QED
  BY <1>8, <1>9

\* Where what has arrived comes from.
LEMMA FromClients ==
    ASSUME StateTypeOK
    PROVE  /\ \A i \in DOMAIN serverQueue : serverQueue[i].from \in Clients
           /\ \A i \in DOMAIN display : display[i].from \in Clients
<1>1. \A i \in DOMAIN serverQueue : serverQueue[i] \in ServerMsgs
  BY DEF StateTypeOK, ServerTypeOK
<1>2. \A i \in DOMAIN display : display[i] \in Displayed
  BY DEF StateTypeOK, ServerTypeOK
<1> QED
  BY <1>1, <1>2 DEF ServerMsgs, Displayed

LEMMA ArrivedTaken ==
    ASSUME StateTypeOK, Waiting(pushed, Counts, serverQueue),
           Shown(pushed, Counts, display, serverQueue),
           NEW c \in Clients, NEW x \in Arrived(serverQueue, display, c)
    PROVE  Taken(pushed[c], Len(handled[c]), x)
<1>0. Counts[c] = Len(handled[c])
  BY DEF Counts
<1>1. CASE \E i \in LogsAt(serverQueue) \cap From(serverQueue, c) : x = IdAt(serverQueue, i)
  <2>1. PICK i \in LogsAt(serverQueue) : serverQueue[i].from = c /\ x = IdAt(serverQueue, i)
    BY <1>1 DEF From
  <2>2. Sent(pushed[c], Counts[c], serverQueue[i].msg)
    BY <2>1 DEF Waiting
  <2> QED
    BY <1>0, <2>1, <2>2, SentTaken DEF IdAt
<1>2. CASE \E i \in From(display, c) : x = display[i].id
  <2>1. PICK i \in DOMAIN display : display[i].from = c /\ x = display[i].id
    BY <1>2 DEF From
  <2>2. RightlyShown(pushed[c], Counts[c], display[i])
    BY <2>1 DEF Shown
  <2> QED
    BY <1>0, <2>1, <2>2 DEF RightlyShown, Taken
<1> QED
  BY <1>1, <1>2 DEF Arrived

LEMMA ArrivingStep ==
    ASSUME StateTypeOK, SoundLines, Arriving, Grows(pushed, Counts, pushed', Counts'),
           Waiting(pushed, Counts, serverQueue), Shown(pushed, Counts, display, serverQueue),
           \A k \in Connections : Stays(k) \/ \E m, size : Extends(k, m, size),
           UNCHANGED serverVars
    PROVE  Arriving'
<1> SUFFICES ASSUME NEW k \in Connections,
                    NEW x \in Arrived(serverQueue', display', k[1]), NEW y \in IdsIn(Line(k)')
             PROVE  Before(pushed'[k[1]], x, y)
  BY DEF Arriving
<1>1. k[1] \in Clients /\ x \in Arrived(serverQueue, display, k[1])
  BY DEF Connections, serverVars
<1>2. /\ pushed[k[1]] \in Seq(LogMsgs) /\ pushed'[k[1]] \in Seq(LogMsgs)
      /\ Behind(pushed[k[1]], pushed'[k[1]]) /\ Len(handled[k[1]]) \in Nat
  BY <1>1, LogTypes DEF Grows
<1> SUFFICES Before(pushed[k[1]], x, y)
  BY <1>2, BeforeBehind
<1>3. CASE y \in IdsIn(Line(k))
  BY <1>1, <1>3 DEF Arriving
<1>4. CASE y \notin IdsIn(Line(k))
  <2>1. PICK m, size : Extends(k, m, size)
    BY <1>4 DEF Stays
  <2>2. m.type = "log" /\ y = m.log.id
    BY <1>4, <2>1, LineGrows
  <2>3. /\ Len(handled[k[1]]) + 1 \in DOMAIN pushed[k[1]]
        /\ pushed[k[1]][Len(handled[k[1]]) + 1] = m.log
    BY <2>1, <2>2 DEF Extends, Sends
  <2>4. Taken(pushed[k[1]], Len(handled[k[1]]), x)
    BY <1>1, ArrivedTaken
  <2> QED
    BY <1>2, <2>2, <2>3, <2>4, TakenBefore
<1> QED
  BY <1>3, <1>4

LEMMA WaitingGrows ==
    ASSUME NEW logs, NEW count, NEW logs2, NEW count2, Grows(logs, count, logs2, count2),
           NEW queue, \A i \in DOMAIN queue : queue[i].from \in Clients,
           Waiting(logs, count, queue)
    PROVE  Waiting(logs2, count2, queue)
<1>1. \A i \in LogsAt(queue) : queue[i].from \in Clients
  BY DEF LogsAt
<1>2. ASSUME NEW i \in LogsAt(queue)
      PROVE  Sent(logs2[queue[i].from], count2[queue[i].from], queue[i].msg)
  <2>1. Sent(logs[queue[i].from], count[queue[i].from], queue[i].msg)
    BY DEF Waiting
  <2> QED
    BY <1>1, <2>1, SentBehind DEF Grows
<1>3. ASSUME NEW i \in LogsAt(queue), NEW j \in LogsAt(queue), i < j,
             queue[i].from = queue[j].from
      PROVE  Before(logs2[queue[i].from], IdAt(queue, i), IdAt(queue, j))
  <2>1. Before(logs[queue[i].from], IdAt(queue, i), IdAt(queue, j))
    BY <1>3 DEF Waiting
  <2> QED
    BY <1>1, <2>1, BeforeBehind DEF Grows
<1> QED
  BY <1>2, <1>3 DEF Waiting

LEMMA ShownGrows ==
    ASSUME NEW logs, NEW count, NEW logs2, NEW count2, Grows(logs, count, logs2, count2),
           NEW queue, NEW shown, \A i \in DOMAIN shown : shown[i].from \in Clients,
           Shown(logs, count, shown, queue)
    PROVE  Shown(logs2, count2, shown, queue)
<1>1. ASSUME NEW i \in DOMAIN shown
      PROVE  RightlyShown(logs2[shown[i].from], count2[shown[i].from], shown[i])
  <2> DEFINE c == shown[i].from
  <2>1. /\ logs[c] \in Seq(LogMsgs) /\ logs2[c] \in Seq(LogMsgs) /\ Behind(logs[c], logs2[c])
        /\ count[c] \in Nat /\ count2[c] \in Nat /\ count[c] <= count2[c]
    BY DEF Grows
  <2>2. RightlyShown(logs[c], count[c], shown[i])
    BY DEF Shown
  <2>3. PICK n \in DOMAIN logs[c] :
          /\ n <= count[c] /\ logs[c][n].id = shown[i].id /\ logs[c][n].class = shown[i].class
          /\ ~ logs[c][n].event.pointer =>
               shown[i].text = TextOf(logs[c][n], logs[c][n].id)
    BY <2>2 DEF RightlyShown
  <2> HIDE DEF c
  <2>4. n \in DOMAIN logs2[c] /\ logs2[c][n] = logs[c][n] /\ n \in Nat
    BY <2>1, BehindDomain
  <2>5. n <= count2[c]
    BY <2>1, <2>3, <2>4
  <2> QED
    BY <2>2, <2>3, <2>4, <2>5 DEF RightlyShown, c
<1>2. ASSUME NEW i \in DOMAIN shown, NEW x, NEW y, Before(logs[shown[i].from], x, y)
      PROVE  Before(logs2[shown[i].from], x, y)
  BY <1>2, BeforeBehind DEF Grows
<1> QED
  BY <1>1, <1>2 DEF Shown

LEMMA AnnouncementsStep ==
    ASSUME StateTypeOK, Announcements, UNCHANGED serverVars,
           \A k \in Connections : Stays(k) \/ \E m, size : Extends(k, m, size)
    PROVE  Announcements'
<1>1. UNCHANGED <<serverQueue, classes, m_classIdToCategory>> /\ Known' = Known
  BY DEF serverVars, Known
<1>2. ASSUME NEW k \in Connections
      PROVE  /\ NamedLine(Known, Line(k)')
             /\ stream'[k] = "open" =>
                  locations'[k[1]] \subseteq Known \cup AnnouncedIn(Line(k)', Len(Line(k)'))
  <2>1. /\ NamedLine(Known, Line(k))
        /\ stream[k] = "open" =>
             locations[k[1]] \subseteq Known \cup AnnouncedIn(Line(k), Len(Line(k)))
    BY DEF Announcements
  <2>2. CASE Stays(k)
    BY <2>1, <2>2 DEF Stays
  <2>3. ASSUME NEW m, NEW size, Extends(k, m, size)
        PROVE  /\ NamedLine(Known, Line(k)')
               /\ locations'[k[1]] \subseteq Known \cup AnnouncedIn(Line(k)', Len(Line(k)'))
    <3>1. /\ m \in StreamMsgs /\ size \in Nat /\ With(Line(k), m, size, Line(k)')
          /\ m.type = "log" => m.log.class \in locations[k[1]]
          /\ locations'[k[1]] \subseteq locations[k[1]] \cup {x \in Classes : m = ClassMsg(x)}
          /\ stream[k] = "open" /\ Line(k) \in Seq(Units)
      BY <2>3, LineParts DEF Extends, Sends
    <3>2. /\ AnnouncedIn(Line(k), Len(Line(k))) \subseteq AnnouncedIn(Line(k)', Len(Line(k)'))
          /\ \A x \in Classes : m = ClassMsg(x) => x \in AnnouncedIn(Line(k)', Len(Line(k)'))
          /\ NamedLine(Known, Line(k)')
      BY <2>1, <3>1, NamedRecord
    <3> QED
      BY <2>1, <3>1, <3>2
  <2> QED
    BY <2>2, <2>3
<1> QED
  BY <1>1, <1>2 DEF Announcements

\* All of it, for a program's step.
LEMMA ClientStepOrder ==
    ASSUME StateTypeOK, StateTypeOK', ClientInv, OrderInv, plan' = plan, UNCHANGED serverVars,
           NEW c \in Clients, ClientStep(c), NobodyComesBack
    PROVE  OrderInv'
<1> USE DEF OrderInv
<1>1. AllNumbers' /\ AllStreams'
  BY NumbersStep, AllStreamsStep
<1>2. \A k \in Connections : Stays(k) \/ \E m, size : Extends(k, m, size)
  BY LinesGoOn
<1>3. Grows(pushed, Counts, pushed', Counts')
  BY LogsGrow
<1>4. SoundLines' /\ Sessions' /\ Arriving' /\ Announcements'
  BY <1>2, <1>3, LinesStep, SessionsStep, ArrivingStep, AnnouncementsStep
<1>5. serverQueue' = serverQueue /\ display' = display
  BY DEF serverVars
<1>6. Waiting(pushed', Counts', serverQueue') /\ Shown(pushed', Counts', display', serverQueue')
  BY <1>3, <1>5, FromClients, WaitingGrows, ShownGrows
<1> QED
  BY <1>1, <1>4, <1>6

-----------------------------------------------------------------------------
(* What shortens lines.                                                     *)

\* Of the programs' state, what the order is about.
Ordered == <<pushed, handled, locations>>

LEMMA ShorterLines ==
    ASSUME StateTypeOK, StateTypeOK', OrderInv, UNCHANGED Ordered,
           UNCHANGED <<serverQueue, classes, m_classIdToCategory, display>>,
           \A k \in Connections :
             /\ Cut(Line(k), Line(k)')
             /\ stream'[k] = "open" => stream[k] = "open" /\ Line(k)' = Line(k)
             /\ serving = k => serving' = k \/ Line(k)' = <<>>
    PROVE  /\ SoundLines' /\ Sessions' /\ Arriving' /\ Announcements'
           /\ Waiting(pushed', Counts', serverQueue')
           /\ Shown(pushed', Counts', display', serverQueue')
<1> USE DEF OrderInv, Ordered
<1>1. ASSUME NEW k \in Connections
      PROVE  /\ GoodLine(pushed[k[1]], Len(handled[k[1]]), Line(k)')
             /\ IdsIn(Line(k)') \subseteq IdsIn(Line(k))
             /\ NamedLine(Known, Line(k)')
  <2>1. Line(k) \in Seq(Units)
    BY LineParts
  <2>2. Line(k)' \in Seq(Units)
    <3>1. k[1] \in Clients
      BY DEF Connections
    <3>2. data' \in Seq(Units) /\ wire'[k] \in Seq(Units) /\ out'[k[1]] \in Seq(Units)
      BY <3>1 DEF StateTypeOK, ClientTypeOK, ServerTypeOK
    <3> DEFINE d == IF serving' = k THEN data' ELSE <<>>
               o == IF stream'[k] = "open" THEN out'[k[1]] ELSE <<>>
    <3>3. d \in Seq(Units) /\ o \in Seq(Units) /\ Line(k)' = (d \o wire'[k]) \o o
      <4>1. <<>> \in Seq(Units)
        OBVIOUS
      <4> QED
        BY <3>2, <4>1 DEF Line
    <3> HIDE DEF d, o
    <3> QED
      BY <3>2, <3>3, ConcatProperties
  <2>3. /\ GoodLine(pushed[k[1]], Len(handled[k[1]]), Line(k)) /\ NamedLine(Known, Line(k))
        /\ Cut(Line(k), Line(k)')
    BY DEF SoundLines, Announcements
  <2>4. /\ GoodLine(pushed[k[1]], Len(handled[k[1]]), Line(k)')
        /\ IdsIn(Line(k)') \subseteq IdsIn(Line(k))
    BY <2>1, <2>2, <2>3, GoodCut
  <2> QED
    BY <2>1, <2>2, <2>3, <2>4, NamedCut
<1>2. SoundLines'
  BY <1>1 DEF SoundLines
<1>3. Sessions'
  <2> SUFFICES ASSUME NEW k \in Connections, NEW l \in Connections, k[1] = l[1], k[2] < l[2],
                      NEW x \in IdsIn(Line(k)'), NEW y \in IdsIn(Line(l)')
               PROVE  serving' = k /\ Before(pushed'[k[1]], x, y)
    BY DEF Sessions
  <2>1. serving = k /\ Before(pushed[k[1]], x, y)
    BY <1>1 DEF Sessions
  <2> QED
    BY <2>1, NoIdsIn
<1>4. Arriving'
  BY <1>1 DEF Arriving
<1>5. Announcements'
  <2>1. Known' = Known
    BY DEF Known
  <2> QED
    BY <1>1, <2>1 DEF Announcements
<1>6. Counts' = Counts
  BY DEF Counts
<1> QED
  BY <1>2, <1>3, <1>4, <1>5, <1>6

\* What is left of a line is its beginning.
LEMMA CutRest ==
    ASSUME NEW d \in Seq(Units), NEW w \in Seq(Units), NEW o \in Seq(Units)
    PROVE  Cut((d \o w) \o o, d)
<1> DEFINE dw == d \o w  row == dw \o o
<1>1. /\ dw \in Seq(Units) /\ Len(dw) = Len(d) + Len(w)
      /\ \A i \in 1 .. Len(d) : dw[i] = d[i]
  BY Concatenated
<1> HIDE DEF dw
<1>2. /\ Len(row) = Len(dw) + Len(o) /\ \A i \in 1 .. Len(dw) : row[i] = dw[i]
  BY <1>1, Concatenated
<1> HIDE DEF row
<1>3. Len(d) \in Nat /\ Len(w) \in Nat /\ Len(o) \in Nat /\ DOMAIN d = 1 .. Len(d)
  OBVIOUS
<1>4. Len(d) <= Len(row) /\ \A i \in 1 .. Len(d) : i \in 1 .. Len(dw)
  BY <1>1, <1>2, <1>3
<1>5. Cut(row, d)
  BY <1>1, <1>2, <1>3, <1>4 DEF Cut
<1> QED
  BY <1>5 DEF row, dw

\* Likewise without what is not written yet.
LEMMA CutEnd ==
    ASSUME NEW d \in Seq(Units), NEW w \in Seq(Units), NEW o \in Seq(Units)
    PROVE  Cut((d \o w) \o o, d \o w)
<1>1. d \o w \in Seq(Units) /\ <<>> \in Seq(Units)
  BY ConcatProperties
<1> DEFINE dw == d \o w
<1> HIDE DEF dw
<1>2. Cut((dw \o <<>>) \o o, dw)
  BY <1>1, CutRest DEF dw
<1>3. dw \o <<>> = dw
  BY <1>1, ConcatEmptySeq DEF dw
<1> QED
  BY <1>2, <1>3 DEF dw

LEMMA LineLength ==
    ASSUME StateTypeOK, NEW k \in Connections
    PROVE  Len(Line(k)) \in Nat /\ Cut(Line(k), Line(k)) /\ Cut(Line(k), <<>>)
<1>1. Line(k) \in Seq(Units)
  BY LineParts
<1> QED
  BY <1>1 DEF Cut

LEMMA StreamsKept ==
    ASSUME AllStreams, NobodyComesBack,
           UNCHANGED <<m_queue, m_clientCount, main, runner, session, locations, stream>>,
           \A k \in Connections : stream[k] \in {"none", "dead"} => wire'[k] = <<>>,
           \A k \in Connections : serving' = k => stream[k] # "none"
    PROVE  AllStreams'
<1>1. ASSUME NEW c \in Clients PROVE Streams(c)'
  <2>1. ASSUME NEW s \in 1 .. MaxSessions PROVE StreamOK(c, s)'
    <3>1. StreamOK(c, s) /\ <<c, s>> \in Connections
      BY DEF AllStreams, Streams, Connections
    <3> QED
      BY <3>1 DEF StreamOK, Blocked, Viewed, NobodyComesBack
  <2> QED
    BY <2>1 DEF AllStreams, Streams, Connection
<1> QED
  BY <1>1 DEF AllStreams

LEMMA BreakOrder ==
    ASSUME StateTypeOK, StateTypeOK', OrderInv, plan' = plan, UNCHANGED serverVars,
           NEW k \in Connections, Break(k), NobodyComesBack
    PROVE  OrderInv'
<1> USE DEF sessionVars, queueVars, loggerVars, runnerVars, serverVars, OrderInv
<1>1. /\ stream[k] = "open" /\ stream'[k] = "dead" /\ wire'[k] = <<>>
      /\ \A l \in Connections : l # k => stream'[l] = stream[l] /\ wire'[l] = wire[l]
  BY DEF Break, StateTypeOK, ClientTypeOK
<1>2. AllNumbers'
  BY NumbersKept DEF Break
<1>3. AllStreams'
  <2>1. UNCHANGED <<m_queue, m_clientCount, main, runner, session, locations>>
    BY DEF Break
  <2>2. ASSUME NEW c \in Clients PROVE Streams(c)'
    <3>1. ASSUME NEW s \in 1 .. MaxSessions PROVE StreamOK(c, s)'
      <4>1. StreamOK(c, s) /\ <<c, s>> \in Connections
        BY DEF AllStreams, Streams, Connections
      <4>2. s > session[c] => <<c, s>> # k
        BY <1>1, <4>1 DEF StreamOK
      <4>3. Blocked(c)' = Blocked(c)
        BY <2>1 DEF Blocked, Viewed
      <4> QED
        BY <1>1, <2>1, <4>1, <4>2, <4>3 DEF StreamOK, NobodyComesBack
    <3>2. runner[c] = "connect" => stream'[Connection(c)] = stream[Connection(c)]
      <4>1. runner[c] = "connect" => Connection(c) # k
        BY <1>1 DEF AllStreams, Streams
      <4> QED
        BY <4>1 DEF Break, StateTypeOK, ClientTypeOK
    <3>3. Connection(c)' = Connection(c)
      BY <2>1 DEF Connection
    <3> QED
      BY <2>1, <3>1, <3>2, <3>3 DEF AllStreams, Streams
  <2> QED
    BY <1>1, <2>2 DEF AllStreams
<1>4. ASSUME NEW l \in Connections
      PROVE  /\ Cut(Line(l), Line(l)')
             /\ stream'[l] = "open" => stream[l] = "open" /\ Line(l)' = Line(l)
  <2>1. CASE l # k
    <3>1. Line(l)' = Line(l)
      BY <1>1, <2>1, NothingPutOut DEF ToWrite, Break
    <3> QED
      BY <1>1, <2>1, <3>1, LineLength
  <2>2. CASE l = k
    <3>1. Line(k)' = ReadOf(k)
      <4>1. Line(k)' = (ReadOf(k) \o <<>>) \o <<>>
        BY <1>1 DEF Line, ReadOf
      <4> QED
        BY <4>1, LineParts, ConcatEmptySeq
    <3>2. Cut(Line(k), ReadOf(k))
      BY LineParts, CutRest
    <3> QED
      BY <1>1, <2>2, <3>1, <3>2
  <2> QED
    BY <2>1, <2>2
<1>5. UNCHANGED Ordered
  BY DEF Break, Ordered
<1>6. serving' = serving
  OBVIOUS
<1>7. /\ SoundLines' /\ Sessions' /\ Arriving' /\ Announcements'
      /\ Waiting(pushed', Counts', serverQueue')
      /\ Shown(pushed', Counts', display', serverQueue')
  BY <1>4, <1>5, <1>6, ShorterLines
<1> QED
  BY <1>2, <1>3, <1>7

\* A program's end leaves on its stream what is there.
LEMMA DieOrder ==
    ASSUME StateTypeOK, StateTypeOK', OrderInv, plan' = plan, UNCHANGED serverVars,
           NEW d \in Clients, Die(d), NobodyComesBack
    PROVE  OrderInv'
<1> USE DEF sessionVars, queueVars, loggerVars, runnerVars, serverVars, OrderInv
<1>0. PICK k : k = Connection(d)
  OBVIOUS
<1>1. /\ stream[k] = "open" /\ stream'[k] = "closed" /\ wire' = wire /\ Crashed(d)
      /\ \A l \in Connections : l # k => stream'[l] = stream[l]
  BY <1>0 DEF Die, Connected, StateTypeOK, ClientTypeOK, Connections, Connection
<1>2. AllNumbers'
  BY NumbersKept DEF Die
<1>3. AllStreams'
  <2>1. UNCHANGED <<m_queue, m_clientCount, main, runner, session, locations>>
    BY DEF Die
  <2>2. ASSUME NEW c \in Clients PROVE Streams(c)'
    <3>1. ASSUME NEW s \in 1 .. MaxSessions PROVE StreamOK(c, s)'
      <4>1. StreamOK(c, s) /\ <<c, s>> \in Connections
        BY DEF AllStreams, Streams, Connections
      <4>2. <<c, s>> = k => c = d /\ ~ (s > session[c])
        BY <1>0, <1>1, <4>1 DEF StreamOK, Connection
      <4>3. Blocked(c)' = Blocked(c)
        BY <2>1 DEF Blocked, Viewed
      <4> QED
        BY <1>1, <2>1, <4>1, <4>2, <4>3 DEF StreamOK, NobodyComesBack
    <3>2. runner[c] = "connect" => stream'[Connection(c)] = stream[Connection(c)]
      <4>1. runner[c] = "connect" => Connection(c) # k
        BY <1>1 DEF AllStreams, Streams
      <4> QED
        BY <1>0, <4>1 DEF Die, StateTypeOK, ClientTypeOK
    <3>3. Connection(c)' = Connection(c)
      BY <2>1 DEF Connection
    <3> QED
      BY <2>1, <3>1, <3>2, <3>3 DEF AllStreams, Streams
  <2>3. \A l \in Connections : serving' = l => stream'[l] # "none"
    BY <1>1 DEF AllStreams
  <2> QED
    BY <2>2, <2>3 DEF AllStreams
<1>4. ASSUME NEW l \in Connections
      PROVE  /\ Cut(Line(l), Line(l)')
             /\ stream'[l] = "open" => stream[l] = "open" /\ Line(l)' = Line(l)
  <2>1. CASE l # k
    <3>1. Line(l)' = Line(l)
      BY <1>1, <2>1, NothingPutOut DEF ToWrite, Die
    <3> QED
      BY <1>1, <2>1, <3>1, LineLength
  <2>2. CASE l = k
    <3> DEFINE o == ToWrite(k)
    <3>1. /\ Line(k) = (ReadOf(k) \o wire[k]) \o o
          /\ ReadOf(k) \in Seq(Units) /\ wire[k] \in Seq(Units) /\ o \in Seq(Units)
      BY <2>2, LineParts
    <3>2. Line(k)' = ReadOf(k) \o wire[k]
      <4>1. Line(k)' = (ReadOf(k) \o wire[k]) \o <<>>
        BY <1>1 DEF Line, ReadOf
      <4> HIDE DEF o
      <4> QED
        BY <3>1, <4>1, ConcatProperties, ConcatEmptySeq
    <3> HIDE DEF o
    <3>3. Cut((ReadOf(k) \o wire[k]) \o o, ReadOf(k) \o wire[k])
      BY <3>1, CutEnd
    <3> QED
      BY <1>1, <2>2, <3>1, <3>2, <3>3
  <2> QED
    BY <2>1, <2>2
<1>5. UNCHANGED Ordered
  BY DEF Die, Ordered
<1>6. serving' = serving
  OBVIOUS
<1>7. /\ SoundLines' /\ Sessions' /\ Arriving' /\ Announcements'
      /\ Waiting(pushed', Counts', serverQueue')
      /\ Shown(pushed', Counts', display', serverQueue')
  BY <1>4, <1>5, <1>6, ShorterLines
<1> QED
  BY <1>2, <1>3, <1>7

-----------------------------------------------------------------------------
(* The server reads.                                                        *)

LEMMA AcceptOrder ==
    ASSUME StateTypeOK, StateTypeOK', OrderInv, NobodyComesBack, plan' = plan,
           NEW k \in Connections, Accept(k)
    PROVE  OrderInv'
<1> USE DEF OrderInv
<1>1. /\ serving = NoConnection /\ stream[k] # "none" /\ serving' = k /\ data' = <<>>
      /\ UNCHANGED <<serverQueue, classes, m_classIdToCategory, display>>
      /\ UNCHANGED <<m_queue, m_clientCount, main, runner, session, locations, stream, wire, out>>
      /\ UNCHANGED <<text, pushing, pushed, handled>>
  BY DEF Accept, clientVars, connectionVars, sessionVars, queueVars, loggerVars, runnerVars
<1>2. AllNumbers'
  BY <1>1, NumbersKept
<1>3. AllStreams'
  <2>1. \A l \in Connections : stream[l] \in {"none", "dead"} => wire[l] = <<>>
    BY DEF AllStreams, Streams, StreamOK, Connections
  <2> QED
    BY <1>1, <2>1, StreamsKept
<1>4. ASSUME NEW l \in Connections PROVE Line(l)' = Line(l) /\ serving # l
  BY <1>1, ServerAssumption DEF Line
<1>5. UNCHANGED Ordered
  BY <1>1 DEF Ordered
<1>6. ASSUME NEW l \in Connections
      PROVE  /\ Cut(Line(l), Line(l)')
             /\ stream'[l] = "open" => stream[l] = "open" /\ Line(l)' = Line(l)
             /\ serving = l => serving' = l \/ Line(l)' = <<>>
  BY <1>1, <1>4, LineLength
<1> QED
  BY <1>1, <1>2, <1>3, <1>5, <1>6, ShorterLines

\* Reading moves units along the line.
LEMMA ReadAlong ==
    ASSUME NEW d \in Seq(Units), NEW w \in Seq(Units), NEW o \in Seq(Units), NEW n \in 1 .. Len(w)
    PROVE  ((d \o SubSeq(w, 1, n)) \o SubSeq(w, n + 1, Len(w))) \o o = (d \o w) \o o
<1> DEFINE r == SubSeq(w, 1, n)  s == SubSeq(w, n + 1, Len(w))
<1>1. r \in Seq(Units) /\ s \in Seq(Units)
  OBVIOUS
<1>2. r \o s = w
  <2>1. /\ Len(r) = n /\ Len(s) = Len(w) - n
        /\ \A i \in 1 .. n : r[i] = w[i]
        /\ \A i \in 1 .. Len(w) - n : s[i] = w[n + i]
    OBVIOUS
  <2> HIDE DEF r, s
  <2> DEFINE u == r \o s
  <2>2. /\ u \in Seq(Units) /\ Len(u) = Len(r) + Len(s)
        /\ \A i \in 1 .. Len(r) : u[i] = r[i]
        /\ \A i \in 1 .. Len(s) : u[Len(r) + i] = s[i]
    BY <1>1, Concatenated
  <2> HIDE DEF u
  <2>3. Len(u) = Len(w) /\ Len(w) \in Nat /\ n \in Nat
    BY <2>1, <2>2
  <2>4. ASSUME NEW i \in 1 .. Len(w) PROVE u[i] = w[i]
    <3>1. CASE i <= n
      BY <2>1, <2>2, <2>3, <3>1
    <3>2. CASE ~ (i <= n)
      <4> DEFINE j == i - n
      <4>1. j \in 1 .. Len(w) - n /\ n + j = i
        BY <2>3, <3>2
      <4> HIDE DEF j
      <4>2. s[j] = w[n + j] /\ u[n + j] = s[j]
        BY <2>1, <2>2, <4>1
      <4> QED
        BY <4>1, <4>2
    <3> QED
      BY <3>1, <3>2
  <2>5. u = w
    BY <2>2, <2>3, <2>4, SeqEqual
  <2> QED
    BY <2>5 DEF u
<1> HIDE DEF r, s
<1>3. (d \o r) \o s = d \o (r \o s)
  BY <1>1, Regrouped
<1> QED
  BY <1>2, <1>3 DEF r, s

LEMMA ReadSomeOrder ==
    ASSUME StateTypeOK, StateTypeOK', OrderInv, NobodyComesBack, plan' = plan, NEW n, ReadSome(n)
    PROVE  OrderInv'
<1> USE DEF OrderInv
<1>1. /\ serving \in Connections /\ n \in 1 .. Len(wire[serving]) /\ serving' = serving
      /\ data' = data \o SubSeq(wire[serving], 1, n)
      /\ wire' = [wire EXCEPT ![serving] = SubSeq(@, n + 1, Len(@))]
      /\ UNCHANGED <<serverQueue, classes, m_classIdToCategory, display>>
      /\ UNCHANGED <<m_queue, m_clientCount, main, runner, session, locations, stream, out>>
      /\ UNCHANGED <<text, pushing, pushed, handled>>
  BY DEF ReadSome, sessionVars, queueVars, loggerVars, runnerVars, StateTypeOK, ServerTypeOK
<1>2. /\ data \in Seq(Units) /\ wire[serving] \in Seq(Units)
      /\ wire'[serving] = SubSeq(wire[serving], n + 1, Len(wire[serving]))
      /\ \A l \in Connections : l # serving => wire'[l] = wire[l]
  BY <1>1 DEF StateTypeOK, ClientTypeOK, ServerTypeOK
<1>3. AllNumbers'
  BY <1>1, NumbersKept
<1>4. AllStreams'
  <2>1. \A l \in Connections : stream[l] \in {"none", "dead"} => wire[l] = <<>>
    BY DEF AllStreams, Streams, StreamOK, Connections
  <2>2. wire[serving] # <<>>
    BY <1>1, <1>2
  <2>3. \A l \in Connections : stream[l] \in {"none", "dead"} => wire'[l] = <<>>
    BY <1>2, <2>1, <2>2
  <2>4. \A l \in Connections : serving' = l => stream[l] # "none"
    BY <1>1 DEF AllStreams
  <2> QED
    BY <1>1, <2>3, <2>4, StreamsKept
<1>5. ASSUME NEW l \in Connections PROVE Line(l)' = Line(l)
  <2>1. CASE l = serving
    <3> DEFINE o == ToWrite(l)
    <3>1. o \in Seq(Units) /\ Line(l) = (data \o wire[l]) \o o
      BY <2>1, LineParts DEF ReadOf
    <3>2. Line(l)' = (data' \o wire'[l]) \o o
      BY <1>1, <2>1 DEF Line, ToWrite
    <3> HIDE DEF o
    <3>3. Line(l)' = ((data \o SubSeq(wire[l], 1, n)) \o SubSeq(wire[l], n + 1, Len(wire[l]))) \o o
      BY <1>1, <1>2, <2>1, <3>2
    <3> DEFINE w == wire[l]
    <3>4. w \in Seq(Units) /\ n \in 1 .. Len(w)
      BY <1>1, <1>2, <2>1
    <3> HIDE DEF w
    <3>5. ((data \o SubSeq(w, 1, n)) \o SubSeq(w, n + 1, Len(w))) \o o = (data \o w) \o o
      BY <1>2, <3>1, <3>4, ReadAlong
    <3> QED
      BY <3>1, <3>3, <3>5 DEF w
  <2>2. CASE l # serving
    BY <1>1, <1>2, <2>2 DEF Line
  <2> QED
    BY <2>1, <2>2
<1>6. UNCHANGED Ordered
  BY <1>1 DEF Ordered
<1>7. ASSUME NEW l \in Connections
      PROVE  /\ Cut(Line(l), Line(l)')
             /\ stream'[l] = "open" => stream[l] = "open" /\ Line(l)' = Line(l)
             /\ serving = l => serving' = l \/ Line(l)' = <<>>
  BY <1>1, <1>5, LineLength
<1> QED
  BY <1>1, <1>3, <1>4, <1>6, <1>7, ShorterLines

LEMMA EndSessionOrder ==
    ASSUME StateTypeOK, StateTypeOK', OrderInv, NobodyComesBack, plan' = plan, EndSession
    PROVE  OrderInv'
<1> USE DEF OrderInv
<1>1. /\ stream[serving] \in {"closed", "dead"} /\ wire[serving] = <<>>
      /\ serving' = NoConnection /\ data' = <<>>
      /\ UNCHANGED <<serverQueue, classes, m_classIdToCategory, display>>
      /\ UNCHANGED <<m_queue, m_clientCount, main, runner, session, locations, stream, wire, out>>
      /\ UNCHANGED <<text, pushing, pushed, handled>>
  BY DEF EndSession, clientVars, connectionVars, sessionVars, queueVars, loggerVars, runnerVars
<1>2. AllNumbers'
  BY <1>1, NumbersKept
<1>3. AllStreams'
  <2>1. \A l \in Connections : stream[l] \in {"none", "dead"} => wire[l] = <<>>
    BY DEF AllStreams, Streams, StreamOK, Connections
  <2> QED
    BY <1>1, <2>1, StreamsKept, ServerAssumption
<1>4. ASSUME NEW l \in Connections, l # serving PROVE Line(l)' = Line(l)
  BY <1>1, <1>4, ServerAssumption DEF Line
<1>5. ASSUME NEW l \in Connections, l = serving PROVE Line(l)' = <<>>
  <2>1. Line(l)' = (<<>> \o <<>>) \o <<>>
    BY <1>1, <1>5, ServerAssumption DEF Line
  <2> QED
    BY <2>1
<1>6. UNCHANGED Ordered
  BY <1>1 DEF Ordered
<1>7. ASSUME NEW l \in Connections
      PROVE  /\ Cut(Line(l), Line(l)')
             /\ stream'[l] = "open" => stream[l] = "open" /\ Line(l)' = Line(l)
             /\ serving = l => serving' = l \/ Line(l)' = <<>>
  BY <1>1, <1>4, <1>5, LineLength
<1> QED
  BY <1>1, <1>2, <1>3, <1>6, <1>7, ShorterLines

-----------------------------------------------------------------------------
(* The server's queue, when a message is put into it.                       *)

\* A message is put behind those in the queue.
Joining(queue, m, queue2) ==
    /\ Len(queue2) = Len(queue) + 1 /\ queue2[Len(queue) + 1] = m
    /\ \A i \in DOMAIN queue : queue2[i] = queue[i]

LEMMA JoinedQueue ==
    ASSUME NEW queue \in Seq(ServerMsgs), NEW m \in ServerMsgs,
           NEW queue2 \in Seq(ServerMsgs), Joining(queue, m, queue2)
    PROVE  /\ \A i \in LogsAt(queue2) :
                \/ i \in LogsAt(queue) /\ queue2[i] = queue[i] /\ i <= Len(queue)
                \/ i = Len(queue) + 1 /\ queue2[i] = m /\ m.msg.type = "log"
           /\ \A i \in LogsAt(queue2) : i \in Nat
           /\ \A i \in DOMAIN queue : i \in DOMAIN queue2 /\ queue2[i] = queue[i]
           /\ Len(queue) + 1 \in DOMAIN queue2 /\ queue2[Len(queue) + 1] = m
<1>1. /\ Len(queue) \in Nat /\ Len(queue2) = Len(queue) + 1
      /\ DOMAIN queue = 1 .. Len(queue) /\ DOMAIN queue2 = 1 .. Len(queue2)
      /\ queue2[Len(queue) + 1] = m /\ \A i \in DOMAIN queue : queue2[i] = queue[i]
  BY DEF Joining
<1>2. \A i \in DOMAIN queue2 :
        i \in Nat /\ ((i \in DOMAIN queue /\ i <= Len(queue)) \/ i = Len(queue) + 1)
  BY <1>1
<1>3. \A i \in DOMAIN queue : i \in DOMAIN queue2
  BY <1>1
<1>4. Len(queue) + 1 \in DOMAIN queue2
  BY <1>1
<1> QED
  BY <1>1, <1>2, <1>3, <1>4 DEF LogsAt

LEMMA JoinedArrived ==
    ASSUME NEW queue \in Seq(ServerMsgs), NEW m \in ServerMsgs,
           NEW queue2 \in Seq(ServerMsgs), Joining(queue, m, queue2),
           NEW shown, NEW c, NEW x \in Arrived(queue2, shown, c)
    PROVE  x \in Arrived(queue, shown, c) \/ (m.msg.type = "log" /\ m.from = c /\ x = m.msg.log.id)
<1>1. CASE x \in {shown[i].id : i \in From(shown, c)}
  BY <1>1 DEF Arrived
<1>2. CASE x \in {IdAt(queue2, i) : i \in LogsAt(queue2) \cap From(queue2, c)}
  <2>1. PICK i \in LogsAt(queue2) : queue2[i].from = c /\ x = queue2[i].msg.log.id
    BY <1>2 DEF From, IdAt
  <2>2. CASE i \in LogsAt(queue) /\ queue2[i] = queue[i]
    <3>1. i \in From(queue, c) /\ x = IdAt(queue, i)
      BY <2>1, <2>2 DEF From, LogsAt, IdAt
    <3> QED
      BY <2>2, <3>1 DEF Arrived
  <2>3. CASE queue2[i] = m /\ m.msg.type = "log"
    BY <2>1, <2>3
  <2> QED
    BY <2>2, <2>3, JoinedQueue
<1> QED
  BY <1>1, <1>2 DEF Arrived

\* What is ahead of the new message: all that has arrived of its program.
LEMMA JoinedWaiting ==
    ASSUME NEW queue \in Seq(ServerMsgs), NEW m \in ServerMsgs,
           NEW queue2 \in Seq(ServerMsgs), Joining(queue, m, queue2),
           NEW logs, NEW count, NEW shown, Waiting(logs, count, queue),
           Shown(logs, count, shown, queue),
           m.msg.type = "log" =>
             /\ Sent(logs[m.from], count[m.from], m.msg)
             /\ m.whole <=> Len(m.msg.text) <= PayloadSize
             /\ \A x \in Arrived(queue, shown, m.from) : Before(logs[m.from], x, m.msg.log.id)
    PROVE  Waiting(logs, count, queue2) /\ Shown(logs, count, shown, queue2)
<1>1. ASSUME NEW i \in LogsAt(queue2)
      PROVE  /\ Sent(logs[queue2[i].from], count[queue2[i].from], queue2[i].msg)
             /\ queue2[i].whole <=> Len(queue2[i].msg.text) <= PayloadSize
  <2>1. CASE i \in LogsAt(queue) /\ queue2[i] = queue[i]
    BY <2>1 DEF Waiting
  <2>2. CASE queue2[i] = m /\ m.msg.type = "log"
    BY <2>2
  <2> QED
    BY <2>1, <2>2, JoinedQueue
<1>2. ASSUME NEW i \in LogsAt(queue2), NEW j \in LogsAt(queue2), i < j,
             queue2[i].from = queue2[j].from
      PROVE  Before(logs[queue2[i].from], IdAt(queue2, i), IdAt(queue2, j))
  <2>1. i \in Nat /\ j \in Nat /\ Len(queue) \in Nat
    BY JoinedQueue
  <2>2. i \in LogsAt(queue) /\ queue2[i] = queue[i]
    BY <1>2, <2>1, JoinedQueue
  <2>3. CASE j \in LogsAt(queue) /\ queue2[j] = queue[j]
    BY <1>2, <2>2, <2>3 DEF Waiting, IdAt
  <2>4. CASE queue2[j] = m /\ m.msg.type = "log"
    <3>1. IdAt(queue2, i) \in Arrived(queue, shown, m.from)
      BY <1>2, <2>2, <2>4 DEF Arrived, From, LogsAt, IdAt
    <3> QED
      BY <1>2, <2>4, <3>1 DEF IdAt
  <2> QED
    BY <2>3, <2>4, JoinedQueue
<1>3. ASSUME NEW i \in DOMAIN shown, NEW j \in LogsAt(queue2), shown[i].from = queue2[j].from
      PROVE  Before(logs[shown[i].from], shown[i].id, IdAt(queue2, j))
  <2>1. CASE j \in LogsAt(queue) /\ queue2[j] = queue[j]
    BY <1>3, <2>1 DEF Shown, IdAt
  <2>2. CASE queue2[j] = m /\ m.msg.type = "log"
    <3>1. shown[i].id \in Arrived(queue, shown, m.from)
      BY <1>3, <2>2 DEF Arrived, From
    <3> QED
      BY <1>3, <2>2, <3>1 DEF IdAt
  <2> QED
    BY <2>1, <2>2, JoinedQueue
<1>4. Waiting(logs, count, queue2)
  BY <1>1, <1>2 DEF Waiting
<1>5. Shown(logs, count, shown, queue2)
  BY <1>3 DEF Shown
<1> QED
  BY <1>4, <1>5

LEMMA JoinedNames ==
    ASSUME NEW queue \in Seq(ServerMsgs), NEW m \in ServerMsgs,
           NEW queue2 \in Seq(ServerMsgs), Joining(queue, m, queue2),
           NEW known, NamedLine(known, queue),
           m.msg.type = "log" => m.msg.log.class \in known \cup AnnouncedIn(queue, Len(queue))
    PROVE  /\ NamedLine(known, queue2)
           /\ AnnouncedIn(queue, Len(queue)) \subseteq AnnouncedIn(queue2, Len(queue2))
           /\ \A x \in Classes : m.msg = ClassMsg(x) => x \in AnnouncedIn(queue2, Len(queue2))
<1>1. /\ Len(queue) \in Nat /\ Len(queue2) = Len(queue) + 1
      /\ DOMAIN queue = 1 .. Len(queue) /\ DOMAIN queue2 = 1 .. Len(queue2)
  BY DEF Joining
<1>2. ASSUME NEW n \in Nat PROVE AnnouncedIn(queue, n) \subseteq AnnouncedIn(queue2, n)
  BY JoinedQueue DEF AnnouncedIn
<1>3. AnnouncedIn(queue2, Len(queue)) \subseteq AnnouncedIn(queue2, Len(queue2))
  <2> SUFFICES ASSUME NEW x \in AnnouncedIn(queue2, Len(queue))
               PROVE  x \in AnnouncedIn(queue2, Len(queue2))
    OBVIOUS
  <2>1. PICK i \in DOMAIN queue2 : i <= Len(queue) /\ queue2[i].msg = ClassMsg(x)
    BY DEF AnnouncedIn
  <2>2. i <= Len(queue2)
    BY <1>1, <2>1
  <2> QED
    BY <2>1, <2>2 DEF AnnouncedIn
<1>4. AnnouncedIn(queue, Len(queue)) \subseteq AnnouncedIn(queue2, Len(queue2))
  BY <1>1, <1>2, <1>3
<1>5. ASSUME NEW i \in LogsAt(queue2)
      PROVE  queue2[i].msg.log.class \in known \cup AnnouncedIn(queue2, i)
  <2>1. i \in Nat
    BY JoinedQueue
  <2>2. CASE i \in LogsAt(queue) /\ queue2[i] = queue[i]
    BY <1>2, <2>1, <2>2 DEF NamedLine
  <2>3. CASE i = Len(queue) + 1 /\ queue2[i] = m /\ m.msg.type = "log"
    BY <1>1, <1>4, <2>3
  <2> QED
    BY <2>2, <2>3, JoinedQueue
<1>6. ASSUME NEW x \in Classes, m.msg = ClassMsg(x)
      PROVE  x \in AnnouncedIn(queue2, Len(queue2))
  <2>1. /\ Len(queue) + 1 \in DOMAIN queue2 /\ queue2[Len(queue) + 1].msg = ClassMsg(x)
        /\ Len(queue) + 1 <= Len(queue2)
    BY <1>1, <1>6, JoinedQueue
  <2> QED
    BY <2>1 DEF AnnouncedIn
<1> QED
  BY <1>4, <1>5, <1>6 DEF NamedLine

\* Taking off the first units of what was read takes them off the line.
LEMMA FrontGone ==
    ASSUME NEW d \in Seq(Units), NEW w \in Seq(Units), NEW o \in Seq(Units),
           NEW n \in Nat, n <= Len(d)
    PROVE  Without((d \o w) \o o, n, (SubSeq(d, n + 1, Len(d)) \o w) \o o)
<1> DEFINE r == SubSeq(d, n + 1, Len(d))  dw == d \o w  rw == r \o w
           row == dw \o o  line2 == rw \o o
<1>1. /\ r \in Seq(Units) /\ Len(r) = Len(d) - n
      /\ \A i \in 1 .. Len(d) - n : r[i] = d[n + i]
  OBVIOUS
<1> HIDE DEF r
<1>2. /\ dw \in Seq(Units) /\ Len(dw) = Len(d) + Len(w)
      /\ \A i \in 1 .. Len(d) : dw[i] = d[i]
      /\ \A i \in 1 .. Len(w) : dw[Len(d) + i] = w[i]
  BY Concatenated
<1>3. /\ rw \in Seq(Units) /\ Len(rw) = Len(r) + Len(w)
      /\ \A i \in 1 .. Len(r) : rw[i] = r[i]
      /\ \A i \in 1 .. Len(w) : rw[Len(r) + i] = w[i]
  BY <1>1, Concatenated
<1> HIDE DEF dw, rw
<1>4. /\ Len(row) = Len(dw) + Len(o)
      /\ \A i \in 1 .. Len(dw) : row[i] = dw[i]
      /\ \A i \in 1 .. Len(o) : row[Len(dw) + i] = o[i]
  BY <1>2, Concatenated
<1>5. /\ line2 \in Seq(Units) /\ Len(line2) = Len(rw) + Len(o)
      /\ \A i \in 1 .. Len(rw) : line2[i] = rw[i]
      /\ \A i \in 1 .. Len(o) : line2[Len(rw) + i] = o[i]
  BY <1>3, Concatenated
<1> HIDE DEF row, line2
<1> DEFINE a == Len(d)  b == Len(w)  e == Len(o)
<1>6. /\ a \in Nat /\ b \in Nat /\ e \in Nat /\ n <= a
      /\ Len(r) = a - n /\ Len(dw) = a + b /\ Len(rw) = (a - n) + b
      /\ Len(row) = (a + b) + e /\ Len(line2) = ((a - n) + b) + e
      /\ DOMAIN line2 = 1 .. Len(line2)
  BY <1>1, <1>2, <1>3, <1>4, <1>5
<1>7. /\ \A i \in 1 .. a - n : r[i] = d[n + i]
      /\ \A i \in 1 .. a : dw[i] = d[i]
      /\ \A i \in 1 .. b : dw[a + i] = w[i]
      /\ \A i \in 1 .. a - n : rw[i] = r[i]
      /\ \A i \in 1 .. b : rw[(a - n) + i] = w[i]
      /\ \A i \in 1 .. a + b : row[i] = dw[i]
      /\ \A i \in 1 .. e : row[(a + b) + i] = o[i]
      /\ \A i \in 1 .. (a - n) + b : line2[i] = rw[i]
      /\ \A i \in 1 .. e : line2[((a - n) + b) + i] = o[i]
  BY <1>1, <1>2, <1>3, <1>4, <1>5
<1> HIDE DEF a, b, e
<1>8. ASSUME NEW i \in DOMAIN line2 PROVE line2[i] = row[i + n]
  <2>0. i \in 1 .. ((a - n) + b) + e
    BY <1>6
  <2>1. CASE i <= a - n
    <3>1. /\ i \in 1 .. a - n /\ n + i \in 1 .. a /\ n + i \in 1 .. a + b
          /\ i \in 1 .. (a - n) + b /\ i + n = n + i
      BY <1>6, <2>0, <2>1
    <3> QED
      BY <1>7, <3>1
  <2>2. CASE ~ (i <= a - n) /\ i <= (a - n) + b
    <3> DEFINE j == i - (a - n)
    <3>1. /\ j \in 1 .. b /\ (a - n) + j = i /\ a + j = i + n
          /\ a + j \in 1 .. a + b /\ i \in 1 .. (a - n) + b
      BY <1>6, <2>0, <2>2
    <3> HIDE DEF j
    <3>2. rw[(a - n) + j] = w[j] /\ dw[a + j] = w[j] /\ row[a + j] = dw[a + j]
      BY <1>7, <3>1
    <3>3. line2[i] = rw[i]
      BY <1>7, <3>1
    <3> QED
      BY <3>1, <3>2, <3>3
  <2>3. CASE ~ (i <= (a - n) + b)
    <3> DEFINE j == i - ((a - n) + b)
    <3>1. j \in 1 .. e /\ ((a - n) + b) + j = i /\ (a + b) + j = i + n
      BY <1>6, <2>0, <2>3
    <3> HIDE DEF j
    <3>2. line2[((a - n) + b) + j] = o[j] /\ row[(a + b) + j] = o[j]
      BY <1>7, <3>1
    <3> QED
      BY <3>1, <3>2
  <2> QED
    BY <2>1, <2>2, <2>3
<1>9. n <= Len(row) /\ Len(line2) = Len(row) - n
  BY <1>6
<1>10. Without(row, n, line2)
  BY <1>8, <1>9 DEF Without
<1> QED
  BY <1>10 DEF row, line2, dw, rw, r

LEMMA CompleteWithout ==
    ASSUME NEW row \in Seq(Units), NEW line2 \in Seq(Units), NEW n \in Nat,
           Without(row, n, line2), Complete(row)
    PROVE  Complete(line2)
<1> SUFFICES ASSUME line2 # <<>> PROVE line2[Len(line2)].part = line2[Len(line2)].size + 1
  BY DEF Complete
<1>1. /\ Len(line2) \in Nat /\ Len(row) \in Nat /\ DOMAIN line2 = 1 .. Len(line2)
      /\ Len(line2) >= 1 /\ Len(line2) = Len(row) - n
  BY DEF Without
<1>2. Len(line2) \in DOMAIN line2 /\ Len(line2) + n = Len(row) /\ Len(row) >= 1
  BY <1>1
<1>3. row # <<>> /\ line2[Len(line2)] = row[Len(row)]
  BY <1>2 DEF Without
<1> QED
  BY <1>3 DEF Complete

-----------------------------------------------------------------------------
(* The server makes a message of what it has read.                          *)

\* The first message of the line that is served goes into the queue.
LEMMA PushedFirst ==
    ASSUME StateTypeOK, OrderInv, PushMessage, NEW k \in Connections, k = serving
    PROVE  /\ Line(k) # <<>>
           /\ EpilogMsg(data) \in ServerMsgs
           /\ Joining(serverQueue, EpilogMsg(data), serverQueue')
           /\ Line(k)' \in Seq(Units)
           /\ Line(k)[1] = data[1] /\ data[1].size \in Nat
           /\ Without(Line(k), Line(k)[1].size + 1, Line(k)')
           /\ \A l \in Connections : l # k => Line(l)' = Line(l)
<1>1. /\ data \in Seq(Units) /\ data # <<>>
      /\ Len(data) >= data[1].size + 1
  BY DEF PushMessage, Whole, StateTypeOK, ServerTypeOK
<1>2. data[1] \in Units /\ Len(data) \in Nat /\ Len(data) >= 1
  BY <1>1
<1>3. data[1].size \in Nat /\ data[1].msg \in StreamMsgs
  BY <1>2 DEF Units
<1>4. EpilogMsg(data) \in ServerMsgs
  <2>1. serving[1] \in Clients
    BY <1>1 DEF Connections
  <2> QED
    BY <1>3, <2>1 DEF EpilogMsg, ServerMsgs
<1>5. Joining(serverQueue, EpilogMsg(data), serverQueue')
  <2> DEFINE m == EpilogMsg(data)
  <2>1. serverQueue \in Seq(ServerMsgs) /\ m \in ServerMsgs /\ serverQueue' = Append(serverQueue, m)
    BY <1>4 DEF PushMessage, StateTypeOK, ServerTypeOK
  <2> HIDE DEF m
  <2>2. Joining(serverQueue, m, serverQueue')
    BY <2>1 DEF Joining
  <2> QED
    BY <2>2 DEF m
<1> DEFINE w == wire[k]  o == ToWrite(k)  n == data[1].size + 1
           rest == SubSeq(data, n + 1, Len(data))
<1>6. w \in Seq(Units) /\ o \in Seq(Units) /\ Line(k) = (data \o w) \o o
  BY <1>1, LineParts DEF ReadOf
<1>7. n \in Nat /\ n <= Len(data) /\ n + 1 = data[1].size + 2
  BY <1>1, <1>2, <1>3
<1>8. /\ data' = rest
      /\ UNCHANGED <<serving, wire, stream, out>>
  <2>1. data' = SubSeq(data, data[1].size + 2, Len(data))
    BY DEF PushMessage
  <2> HIDE DEF n
  <2>2. data' = rest
    BY <1>7, <2>1
  <2> QED
    BY <2>2 DEF PushMessage, clientVars, connectionVars, runnerVars
<1>9. Line(k)' = (rest \o w) \o o
  BY <1>8 DEF Line, ToWrite
<1> HIDE DEF w, o, n
<1>10. rest \in Seq(Units)
  BY <1>1, <1>7
<1>11. Without(Line(k), n, Line(k)')
  BY <1>1, <1>6, <1>7, <1>9, FrontGone
<1>12. Line(k)' \in Seq(Units)
  <2> HIDE DEF rest
  <2> QED
    BY <1>6, <1>9, <1>10, ConcatProperties
<1>13. Line(k) # <<>> /\ Line(k)[1] = data[1]
  <2> DEFINE dw == data \o w  row == dw \o o
  <2>1. /\ dw \in Seq(Units) /\ Len(dw) = Len(data) + Len(w)
        /\ \A i \in 1 .. Len(data) : dw[i] = data[i]
    BY <1>1, <1>6, Concatenated
  <2> HIDE DEF dw
  <2>2. Len(row) = Len(dw) + Len(o) /\ \A i \in 1 .. Len(dw) : row[i] = dw[i]
    BY <1>6, <2>1, Concatenated
  <2> HIDE DEF row
  <2>3. Len(w) \in Nat /\ Len(o) \in Nat
    BY <1>6
  <2>4. Len(row) >= 1 /\ 1 \in 1 .. Len(data) /\ 1 \in 1 .. Len(dw)
    BY <1>2, <2>1, <2>2, <2>3
  <2>5. row # <<>> /\ row[1] = data[1]
    BY <2>1, <2>2, <2>4
  <2> QED
    BY <1>6, <2>5 DEF row, dw
<1>14. ASSUME NEW l \in Connections, l # k PROVE Line(l)' = Line(l)
  BY <1>8, <1>14 DEF Line
<1> QED
  BY <1>1, <1>3, <1>4, <1>5, <1>11, <1>12, <1>13, <1>14 DEF n

LEMMA PushMessageOrder ==
    ASSUME StateTypeOK, StateTypeOK', OrderInv, NobodyComesBack, plan' = plan, PushMessage
    PROVE  OrderInv'
<1>0. PICK k \in Connections : k = serving
  BY PushMessageTypes DEF StateTypeOK, ServerTypeOK
<1> DEFINE m == EpilogMsg(data)  logs == pushed[k[1]]  n == Len(handled[k[1]])
           first == Line(k)[1]
<1>1. /\ Line(k) # <<>> /\ m \in ServerMsgs
      /\ Joining(serverQueue, m, serverQueue')
      /\ Line(k)' \in Seq(Units) /\ Without(Line(k), first.size + 1, Line(k)')
      /\ \A l \in Connections : l # k => Line(l)' = Line(l)
      /\ first = data[1] /\ first.size \in Nat
  BY <1>0, PushedFirst
<1>2. /\ UNCHANGED <<serving, classes, m_classIdToCategory, display>>
      /\ UNCHANGED <<m_queue, m_clientCount, main, runner, session, locations, stream, wire, out>>
      /\ UNCHANGED <<text, pushing, pushed, handled>>
  BY DEF PushMessage, clientVars, connectionVars, sessionVars, queueVars, loggerVars, runnerVars
<1>3. /\ m.from = k[1] /\ m.msg = first.msg
      /\ m.whole <=> first.part = 1 /\ first.size <= PayloadSize
  BY <1>0, <1>1 DEF EpilogMsg
<1>4. /\ serverQueue \in Seq(ServerMsgs) /\ serverQueue' \in Seq(ServerMsgs)
      /\ Line(k) \in Seq(Units)
  BY <1>1, LineParts DEF StateTypeOK, ServerTypeOK
<1>5. GoodLine(logs, n, Line(k)) /\ (stream[k] = "open" => Complete(Line(k)))
  BY <1>1 DEF OrderInv, SoundLines
<1>6. /\ GoodLine(logs, n, Line(k)') /\ IdsIn(Line(k)') \subseteq IdsIn(Line(k))
      /\ first.part = 1
      /\ m.msg.type = "log" =>
           /\ Sent(logs, n, m.msg) /\ first.size = Len(m.msg.text)
           /\ m.msg.log.id \in IdsIn(Line(k))
           /\ \A y \in IdsIn(Line(k)') : Before(logs, m.msg.log.id, y)
  <2> HIDE DEF m, logs, n
  <2> QED
    BY <1>1, <1>3, <1>4, <1>5, GoodWithout DEF IdAt
<1>7. Counts' = Counts /\ Counts[k[1]] = n
  BY <1>1, <1>2 DEF Counts, Connections
<1> HIDE DEF m, logs, n, first
<1>8. AllNumbers' /\ AllStreams'
  <2>1. \A l \in Connections : stream[l] \in {"none", "dead"} => wire[l] = <<>>
    BY DEF OrderInv, AllStreams, Streams, StreamOK, Connections
  <2>2. \A l \in Connections : serving' = l => stream[l] # "none"
    BY <1>2 DEF OrderInv, AllStreams
  <2> QED
    BY <1>2, <2>1, <2>2, NumbersKept, StreamsKept DEF OrderInv
<1>9. SoundLines'
  <2> SUFFICES ASSUME NEW l \in Connections
               PROVE  /\ GoodLine(pushed[l[1]], Len(handled[l[1]]), Line(l)')
                      /\ stream[l] = "open" => Complete(Line(l)')
    BY <1>2 DEF SoundLines
  <2>1. CASE l = k
    <3>1. first.size + 1 \in Nat
      BY <1>1
    <3>2. Complete(Line(k)) => Complete(Line(k)')
      BY <1>1, <1>4, <3>1, CompleteWithout
    <3> QED
      BY <1>5, <1>6, <2>1, <3>2 DEF logs, n
  <2>2. CASE l # k
    BY <1>1, <2>2 DEF OrderInv, SoundLines
  <2> QED
    BY <2>1, <2>2
<1>10. \A l \in Connections : IdsIn(Line(l)') \subseteq IdsIn(Line(l))
  BY <1>1, <1>6
<1>11. Sessions'
  BY <1>2, <1>10 DEF OrderInv, Sessions
<1>12. Arriving'
  <2> SUFFICES ASSUME NEW l \in Connections,
                      NEW x \in Arrived(serverQueue', display, l[1]), NEW y \in IdsIn(Line(l)')
               PROVE  Before(pushed[l[1]], x, y)
    BY <1>2 DEF Arriving
  <2>0. y \in IdsIn(Line(l))
    BY <1>10
  <2>1. CASE x \in Arrived(serverQueue, display, l[1])
    BY <2>0, <2>1 DEF OrderInv, Arriving
  <2>2. CASE m.msg.type = "log" /\ m.from = l[1] /\ x = m.msg.log.id
    <3>1. x \in IdsIn(Line(k)) /\ l[1] = k[1]
      BY <1>3, <1>6, <2>2
    <3>2. CASE l = k
      BY <1>6, <2>2, <3>2 DEF logs
    <3>3. CASE l # k
      <4>1. /\ k[2] \in Nat /\ l[2] \in Nat /\ k = <<k[1], k[2]>> /\ l = <<l[1], l[2]>>
        BY <1>1, SizesAssumption DEF Connections
      <4>2. k[2] < l[2] \/ l[2] < k[2]
        BY <3>1, <3>3, <4>1
      <4>3. ~ (l[2] < k[2])
        <5>1. l[2] < k[2] => serving = l
          BY <1>1, <2>0, <3>1 DEF OrderInv, Sessions
        <5> QED
          BY <1>0, <3>3, <5>1
      <4>4. Before(pushed[k[1]], x, y)
        BY <1>1, <2>0, <3>1, <4>2, <4>3 DEF OrderInv, Sessions
      <4> QED
        BY <3>1, <4>4
    <3> QED
      BY <3>2, <3>3
  <2> QED
    BY <1>1, <1>4, <2>1, <2>2, JoinedArrived
<1>13. Waiting(pushed, Counts, serverQueue') /\ Shown(pushed, Counts, display, serverQueue')
  <2>1. Waiting(pushed, Counts, serverQueue) /\ Shown(pushed, Counts, display, serverQueue)
    BY DEF OrderInv
  <2>2. ASSUME m.msg.type = "log"
        PROVE  /\ Sent(pushed[m.from], Counts[m.from], m.msg)
               /\ m.whole <=> Len(m.msg.text) <= PayloadSize
    BY <1>3, <1>6, <1>7, <2>2 DEF logs
  <2>3. ASSUME m.msg.type = "log", NEW x \in Arrived(serverQueue, display, m.from)
        PROVE  Before(pushed[m.from], x, m.msg.log.id)
    BY <1>1, <1>3, <1>6, <2>3 DEF OrderInv, Arriving
  <2> QED
    BY <1>1, <1>4, <2>1, <2>2, <2>3, JoinedWaiting
<1>14. Announcements'
  <2> DEFINE known2 == classes \cup AnnouncedIn(serverQueue', Len(serverQueue'))
  <2>1. /\ NamedLine(classes, serverQueue) /\ NamedLine(Known, Line(k))
        /\ stream[k] = "open" =>
             locations[k[1]] \subseteq Known \cup AnnouncedIn(Line(k), Len(Line(k)))
    BY <1>1 DEF OrderInv, Announcements
  <2>2. m.msg.type = "log" => m.msg.log.class \in Known
    <3> SUFFICES ASSUME m.msg.type = "log" PROVE m.msg.log.class \in Known
      OBVIOUS
    <3>1. 1 \in LogsAt(Line(k)) /\ Line(k)[1].msg = m.msg
      BY <1>1, <1>3, <1>4 DEF LogsAt, first
    <3>2. m.msg.log.class \in Known \cup AnnouncedIn(Line(k), 1)
      BY <2>1, <3>1 DEF NamedLine
    <3>3. AnnouncedIn(Line(k), 1) = {}
      <4> SUFFICES ASSUME NEW x \in AnnouncedIn(Line(k), 1) PROVE FALSE
        OBVIOUS
      <4>1. PICK i \in DOMAIN Line(k) : i <= 1 /\ Line(k)[i].msg = ClassMsg(x)
        BY DEF AnnouncedIn
      <4>2. i = 1
        BY <1>4, <4>1
      <4> QED
        BY <3>1, <4>1, <4>2 DEF ClassMsg
    <3> QED
      BY <3>2, <3>3
  <2>3. /\ NamedLine(classes, serverQueue')
        /\ AnnouncedIn(serverQueue, Len(serverQueue))
             \subseteq AnnouncedIn(serverQueue', Len(serverQueue'))
        /\ \A x \in Classes : m.msg = ClassMsg(x) =>
             x \in AnnouncedIn(serverQueue', Len(serverQueue'))
    BY <1>1, <1>4, <2>1, <2>2, JoinedNames DEF Known
  <2>4. /\ Known \subseteq known2 /\ Known' = known2
        /\ \A x \in Classes : first.msg = ClassMsg(x) => x \in known2
    BY <1>2, <1>3, <2>3 DEF Known
  <2> HIDE DEF known2
  <2>5. /\ NamedLine(known2, Line(k)')
        /\ stream[k] = "open" =>
             locations[k[1]] \subseteq known2 \cup AnnouncedIn(Line(k)', Len(Line(k)'))
    <3>1. Framed(Line(k))
      BY <1>5 DEF GoodLine
    <3>2. /\ NamedLine(Known, Line(k)) => NamedLine(known2, Line(k)')
          /\ \A S : S \subseteq Known \cup AnnouncedIn(Line(k), Len(Line(k))) =>
               S \subseteq known2 \cup AnnouncedIn(Line(k)', Len(Line(k)'))
      BY <1>1, <1>4, <2>4, <3>1, NamedWithout DEF first
    <3> QED
      BY <2>1, <3>2
  <2>6. ASSUME NEW l \in Connections, l # k
        PROVE  /\ NamedLine(known2, Line(l)')
               /\ stream[l] = "open" =>
                    locations[l[1]] \subseteq known2 \cup AnnouncedIn(Line(l)', Len(Line(l)'))
    <3>1. /\ NamedLine(Known, Line(l))
          /\ stream[l] = "open" =>
               locations[l[1]] \subseteq Known \cup AnnouncedIn(Line(l), Len(Line(l)))
      BY DEF OrderInv, Announcements
    <3>2. Line(l)' = Line(l)
      BY <1>1, <2>6
    <3>3. NamedLine(known2, Line(l))
      BY <2>4, <3>1, NamedMore
    <3> QED
      BY <2>4, <3>1, <3>2, <3>3
  <2>7. \A x \in DOMAIN m_classIdToCategory : m_classIdToCategory[x] # ""
    BY DEF OrderInv, Announcements
  <2> QED
    BY <1>2, <2>3, <2>4, <2>5, <2>6, <2>7 DEF Announcements
<1>15. Waiting(pushed', Counts', serverQueue') /\ Shown(pushed', Counts', display', serverQueue')
  BY <1>2, <1>7, <1>13
<1> QED
  BY <1>8, <1>9, <1>11, <1>12, <1>14, <1>15 DEF OrderInv

-----------------------------------------------------------------------------
(* The server takes a message out of its queue.                             *)

Leaving(queue, queue2) ==
    /\ Len(queue2) = Len(queue) - 1
    /\ \A i \in DOMAIN queue2 : queue2[i] = queue[i + 1]

LEMMA LeftQueue ==
    ASSUME NEW queue \in Seq(ServerMsgs), queue # <<>>,
           NEW queue2 \in Seq(ServerMsgs), Leaving(queue, queue2)
    PROVE  /\ 1 \in DOMAIN queue
           /\ \A i \in DOMAIN queue2 :
                i \in Nat /\ i >= 1 /\ i + 1 \in DOMAIN queue /\ queue2[i] = queue[i + 1]
           /\ \A i \in DOMAIN queue :
                i \in Nat /\ (i = 1 \/ (i - 1 \in DOMAIN queue2 /\ queue2[i - 1] = queue[i]))
           /\ \A i \in LogsAt(queue2) : i + 1 \in LogsAt(queue)
<1>1. /\ Len(queue) \in Nat /\ Len(queue) >= 1 /\ Len(queue2) = Len(queue) - 1
      /\ DOMAIN queue = 1 .. Len(queue) /\ DOMAIN queue2 = 1 .. Len(queue2)
  BY DEF Leaving
<1>2. ASSUME NEW i \in DOMAIN queue2
      PROVE  i \in Nat /\ i >= 1 /\ i + 1 \in DOMAIN queue /\ queue2[i] = queue[i + 1]
  BY <1>1 DEF Leaving
<1>3. ASSUME NEW i \in DOMAIN queue, i # 1
      PROVE  i \in Nat /\ i - 1 \in DOMAIN queue2 /\ queue2[i - 1] = queue[i]
  <2>1. i \in Nat /\ i - 1 \in DOMAIN queue2 /\ (i - 1) + 1 = i
    BY <1>1, <1>3
  <2> DEFINE j == i - 1
  <2>2. j \in DOMAIN queue2 /\ j + 1 = i
    BY <2>1
  <2> HIDE DEF j
  <2>3. queue2[j] = queue[i]
    BY <1>2, <2>2
  <2> QED
    BY <2>1, <2>3 DEF j
<1>4. 1 \in DOMAIN queue
  BY <1>1
<1>5. ASSUME NEW i \in LogsAt(queue2) PROVE i + 1 \in LogsAt(queue)
  BY <1>2 DEF LogsAt
<1> QED
  BY <1>2, <1>3, <1>4, <1>5

LEMMA LeftWaiting ==
    ASSUME NEW queue \in Seq(ServerMsgs), queue # <<>>,
           NEW queue2 \in Seq(ServerMsgs), Leaving(queue, queue2),
           NEW logs, NEW count, Waiting(logs, count, queue)
    PROVE  Waiting(logs, count, queue2)
<1>1. ASSUME NEW i \in LogsAt(queue2)
      PROVE  /\ i + 1 \in LogsAt(queue) /\ queue2[i] = queue[i + 1] /\ i \in Nat
             /\ IdAt(queue2, i) = IdAt(queue, i + 1)
  BY LeftQueue DEF LogsAt, IdAt
<1>2. ASSUME NEW i \in LogsAt(queue2), NEW j \in LogsAt(queue2), i < j,
             queue2[i].from = queue2[j].from
      PROVE  Before(logs[queue2[i].from], IdAt(queue2, i), IdAt(queue2, j))
  <2> DEFINE i1 == i + 1  j1 == j + 1
  <2>1. /\ i1 \in LogsAt(queue) /\ j1 \in LogsAt(queue) /\ i1 < j1
        /\ queue2[i] = queue[i1] /\ queue2[j] = queue[j1]
        /\ IdAt(queue2, i) = IdAt(queue, i1) /\ IdAt(queue2, j) = IdAt(queue, j1)
    BY <1>1, <1>2
  <2> HIDE DEF i1, j1
  <2> QED
    BY <1>2, <2>1 DEF Waiting
<1>3. ASSUME NEW i \in LogsAt(queue2)
      PROVE  /\ Sent(logs[queue2[i].from], count[queue2[i].from], queue2[i].msg)
             /\ queue2[i].whole <=> Len(queue2[i].msg.text) <= PayloadSize
  <2> DEFINE i1 == i + 1
  <2>1. i1 \in LogsAt(queue) /\ queue2[i] = queue[i1]
    BY <1>1
  <2> HIDE DEF i1
  <2> QED
    BY <2>1 DEF Waiting
<1> QED
  BY <1>2, <1>3 DEF Waiting

LEMMA LeftShown ==
    ASSUME NEW queue \in Seq(ServerMsgs), queue # <<>>,
           NEW queue2 \in Seq(ServerMsgs), Leaving(queue, queue2),
           NEW logs, NEW count, NEW shown, Shown(logs, count, shown, queue)
    PROVE  Shown(logs, count, shown, queue2)
<1>1. ASSUME NEW i \in DOMAIN shown, NEW j \in LogsAt(queue2), shown[i].from = queue2[j].from
      PROVE  Before(logs[shown[i].from], shown[i].id, IdAt(queue2, j))
  <2> DEFINE j1 == j + 1
  <2>1. j1 \in LogsAt(queue) /\ queue2[j] = queue[j1]
    BY LeftQueue DEF LogsAt
  <2> HIDE DEF j1
  <2>2. Before(logs[shown[i].from], shown[i].id, IdAt(queue, j1))
    BY <1>1, <2>1 DEF Shown
  <2> QED
    BY <2>1, <2>2 DEF IdAt
<1> QED
  BY <1>1 DEF Shown

\* Displayed is what was first in the queue.
LEMMA FirstShown ==
    ASSUME NEW queue \in Seq(ServerMsgs), queue # <<>>,
           NEW queue2 \in Seq(ServerMsgs), Leaving(queue, queue2),
           NEW logs, NEW count, NEW shown \in Seq(Displayed), NEW shown2 \in Seq(Displayed),
           NEW d, Joining(shown, d, shown2),
           queue[1].msg.type = "log", d.from = queue[1].from, d.id = queue[1].msg.log.id,
           RightlyShown(logs[d.from], count[d.from], d),
           Waiting(logs, count, queue), Shown(logs, count, shown, queue)
    PROVE  Shown(logs, count, shown2, queue2)
<1>1. 1 \in LogsAt(queue) /\ IdAt(queue, 1) = d.id
  BY LeftQueue DEF LogsAt, IdAt
<1>2. ASSUME NEW i \in DOMAIN shown2
      PROVE  i \in Nat /\ (\/ i \in DOMAIN shown /\ shown2[i] = shown[i] /\ i <= Len(shown)
                           \/ i = Len(shown) + 1 /\ shown2[i] = d)
  <2>1. /\ Len(shown) \in Nat /\ Len(shown2) = Len(shown) + 1
        /\ DOMAIN shown = 1 .. Len(shown) /\ DOMAIN shown2 = 1 .. Len(shown2)
    BY DEF Joining
  <2>2. i \in Nat /\ ((i \in DOMAIN shown /\ i <= Len(shown)) \/ i = Len(shown) + 1)
    BY <2>1
  <2> QED
    BY <2>2 DEF Joining
<1>3. ASSUME NEW i \in DOMAIN shown2
      PROVE  RightlyShown(logs[shown2[i].from], count[shown2[i].from], shown2[i])
  BY <1>2 DEF Shown
<1>4. ASSUME NEW i \in DOMAIN shown2, NEW j \in DOMAIN shown2, i < j,
             shown2[i].from = shown2[j].from
      PROVE  Before(logs[shown2[i].from], shown2[i].id, shown2[j].id)
  <2>1. i \in Nat /\ j \in Nat /\ Len(shown) \in Nat
    BY <1>2
  <2>2. i \in DOMAIN shown /\ shown2[i] = shown[i]
    <3>1. j <= Len(shown) + 1
      BY <1>2, <2>1
    <3>2. i # Len(shown) + 1
      BY <1>4, <2>1, <3>1
    <3> QED
      BY <1>2, <3>2
  <2>3. CASE j \in DOMAIN shown /\ shown2[j] = shown[j]
    BY <1>4, <2>2, <2>3 DEF Shown
  <2>4. CASE shown2[j] = d
    BY <1>1, <1>4, <2>2, <2>4 DEF Shown
  <2> QED
    BY <1>2, <2>3, <2>4
<1>5. ASSUME NEW i \in DOMAIN shown2, NEW j \in LogsAt(queue2), shown2[i].from = queue2[j].from
      PROVE  Before(logs[shown2[i].from], shown2[i].id, IdAt(queue2, j))
  <2> DEFINE j1 == j + 1
  <2>1. j1 \in LogsAt(queue) /\ queue2[j] = queue[j1] /\ j1 \in Nat /\ 1 < j1
    BY LeftQueue DEF LogsAt
  <2> HIDE DEF j1
  <2>2. IdAt(queue2, j) = IdAt(queue, j1)
    BY <2>1 DEF IdAt
  <2>3. CASE i \in DOMAIN shown /\ shown2[i] = shown[i]
    BY <1>5, <2>1, <2>2, <2>3 DEF Shown
  <2>4. CASE shown2[i] = d
    BY <1>1, <1>5, <2>1, <2>2, <2>4 DEF Waiting
  <2> QED
    BY <1>2, <2>3, <2>4
<1> QED
  BY <1>3, <1>4, <1>5 DEF Shown

\* What has arrived was there before.
LEMMA LeftArrived ==
    ASSUME NEW queue \in Seq(ServerMsgs), queue # <<>>,
           NEW queue2 \in Seq(ServerMsgs), Leaving(queue, queue2),
           NEW shown \in Seq(Displayed), NEW shown2 \in Seq(Displayed),
           \/ shown2 = shown
           \/ \E d : /\ Joining(shown, d, shown2) /\ queue[1].msg.type = "log"
                     /\ d.from = queue[1].from /\ d.id = queue[1].msg.log.id,
           NEW c, NEW x \in Arrived(queue2, shown2, c)
    PROVE  x \in Arrived(queue, shown, c)
<1>1. CASE x \in {IdAt(queue2, i) : i \in LogsAt(queue2) \cap From(queue2, c)}
  <2>1. PICK i \in LogsAt(queue2) : queue2[i].from = c /\ x = IdAt(queue2, i)
    BY <1>1 DEF From
  <2> DEFINE i1 == i + 1
  <2>2. i1 \in LogsAt(queue) /\ queue2[i] = queue[i1]
    BY LeftQueue DEF LogsAt
  <2> HIDE DEF i1
  <2>3. i1 \in From(queue, c) /\ x = IdAt(queue, i1)
    BY <2>1, <2>2 DEF From, LogsAt, IdAt
  <2> QED
    BY <2>2, <2>3 DEF Arrived
<1>2. CASE x \in {shown2[i].id : i \in From(shown2, c)}
  <2>1. PICK i \in DOMAIN shown2 : shown2[i].from = c /\ x = shown2[i].id
    BY <1>2 DEF From
  <2>2. CASE i \in DOMAIN shown /\ shown2[i] = shown[i]
    BY <2>1, <2>2 DEF Arrived, From
  <2>3. CASE ~ (i \in DOMAIN shown /\ shown2[i] = shown[i])
    <3>1. PICK d : /\ Joining(shown, d, shown2) /\ queue[1].msg.type = "log"
                   /\ d.from = queue[1].from /\ d.id = queue[1].msg.log.id
      BY <2>3
    <3>2. shown2[i] = d
      <4>1. /\ Len(shown) \in Nat /\ Len(shown2) = Len(shown) + 1
            /\ DOMAIN shown = 1 .. Len(shown) /\ DOMAIN shown2 = 1 .. Len(shown2)
        BY <3>1 DEF Joining
      <4>2. i \notin DOMAIN shown
        BY <2>3, <3>1 DEF Joining
      <4>3. i = Len(shown) + 1
        BY <4>1, <4>2
      <4> QED
        BY <3>1, <4>3 DEF Joining
    <3>3. 1 \in LogsAt(queue) /\ 1 \in From(queue, c) /\ x = IdAt(queue, 1)
      BY <2>1, <3>1, <3>2, LeftQueue DEF LogsAt, From, IdAt
    <3> QED
      BY <3>3 DEF Arrived
  <2> QED
    BY <2>2, <2>3
<1> QED
  BY <1>1, <1>2 DEF Arrived

LEMMA LeftNames ==
    ASSUME NEW queue \in Seq(ServerMsgs), queue # <<>>,
           NEW queue2 \in Seq(ServerMsgs), Leaving(queue, queue2),
           NEW known, NEW known2, known \subseteq known2, NamedLine(known, queue),
           \A x \in Classes : queue[1].msg = ClassMsg(x) => x \in known2
    PROVE  /\ NamedLine(known2, queue2)
           /\ known \cup AnnouncedIn(queue, Len(queue))
                \subseteq known2 \cup AnnouncedIn(queue2, Len(queue2))
<1>1. ASSUME NEW n \in Nat, NEW x \in AnnouncedIn(queue, n + 1)
      PROVE  x \in known2 \cup AnnouncedIn(queue2, n)
  <2>1. PICK i \in DOMAIN queue : i <= n + 1 /\ queue[i].msg = ClassMsg(x) /\ x \in Classes
    BY DEF AnnouncedIn
  <2>2. CASE i = 1
    BY <2>1, <2>2
  <2>3. CASE i # 1
    <3> DEFINE j == i - 1
    <3>1. j \in DOMAIN queue2 /\ queue2[j] = queue[i] /\ i \in Nat
      BY <2>3, LeftQueue
    <3>2. j <= n
      BY <2>1, <3>1
    <3> HIDE DEF j
    <3> QED
      BY <2>1, <3>1, <3>2 DEF AnnouncedIn
  <2> QED
    BY <2>2, <2>3
<1>2. ASSUME NEW i \in LogsAt(queue2)
      PROVE  queue2[i].msg.log.class \in known2 \cup AnnouncedIn(queue2, i)
  <2> DEFINE i1 == i + 1
  <2>1. i1 \in LogsAt(queue) /\ queue2[i] = queue[i1] /\ i \in Nat
    BY LeftQueue DEF LogsAt
  <2>2. \A x \in AnnouncedIn(queue, i1) : x \in known2 \cup AnnouncedIn(queue2, i)
    BY <1>1, <2>1
  <2> HIDE DEF i1
  <2>3. queue[i1].msg.log.class \in known \cup AnnouncedIn(queue, i1)
    BY <2>1 DEF NamedLine
  <2> QED
    BY <2>1, <2>2, <2>3
<1>3. known \cup AnnouncedIn(queue, Len(queue))
        \subseteq known2 \cup AnnouncedIn(queue2, Len(queue2))
  <2>1. Len(queue2) \in Nat /\ Len(queue2) + 1 = Len(queue)
    BY DEF Leaving
  <2> QED
    BY <1>1, <2>1
<1> QED
  BY <1>2, <1>3 DEF NamedLine

\* What is displayed of a log that is first in the queue.
ShownOf(m) ==
    LET log == m.msg.log IN
    [from |-> m.from, id |-> log.id, class |-> log.class, name |-> CategoryFor(log.class).name,
     index |-> IndexIn(ThreadsWith(ThreadsBefore(m), log.thread), log.thread),
     whole |-> m.whole, text |-> m.msg.text]

LEMMA ShownOfLog ==
    ASSUME StateTypeOK, OrderInv, serverQueue # <<>>, Viewing.msg.type = "log"
    PROVE  /\ ShownOf(Viewing).from = Viewing.from
           /\ ShownOf(Viewing).id = Viewing.msg.log.id
           /\ RightlyShown(pushed[Viewing.from], Counts[Viewing.from], ShownOf(Viewing))
<1> DEFINE m == Viewing  log == m.msg.log  d == ShownOf(m)  k == log.class
<1>1. /\ m = serverQueue[1] /\ m \in ServerMsgs /\ 1 \in LogsAt(serverQueue)
      /\ DOMAIN serverQueue = 1 .. Len(serverQueue)
  <2>1. serverQueue \in Seq(ServerMsgs)
    BY DEF StateTypeOK, ServerTypeOK
  <2>2. /\ m = serverQueue[1] /\ 1 \in DOMAIN serverQueue
        /\ DOMAIN serverQueue = 1 .. Len(serverQueue)
    BY <2>1 DEF Viewing
  <2>3. m \in ServerMsgs
    BY <2>1, <2>2
  <2> QED
    BY <2>2, <2>3 DEF LogsAt
<1>2. log \in LogMsgs /\ k \in Classes
  BY <1>1, ServerMsgKinds, LogFields
<1>3. /\ Sent(pushed[m.from], Counts[m.from], m.msg)
      /\ m.whole <=> Len(m.msg.text) <= PayloadSize
  BY <1>1 DEF OrderInv, Waiting
<1>4. /\ d.from = m.from /\ d.id = log.id /\ d.class = log.class /\ d.whole = m.whole
      /\ d.text = m.msg.text /\ d.name = CategoryFor(k).name
  BY DEF ShownOf
<1> HIDE DEF m, d
<1>5. k \in classes
  <2>1. k \in classes \cup AnnouncedIn(serverQueue, 1)
    BY <1>1 DEF OrderInv, Announcements, NamedLine
  <2>2. ASSUME NEW x \in AnnouncedIn(serverQueue, 1) PROVE FALSE
    <3>1. PICK i \in DOMAIN serverQueue : i <= 1 /\ serverQueue[i].msg = ClassMsg(x)
      BY <2>2 DEF AnnouncedIn
    <3>2. i = 1
      BY <1>1, <3>1
    <3> QED
      BY <1>1, <3>1, <3>2 DEF ClassMsg, LogsAt
  <2> QED
    BY <2>1, <2>2
<1>6. d.name # ""
  <2>1. CASE k \in DOMAIN m_classIdToCategory
    <3>1. CategoryFor(k).name = m_classIdToCategory[k]
      BY <2>1 DEF CategoryFor, StateTypeOK, ServerTypeOK
    <3> QED
      BY <1>4, <2>1, <3>1 DEF OrderInv, Announcements
  <2>2. CASE k \notin DOMAIN m_classIdToCategory
    BY <1>2, <1>4, <1>5, <2>2, ServerAssumption DEF CategoryFor, Unfiltered
  <2> QED
    BY <2>1, <2>2
<1>7. RightlyShown(pushed[m.from], Counts[m.from], d)
  <2>1. PICK i \in DOMAIN pushed[m.from] :
          i <= Counts[m.from] /\ pushed[m.from][i] = log
    BY <1>3 DEF Sent
  <2>2. ~ log.event.pointer => m.msg.text = TextOf(log, log.id)
    BY <1>3 DEF Sent
  <2> QED
    BY <1>3, <1>4, <1>6, <2>1, <2>2 DEF RightlyShown
<1> QED
  BY <1>4, <1>7 DEF m, d

\* What a message makes the server know, and show.
LEMMA HandledFirst ==
    ASSUME StateTypeOK, OrderInv, HandleMessage
    PROVE  /\ classes \subseteq classes'
           /\ \A x \in Classes : Viewing.msg = ClassMsg(x) => x \in classes'
           /\ \A x \in DOMAIN m_classIdToCategory' : m_classIdToCategory'[x] # ""
           /\ \/ display' = display
              \/ /\ Viewing.msg.type = "log"
                 /\ display' = Append(display, ShownOf(Viewing))
<1> DEFINE m == Viewing
<1>1. serverQueue # <<>> /\ m \in ServerMsgs
  <2>1. serverQueue \in Seq(ServerMsgs) /\ serverQueue # <<>>
    BY DEF HandleMessage, StateTypeOK, ServerTypeOK
  <2> QED
    BY <2>1 DEF Viewing
<1>2. \A x \in DOMAIN m_classIdToCategory : m_classIdToCategory[x] # ""
  BY DEF OrderInv, Announcements
<1>3. \A x \in Classes : ClassMsg(x).type = "class" /\ ClassMsg(x).class = x
  BY DEF ClassMsg
<1>4. CASE m.msg.type = "log"
  <2>1. Display(m) /\ UNCHANGED <<classes, m_categoryMap, m_classIdToCategory>>
    BY <1>4 DEF HandleMessage
  <2>2. display' = display \/ display' = Append(display, ShownOf(m))
    BY <2>1 DEF Display, ShownOf
  <2>3. \A x \in Classes : m.msg # ClassMsg(x)
    BY <1>3, <1>4
  <2> HIDE DEF m
  <2>4. classes \subseteq classes' /\ m_classIdToCategory' = m_classIdToCategory
    BY <2>1
  <2> QED
    BY <1>2, <1>4, <2>2, <2>3, <2>4 DEF m
<1>5. CASE m.msg.type = "class"
  <2>1. classes' = classes \cup {m.msg.class}
        /\ UNCHANGED <<m_categoryMap, m_classIdToCategory, m_threads, display>>
    BY <1>5 DEF HandleMessage
  <2> HIDE DEF m
  <2>2. \A x \in Classes : m.msg = ClassMsg(x) => x \in classes'
    BY <1>3, <2>1
  <2>3. classes \subseteq classes' /\ m_classIdToCategory' = m_classIdToCategory
    BY <2>1
  <2> QED
    BY <1>2, <2>1, <2>2, <2>3 DEF m
<1>6. CASE m.msg.type = "category"
  <2> DEFINE k == m.msg.class
  <2>1. k \in Classes \cap DOMAIN CategoryOf
    BY <1>1, <1>6, ServerMsgKinds
  <2>2. /\ m_classIdToCategory' = ClassesWith(k, CategoryOf[k])
        /\ UNCHANGED <<classes, m_threads, display>>
    BY <1>6 DEF HandleMessage
  <2>3. CategoryOf[k] # ""
    BY <2>1, ServerAssumption
  <2>4. \A x \in Classes : m.msg # ClassMsg(x)
    BY <1>3, <1>6
  <2> HIDE DEF k, m
  <2>5. \A x \in DOMAIN m_classIdToCategory' : m_classIdToCategory'[x] # ""
    BY <1>2, <2>2, <2>3 DEF ClassesWith
  <2> QED
    BY <2>2, <2>4, <2>5 DEF m
<1> QED
  BY <1>1, <1>4, <1>5, <1>6, ServerMsgKinds

LEMMA HandleMessageOrder ==
    ASSUME StateTypeOK, StateTypeOK', OrderInv, NobodyComesBack, plan' = plan, HandleMessage
    PROVE  OrderInv'
<1> DEFINE m == Viewing
<1>1. /\ serverQueue # <<>> /\ serverQueue \in Seq(ServerMsgs) /\ serverQueue' \in Seq(ServerMsgs)
      /\ display \in Seq(Displayed) /\ display' \in Seq(Displayed)
      /\ m = serverQueue[1]
  BY DEF HandleMessage, Viewing, StateTypeOK, ServerTypeOK
<1>2. Leaving(serverQueue, serverQueue')
  <2>1. serverQueue' = Tail(serverQueue)
    BY DEF HandleMessage
  <2> QED
    BY <1>1, <2>1 DEF Leaving
<1>3. /\ UNCHANGED <<serving, data>>
      /\ UNCHANGED <<m_queue, m_clientCount, main, runner, session, locations, stream, wire, out>>
      /\ UNCHANGED <<text, pushing, pushed, handled>>
  BY DEF HandleMessage, clientVars, connectionVars, sessionVars, queueVars, loggerVars, runnerVars
<1>4. /\ classes \subseteq classes' /\ \A x \in Classes : m.msg = ClassMsg(x) => x \in classes'
      /\ \A x \in DOMAIN m_classIdToCategory' : m_classIdToCategory'[x] # ""
      /\ \/ display' = display
         \/ m.msg.type = "log" /\ display' = Append(display, ShownOf(m))
  BY HandledFirst
<1>5. display' # display =>
        /\ m.msg.type = "log" /\ Joining(display, ShownOf(m), display')
        /\ ShownOf(m).from = m.from /\ ShownOf(m).id = m.msg.log.id
        /\ RightlyShown(pushed[m.from], Counts[m.from], ShownOf(m))
  <2> DEFINE d == ShownOf(m)
  <2> SUFFICES ASSUME display' # display
               PROVE  /\ m.msg.type = "log" /\ Joining(display, d, display')
                      /\ d.from = m.from /\ d.id = m.msg.log.id
                      /\ RightlyShown(pushed[m.from], Counts[m.from], d)
    OBVIOUS
  <2>1. m.msg.type = "log" /\ display' = Append(display, d)
    BY <1>4
  <2>2. /\ d.from = m.from /\ d.id = m.msg.log.id
        /\ RightlyShown(pushed[m.from], Counts[m.from], d)
    BY <1>1, <2>1, ShownOfLog
  <2> HIDE DEF d, m
  <2>3. Joining(display, d, display')
    BY <1>1, <2>1 DEF Joining
  <2> QED
    BY <2>1, <2>2, <2>3
<1> HIDE DEF m
<1>6. AllNumbers' /\ AllStreams'
  <2>1. \A l \in Connections : stream[l] \in {"none", "dead"} => wire[l] = <<>>
    BY DEF OrderInv, AllStreams, Streams, StreamOK, Connections
  <2>2. \A l \in Connections : serving' = l => stream[l] # "none"
    BY <1>3 DEF OrderInv, AllStreams
  <2> QED
    BY <1>3, <2>1, <2>2, NumbersKept, StreamsKept DEF OrderInv
<1>7. \A l \in Connections : Line(l)' = Line(l)
  BY <1>3 DEF Line
<1>8. SoundLines' /\ Sessions'
  BY <1>3, <1>7 DEF OrderInv, SoundLines, Sessions
<1>9. Arriving'
  <2> SUFFICES ASSUME NEW l \in Connections,
                      NEW x \in Arrived(serverQueue', display', l[1]), NEW y \in IdsIn(Line(l))
               PROVE  Before(pushed[l[1]], x, y)
    BY <1>3, <1>7 DEF Arriving
  <2>1. \/ display' = display
        \/ \E d : /\ Joining(display, d, display') /\ serverQueue[1].msg.type = "log"
                  /\ d.from = serverQueue[1].from /\ d.id = serverQueue[1].msg.log.id
    BY <1>1, <1>5
  <2>2. x \in Arrived(serverQueue, display, l[1])
    BY <1>1, <1>2, <2>1, LeftArrived
  <2> QED
    BY <2>2 DEF OrderInv, Arriving
<1>10. Waiting(pushed, Counts, serverQueue') /\ Shown(pushed, Counts, display', serverQueue')
  <2>1. Waiting(pushed, Counts, serverQueue) /\ Shown(pushed, Counts, display, serverQueue)
    BY DEF OrderInv
  <2>2. CASE display' = display
    BY <1>1, <1>2, <2>1, <2>2, LeftWaiting, LeftShown
  <2>3. CASE display' # display
    <3> DEFINE d == ShownOf(m)
    <3>1. /\ Joining(display, d, display') /\ serverQueue[1].msg.type = "log"
          /\ d.from = serverQueue[1].from /\ d.id = serverQueue[1].msg.log.id
          /\ RightlyShown(pushed[d.from], Counts[d.from], d)
      BY <1>1, <1>5, <2>3
    <3> HIDE DEF d
    <3> QED
      BY <1>1, <1>2, <2>1, <3>1, LeftWaiting, FirstShown
  <2> QED
    BY <2>2, <2>3
<1>11. Counts' = Counts
  BY <1>3 DEF Counts
<1>12. Announcements'
  <2> DEFINE known2 == classes' \cup AnnouncedIn(serverQueue', Len(serverQueue'))
  <2>1. NamedLine(classes, serverQueue)
    BY DEF OrderInv, Announcements
  <2>2. NamedLine(classes', serverQueue') /\ Known \subseteq known2
    BY <1>1, <1>2, <1>4, <2>1, LeftNames DEF Known
  <2>3. Known' = known2
    BY DEF Known
  <2> HIDE DEF known2
  <2>4. ASSUME NEW l \in Connections
        PROVE  /\ NamedLine(known2, Line(l)')
               /\ stream[l] = "open" =>
                    locations[l[1]] \subseteq known2 \cup AnnouncedIn(Line(l)', Len(Line(l)'))
    <3>1. /\ NamedLine(Known, Line(l))
          /\ stream[l] = "open" =>
               locations[l[1]] \subseteq Known \cup AnnouncedIn(Line(l), Len(Line(l)))
      BY DEF OrderInv, Announcements
    <3>2. NamedLine(known2, Line(l))
      BY <2>2, <3>1, NamedMore
    <3>3. Line(l)' = Line(l)
      BY <1>7
    <3> QED
      BY <2>2, <3>1, <3>2, <3>3
  <2> QED
    BY <1>3, <1>4, <2>2, <2>3, <2>4 DEF Announcements
<1>13. Waiting(pushed', Counts', serverQueue') /\ Shown(pushed', Counts', display', serverQueue')
  BY <1>3, <1>10, <1>11
<1> QED
  BY <1>6, <1>8, <1>9, <1>12, <1>13 DEF OrderInv

-----------------------------------------------------------------------------
(* All of the order.                                                        *)

LEMMA InitialOrder ==
    ASSUME Init
    PROVE  OrderInv
<1> USE DEF Init, ClientInit, ServerInit
<1>1. AllNumbers
  <2> SUFFICES ASSUME NEW c \in Clients PROVE Numbers(c)
    BY DEF AllNumbers
  <2>1. pushed[c] = <<>> /\ \A t \in Threads : pushing[c][t] = Nothing /\ text[c][t] = 0
    OBVIOUS
  <2>2. Logs = {}
    <3> SUFFICES ASSUME NEW i \in Logs PROVE FALSE
      OBVIOUS
    <3>1. i \in 1 .. plan.logs /\ \E d \in Clients, t \in Threads : text[d][t] >= i
      BY DEF Logs
    <3>2. \A d \in Clients, t \in Threads : text[d][t] = 0
      OBVIOUS
    <3>3. plan.logs \in Nat
      BY PlansAssumption
    <3> QED
      BY <3>1, <3>2, <3>3
  <2>3. Cardinality(Logs) = 0
    BY <2>2, FS_EmptySet
  <2> QED
    BY <2>1, <2>3 DEF Numbers, Distinct
<1>2. AllStreams
  BY ServerAssumption DEF AllStreams, Streams, StreamOK, Connections
<1>3. ASSUME NEW k \in Connections PROVE Line(k) = <<>> /\ stream[k] = "none"
  <2>1. serving # k /\ wire[k] = <<>> /\ stream[k] = "none"
    BY ServerAssumption
  <2> QED
    BY <2>1 DEF Line
<1>4. SoundLines
  <2>1. GoodLine(<<>>, 0, <<>>)
    BY DEF GoodLine, Framed, LogsAt
  <2>2. ASSUME NEW k \in Connections PROVE GoodLine(pushed[k[1]], Len(handled[k[1]]), Line(k))
    BY <1>3 DEF GoodLine, Framed, LogsAt
  <2> QED
    BY <1>3, <2>2 DEF SoundLines
<1>5. Sessions
  BY <1>3, NoIdsIn DEF Sessions
<1>6. Arriving
  BY <1>3, NoIdsIn DEF Arriving
<1>7. Waiting(pushed, Counts, serverQueue) /\ Shown(pushed, Counts, display, serverQueue)
  BY DEF Waiting, Shown, LogsAt
<1>8. Announcements
  <2>1. NamedLine(classes, serverQueue)
    BY DEF NamedLine, LogsAt
  <2>2. \A k \in Connections : NamedLine(Known, Line(k))
    BY <1>3 DEF NamedLine, LogsAt
  <2> QED
    BY <1>3, <2>1, <2>2 DEF Announcements
<1> QED
  BY <1>1, <1>2, <1>4, <1>5, <1>6, <1>7, <1>8 DEF OrderInv

\* Waiting in line changes nothing of it.
LEMMA RestingOrder ==
    ASSUME OrderInv, Rests, NobodyComesBack
    PROVE  OrderInv'
<1> USE DEF Rests, connectionVars, sessionVars, loggerVars, runnerVars
<1>1. AllNumbers' /\ AllStreams'
  <2>1. \A l \in Connections : stream[l] \in {"none", "dead"} => wire[l] = <<>>
    BY DEF OrderInv, AllStreams, Streams, StreamOK, Connections
  <2>2. \A l \in Connections : serving' = l => stream[l] # "none"
    BY DEF OrderInv, AllStreams
  <2> QED
    BY <2>1, <2>2, NumbersKept, StreamsKept DEF OrderInv
<1>2. \A l \in Connections : Line(l)' = Line(l)
  BY DEF Line
<1>3. Counts' = Counts /\ Known' = Known
  BY DEF Counts, Known
<1>4. SoundLines' /\ Sessions' /\ Arriving' /\ Announcements'
  BY <1>2, <1>3 DEF OrderInv, SoundLines, Sessions, Arriving, Announcements
<1>5. Waiting(pushed', Counts', serverQueue') /\ Shown(pushed', Counts', display', serverQueue')
  BY <1>3 DEF OrderInv
<1> QED
  BY <1>1, <1>4, <1>5 DEF OrderInv

LEMMA OrderPreserved ==
    ASSUME StateTypeOK, LinesTypeOK, ClientInv, OrderInv, [Next]_vars
    PROVE  OrderInv'
<1>0. StateTypeOK'
  BY Preserved
<1>n. NobodyComesBack
  BY LinesKept DEF NobodyComesBack
<1>1. CASE ServerNext
  <2>1. plan' = plan
    BY <1>1 DEF ServerNext
  <2>2. WaitToPush => OrderInv'
    BY <1>n, <2>1, WaitToPushRests, RestingOrder
  <2> QED
    BY <1>0, <1>n, <1>1, <2>1, <2>2, AcceptOrder, ReadSomeOrder, EndSessionOrder,
       PushMessageOrder, HandleMessageOrder DEF ServerNext, ServerStep
<1>2. CASE ClientNext /\ UNCHANGED serverVars
  <2>1. plan' = plan
    BY <1>2, ClientSteps
  <2>2. ASSUME NEW c \in Clients, ClientStep(c) PROVE OrderInv'
    BY <1>0, <1>n, <1>2, <2>1, <2>2, ClientStepOrder
  <2>3. ASSUME NEW k \in Connections, Break(k) PROVE OrderInv'
    BY <1>0, <1>n, <1>2, <2>1, <2>3, BreakOrder
  <2>4. ASSUME NEW c \in Clients, Die(c) PROVE OrderInv'
    BY <1>0, <1>n, <1>2, <2>1, <2>4, DieOrder
  <2>5. ASSUME NEW c \in Clients, WaitStep(c) PROVE OrderInv'
    BY <1>n, <1>2, <2>1, <2>5, WaitStepRests, RestingOrder
  <2> QED
    BY <1>2, <2>2, <2>3, <2>4, <2>5, ClientSteps
<1>3. CASE UNCHANGED vars
  BY <1>n, <1>3, StutterRests, RestingOrder
<1> QED
  BY <1>1, <1>2, <1>3 DEF Next

\* The place of a log among those pushed is one only.
LEMMA OnePlace ==
    ASSUME AllNumbers, NEW c \in Clients, NEW i \in DOMAIN pushed[c]
    PROVE  PlaceOf(c, pushed[c][i].id) = i
<1>1. \A j \in DOMAIN pushed[c] : pushed[c][j].id = pushed[c][i].id => j = i
  BY DEF AllNumbers, Numbers, Distinct
<1> QED
  BY <1>1 DEF PlaceOf

LEMMA ShownInOrderOfLogs ==
    ASSUME StateTypeOK, OrderInv
    PROVE  ShownAsLogged
<1>1. ASSUME NEW i \in DOMAIN display
      PROVE  LET d == display[i]  p == PlaceOf(d.from, d.id)  log == pushed[d.from][p] IN
             /\ d.from \in Clients /\ p \in DOMAIN pushed[d.from]
             /\ d.id \in {pushed[d.from][n].id : n \in DOMAIN pushed[d.from]}
             /\ d.name # "" /\ d.class = log.class
             /\ ~ log.event.pointer => d.text = TextOf(log, log.id)
             /\ d.whole <=> Len(d.text) <= PayloadSize
  <2> DEFINE d == display[i]
  <2>1. RightlyShown(pushed[d.from], Counts[d.from], d) /\ d.from \in Clients
    BY FromClients DEF OrderInv, Shown
  <2> HIDE DEF d
  <2>2. PICK n \in DOMAIN pushed[d.from] :
          /\ pushed[d.from][n].id = d.id /\ pushed[d.from][n].class = d.class
          /\ ~ pushed[d.from][n].event.pointer =>
               d.text = TextOf(pushed[d.from][n], pushed[d.from][n].id)
    BY <2>1 DEF RightlyShown
  <2>3. PlaceOf(d.from, d.id) = n
    BY <2>1, <2>2, OnePlace DEF OrderInv
  <2> QED
    BY <2>1, <2>2, <2>3 DEF RightlyShown, d
<1>2. ASSUME NEW i \in DOMAIN display, NEW j \in DOMAIN display, i < j,
             display[j].from = display[i].from
      PROVE  PlaceOf(display[i].from, display[i].id) < PlaceOf(display[i].from, display[j].id)
  <2> DEFINE c == display[i].from
  <2>1. Before(pushed[c], display[i].id, display[j].id) /\ c \in Clients
    BY <1>2, FromClients DEF OrderInv, Shown
  <2>2. PICK n \in DOMAIN pushed[c], p \in DOMAIN pushed[c] :
          n < p /\ pushed[c][n].id = display[i].id /\ pushed[c][p].id = display[j].id
    BY <2>1 DEF Before
  <2> HIDE DEF c
  <2>3. PlaceOf(c, display[i].id) = n /\ PlaceOf(c, display[j].id) = p
    BY <2>1, <2>2, OnePlace DEF OrderInv
  <2> QED
    BY <2>2, <2>3 DEF c
<1>3. ShownInOrder
  BY <1>1, <1>2 DEF ShownInOrder
<1> QED
  BY <1>1, <1>3 DEF ShownAsLogged

\* What a program logs is shown in the order it was queued in, each log once at most, with
\* its text, of a class that is known by then, whole unless it is too long for the server:
\* whatever runners, streams, sessions and their failures there are, of any programs.
THEOREM AlwaysShownAsLogged == Spec => []ShownAsLogged
<1>1. Init => OrderInv
  BY InitialOrder
<1>2. StateTypeOK /\ LinesTypeOK /\ ClientInv /\ OrderInv /\ [Next]_vars => OrderInv'
  BY OrderPreserved
<1>3. StateTypeOK /\ OrderInv => ShownAsLogged
  BY ShownInOrderOfLogs
<1> QED
  BY <1>1, <1>2, <1>3, Invariance, LinesInvariance, PTL DEF Spec

-----------------------------------------------------------------------------
(* What the options hide.                                                   *)

\* The categories that the options name stay as these set them up.
OptionsKept ==
    \A n \in DOMAIN CategoryMap(Configured) :
      n \in DOMAIN m_categoryMap /\ m_categoryMap[n] = CategoryMap(Configured)[n]

LetThrough(logs, d) ==
    d.name \in NamesIn(Hide) =>
      \E i \in DOMAIN logs : logs[i].id = d.id /\ IsWarningOrFatal(logs[i].level)

HiddenInv ==
    OptionsKept /\ \A i \in DOMAIN display : LetThrough(pushed[display[i].from], display[i])

LEMMA InitialHidden ==
    ASSUME Init
    PROVE  HiddenInv
  BY DEF Init, ServerInit, HiddenInv, OptionsKept

\* What is displayed of a hidden category is a warning, or worse.
LEMMA ShownIsLetThrough ==
    ASSUME StateTypeOK, OrderInv, OptionsKept, HideTakesEffect, serverQueue # <<>>,
           Viewing.msg.type = "log",
           IsShown(CategoryFor(Viewing.msg.log.class), Viewing.msg.log.level)
    PROVE  LetThrough(pushed[ShownOf(Viewing).from], ShownOf(Viewing))
<1> DEFINE m == Viewing  log == m.msg.log  d == ShownOf(m)  k == log.class
<1>1. d.from = m.from /\ d.id = log.id /\ d.name = CategoryFor(k).name
  BY DEF ShownOf
<1>2. d.name # ""
  BY ShownOfLog DEF RightlyShown
<1>3. \E i \in DOMAIN pushed[m.from] : pushed[m.from][i] = log
  <2>1. 1 \in LogsAt(serverQueue) /\ m = serverQueue[1]
    BY DEF LogsAt, Viewing, StateTypeOK, ServerTypeOK
  <2>2. Sent(pushed[m.from], Counts[m.from], m.msg)
    BY <2>1 DEF OrderInv, Waiting
  <2> QED
    BY <2>2 DEF Sent
<1>4. k \in Classes
  <2>1. m \in ServerMsgs
    BY DEF Viewing, StateTypeOK, ServerTypeOK
  <2> QED
    BY <2>1, ServerMsgKinds, LogFields
<1> DEFINE category == CategoryFor(k)
<1>5. category.name \in NamesIn(Hide) => category.filter
  <2>1. CASE k \in DOMAIN m_classIdToCategory
    <3> DEFINE n == m_classIdToCategory[k]
    <3>1. category = m_categoryMap[n] /\ category.name = n
      BY <2>1 DEF CategoryFor, StateTypeOK, ServerTypeOK
    <3> HIDE DEF n, category
    <3> QED
      BY <3>1 DEF OptionsKept, HideTakesEffect
  <2>2. CASE k \notin DOMAIN m_classIdToCategory
    <3>1. category.name \in {k, ""}
      BY <2>2 DEF CategoryFor, Unfiltered
    <3>2. category.name # ""
      BY <1>1, <1>2
    <3> HIDE DEF category
    <3> QED
      BY <1>4, <3>1, <3>2 DEF HideTakesEffect
  <2> QED
    BY <2>1, <2>2
<1>6. d.name \in NamesIn(Hide) => IsWarningOrFatal(log.level)
  <2>1. IsShown(category, log.level) /\ d.name = category.name
    BY <1>1
  <2> HIDE DEF category, d, log
  <2> QED
    BY <1>5, <2>1 DEF IsShown
<1> HIDE DEF m, d
<1> QED
  BY <1>1, <1>3, <1>6 DEF LetThrough, m, d

LEMMA HiddenKept ==
    ASSUME HiddenInv, StateTypeOK, UNCHANGED <<m_categoryMap, display>>,
           \A c \in Clients : Behind(pushed[c], pushed'[c]),
           \A c \in Clients : pushed[c] \in Seq(LogMsgs) /\ pushed'[c] \in Seq(LogMsgs)
    PROVE  HiddenInv'
<1>1. OptionsKept'
  BY DEF HiddenInv, OptionsKept
<1>2. ASSUME NEW i \in DOMAIN display PROVE LetThrough(pushed'[display[i].from], display[i])
  <2> DEFINE c == display[i].from  d == display[i]
  <2>1. LetThrough(pushed[c], d) /\ c \in Clients
    BY FromClients DEF HiddenInv
  <2>2. \A n \in DOMAIN pushed[c] : n \in DOMAIN pushed'[c] /\ pushed'[c][n] = pushed[c][n]
    BY <2>1, BehindDomain
  <2> HIDE DEF c, d
  <2>3. LetThrough(pushed'[c], d)
    BY <2>1, <2>2 DEF LetThrough
  <2> QED
    BY <2>3 DEF c, d
<1> QED
  BY <1>1, <1>2 DEF HiddenInv

LEMMA HandledHidden ==
    ASSUME StateTypeOK, StateTypeOK', OrderInv, HiddenInv, HideTakesEffect, HandleMessage
    PROVE  HiddenInv'
<1> DEFINE m == Viewing  d == ShownOf(m)
<1>1. pushed' = pushed /\ serverQueue # <<>> /\ display \in Seq(Displayed)
  BY DEF HandleMessage, clientVars, loggerVars, StateTypeOK, ServerTypeOK
<1>2. OptionsKept'
  <2>1. CASE m_categoryMap' = m_categoryMap
    BY <2>1 DEF HiddenInv, OptionsKept
  <2>2. CASE \E name : m_categoryMap' = CategoriesWith(name)
    <3>1. \A n \in DOMAIN m_categoryMap :
            n \in DOMAIN m_categoryMap' /\ m_categoryMap'[n] = m_categoryMap[n]
      BY <2>2 DEF CategoriesWith
    <3> QED
      BY <3>1 DEF HiddenInv, OptionsKept
  <2>3. m_categoryMap' = m_categoryMap \/ \E name : m_categoryMap' = CategoriesWith(name)
    <3>1. Viewing.msg.type \in {"log", "class", "category"}
      <4>1. Viewing \in ServerMsgs
        BY <1>1 DEF Viewing, StateTypeOK, ServerTypeOK
      <4> QED
        BY <4>1, ServerMsgKinds
    <3>2. CASE Viewing.msg.type = "category"
      BY <3>2 DEF HandleMessage
    <3>3. CASE Viewing.msg.type \in {"log", "class"}
      BY <3>3 DEF HandleMessage
    <3> QED
      BY <3>1, <3>2, <3>3
  <2> QED
    BY <2>1, <2>2, <2>3
<1>3. \/ display' = display
      \/ display' = Append(display, d) /\ LetThrough(pushed[d.from], d)
  <2>1. CASE m.msg.type = "log"
    <3>1. Display(m)
      BY <2>1 DEF HandleMessage
    <3>2. \/ display' = display
          \/ IsShown(CategoryFor(m.msg.log.class), m.msg.log.level) /\ display' = Append(display, d)
      BY <3>1 DEF Display, ShownOf
    <3>3. IsShown(CategoryFor(m.msg.log.class), m.msg.log.level) => LetThrough(pushed[d.from], d)
      BY <1>1, <2>1, ShownIsLetThrough DEF HiddenInv
    <3> QED
      BY <3>2, <3>3
  <2>2. CASE m.msg.type # "log"
    <3>1. display' = display \/ m.msg.type = "log"
      BY HandledFirst
    <3> QED
      BY <2>2, <3>1
  <2> QED
    BY <2>1, <2>2
<1> HIDE DEF m, d
<1>4. ASSUME NEW i \in DOMAIN display' PROVE LetThrough(pushed[display'[i].from], display'[i])
  <2>1. CASE i \in DOMAIN display /\ display'[i] = display[i]
    BY <2>1 DEF HiddenInv
  <2>2. CASE display'[i] = d /\ display' # display
    BY <1>3, <2>2
  <2>3. \/ i \in DOMAIN display /\ display'[i] = display[i]
        \/ display'[i] = d /\ display' # display
    <3>1. CASE display' = display
      BY <3>1
    <3>2. CASE display' # display
      <4>1. display' = Append(display, d)
        BY <1>3, <3>2
      <4>2. \A j \in DOMAIN Append(display, d) :
              \/ j \in DOMAIN display /\ Append(display, d)[j] = display[j]
              \/ Append(display, d)[j] = d
        BY <1>1
      <4> QED
        BY <3>2, <4>1, <4>2
    <3> QED
      BY <3>1, <3>2
  <2> QED
    BY <2>1, <2>2, <2>3
<1> QED
  BY <1>1, <1>2, <1>4 DEF HiddenInv

LEMMA HiddenPreserved ==
    ASSUME StateTypeOK, ClientInv, OrderInv, HiddenInv, HideTakesEffect, [Next]_vars
    PROVE  HiddenInv'
<1>0. StateTypeOK'
  BY Preserved
<1>t. \A c \in Clients : pushed[c] \in Seq(LogMsgs) /\ pushed'[c] \in Seq(LogMsgs)
  BY <1>0 DEF StateTypeOK, ClientTypeOK
<1>s. pushed' = pushed => \A c \in Clients : Behind(pushed[c], pushed'[c])
  <2>1. \A c \in Clients : Behind(pushed[c], pushed[c])
    BY <1>t DEF Behind
  <2> QED
    BY <2>1
<1>1. CASE HandleMessage
  BY <1>0, <1>1, HandledHidden
<1>2. CASE UNCHANGED <<m_categoryMap, display>> /\ pushed' = pushed
  BY <1>2, <1>s, <1>t, HiddenKept
<1>3. ASSUME NEW c \in Clients, ClientStep(c), UNCHANGED serverVars PROVE HiddenInv'
  <2>1. Grows(pushed, Counts, pushed', Counts')
    BY <1>0, <1>3, LogsGrow
  <2>2. UNCHANGED <<m_categoryMap, display>>
    BY <1>3 DEF serverVars
  <2> QED
    BY <1>t, <2>1, <2>2, HiddenKept DEF Grows
<1>4. ServerNext => HandleMessage \/ (UNCHANGED <<m_categoryMap, display>> /\ pushed' = pushed)
  BY DEF ServerNext, ServerStep, Accept, ReadSome, WaitToPush, ChangeServerLine, PushMessage,
         EndSession, clientVars, loggerVars
<1>5. ASSUME NEW k \in Connections, Break(k), UNCHANGED serverVars
      PROVE  UNCHANGED <<m_categoryMap, display>> /\ pushed' = pushed
  BY <1>5 DEF Break, serverVars, loggerVars
<1>6. Rests => UNCHANGED <<m_categoryMap, display>> /\ pushed' = pushed
  BY DEF Rests, loggerVars
<1>7. ASSUME NEW c \in Clients, Die(c), UNCHANGED serverVars
      PROVE  UNCHANGED <<m_categoryMap, display>> /\ pushed' = pushed
  BY <1>7 DEF Die, serverVars, loggerVars
<1>8. ASSUME ClientNext, UNCHANGED serverVars PROVE HiddenInv'
  <2>1. plan' = plan
    BY <1>8, ClientSteps
  <2> QED
    BY <1>2, <1>3, <1>5, <1>6, <1>7, <1>8, <2>1, WaitStepRests, ClientSteps
<1> QED
  BY <1>1, <1>2, <1>4, <1>6, <1>8, StutterRests DEF Next

\* Of a category that --hide names, only warnings and worse are displayed, for any programs
\* that define it, or log of its classes: none of them can change what the options set up.
THEOREM HiddenAlwaysHidden ==
    ASSUME HideTakesEffect
    PROVE  Spec => []HiddenStaysHidden
<1>1. Init => OrderInv /\ HiddenInv
  BY InitialOrder, InitialHidden
<1>2. StateTypeOK /\ LinesTypeOK /\ ClientInv /\ OrderInv /\ HiddenInv /\ [Next]_vars
        => (OrderInv /\ HiddenInv)'
  BY OrderPreserved, HiddenPreserved
<1>3. StateTypeOK /\ OrderInv /\ HiddenInv => HiddenStaysHidden
  <2> SUFFICES ASSUME StateTypeOK, OrderInv, HiddenInv, NEW i \in DOMAIN display,
                      display[i].name \in NamesIn(Hide)
               PROVE  IsWarningOrFatal(LevelOf(display[i]))
    BY DEF HiddenStaysHidden
  <2> DEFINE d == display[i]
  <2>1. d.from \in Clients /\ LetThrough(pushed[d.from], d)
    BY FromClients DEF HiddenInv
  <2>2. PICK n \in DOMAIN pushed[d.from] :
          pushed[d.from][n].id = d.id /\ IsWarningOrFatal(pushed[d.from][n].level)
    BY <2>1 DEF LetThrough
  <2> HIDE DEF d
  <2>3. PlaceOf(d.from, d.id) = n
    BY <2>1, <2>2, OnePlace DEF OrderInv
  <2> QED
    BY <2>2, <2>3 DEF LevelOf, d
<1> QED
  BY <1>1, <1>2, <1>3, Invariance, LinesInvariance, PTL DEF Spec
=============================================================================
