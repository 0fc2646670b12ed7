# A verification of epigram

`src/source` is a C++ library: `Epigram`, a key/value container that is one run
of bytes, and the concurrency, tracing and platform layers it grew up with.
This directory holds TLA+ models of its stateful parts, the TLC runs that check
them on small instances, and TLAPS proofs of what holds for every instance.

    tlc -workers 2 -config MCLibrary.cfg MCLibrary     # any MC*.cfg with its MC*.tla
    tlapm LibraryProofs.tla                            # any *Proofs.tla

1. [The system](#1-the-system)
2. [The modules](#2-the-modules)
3. [The runs, their bounds and their fairness](#3-the-runs)
4. [The proofs](#4-the-proofs)
5. [What the work showed about the code](#5-what-the-work-showed-about-the-code)
6. [What is not modelled, and the plan](#6-what-is-not-modelled-and-the-plan)

## 1. The system

Paths are below `src/source`. `PROJECT.json` lists every component, also those
without a model, and the hazards of each at their lines.

| component | state | operations | what is hard | what makes it right |
|---|---|---|---|---|
| `serialization/Epigram.hpp` | the bytes, in the object or on the heap; a sequence number; handles that point into the bytes | `()`, `[]`, `=`, `Erase`, `Load`, `Merge`, `+=`, move, iteration | handles outlive the bytes they point to; a format read backwards; buffers that change owner | a stale handle is recognised; the bytes are the entries; one owner per buffer |
| `concurrent/JdAtomicBankSwitch` | one atomic word (signal, bank), three banks | acquire and release of the write bank, `GetReadBank` | lock-free; weak exchanges | no torn read, no older value, the last one arrives |
| `concurrent/JdMessageQueue.hpp` | insert, commit and claim sequences, a ring, `m_signalCount`, a semaphore, failed tickets, two locks | `Push` (timed or not), `Pop`, `PopWait`, `WaitForMessages`, `TimedWaitForMessages`, `ClaimMessages`, `ReleaseMessage(s)` | many producers commit in ticket order; counting and signalling apart; time-outs | a bounded FIFO queue; an exact count; no lost wake-up |
| `concurrent/JdSemaphore.hpp` | count, mutex, condition variable | signal, waits, timed waits, "remain locked" | barging, spurious wake-ups, time-outs | no permit beside a sleeper |
| `concurrent/JdThread.hpp` | per thread: `m_state`, `m_exited`, `m_runResult`, `std::thread`, `m_threadReady`; a pool | `Start`, `Stop`, `Reset`, `CreateThread`, grooming | two sides without a lock; a bounded wait in `Stop` | what is quit is joined, torn down with its result, and was dead |
| `concurrent/JdTaskPool` | workers, a queue of tasks, batches and a free list | `CreateBatch`, submit, `FinishBatch`, `jd::task`, `Stop`, `Start` | batches reused; null tasks; waits inside tasks | a finished batch has run; nothing of a batch survives it; `Stop` sends everyone home |
| `concurrent/JdMarshall.hpp` (`JdTasks`) | task queue, reply queue, a thread, `m_quit` | calls with and without reply, `ProcessReplies`, `Stop` | two bounded queues in a ring; batches released late | run once, in order; `Stop` drains |
| `concurrent/JdFiber.hpp` | per fiber: status, context, who transferred to it; the active fiber | `CreateFiber`, `Run`, `Yield`, `YieldTo`, `Terminate`, `ReleaseFiber` | contexts are good for one jump | the fibers are coroutines |
| `serialization/`: values | a payload: the bytes of one or more items behind a header | store, fetch as the same or another type, raw fetch, serializers of objects | read from either end; classes of other versions; casts | what is stored is fetched |
| `utils/JdSignalSlot.hpp` | a ring of reference-counted links | connect, disconnect, clear, copy, emit | callbacks that do all of these while it emits | no freed link is followed; who was connected and stays so is called once |
| `structures/JdCircularAllocator.hpp` | a ring of chunks, two indices, threads asleep for room | `Allocate`, `Release`, `Resize` | releases out of order; indices that wrap; wake-ups | chunks are apart; released space comes back; no sleeper is forgotten |
| `structures/`: list, cache, pool, graph | doubly linked lists; records in one of two of them; blocks; nodes and their parents | insert, acquire, release, flush, erase, clone | a record is reused while references to it are kept | each list is what it should be, both ways; the sums are right |
| `trace/`: the library | sessions, categories, a queue, a thread, a stream | `Connect`, `DefineCategory`, log, `Quit` | many threads log into one queue and go on; the stream breaks; a log throws | logged once, in order, as it was; `Quit` flushes and returns |
| `trace/server/` | the stream's bytes, a queue, maps of classes, categories, threads | accept, read, show | classes and threads known by addresses of another process | what is shown is what was logged and let through |
| `modules/helpers/JdSql.hpp` | tables, their columns, a sequence | create, modify, select, erase, drop | statements that fail in the middle; restarts; columns of other types | rows read as written; numbers only go up |
| `core/`, `hash/`, the rest of `utils/` | none | results, identifiers, versions, options | encodings | what is encoded is decoded |
| `scripting/`, `system/`, `environment/`, `debug/` | that of Lua and of the platform | bindings | external | - |

How they call each other: `JdMessageQueue` sleeps on a `JdSemaphore`;
`JdThreadT` waits for its own start on one. `JdTaskPool` has threads that
`PopWait` on one queue; `JdTasks` has one thread and two queues; the logger has
one queue, read with `WaitForMessages`, and its server another, read with
`TimedWaitForMessages`. `JdAtomicBankSwitch`, `JdFiber` and `JdTaskPool` have no
callers in the tree but the tests. `Epigram` is single-threaded and is the
payload of everything that is sent.

## 2. The modules

A specification (`X.tla`) models one component; `MCX.tla` with a `.cfg` is an
instance for TLC; `XProofs.tla` holds the theorems (`LibraryProofs`
and `SynchronizationProofs` those of two components each). Four modules are abstract:
they say what a component promises, in a page, and the detailed specification
implements them under a refinement mapping.

| component | specification | abstract | proofs |
|---|---|---|---|
| Epigram | `Epigram` | `OrderedEntries` | `EpigramProofs` |
| JdAtomicBankSwitch | `JdAtomicBankSwitch` | `LatestValue` | `SynchronizationProofs` |
| JdMessageQueue | `JdMessageQueue`; `JdMessageSlots`, for those who use it | `BoundedFifo` | `JdMessageQueueProofs` |
| JdSemaphore | `JdSemaphore` | - | `SynchronizationProofs` |
| JdThread, JdThreadPool | `JdThread` | - | `JdThreadProofs` |
| JdTaskPool | `JdTaskPool` | - | `JdTaskPoolProofs` |
| JdMarshall, JdTasks | `JdTasks` | - | `JdTasksProofs` |
| JdFiber | `JdFiber` | `Coroutines` | `LibraryProofs` |
| Value serialization | `JdUtils` (lengths), `EpSerialization` (objects), `EpigramValues` | - | - |
| Epilog | `EpilogClient`, `EpilogServer`, composed in `Epilog` | - | `EpilogProofs` |
| JdSql | `JdSql` | - | `LibraryProofs` |
| JdSignalSlot | `JdSignalSlot` | - | `LibraryProofs` |
| Structures | `JdCircularAllocator`, `JdList`, `JdCache` (over the operators of `JdList`), `JdMemoryPool`, `JdGraph` | - | `LibraryProofs` (of the allocator) |

`MCLibrary` is the one instance for all that is checked by itself: it extends
`JdFiber`, `JdSql`, `JdSignalSlot` and `JdCircularAllocator` and instantiates
`EpigramValues`, `EpSerialization` and the other structures.
The initial state chooses the `subject`; the variables of all others stay as they
are, so that the state space is the sum of theirs and not the product.
`MCSynchronization` does the same for `JdAtomicBankSwitch`, `JdSemaphore` and
`JdThread`, and `MCJdMessageQueueReader` puts two ways to read one queue side by
side likewise.

Definitions have the names of the functions they stand for where there is one.
A definition named after a fault and commented "Mutant" (`HasSpaceOffByOne`) is
no part of the model: put in the place of the definition that follows it, it
must break a property, and that is how each property is known to bite. Each has
one in `PROJECT.json`; where a property says several things there are more in the
modules.

**Epigram.** A byte is a number; a length is written base `Base` (128 in the
code), low digit first, a flag while more follow: `Encode`, `Decode`,
`ReverseDecode`. `Element` writes what `In` writes; `ElementAt` and `Elements`
read it back from the end, as `FindItem`, `_Index` and the iterator do. The
allocator's `m_start` and `m_end` are the blocks they point into, so that a
buffer that moved away leaves a visible trace. The heap is a function from the
blocks in use to what they hold. A handle is what `FindItem` set:
the element, the block and the sequence number. `contents` is what the walk
finds in the bytes; the code works it out at each lookup, the model once per
change.

**JdAtomicBankSwitch.** Every load and exchange of `m_state` is an action, and
so is every word copied or read; `compare_exchange_weak` may fail. The three
banks are functions from words to versions.

**JdMessageQueue.** A producer goes `check` - (`enter`, `asleep`, `woken`) -
`write` - `commit` - `count` - `signal`; a reader goes `take` - `wait` -
`asleep` - `view` - `reset` - `advance` - `notify`. Each is the code between two
accesses that another thread can come between. A message is the ticket of its
`Push`. `m_signal` is a counter of permits, which is what `JdSemaphore` is shown
to be for one waiter. A producer that comes back without a slot goes to `noslot`;
if it has no time limit it writes to it, and the process ends (`Crashed`).

**JdMessageSlots.** What the modules above the queue see of it is a sequence of
bounded length, which the theorem `JdMessageQueueProofs!Refinement` justifies for
`Push`, `PopWait` and `WaitForMessages`, and a *line*: who has drawn a ticket and not
committed, in the order of the tickets. A thread whose ticket is not within the ring
goes `test` - `enter` - `asleep`, and is woken by whatever release or time-out there is:
the first time it tests again, the second time its slot is `null`. So the release that
comes between test and sleep is missed here as it is in the queue, and the slot that
`Push` writes to may be null. It is used by `JdTaskPool`, `JdTasks` and the two halves
of `Epilog`.

**JdSemaphore.** What a call does under its mutex is one action; `Signal`'s
notifications are actions of their own.

**JdThread.** One owner with a call in progress (`opc`, `doing`, `target`), one
runner per thread. The thousand sleeps of `Stop` are one wait that may run out
for a thread of `Slow`.

**JdTaskPool, JdTasks.** `asked` is the history of the calls that want a result, in
the order they were made; nothing reads it. Callers, workers and `Stop` wait for room
in the lines of `JdMessageSlots`. Both modules take from `JdThread` that
`Stop` waits for the thread, and that a thread too slow for it is left behind.

**JdFiber.** An execution is parked at a place; `m_context` says whose parked
execution a fiber's context is. `Jump` resumes what the book-keeping says and
records in `fault` whatever cannot be resumed. It is the release build: the
assertions are not there to stop a caller, except that `Run` is called at home
only, as the one at `JdFiber.hpp:319` demands.

**EpigramValues, EpSerialization.** A type is the handler that `TypeT` picks for
it (`fixed`: numbers, pods, pointers; `string`; `sized`: binaries, epigrams;
`enum`; `object`) with its id, class, version and members. `Store` builds header
and payload as `StoreValue` and the containers' storers do; the fetches read them
as the fetchers do, from the end where they do, with the casts of `EpigramCast`.
A pod fetched as a pod of another class or size throws, as `PodT::FetchHeader` does.
What lies behind a payload that is read too far is left open. `Serialize` and
`Deserialize` follow the two serializers, down to the count of the bytes left,
which wraps.

**JdSql.** A method of a table holds the database's lock and is one step, in
which any statement may be the one that fails (`Faults`), except the query of
`FindColumn`, whose failure the code takes for a column that is not there. The database is a
record per table and survives `Restart`; the sequence does not. `written` is the
history of what callers were told had succeeded, per row and name: what a failed
call left half done may be seen or not. A column of the model says whether it
has the class of its elements in its name: the statements name columns by what
`HasClass` says of an element (`ColumnOf`), but an array's is added without
(`AddedFor`), so an array of objects or enumerations finds no column of its own. Of
an array `EncodeRow` makes one item, unless it is of `f64` (`ReadAs`).

**JdSignalSlot.** The heap is a function from addresses to links. `emissions` is
the stack of the walks under way, each at a link it holds a reference to; what a
callback does is done at the top of it. `due` of an emission is every callback
there was at its beginning, `calls` those it has made.

**JdCircularAllocator.** What a call does under the lock is one action. A thread
without room sleeps until it is notified, which a release does after it has given
up the lock (`NotifyAll`), or wakes of itself. The buffer is words, the indices count
them modulo `IndexWidth`, as the `u32`s wrap.

**JdList, JdCache, JdMemoryPool, JdGraph.** One action per method. `JdCache`
links its records with the operators of `JdList`, that work on any function from
elements to [next, previous]; each list is compared with what the callers did.

**EpilogClient, EpilogServer, Epilog.** A format is the items that `EpilogF` reads at
a time: an `@`, an `@@` or another character. A thread makes a log and pushes it in two
steps, waits in line in between if the queue is full, and builds its text in a buffer
of its own that it uses again. Threads in line are woken by releases only: wake-ups
without a reason are in `JdTaskPool` and `JdTasks`, whose line is the same, and left
out here. The runner
is `connect` - `wait` - `view` - `announce` - `view` - ... - `exited`, with a step for
each unit that goes into the stream. The server takes units off the stream, cuts them
into messages, queues and shows them. `plan` says what the programs may do, and is
chosen once: one that prints, one with a server, one that defines a category, two that
share a server, one whose stream breaks or whose logs throw. A log that does not fit
the slot of the server's queue is copied past it by the server (which the assertion
before it would stop in a debug build); the model only says that it does not arrive
whole.

## 3. The runs

| run | instance | what it shows |
|---|---|---|
| `epigram` | two epigrams (one begins with 9 bytes of its own, one with none), 2 heap blocks, 1 handle, 3 keys, 2 values, base 2 | `FreshHandleIsTrue`, `BuffersAreOwned`, refinement of `OrderedEntries` |
| `synchronization` | a switch of 2 words, 4 versions | `NoTornRead`, refinement of `LatestValue`, `LastVersionReachesReader` |
| | a semaphore of 3 threads, `Signal` of up to 2 | `NoLostWakeup`, `SleeperGetsPermit` |
| | 2 threads, one slow and polling, one prompt; `std::thread` may fail | `NoThreadLeft`, `TeardownGetsResult`, `GroomsOnlyDead`, `CallsReturn` (and a prompt thread that is told to quit does) |
| `mq_reader` | ring of 2, 2 producers, 1 reader: 5 tickets with `WaitForMessages` and `ClaimMessages`, or 4 with `TimedWaitForMessages` | `WriterOwnsSlot`, refinement of `BoundedFifo`, `CommittedIsDelivered` also when time-outs race signals |
| `mq_pop` | ring of 2, 4 tickets, 2 producers, 2 consumers with `Pop` and `PopWait` | `DeliveredInOrder`, `CountIsExact`, `WaiterIsSignalled` |
| `mq_timed_push` | ring of 2, 6 tickets, 2 producers that may time out, 1 consumer | `NoTicketLost`, `NothingTwice`: readers may get slots nobody wrote, but nothing that was sent twice |
| `mq_lost_wakeup` | 1 producer, 1 reader | a violation: a producer sleeps beside a free slot |
| `task_pool` | 2 workers, 2 clients, queue of 2, 2 tasks, 3 batches, one `Stop` | `FinishedIsQuiet` (a finished batch has run, and nothing of it is left), `PoolIsWhole`, `FinishReturns`, `StopEnds` |
| `tasks` | owner and one other caller, queues of 2, 3 calls | `RunsInOrder`, `RepliesInOrder`, `StopDrains`, `NobodyIsStuck` |
| `library` | 3 fibers and home | `ContextsAreLive`, `OnlyTheDeadFault`, `StatusIsTrue`, refinement of `Coroutines` |
| | 18 types of value with two or three items each, containers of up to 2, base 4, numbers in text of radix 2 | `StoredIsFetched` |
| | 1 table, one row named by the caller and one by the database, 12 messages (arrays of five types among them), 6 kinds of statement that may fail, restarts, 2 sequence numbers | `TablesAreKept` |
| | 3 links, 3 connections, 2 emissions in each other | `EmissionsAreSafe` |
| | a ring of 4 words (asked for as 4 or 3) or of 2, indices that wrap at 8, and 2 threads; a list and a cache of 3; a pool of 3 chunks; a graph of 3 nodes | `StructuresAreKept` |
| `epilog` | 2 programs, 2 threads, queue of 2, stream of 1 unit, 2 sessions, a server with a queue of 1 | `ShownAsLogged` (in order, once, with its text and class), `QuitFlushes`, `HiddenStaysHidden`, `LogsAreHandled` (and `Quit` returns) |
| `epigram_duplicates` | that of `epigram` | a violation of `FirstIsFound`: of two entries of a name the second is found |
| `signal_removal` | that of `library` | a violation of `RemovalIsSafe`: an emission comes to a deleted link |

**Why the bounds are enough.**

* Ring of 2: two producers can be blocked at once, and 4 to 6 tickets go round it
  two or three times, so that a slot is reused while its last reader is late. It
  takes 6 for a writer that timed out to be lapped.
* 4 versions: each of the two exchanged banks is written, taken, overwritten and
  taken again; two words are the least that can be torn.
* 3 threads at a semaphore: two sleepers and one that barges in.
* 2 threads: one can exit while the owner visits the other.
* 2 workers: one task may block and one still runs; the bound of fewer blocking
  tasks than workers (`MaxBlocking`) is a rule for callers, not a limit of the
  state space: with as many, every worker waits and nobody runs the batch.
* 3 fibers: one switches to another that switches to a third; a fiber can be
  released and its memory used again.
* Epigram: base 2 makes lengths of one, two and three bytes with elements of 7
  to 11 bytes. `a` has room for two elements in 14 bytes, needs the heap for the
  second, and is changed up to three times, so that a handle can be made
  stale by growth, erasure, a load or a move and used again after it. Handles are
  taken of `a` only (`Indexed`) and `b` holds one element; the code is the same
  for both.
* Values: base 4 gives lengths of one and of two bytes at a size of 4 and more,
  numbers of two bytes that a cast to one byte cuts; of each kind there are two
  types, told apart by size, class or version only; an object of version 1 is read
  as version 2 and the other way round.
* Tables: a name comes with another type, as an array or not, with no bytes, or with
  a type that makes a statement fail, in any order, each statement fails once; two
  sequence numbers are enough to give one twice.
* Signal: three links are the one an emission stands at, the next and the one
  after it; two emissions are one in a callback of the other.
* Allocator: in a ring of four words one chunk of each size fits beside another and
  two large ones do not; indices wrap after two rounds. 3 records: one is in use,
  one is flushed and one reused.
* Pool: requests next to each limit, of a page and of 36/32.
* Epilog: a queue of 2 is full with one log and a quit message; a stream of one
  unit blocks in the middle of a log; two sessions: one finds what the first
  left. Two threads in line, one of them the main thread that quits, are enough for
  one to be woken twice by releases before its turn, which is a null slot, and for a
  release to come between a test and a sleep; `JdTaskPool` and `JdTasks`, with queues
  of 2 and three threads that push, reach both likewise.

One symmetry is used, of the heap blocks in `epigram`, and none elsewhere (the
other runs check liveness, or their values are too few or not alike).
Deadlock is not checked where the system may stop: nobody need call, push or
publish again, a bound is reached, or the program has ended.

**Fairness.** A caller is never obliged to call. Where liveness is checked:

* `synchronization`, the switch: reader and writer go on with a call they are in
  (weak); an exchange tried over and over succeeds in the end (strong: the spurious
  failures of `compare_exchange_weak` do not go on for ever) (`CallsGoOn`). That the reader keeps asking
  is weak fairness of `GetReadBank`, which is what `LastVersionReachesReader` is
  about.
* `mq_*`: a producer past the space test, and the reader, go on (weak). Nothing
  is assumed of a producer that waits for space.
* The semaphore (`SemaphoreFairness`): a thread inside the mutex leaves it (weak); of the threads that
  want the mutex for the count one gets it, though others lock it again and again
  (strong, for the set, not for each).
* The threads (`ThreadFairness`): the owner goes on with its call; a thread that is told to leave does,
  unless it is slow.
* `task_pool`, `tasks`: threads go on with calls and tasks they are in when they can
  (weak), each step of `AcquireMessageSlot` being one: to draw a ticket, to test, to
  fall asleep, to commit when it is their turn. Nothing makes a sleeper wake: a release
  notifies who sleeps then, and no one later, and that a wait ends without a reason, or
  after 2^31 milliseconds, is not assumed.
* `epilog`: threads of a program, its runner and the server go on likewise (weak).
  Nobody has to log or to quit, and no connection has to be accepted.

The liveness properties of the last three have premises and ways out, because the
code may hang, or the program end, without them.

* That a release may be missed (`mq_lost_wakeup`) is in all three. `SleepersHear` says
  that nobody is left asleep for ever beside a slot that is free for it; it is a
  premise of `FinishReturns`, `StopEnds`, `NobodyIsStuck` and `LogsAreHandled`,
  and the code does not guarantee it.
* A thread that is woken twice at a full queue writes to a null slot. The program ends
  there (`Aborted`, `Crashed`), which is an outcome those properties allow.
* `StopEnds` is about a pool without tasks that submit or wait; `NobodyIsStuck` about
  an owner that asks for no more results at once than the reply queue holds
  (`Considerate`) and functions that do not call into their own queue.
* `LogsAreHandled` is about a session that prints or is served, logs with no quit
  message ahead of them, and `Quit` from the call on (waiting to push or joining),
  unless what is queued behind the quit message of an earlier session, or behind a
  thread that is over, fills the queue (`FullForGood`).

## 4. The proofs

All theorems are about any number of threads, slots, words, fibers, rows; the
constants are assumed to be what the `ASSUME`s of the specification say, and no
more, except where a condition on the use is named below. Type correctness is proved
of every component the theorems are about, and used throughout. An invariant that a
run checks is seldom inductive; what each needs beside it is the heart of its proof.

* **JdAtomicBankSwitch**: `Untorn`, `Forward`, `BankStable`, `Opposite`,
  `SignalComplete`, `Refinement`. That no read is torn is not inductive: it needs
  that the writer has a bank only while there is no signal (`WriterOwnsItsBank`:
  so the reader cannot swap), that a pending exchange was begun on a signalled
  state, and that the reader's bank is whole.
* **JdMessageQueue**, without time-outs (`UntimedUse`): `InOrder`, `ExactCount`,
  `OwnSlot`, `NoLostWakeup`, `Refinement`. The invariant has seven parts: one
  reader at a time, the order of the sequences and the tickets between them,
  what each slot holds, what each reader has been granted at each place in its
  call, the count, the semaphore, and what has been delivered. Each part rests on
  the others: a reader looks only at slots it was granted, it is granted only
  what the count holds, the count is exact because of what is committed.
* **JdMessageQueue**, with time-outs of `Push` and of the reading calls:
  `TicketsKept` and `OnceOnly`, if `front ()` of an empty deque of failed tickets
  does not happen to read a ticket's number (`NothingStale`, which the runs assume
  too; section 5). The part that is not obvious is
  which call may be flushing a failed ticket and what it knows of `claimSeq`
  (`Flushes`): a ticket is taken off the record of failed ones only by the call
  that committed it. `OnceOnly` is also about readers that pop (`PopsOnly`), one
  after the other: `NothingTwice` needs that whatever a slot holds is no message that was
  handed out or is still to be written (`Fresh`), that a reader resets the slot before
  it moves on, and that the slots that two writers are in differ (`Distinct`): although
  a flush lets a reader run ahead of the writers, into slots that are empty or about
  to be written.
* **JdSemaphore**: `Wakeups` and `Exclusive`, for any number of threads and any
  `i_count`, if timed waits are one thread's: a permit that no woken thread is
  after has a notification to come.
* **JdThread**: `NothingLeft`, `ResultHandedOn`, `Grooming`, `ExitedIsFinal`. The
  two sides share no lock, so the invariant says for each state the owner has put
  a thread in where its runner can be, and for each place of the runner what it
  has published.
* **JdTaskPool**: `FinishedBatchIsQuiet` and `StoppedPoolIsWhole`. A batch is
  finished when its count is 0, and the count says nothing of who holds its tasks.
  So the invariant states it as a sum (`Counted`): the tasks of the batch in the
  queue, those in workers' hands, those a client has yet to submit. `Place` says
  for each caller and worker where in its call it can be with which batch, `Owned`
  that no two clients have one batch, `Freed` and `Waited` what a batch on the free
  list and one that is waited for cannot have, `NullsGoRound` that null tasks and
  workers that were sent home balance.
* **JdTasks**: `Ordered`: the unreleased messages are the last that were sent, and
  the invoked part of the batch the last that was run. `Replied` and `Drained`: the
  replies queued, those to come and those of the messages still in the queue are,
  in this order, the end of `asked` (`Answers`); after the quit message the thread
  has nothing to run (`Quits`).
* **JdFiber**: `Contexts`, `JumpsLand`, `Statuses`, `Refinement`. A jump reads only
  the book-keeping; that it lands where it should needs to know which executions
  are parked and that no fiber ever holds the context of another (`Whereabouts`).
* **JdSql**: `TablesKept`. A method is a chain of statements, and any of them may be
  the last: so each operator is shown to take a database that is `Whole` to one
  that is and that follows on the old one, up to where it fails, and what a method
  tells its caller is shown to be in the rows (`Tells`). That `SequenceStart` finds
  the highest number is a least-element argument over the rows' numbers. The
  theorem holds for every set of names, values and failing statements.
* **JdSignalSlot**: `EmissionsHold`, for any links, callbacks and emissions within
  each other, until a link is removed that follows a removed one at which an emission
  stands. The ring is a sequence of links, the same read forwards and backwards
  (`RingIs`), and what a link counts is the emissions that stand there (`Standing`)
  and the ring's reference. A removed link that an emission stands at still has its
  next link in the ring; taking that one out too is what breaks this, and what the
  history variable `cut` records (section 5), so a removal keeps the invariant only
  if no removed link is left with the one that goes as its next (`Heard`). An
  emission is at a place of the sequence: what was due up to there it has called,
  and what it has called was connected before all that follows (`Called`). Every
  call is shown to keep the sequence, or to extend it at its end, to take links out
  of it, one after the other in `clear`, or to make it anew in the copy, and
  the emissions' places to move along. Since all links of the ring but the head have
  a callback, the walk of `emit` stops at the next link (`OnwardIs`).
* **JdCircularAllocator**: `RingKept`, what `StructuresAreKept` says of the ring, for
  any threads and requests, if the size of every buffer, rounded up, is at least 1,
  less than the range of an index and divides it (powers of two below 2^32 do:
  `AllocatorAssumption`). The two indices stand for numbers that only grow, and the
  words from one to the other are tiled by size words, allocated or not, each of
  which says where the next one is (`Tiled`); an index finds its word whichever
  number it stands for, since the size of the buffer divides the range
  (`SamePlace`). The chunks that are out are exactly the tiles marked as allocated,
  and the word at the release index is one of them as long as anything is claimed.
  So the walk of a release stops at the first tile in use and leaves the rest tiled
  (`ReleasedIs`, `FreeTiles`, `CutTiles`); chunks are apart because tiles are, less than
  one round of the buffer long. A sleeper that could go on has been notified, or the
  one that gave up the lock is about to (`NotifyAllKeeps`).
* **Epigram**, its handles and buffers: `FreshHandlesAreTrue` and
  `BuffersHaveOneOwner`. Every operation is
  shown to raise the sequence number of an epigram whose bytes it changes
  (`Touched`), so a handle with the present number has the present bytes
  (`TrueTo`); a block in use is pointed to by one epigram that uses it
  (`OneOwner`), through growth, moves and loads. None of this depends on
  how bytes are written or read back.
* **Epigram**, its bytes: `ElementIsRead`, `BytesAreHeld`, `BytesLieInTheirBuffers`,
  and `BytesAreTheEntries`, the refinement of `OrderedEntries`. A length is read as
  it was written, from either end (`ReadEncoded`), and an element as it was written,
  whatever lies around it. Bytes are *laid* if they are elements from the first byte
  to the last (`Laid`); the walk from the end finds just these
  (`ElementsArePlaced`), cutting at the ends of elements and joining keep it
  (`SliceIsLaid`, `ConcatIsLaid`), so that bytes *hold* a sequence of entries
  (`Holds`). Each operation is then shown to do to the bytes what the abstract one
  does to the entries: erasing the newest of a key (`HoldsDropped`), one key after
  the other when merging (`HoldsAllDropped`), storing with or without growth
  (`StoreYields`), and through a handle, which is on the newest entry of its key, or
  on the one at its place, or stale. The invariant is `Held`. It
  is for every base of the lengths greater than 1, every number of epigrams and
  handles, any keys and values that are bytes, and stack sizes of any kind
  (`EpigramAssumption`).
* **Epilog**: `QuitAlwaysFlushes`. What has been handled and what is queued are,
  together and in this order, what was pushed: the i-th log of the queue is found by
  its rank among the queue's logs (`InTurn`; `AppendedRanks` and `ReleasedRanks` say
  what pushing and releasing do to ranks). When the runner is over, what is at the
  front is known (`Finished`), which needs that a batch is never counted longer than
  the queue and that one that has seen the quit message is still at it (`Batch`).
* **Epilog**, from one end to the other: `AlwaysShownAsLogged`. What the server has
  read of a connection, what is in its stream and what its runner is about to write
  are one line of units (`Line`), which a step extends at its end by a message, cuts
  off, moves along or takes the first message from. In it every unit is in its place
  (`Framed`), or the server would cut it into the wrong messages, and its logs are in
  the order of `pushed`, each as it was made (`GoodLine`). Of two sessions of a
  program only one that is being served has logs left (`Sessions`: a stream that ends
  before the queue is empty ends at a quit message, or at a log that does not fit,
  which no later session gets past); what has arrived is ahead of what is on a line
  (`Arriving`). That a displayed log's class is known follows the announcements along
  the same line (`NamedLine`), and over a new session, which announces anew. The
  invariant has eight parts (`OrderInv`).
* **Epilog**, the options: `HiddenAlwaysHidden`. A category that the options name is
  never made anew, and what is displayed of a hidden one is of a class whose category
  is known; its log is the one in `pushed`, by the theorem above. It is for options of
  which `--show` takes back nothing that `--hide` names, and classes that are not
  called like hidden categories (`HideTakesEffect`, which holds in the run): until
  its category is known, a class counts as a category of its own name. What the
  options are folded into is a recursion over their list and is not reasoned about.

A component's type invariant and `JdAtomicBankSwitch`'s `Forward` (what is read
never goes back to an older version) are proved, and not model-checked beside
that.

The library's induction theorems take an operator as a parameter, which the provers
cannot instantiate. A particular fact by induction can be proved all the same, from
a least counterexample (`LeastNatural`, `WFMin` of the library). So the recursive functions of
`Epigram`, those of `JdSignalSlot` (the siblings of the ring, the walk, `clear`
and the copy) and the walk of `JdCircularAllocator`'s `Released` are reasoned about:
each is a `CHOOSE` that is shown to exist first (`EncoderExists`, `ReaderExists`,
`WalkExists`, `FoldsExist`; `RingWalkExists`; `OverExists`), and then to be what it should
be.

Only model-checked, and why:

* everything under fairness (`LastVersionReachesReader`, `CommittedIsDelivered`,
  `SleeperGetsPermit`, `CallsReturn`, `FinishReturns`, `StopEnds`, `NobodyIsStuck`,
  `LogsAreHandled`): liveness is beyond the prover;
* `StoredIsFetched`: the ways to fetch and the kinds of value each have a recursion
  of their own, and what is proved of one says nothing of the next;
* of `StructuresAreKept`, all but the allocator: it compares chains of links, walked
  recursively, and sums with what callers did, in four modules one of which (`JdGraph`)
  declares operators that the prover cannot take.

## 5. What the work showed about the code

A run is named where one shows it; the rest is what reading for the models
brought up, and is left out of the models or bounded away as said.

**JdMessageQueue.** A blocked `Push` can sleep beside free slots for ever
(`mq_lost_wakeup`; :382 tests without the lock that :384 sleeps on, and
`ReleaseMessage` notifies without it). The other ways it departs from a plain
queue are in the model, and the properties are stated so as to hold beside them:
after its second wake-up `AcquireMessageSlot` gives up without testing again, so
a `Push` without a time limit can return having sent nothing (:385). Flushing a
ticket that timed out commits it and releases it at once, but the commit has been
counted, so the count is one too high afterwards and a reader can be handed a slot
nobody wrote; failed tickets are kept in the order of the time-outs and only the
first is looked at, and `front ()` of an empty deque is read (:399-408). A timed
`Push` that fails needs `m_consumerLock`, which a sleeping `PopWait` holds. `Pop`
waits behind a `PopWait` for the same reason, and after a timed-out
`TimedPopWait` can take from a negative count. Readers that do not take
`m_consumerLock` never flush failed tickets: timed `Push` and `WaitForMessages` do
not go together.

**JdSemaphore.** `TimedWait` reports a time-out without testing the count again;
with two timed waiters a notification can be lost. The library has one.

**JdThread.** Deleting a zombie ends the program (:191). `Start` on a running
thread overwrites its arguments and calls `Setup` before it notices (:227-232).
`Reset` calls `Stop`, which fails on a thread that has quit (:203, :216), so a
`JdTasks` cannot be started again. A comment names a `Terminated ()` that does
not exist.

**JdTaskPool.** `Stop` holds `m_mutex` and waits for room in a full queue, while
a task that wants a batch of its own waits for `m_mutex` (:113-121): both wait
for ever. Tasks that wait, on every worker, wait for ever. Whoever pushes into a full
queue, `Stop` with its null tasks included, may miss the release that makes room, or be
woken twice and write to a null slot; so may the callers and the thread of `JdTasks`.

**JdTasks.** The owner waiting to send and the thread waiting to reply can wait
for each other; a function that calls into its own full queue waits for itself.
A call before `Start` dereferences a null queue (:557).

**JdFiber.** `Run ()` without arguments has no assertion against nested use,
which corrupts the book-keeping (:334). A fiber whose function returns a result
other than 0 is called runnable and is not: resuming it ends the process. A fiber
that was never run executes its function when it is terminated. `m_result` is
never set, and `ReleaseFiber`'s branch for an exiting fiber is never taken.

**Epigram.** The header says of duplicate keys that the "first will be found"
(:134); lookups walk from the end and find the newest (`epigram_duplicates`, where
`FirstIsFound` states the comment; `ImplementsOrderedEntries` is about what the code
does). A handle is not set to
the element its assignment made, so assigning twice through one handle leaves two
elements. An epigram whose heap buffer was moved away keeps `m_end` and `m_size`
of that buffer: anything but resetting, assigning by move or destroying it writes
where it should not (the model's `Usable`). An element from the iterator has no
`start`, so erasing through it moves arbitrary bytes; `+=` of an element that is
an array loses its count; `Merge` throws at a key that is no string after it has
erased others; an element taken by index has no key, so assigning to it stores a
key of no type.

A container of objects takes the last byte of its payload for the first when it
looks for an item's length (:1684, with :957), so objects of 128 bytes and more
are misread in one (`Readable` leaves them out). A pointer fetched as one of
another class is copied from address 0, since the failed header is not looked at.
`EpigramCast` never uses `caster_g`, so a number fetched as an enumeration is 0.
Numbers of one byte become text as characters. An item of an empty array is
fetched from behind the payload. `EnumT::IsType` calls `FetchHeader` with one
argument and cannot be instantiated.

**EpSerialization.** `EpSerialization.hpp` says that reading an older chunk into
a newer object aborts once its bytes run out (:10-11); a string does not: it is
emptied, and the count of bytes left wraps, so that the members after it are read
from behind the object. `d_msgSerialize` (:21) serializes nothing. A string
longer than its member leaves the rest to be read as the next. Only classes of
two members can be written with `d_jdCompactSerialize`.

**JdSql.** `CreateRow` with an id returns the result of the update in place of
that of the insertion. A failed setup is only asserted, so that numbers start from
0 again; an erased row's number is given again after a restart if it was the
highest; a query of `FindColumn` that fails reads as "no column" (:977-1026), so that
an element can get a second one; tables linked to one sequence share numbers while
one of them is not set up. `ModifyRow` of a row that is not there succeeds. Booleans make statements that
fail; empty blobs are not read back, nor arrays of strings or of other numbers than `f64`; an
array of binaries or of epigrams reads as one item whose bytes are those of all, one of
uuids as its first; the column for an array of objects or
enumerations is added without the class that the statements name it by, so that such
an element can never be written; a column keeps the type of its first value, and
values of another fail. Formatters and the
sequence are used outside the lock.

**JdSignalSlot.** A callback that disconnects itself and then the one after it
leads `emit` to a deleted link (:312), against the comment at :335; so does one
that clears the signal (`signal_removal`, where `RemovalIsSafe` states the comment).
The model stops there (`strayed`); `EmissionsAreSafe` is about what comes before such a
removal (`cut`). A connection kept after
its end may name a later one. A callback that disconnects itself destroys the
`std::function` that is running.

**JdCircularAllocator.** `Resize` notifies nobody; an allocation larger than the
ring waits for ever; the size is compared with the limit before the lock is taken.
`RingIsKept` leaves these sleepers out (`missed`).

**JdCache.** `Insert` of a record that was flushed leaves it in the list of free
records too, and both lists are corrupt (the model's `reinserted` ends it there).
`Has` is true of a flushed record; a reference that was kept answers for whatever
its record is used for next; resources of size 0 are never flushed. `JdGraph`:
`prepend` uses a `push_front` that a vector does not have; copies of a node share
its children, that do not know of it.

**Epilog.** `Quit`'s message is never released from the queue, so the runner of
the next session meets it first, what was queued behind it waits, and `Quit` at a
full queue never returns. A broken stream, or a log that does not fit its format,
ends the runner without a word; loggers, and `Quit`, wait once the queue is full. As
with the pool, who waits at a full queue may be left asleep, or write to a null slot.
`m_clientCount` is tested and changed in two steps. Categories defined before
`Connect` are lost (`DefineCategory` returns while `!m_enabled`), though the
comment at `EpilogLib.cpp:73` has them defined at static initialization. The log
file is closed and not reset. A queued message's `operator =` takes the size of a
pointer for its own. The server joins a session's thread before it accepts the
next; copies what a log has beyond the 488 bytes of an `EpilogMsg` from behind the slot
(`EpilogCliServer.cpp:64-66`; only a debug build's assertion stops it); takes an empty log for a new session's first; knows
threads and classes by addresses which two programs may share. `--show` is to
show "only these categories", but one defined while it runs is not filtered;
`--level` says nothing of categories that are not on the command line.

**JdThreadPort** does not match the queue it is written for and cannot be
instantiated.

## 6. What is not modelled, and the plan

Left out for good: `JdThreadPort` (above); `JdLua`, the platform layers,
`EpigramDump`, `JdTable`, options and dialogs (strings, external state, output);
`hash/` (bits without state, MD5 is external). `Epigram`'s stream operators,
visitors, argument packs and map helpers are built from what is modelled and add
no state. Of `JdMarshall`, the copying of arguments, and tasks that throw. Of the
tracing library, messages its thread does not look into (locations, variables,
tables), colours and times. Of `JdSql`, the text of statements and the
constraints of `DefineColumn`.

What is left is to prove more, in this order:

1. `JdList` and `JdCache`: their chains of links as sequences, as the ring of
   `JdSignalSlot` is.
2. `Epilog` over `BoundedFifo` itself, by an instance for each queue.
