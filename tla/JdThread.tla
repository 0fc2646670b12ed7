------------------------------ MODULE JdThread ------------------------------
(***************************************************************************)
(* concurrent/JdThread.hpp: JdThreadT, a thread and the implementation it   *)
(* runs, and JdThreadPool, a set of them.  One owner starts, stops, resets  *)
(* and deletes threads; each thread runs its implementation, finalizes it   *)
(* and says that it has exited, with no lock between the two sides.         *)
(*                                                                          *)
(* The thousand sleeps of Stop are one wait that may run out on a thread of *)
(* Slow: one that may take longer to leave than Stop waits.  The build is   *)
(* the one with d_jdAssert: a failed assertion in a destructor ends the     *)
(* program, as deleting a joinable std::thread does without it.             *)
(***************************************************************************)
EXTENDS Naturals

CONSTANTS
    JdThreads,    \* the JdThreadT objects there can be at once
    Slow,       \* those whose Run may outlast the wait of Stop
    Polling,    \* those whose Run asks IsAlive; the others wait for Break
    SpawnFails, \* whether std::thread may fail to start
    NoJdThread

ASSUME JdThreadsAssumption ==
    /\ NoJdThread \notin JdThreads
    /\ Slow \subseteq JdThreads /\ Polling \subseteq JdThreads
ASSUME SpawnAssumption == SpawnFails \in BOOLEAN

VARIABLES
    pool,       \* m_threads of the pool
    m_state,
    exited,     \* m_exited
    result,     \* m_runResult
    joinable,   \* m_stdThread.joinable ()
    ready,      \* the count of m_threadReady
    broken,     \* whether Break has been called
    runner,     \* where Runner is
    final,      \* what Finalize returned
    handed,     \* what Teardown was given
    opc,        \* where the owner is,
    doing,      \*   in which call,
    target,     \*   with which thread,
    todo        \*   and which threads the call has still to visit

objectVars == <<m_state, exited, result, joinable, ready, broken, runner, final, handed>>
ownerVars == <<opc, doing, target, todo>>
threadVars == <<pool, objectVars, ownerVars>>

Results == {"noErr", "error"}
Calls == {"create", "start", "stop", "reset", "delete", "stopAll", "deletePool"}
Deleting == {"create", "delete", "deletePool"}      \* calls that delete what they stop

ThreadTypeOK ==
    /\ pool \subseteq JdThreads
    /\ m_state \in [JdThreads -> {"pending", "running", "quiting", "quit", "zombie"}]
    /\ exited \in [JdThreads -> BOOLEAN]
    /\ result \in [JdThreads -> Results]
    /\ joinable \in [JdThreads -> BOOLEAN]
    /\ ready \in [JdThreads -> 0 .. 1]
    /\ broken \in [JdThreads -> BOOLEAN]
    /\ runner \in [JdThreads -> {"none", "begin", "run", "finalize", "store", "flag",
                               "done", "cancelled"}]
    /\ final \in [JdThreads -> Results \cup {"none"}]
    /\ handed \in [JdThreads -> Results \cup {"none"}]
    /\ opc \in {"idle", "visit", "started", "stop", "poll", "join", "teardown", "stopped",
                "aborted"}
    /\ doing \in Calls
    /\ target \in JdThreads \cup {NoJdThread}
    /\ todo \subseteq JdThreads

ThreadInit ==
    /\ pool = {}
    /\ m_state = [t \in JdThreads |-> "pending"]
    /\ exited = [t \in JdThreads |-> FALSE]
    /\ result = [t \in JdThreads |-> "noErr"]
    /\ joinable = [t \in JdThreads |-> FALSE]
    /\ ready = [t \in JdThreads |-> 0]
    /\ broken = [t \in JdThreads |-> FALSE]
    /\ runner = [t \in JdThreads |-> "none"]
    /\ final = [t \in JdThreads |-> "none"]
    /\ handed = [t \in JdThreads |-> "none"]
    /\ opc = "idle" /\ doing = "stop"
    /\ target = NoJdThread /\ todo = {}

-----------------------------------------------------------------------------
\* Runner: the thread's own side.

RunnerMove(t, from, to) == runner[t] = from /\ runner' = [runner EXCEPT ![t] = to]

Begin(t) ==
    /\ RunnerMove(t, "begin", "run")
    /\ ready' = [ready EXCEPT ![t] = @ + 1]
    /\ UNCHANGED <<pool, ownerVars, m_state, exited, result, joinable, broken, final, handed>>

\* The implementation returns when it likes; it must when it has been told to.
RunReturns(t) ==
    /\ RunnerMove(t, "run", "finalize")
    /\ UNCHANGED <<pool, ownerVars, m_state, exited, result, joinable, ready, broken, final,
                   handed>>

Finalize(t) ==
    /\ RunnerMove(t, "finalize", "store")
    /\ \E r \in Results : final' = [final EXCEPT ![t] = r]
    /\ UNCHANGED <<pool, ownerVars, m_state, exited, result, joinable, ready, broken, handed>>

\* Mutant: m_exited is set before m_runResult is stored.
StoreResultLate(t) ==
    /\ RunnerMove(t, "store", "flag")
    /\ exited' = [exited EXCEPT ![t] = TRUE]
    /\ UNCHANGED <<pool, ownerVars, m_state, result, joinable, ready, broken, final, handed>>

StoreResult(t) ==
    /\ RunnerMove(t, "store", "flag")
    /\ result' = [result EXCEPT ![t] = final[t]]
    /\ UNCHANGED <<pool, ownerVars, m_state, exited, joinable, ready, broken, final, handed>>

SetExited(t) ==
    /\ RunnerMove(t, "flag", "done")
    /\ exited' = [exited EXCEPT ![t] = TRUE]
    /\ UNCHANGED <<pool, ownerVars, m_state, result, joinable, ready, broken, final, handed>>

\* A cancellation point of a thread that pthread_cancel was called on.
Cancelled(t) ==
    /\ m_state[t] = "zombie" /\ runner[t] # "none"
    /\ runner[t] \notin {"done", "cancelled"}
    /\ runner' = [runner EXCEPT ![t] = "cancelled"]
    /\ UNCHANGED <<pool, ownerVars, m_state, exited, result, joinable, ready, broken, final,
                   handed>>

-----------------------------------------------------------------------------
\* The owner's side.

OwnerMove(from, to) == opc = from /\ opc' = to

\* A new JdThreadT, or what Reset makes of one, as far as its members go.
FreshBut(t, stillExited) ==
    /\ m_state' = [m_state EXCEPT ![t] = "pending"]
    /\ exited' = [exited EXCEPT ![t] = stillExited]
    /\ result' = [result EXCEPT ![t] = "noErr"]
    /\ broken' = [broken EXCEPT ![t] = FALSE]
    /\ runner' = [runner EXCEPT ![t] = "none"]
    /\ final' = [final EXCEPT ![t] = "none"]
    /\ handed' = [handed EXCEPT ![t] = "none"]
    /\ UNCHANGED <<joinable, ready>>

\* Mutant: Reset forgets m_exited.
FreshStillExited(t) == FreshBut(t, exited[t])

Fresh(t) == FreshBut(t, FALSE)

\* CreateThread, StopAllThreads and ~JdThreadPool go through the threads of the pool.
CallPool(call) ==
    /\ call \in {"create", "stopAll", "deletePool"}
    /\ call = "deletePool" => pool # {}
    /\ OwnerMove("idle", "visit")
    /\ doing' = call /\ todo' = pool
    /\ UNCHANGED <<pool, objectVars, target>>

CallThread(call, t) ==
    /\ call \in {"stop", "reset", "delete"} /\ t \in pool
    /\ call = "reset" => m_state[t] # "pending"
    /\ OwnerMove("idle", "stop")
    /\ doing' = call /\ target' = t
    /\ UNCHANGED <<pool, objectVars, todo>>

\* GroomDeadThreads leaves a thread that has not exited alone.
Skip(t) ==
    /\ opc = "visit" /\ t \in todo
    /\ doing = "create" /\ ~ exited[t]
    /\ todo' = todo \ {t}
    /\ UNCHANGED <<pool, objectVars, opc, doing, target>>

Visit(t) ==
    /\ t \in todo
    /\ doing = "create" => exited[t]
    /\ OwnerMove("visit", "stop")
    /\ target' = t /\ todo' = todo \ {t}
    /\ UNCHANGED <<pool, objectVars, doing>>

NewThread(t) ==
    /\ todo = {} /\ doing = "create" /\ t \notin pool
    /\ OwnerMove("visit", "idle")
    /\ pool' = pool \cup {t}
    /\ UNCHANGED <<objectVars, doing, target, todo>>

EndVisits ==
    /\ todo = {}
    /\ doing = "create" => pool = JdThreads       \* bound: no room for one more
    /\ OwnerMove("visit", "idle")
    /\ UNCHANGED <<pool, objectVars, doing, target, todo>>

\* Start of a pending thread.  (Of any other it throws.)  Setup has succeeded.
Start(t) ==
    /\ t \in pool /\ m_state[t] = "pending"
    /\ OwnerMove("idle", "started")
    /\ doing' = "start" /\ target' = t
    /\ m_state' = [m_state EXCEPT ![t] = "running"]
    /\ runner' = [runner EXCEPT ![t] = "begin"]
    /\ joinable' = [joinable EXCEPT ![t] = TRUE]
    /\ UNCHANGED <<pool, exited, result, ready, broken, final, handed, todo>>

\* std::thread throws: m_state says running already.
StartFails(t) ==
    /\ SpawnFails
    /\ t \in pool /\ m_state[t] = "pending" /\ opc = "idle"
    /\ m_state' = [m_state EXCEPT ![t] = "running"]
    /\ UNCHANGED <<pool, exited, result, joinable, ready, broken, runner, final, handed,
                   ownerVars>>

\* m_threadReady.Wait ().
Started ==
    /\ OwnerMove("started", "idle")
    /\ ready[target] > 0
    /\ ready' = [ready EXCEPT ![target] = @ - 1]
    /\ UNCHANGED <<pool, m_state, exited, result, joinable, broken, runner, final, handed,
                   doing, target, todo>>

StopNotRunning ==
    /\ OwnerMove("stop", IF doing = "reset" THEN "idle" ELSE "stopped")
    /\ m_state[target] # "running"
    /\ UNCHANGED <<pool, objectVars, doing, target, todo>>

\* Mutant: Stop does not call Break.
StopWithoutBreak ==
    /\ OwnerMove("stop", "poll")
    /\ m_state[target] = "running"
    /\ m_state' = [m_state EXCEPT ![target] = "quiting"]
    /\ UNCHANGED <<pool, exited, result, joinable, ready, broken, runner, final, handed,
                   doing, target, todo>>

Stop ==
    /\ OwnerMove("stop", "poll")
    /\ m_state[target] = "running"
    /\ m_state' = [m_state EXCEPT ![target] = "quiting"]
    /\ broken' = [broken EXCEPT ![target] = TRUE]
    /\ UNCHANGED <<pool, exited, result, joinable, ready, runner, final, handed,
                   doing, target, todo>>

DidExit ==
    /\ OwnerMove("poll", "join")
    /\ exited[target]
    /\ UNCHANGED <<pool, objectVars, doing, target, todo>>

\* A thousand sleeps later.  A thread that was never started has no handle to cancel.
WaitOver ==
    /\ OwnerMove("poll", IF joinable[target] THEN "teardown" ELSE "aborted")
    /\ ~ exited[target]
    /\ target \in Slow \/ ~ joinable[target]
    /\ m_state' = [m_state EXCEPT ![target] = "zombie"]
    /\ UNCHANGED <<pool, exited, result, joinable, ready, broken, runner, final, handed,
                   doing, target, todo>>

\* Mutant: the thread is told to quit, found exited, and not joined.
JoinNot ==
    /\ OwnerMove("join", "teardown")
    /\ m_state' = [m_state EXCEPT ![target] = "quit"]
    /\ UNCHANGED <<pool, exited, result, joinable, ready, broken, runner, final, handed,
                   doing, target, todo>>

Join ==
    /\ OwnerMove("join", "teardown")
    /\ runner[target] \in {"done", "cancelled"}
    /\ joinable' = [joinable EXCEPT ![target] = FALSE]
    /\ m_state' = [m_state EXCEPT ![target] = "quit"]
    /\ UNCHANGED <<pool, exited, result, ready, broken, runner, final, handed,
                   doing, target, todo>>

\* In the owner's thread.  What it returns decides what Reset does.
Teardown ==
    /\ \/ OwnerMove("teardown", "stopped")
       \/ doing = "reset" /\ OwnerMove("teardown", "idle")
    /\ handed' = [handed EXCEPT ![target] = result[target]]
    /\ UNCHANGED <<pool, m_state, exited, result, joinable, ready, broken, runner, final,
                   doing, target, todo>>

StopReturns ==
    /\ doing \in {"stop", "stopAll"}
    /\ OwnerMove("stopped", IF doing = "stop" THEN "idle" ELSE "visit")
    /\ UNCHANGED <<pool, objectVars, doing, target, todo>>

Renew ==
    /\ OwnerMove("stopped", "idle")
    /\ doing = "reset"
    /\ IF m_state[target] = "quit" THEN Fresh(target) ELSE UNCHANGED objectVars
    /\ UNCHANGED <<pool, doing, target, todo>>

\* ~JdThreadT: its own Stop finds the thread not running; then the assertion.
Delete ==
    /\ opc = "stopped" /\ doing \in Deleting
    /\ OwnerMove("stopped", IF m_state[target] \notin {"pending", "quit"} THEN "aborted"
                            ELSE IF doing = "delete" THEN "idle" ELSE "visit")
    /\ IF m_state[target] \in {"pending", "quit"}
       THEN pool' = pool \ {target} /\ Fresh(target)
       ELSE UNCHANGED <<pool, objectVars>>
    /\ UNCHANGED <<doing, target, todo>>

-----------------------------------------------------------------------------
Alive == opc # "aborted"

RunnerStep(t) ==
    Begin(t) \/ RunReturns(t) \/ Finalize(t) \/ StoreResult(t) \/ SetExited(t) \/ Cancelled(t)

OwnerStep ==
    \/ \E t \in JdThreads : Skip(t) \/ Visit(t) \/ NewThread(t)
    \/ EndVisits \/ Started \/ StopNotRunning \/ Stop \/ DidExit \/ WaitOver \/ Join
    \/ Teardown \/ StopReturns \/ Renew \/ Delete

OwnerCall ==
    \/ \E call \in Calls : CallPool(call) \/ \E t \in JdThreads : CallThread(call, t)
    \/ \E t \in JdThreads : Start(t) \/ StartFails(t)

ThreadNext == Alive /\ (OwnerStep \/ OwnerCall \/ \E t \in JdThreads : RunnerStep(t))

ThreadSpec == ThreadInit /\ [][ThreadNext]_threadVars

\* Told to leave in the way it listens to.
Told(t) == IF t \in Polling THEN m_state[t] # "running" ELSE broken[t]

\* The owner goes on with its call; a thread goes on, and leaves Run once told to,
\* unless it is slow.
ThreadFairness ==
    /\ WF_threadVars(OwnerStep)
    /\ \A t \in JdThreads :
         WF_threadVars(Begin(t) \/ Finalize(t) \/ StoreResult(t) \/ SetExited(t))
    /\ \A t \in JdThreads \ Slow : WF_threadVars(Told(t) /\ RunReturns(t))

-----------------------------------------------------------------------------
\* m_exited is believed by Stop and by GroomDeadThreads: it says so only of a thread
\* that has finished and stored its result, or will do nothing but return.
ExitedHasFinished ==
    \A t \in JdThreads : exited[t] => runner[t] = "done" /\ result[t] = final[t]

\* Quit means joined: nothing of the thread is left running when its implementation
\* is deleted or replaced, and the std::thread may be assigned or destroyed.
NoThreadLeft ==
    \A t \in JdThreads : m_state[t] \in {"pending", "quit"}
        => ~ joinable[t] /\ runner[t] \in {"none", "done"}

\* A thread that quit was torn down after it was finalized, with what that returned.
TeardownGetsResult ==
    \A t \in JdThreads : m_state[t] = "quit" /\ handed[t] # "none" => handed[t] = final[t]

\* GroomDeadThreads never stops a live thread.
GroomsOnlyDead ==
    [][\A t \in JdThreads :
         doing = "create" /\ m_state[t] = "running" /\ m_state'[t] # "running"
           => runner[t] = "done"]_threadVars

\* Stop, Reset, Start and the pool's calls return, or end the program; and a thread that
\* leaves in time ends in quit, not as a zombie.
CallsReturn ==
    /\ [](opc # "idle" => <>(opc \in {"idle", "aborted"}))
    /\ \A t \in JdThreads \ Slow :
         (m_state[t] = "quiting" /\ joinable[t]) ~> (m_state[t] \in {"quit", "pending"})
=============================================================================
