------------------------------ MODULE JdFiber ------------------------------
(***************************************************************************)
(* concurrent/JdFiber.hpp: cooperative fibers of one thread.  JdFibers      *)
(* creates and releases them; control moves between the home fiber (the     *)
(* thread itself) and the fibers with boost::context's jump_fcontext.       *)
(*                                                                          *)
(* The book-keeping (m_activeFiber and each controller's m_state, m_context *)
(* and m_transferredFrom) is kept beside what really happens: which         *)
(* execution is on the processor and where each of the others is parked.    *)
(* A context can be jumped to once; a jump that finds no parked execution,  *)
(* or one whose FiberRunner has nothing left but to return, ends the        *)
(* process or is undefined: "fault" records what it found.                  *)
(*                                                                          *)
(* Each action is what runs between two jumps.  The caller's code is any    *)
(* sequence of calls, except that Run is only called at home, as the        *)
(* assertion of Run (JdResult &) demands.  The assertions exist in debug    *)
(* builds only; this is the release build.                                  *)
(***************************************************************************)
EXTENDS Naturals

CONSTANTS Fibers, Home, Nobody

ASSUME FibersAssumption ==
    Home \notin Fibers /\ Nobody \notin Fibers /\ Home # Nobody

VARIABLES
    state,              \* m_state
    context,            \* whose parked execution m_context is, or Nobody
    transferredFrom,    \* m_transferredFrom
    active,             \* m_activeFiber
    cpu,                \* the execution on the processor
    place,              \* where each execution is
    fault               \* what a jump found that could not be resumed

vars == <<state, context, transferredFrom, active, cpu, place, fault>>

Execs == Fibers \cup {Home}

States ==
    {"invalid", "running", "finished", "terminated", "aborted", "initialized", "paused",
     "terminating"}
Runnable == {"initialized", "paused"}               \* IsRunnable
MayRun == {"initialized", "paused", "terminating"}  \* >= e_jdFiber_initialized
Places ==
    {"none", "fresh", "body", "unwinding",  \* no fiber, not started, in its function
     "run", "yield", "home",                \* parked in Run, Yield, ReturnHome
     "done", "returned"}                    \* FiberRunner at its end; after a result # 0
Parked == {"fresh", "run", "yield", "home"}
Ended == {"done", "returned"}

TypeOK ==
    /\ state \in [Execs -> States]
    /\ context \in [Execs -> Execs \cup {Nobody}]
    /\ transferredFrom \in [Execs -> Execs \cup {Nobody}]
    /\ active \in Execs /\ cpu \in Execs
    /\ place \in [Execs -> Places]
    /\ fault \in Places \cup {"no"}

Init ==
    /\ state = [x \in Execs |-> "invalid"]
    /\ context = [x \in Execs |-> Nobody]
    /\ transferredFrom = [x \in Execs |-> Nobody]
    /\ active = Home /\ cpu = Home
    /\ place = [x \in Execs |-> IF x = Home THEN "body" ELSE "none"]
    /\ fault = "no"

-----------------------------------------------------------------------------
(* Jumping.                                                                 *)

\* Mutant: the fiber left keeps its status.
TransferStatesOneSided(st, from, to) ==
    IF st[to] = "terminating" THEN st ELSE [st EXCEPT ![to] = "running"]

\* The switched-to fiber is running unless it is to terminate; the one that was
\* active is paused if it was running.
TransferStates(st, from, to) ==
    LET resumed == IF st[to] = "terminating" THEN st ELSE [st EXCEPT ![to] = "running"]
    IN  IF resumed[from] = "running" THEN [resumed EXCEPT ![from] = "paused"] ELSE resumed

\* MakeTransfer, run by execution x as it resumes; st is m_state by then.
Transfer(x, st, saved, resumer, newActive) ==
    /\ context' = [y \in Execs |->
            IF y = saved THEN cpu ELSE IF context[y] = x THEN Nobody ELSE context[y]]
    /\ transferredFrom' = [transferredFrom EXCEPT ![x] = resumer]
    /\ state' = TransferStates(st, active, x)
    /\ active' = newActive

\* Mutant: Run does not call ComingHome, home never becomes the active fiber.
MakeTransferAbroad(x, st) ==
    Transfer(x, st, active, active, IF x = Home THEN active ELSE x)

\* Mutant: the context of the fiber that jumped is not kept.
MakeTransferOneWay(x, st) == Transfer(x, st, Nobody, active, x)

\* Mutant: who resumed a fiber is only recorded the first time.
MakeTransferOnce(x, st) ==
    Transfer(x, st, active,
             IF transferredFrom[x] = Nobody THEN active ELSE transferredFrom[x], x)

MakeTransfer(x, st) == Transfer(x, st, active, active, x)

\* Where execution x goes on: a fiber parked in Yield throws if it is to terminate.
Resumed(x, st) ==
    IF place[x] = "yield" /\ st[x] = "terminating" THEN "unwinding" ELSE "body"

Live(f) == context[f] # Nobody /\ place[context[f]] \in Parked

\* The running execution parks at p and jumps to the context of controller f.
JumpTo(f, p, st) ==
    LET x == context[f]
    IN  /\ Live(f)
        /\ MakeTransfer(x, st)
        /\ place' = [place EXCEPT ![cpu] = p, ![x] = Resumed(x, st)]
        /\ cpu' = x
        /\ UNCHANGED fault

\* The context is used up, or resuming it ends the process.
JumpFails(f) ==
    /\ ~ Live(f)
    /\ fault' = place[f]
    /\ UNCHANGED <<state, context, transferredFrom, active, cpu, place>>

Jump(f, p, st) == JumpTo(f, p, st) \/ JumpFails(f)

-----------------------------------------------------------------------------
(* Calls, made by whoever is on the processor.                              *)

CallerRuns == place[cpu] = "body" /\ fault = "no"
FiberRuns == CallerRuns /\ cpu # Home

CreateFiber(f) ==
    /\ CallerRuns
    /\ place[f] = "none"
    /\ state' = [state EXCEPT ![f] = "initialized"]
    /\ context' = [context EXCEPT ![f] = f]
    /\ transferredFrom' = [transferredFrom EXCEPT ![f] = Nobody]
    /\ place' = [place EXCEPT ![f] = "fresh"]
    /\ UNCHANGED <<active, cpu, fault>>

\* Nothing happens to a fiber that may not run.
Run(f) ==
    /\ CallerRuns /\ cpu = Home
    /\ state[f] \in MayRun
    /\ Jump(f, "run", state)

YieldToFiber(f) ==
    /\ FiberRuns
    /\ place[f] # "none"
    /\ Jump(f, "yield", state)

\* Yield (nullptr): a fiber that starts needs its controller, which is not passed.
Yield ==
    /\ FiberRuns
    /\ LET f == transferredFrom[cpu]
       IN  \/ place[f] # "fresh" /\ Jump(f, "yield", state)
           \/ /\ place[f] = "fresh"
              /\ fault' = "fresh"
              /\ UNCHANGED <<state, context, transferredFrom, active, cpu, place>>

\* YieldTo (nullptr): ReturnHome does not look at the status when it comes back.
YieldHome ==
    /\ FiberRuns
    /\ Jump(Home, "home", state)

\* A fiber that terminates itself throws; any other one is resumed to do so.
Terminate(f) ==
    /\ CallerRuns
    /\ place[f] # "none"
    /\ \/ /\ state[f] = "running"
          /\ place' = [place EXCEPT ![cpu] = "unwinding"]
          /\ UNCHANGED <<state, context, transferredFrom, active, cpu, fault>>
       \/ /\ state[f] # "running"
          /\ Jump(f, IF active = Home THEN "run" ELSE "yield",
                  [state EXCEPT ![f] = "terminating"])

\* FiberRunner after RunFiber: the status it leaves, and home.
Finish(status, end) == Jump(Home, end, [state EXCEPT ![cpu] = status])

ReturnZero == FiberRuns /\ Finish("finished", "done")

\* Another result leaves the status to MakeTransfer.
ReturnNonzero == FiberRuns /\ Finish(state[cpu], "returned")

Throw == FiberRuns /\ Finish("aborted", "done")

Unwind == place[cpu] = "unwinding" /\ fault = "no" /\ Finish("terminated", "done")

\* A paused fiber is only released by force; what is on its stack is abandoned.
\* No fiber is ever seen in the "exiting" state, which FiberRunner ends at once.
ReleaseFiber(f) ==
    /\ CallerRuns
    /\ place[f] # "none"
    /\ f # active
    /\ place' = [place EXCEPT ![f] = "none"]
    /\ state' = [state EXCEPT ![f] = "invalid"]
    /\ context' = [context EXCEPT ![f] = Nobody]
    /\ UNCHANGED <<transferredFrom, active, cpu, fault>>

-----------------------------------------------------------------------------
Next ==
    \/ Yield \/ YieldHome \/ ReturnZero \/ ReturnNonzero \/ Throw \/ Unwind
    \/ \E f \in Fibers :
         CreateFiber(f) \/ Run(f) \/ YieldToFiber(f) \/ Terminate(f) \/ ReleaseFiber(f)

Spec == Init /\ [][Next]_vars

-----------------------------------------------------------------------------
(* Properties.                                                              *)

\* The book-keeping is right after any sequence of jumps: the active fiber is the
\* one on the processor, home can be returned to, and the context kept for a
\* parked fiber is its own and has not been used (JdFiber.hpp:470-485).
ContextsAreLive ==
    /\ active = cpu
    /\ cpu # Home => place[Home] = "run"
    /\ \A x \in Execs : place[x] \in Parked => context[x] = x

\* So control is only ever lost to a fiber that has ended, has been released, or
\* is the caller itself.
OnlyTheDeadFault == fault \notin {"run", "yield", "home"}

\* The status tells the truth: one fiber runs, an ended one says how, and one
\* that IsRunnable has code to run - unless its function returned a result # 0,
\* after which it is called runnable and is not.
StatusIsTrue ==
    \A f \in Fibers :
        /\ state[f] = "running" => f = cpu
        /\ f = cpu => state[f] \in {"running", "terminating"}
        /\ place[f] = "done" => state[f] \in {"finished", "terminated", "aborted"}
        /\ state[f] \in Runnable => place[f] \in {"fresh", "yield", "home", "returned"}

\* The fibers are coroutines: control goes where the call says, back means to
\* whoever resumed the fiber last ("Yield (nullptr) switches to calling fiber"),
\* and what has ended does not run again.
Abstract == INSTANCE Coroutines WITH
    Routines <- Fibers, Main <- Home,
    on <- cpu,
    resumer <- [f \in Fibers |-> transferredFrom[f]],
    stage <- [f \in Fibers |->
        IF place[f] = "none" THEN "absent" ELSE IF place[f] \in Ended THEN "ended" ELSE "ready"]

ImplementsCoroutines == Abstract!Spec
=============================================================================
