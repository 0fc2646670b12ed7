---------------------------- MODULE LibraryProofs ----------------------------
(***************************************************************************)
(* Proofs about the parts of the library that MCLibrary checks together and *)
(* that have symbols of their own: JdFiber, for any set of fibers; JdSql,   *)
(* for any tables, rows, messages and statements that fail; JdSignalSlot,   *)
(* for any links, callbacks and depth of emissions; and                     *)
(* JdCircularAllocator, for any threads and requests and for buffers whose  *)
(* size divides the range of an index.                                      *)
(*                                                                          *)
(* Fibers: their book-keeping of contexts survives every sequence of jumps, *)
(* statuses tell the truth, and they are coroutines.  A jump reads only     *)
(* m_context and m_activeFiber, so that it lands where the caller asked     *)
(* needs more than ContextsAreLive: Whereabouts says which executions are   *)
(* parked, and that no controller ever holds the context of another one's   *)
(* execution.                                                               *)
(*                                                                          *)
(* Tables: a method is a chain of steps (set up, insert, add columns,       *)
(* update), each of which may be the last.  Whole is what a table is after  *)
(* any of them, Follows what a chain of them may have done to it, and Tells *)
(* what the caller may conclude from the result.                            *)
(*                                                                          *)
(* The ring of the allocator: its indices are two numbers that only grow,   *)
(* taken modulo the range of an index, and its words are such numbers       *)
(* modulo the buffer's size, which is the same for both since the one       *)
(* divides the other (SamePlace).  Between the two numbers chunk follows    *)
(* chunk (Tiled), and the walk of a release steps from one to the next.     *)
(***************************************************************************)
EXTENDS JdFiber, JdSql, JdSignalSlot, JdCircularAllocator, FiniteSetTheorems,
        WellFoundedInduction, TLAPS

-----------------------------------------------------------------------------
(* Fibers.                                                                  *)


Running == {"body", "unwinding"}
EndStates == {"finished", "terminated", "aborted"}

Whereabouts ==
    /\ place[cpu] \in Running
    /\ \A x \in Execs : x # cpu => place[x] \notin Running
    /\ \A f \in Fibers : place[f] # "run"
    /\ place[Home] \in {"body", "run"}
    /\ \A x \in Execs : context[x] \in {x, Nobody}
    /\ cpu # Home => transferredFrom[cpu] \in Execs

IInv == TypeOK /\ ContextsAreLive /\ OnlyTheDeadFault /\ StatusIsTrue /\ Whereabouts

-----------------------------------------------------------------------------
(* Every state satisfies the invariant.                                     *)

LEMMA InitIInv == Init => IInv
BY FibersAssumption DEF Init, IInv, TypeOK, ContextsAreLive, OnlyTheDeadFault, StatusIsTrue,
    Whereabouts, Execs, States, Places, Parked, Running, Runnable

\* What a jump does: it resumes the fiber asked for, which becomes the active one.
LEMMA JumpLands ==
    ASSUME IInv, NEW f \in Execs, NEW p, NEW st, JumpTo(f, p, st)
    PROVE  /\ context[f] = f /\ f # cpu /\ place[f] \in Parked
           /\ cpu' = f /\ active' = f /\ fault' = fault
           /\ transferredFrom' = [transferredFrom EXCEPT ![f] = cpu]
           /\ context' = [y \in Execs |->
                IF y = cpu THEN cpu ELSE IF context[y] = f THEN Nobody ELSE context[y]]
           /\ state' = TransferStates(st, cpu, f)
           /\ place' = [place EXCEPT ![cpu] = p, ![f] = Resumed(f, st)]
<1>1. Live(f) /\ context[f] \in {f, Nobody} /\ active = cpu
  BY DEF JumpTo, IInv, Whereabouts, ContextsAreLive
<1>2. context[f] = f /\ place[f] \in Parked
  BY <1>1 DEF Live
<1>3. f # cpu
  BY <1>2 DEF IInv, Whereabouts, Running, Parked
<1> QED
  BY <1>1, <1>2, <1>3 DEF JumpTo, MakeTransfer, Transfer

\* A jump keeps the invariant if the running execution parks where it may and
\* leaves a status that suits the place.
LEMMA JumpIInv ==
    ASSUME IInv, fault = "no",
           NEW f \in Execs, NEW p, NEW st \in [Execs -> States],
           IF cpu = Home THEN p = "run" ELSE p \in {"yield", "home", "done", "returned"},
           \A g \in Fibers : g \notin {cpu, f} => st[g] = state[g],
           f # cpu => st[f] \in {state[f], "terminating"},
           cpu # Home =>
               IF p = "done" THEN st[cpu] \in EndStates
               ELSE st[cpu] \in {"running", "terminating"},
           Jump(f, p, st)
    PROVE  IInv'
<1>1. CASE JumpFails(f)
  <2>1. ~ Live(f) /\ context[f] \in {f, Nobody}
    BY <1>1 DEF JumpFails, IInv, Whereabouts
  <2>2. place[f] \notin Parked
    BY <2>1, FibersAssumption DEF Live, IInv, ContextsAreLive, Execs
  <2>3. fault' = place[f] /\ place[f] \in Places
    BY <1>1 DEF JumpFails, IInv, TypeOK
  <2>4. OnlyTheDeadFault'
    BY <2>2, <2>3 DEF OnlyTheDeadFault, Parked
  <2>5. TypeOK'
    BY <1>1, <2>3 DEF JumpFails, IInv, TypeOK
  <2>6. ContextsAreLive' /\ StatusIsTrue' /\ Whereabouts'
    BY <1>1 DEF JumpFails, IInv, ContextsAreLive, StatusIsTrue, Whereabouts
  <2> QED
    BY <2>4, <2>5, <2>6 DEF IInv
<1>2. CASE JumpTo(f, p, st)
  <2> DEFINE r == Resumed(f, st)
  <2>1. /\ context[f] = f /\ f # cpu /\ place[f] \in Parked
        /\ cpu' = f /\ active' = f /\ fault' = fault
        /\ transferredFrom' = [transferredFrom EXCEPT ![f] = cpu]
        /\ context' = [y \in Execs |->
             IF y = cpu THEN cpu ELSE IF context[y] = f THEN Nobody ELSE context[y]]
        /\ state' = TransferStates(st, cpu, f)
        /\ place' = [place EXCEPT ![cpu] = p, ![f] = r]
    BY <1>2, JumpLands
  <2>2. r \in Running /\ (f = Home => r = "body")
    BY DEF Resumed, Running, IInv, Whereabouts
  <2>3. cpu \in Execs /\ p \in Places
    BY DEF IInv, TypeOK, Places
  <2>4. /\ \A x \in Execs : place'[x] = IF x = f THEN r ELSE IF x = cpu THEN p ELSE place[x]
        /\ \A x \in Execs : context'[x] =
             IF x = cpu THEN cpu ELSE IF x = f THEN Nobody ELSE context[x]
    <3>1. \A x \in Execs : context[x] = f => x = f
      BY FibersAssumption DEF IInv, Whereabouts, Execs
    <3> QED
      BY <2>1, <2>3, <3>1 DEF IInv, TypeOK
  <2>5. /\ state' \in [Execs -> States]
        /\ \A x \in Execs :
             state'[x] = IF x = f THEN (IF st[f] = "terminating" THEN "terminating" ELSE "running")
                         ELSE IF x = cpu /\ st[cpu] = "running" THEN "paused" ELSE st[x]
    BY <2>1, <2>3 DEF TransferStates, States
  <2>6. TypeOK'
    BY <2>1, <2>2, <2>3, <2>5 DEF IInv, TypeOK, Places, Running
  <2>7. ContextsAreLive'
    <3>1. cpu' # Home => place'[Home] = "run"
      BY <2>1, <2>3, <2>4 DEF IInv, ContextsAreLive, Execs
    <3>2. \A x \in Execs : place'[x] \in Parked => context'[x] = x
      BY <2>2, <2>4 DEF IInv, ContextsAreLive, Parked, Running
    <3> QED
      BY <2>1, <3>1, <3>2 DEF ContextsAreLive
  <2>8. OnlyTheDeadFault'
    BY <2>1 DEF OnlyTheDeadFault, IInv
  <2>9. StatusIsTrue'
    <3> SUFFICES ASSUME NEW g \in Fibers
                 PROVE  /\ state'[g] = "running" => g = cpu'
                        /\ g = cpu' => state'[g] \in {"running", "terminating"}
                        /\ place'[g] = "done" => state'[g] \in EndStates
                        /\ state'[g] \in Runnable
                             => place'[g] \in {"fresh", "yield", "home", "returned"}
      BY DEF StatusIsTrue, EndStates
    <3>1. CASE g = f
      BY <3>1, <2>1, <2>2, <2>4, <2>5 DEF Execs, Running, Runnable
    <3>2. CASE g = cpu
      BY <3>2, <2>1, <2>4, <2>5, FibersAssumption DEF Execs, EndStates, Runnable
    <3>3. CASE g \notin {cpu, f}
      <4>1. g \in Execs /\ state'[g] = state[g] /\ place'[g] = place[g]
        BY <3>3, <2>4, <2>5 DEF Execs
      <4>2. /\ state[g] = "running" => g = cpu
            /\ place[g] = "done" => state[g] \in EndStates
            /\ state[g] \in Runnable => place[g] \in {"fresh", "yield", "home", "returned"}
        BY DEF IInv, StatusIsTrue, EndStates
      <4> QED
        BY <3>3, <4>1, <4>2, <2>1
    <3> QED
      BY <3>1, <3>2, <3>3
  <2>10. Whereabouts'
    <3>1. /\ place'[cpu'] \in Running
          /\ \A x \in Execs : x # cpu' => place'[x] \notin Running
      <4>1. place'[f] = r
        BY <2>4
      <4>2. ASSUME NEW x \in Execs, x # f PROVE place'[x] \notin Running
        BY <4>2, <2>4 DEF IInv, Whereabouts, Running
      <4> QED
        BY <4>1, <4>2, <2>1, <2>2
    <3>2. /\ \A g \in Fibers : place'[g] # "run"
          /\ place'[Home] \in {"body", "run"}
      BY <2>2, <2>4, FibersAssumption DEF IInv, Whereabouts, Execs, Running
    <3>3. \A x \in Execs : context'[x] \in {x, Nobody}
      BY <2>4 DEF IInv, Whereabouts
    <3>4. cpu' # Home => transferredFrom'[cpu'] \in Execs
      BY <2>1, <2>3 DEF IInv, TypeOK
    <3> QED
      BY <3>1, <3>2, <3>3, <3>4 DEF Whereabouts
  <2> QED
    BY <2>6, <2>7, <2>8, <2>9, <2>10 DEF IInv
<1> QED
  BY <1>1, <1>2 DEF Jump

LEMMA CreateIInv == ASSUME IInv, NEW f \in Fibers, CreateFiber(f) PROVE IInv'
<1>1. f # cpu /\ f \in Execs /\ f # Home
  BY FibersAssumption DEF CreateFiber, IInv, Whereabouts, Running, Execs
<1>2. TypeOK'
  BY <1>1 DEF CreateFiber, IInv, TypeOK, States, Places
<1>3. ContextsAreLive' /\ OnlyTheDeadFault'
  BY <1>1 DEF CreateFiber, IInv, TypeOK, ContextsAreLive, OnlyTheDeadFault
<1>4. StatusIsTrue'
  BY <1>1 DEF CreateFiber, IInv, TypeOK, StatusIsTrue, Execs, Runnable
<1>5. Whereabouts'
  BY <1>1 DEF CreateFiber, IInv, TypeOK, Whereabouts, Running, Execs
<1> QED
  BY <1>2, <1>3, <1>4, <1>5 DEF IInv

LEMMA ReleaseIInv == ASSUME IInv, NEW f \in Fibers, ReleaseFiber(f) PROVE IInv'
<1>1. f # cpu /\ f \in Execs /\ f # Home
  BY FibersAssumption DEF ReleaseFiber, IInv, ContextsAreLive, Execs
<1>2. TypeOK'
  BY <1>1 DEF ReleaseFiber, IInv, TypeOK, States, Places
<1>3. ContextsAreLive' /\ OnlyTheDeadFault'
  BY <1>1 DEF ReleaseFiber, IInv, TypeOK, ContextsAreLive, OnlyTheDeadFault, Parked
<1>4. StatusIsTrue'
  BY <1>1 DEF ReleaseFiber, IInv, TypeOK, StatusIsTrue, Execs, Runnable
<1>5. Whereabouts'
  BY <1>1 DEF ReleaseFiber, IInv, TypeOK, Whereabouts, Running, Execs
<1> QED
  BY <1>2, <1>3, <1>4, <1>5 DEF IInv

\* A caller that leaves every status alone.
LEMMA CallIInv ==
    ASSUME IInv, CallerRuns, NEW f \in Execs, NEW p,
           IF cpu = Home THEN p = "run" ELSE p \in {"yield", "home", "returned"},
           Jump(f, p, state)
    PROVE  IInv'
<1>1. state \in [Execs -> States] /\ fault = "no"
  BY DEF IInv, TypeOK, CallerRuns
<1>2. cpu # Home => state[cpu] \in {"running", "terminating"}
  BY DEF IInv, TypeOK, StatusIsTrue, Execs
<1> QED
  BY <1>1, <1>2, JumpIInv

LEMMA TerminateIInv == ASSUME IInv, NEW f \in Fibers, Terminate(f) PROVE IInv'
<1>1. f \in Execs /\ cpu \in Execs /\ active = cpu /\ fault = "no" /\ place[cpu] = "body"
  BY DEF Terminate, CallerRuns, IInv, TypeOK, ContextsAreLive, Execs
<1>2. CASE /\ state[f] = "running"
           /\ place' = [place EXCEPT ![cpu] = "unwinding"]
           /\ UNCHANGED <<state, context, transferredFrom, active, cpu, fault>>
  <2>1. f = cpu /\ cpu # Home
    BY <1>2, FibersAssumption DEF IInv, StatusIsTrue
  <2>2. TypeOK'
    BY <1>1, <1>2 DEF IInv, TypeOK, Places
  <2>3. ContextsAreLive' /\ OnlyTheDeadFault'
    BY <1>1, <1>2, <2>1 DEF IInv, TypeOK, ContextsAreLive, OnlyTheDeadFault, Parked
  <2>4. StatusIsTrue'
    BY <1>1, <1>2, <2>1 DEF IInv, TypeOK, StatusIsTrue, Execs, Runnable
  <2>5. Whereabouts'
    BY <1>1, <1>2, <2>1 DEF IInv, TypeOK, Whereabouts, Running, Execs
  <2> QED
    BY <2>2, <2>3, <2>4, <2>5 DEF IInv
<1>3. CASE /\ state[f] # "running"
           /\ Jump(f, IF active = Home THEN "run" ELSE "yield",
                   [state EXCEPT ![f] = "terminating"])
  <2> DEFINE st == [state EXCEPT ![f] = "terminating"]
             p == IF active = Home THEN "run" ELSE "yield"
  <2>1. st \in [Execs -> States] /\ st[f] = "terminating"
    BY <1>1 DEF IInv, TypeOK, States
  <2>2. \A g \in Fibers : g \notin {cpu, f} => st[g] = state[g]
    BY DEF IInv, TypeOK, Execs
  <2>3. cpu # Home => st[cpu] \in {"running", "terminating"}
    BY <1>1 DEF IInv, TypeOK, StatusIsTrue, Execs
  <2>4. IF cpu = Home THEN p = "run" ELSE p \in {"yield", "home", "done", "returned"}
    BY <1>1
  <2>5. p # "done" /\ Jump(f, p, st)
    BY <1>3
  <2> HIDE DEF st, p
  <2> QED
    BY <1>1, <2>1, <2>2, <2>3, <2>4, <2>5, JumpIInv
<1> QED
  BY <1>2, <1>3 DEF Terminate

\* A fiber that ends says how.
LEMMA EndIInv ==
    ASSUME IInv, place[cpu] \in Running, cpu # Home, fault = "no",
           NEW status \in EndStates, Finish(status, "done")
    PROVE  IInv'
<1> DEFINE st == [state EXCEPT ![cpu] = status]
<1>1. st \in [Execs -> States] /\ cpu \in Execs /\ Home \in Execs
  BY DEF IInv, TypeOK, States, EndStates, Execs
<1>2. st[cpu] = status /\ (\A g \in Execs : g # cpu => st[g] = state[g])
  BY <1>1 DEF IInv, TypeOK
<1>3. Jump(Home, "done", st)
  BY DEF Finish
<1> HIDE DEF st
<1>4. \A g \in Fibers : g \notin {cpu, Home} => st[g] = state[g]
  BY <1>2 DEF Execs
<1> QED
  BY <1>1, <1>2, <1>3, <1>4, JumpIInv

LEMMA ReturnNonzeroIInv == ASSUME IInv, ReturnNonzero PROVE IInv'
<1>1. state = [state EXCEPT ![cpu] = state[cpu]]
  BY DEF IInv, TypeOK
<1>2. Home \in Execs /\ CallerRuns /\ cpu # Home /\ Jump(Home, "returned", state)
  BY <1>1 DEF ReturnNonzero, FiberRuns, Finish, Execs
<1> QED
  BY <1>2, CallIInv

LEMMA YieldIInv == ASSUME IInv, Yield PROVE IInv'
<1> DEFINE f == transferredFrom[cpu]
<1>1. CallerRuns /\ cpu # Home /\ f \in Execs
  BY DEF Yield, FiberRuns, IInv, Whereabouts
<1>2. CASE Jump(f, "yield", state)
  BY <1>1, <1>2, CallIInv
<1>3. CASE fault' = "fresh" /\ UNCHANGED <<state, context, transferredFrom, active, cpu, place>>
  BY <1>3 DEF IInv, TypeOK, ContextsAreLive, OnlyTheDeadFault, StatusIsTrue, Whereabouts, Places
<1> QED
  BY <1>2, <1>3 DEF Yield

LEMMA NextIInv == IInv /\ [Next]_vars => IInv'
<1> SUFFICES ASSUME IInv, [Next]_vars PROVE IInv'
  OBVIOUS
<1>1. CASE UNCHANGED vars
  BY <1>1 DEF vars, IInv, TypeOK, ContextsAreLive, OnlyTheDeadFault, StatusIsTrue, Whereabouts
<1>2. CASE Yield
  BY <1>2, YieldIInv
<1>3. CASE YieldHome
  BY <1>3, CallIInv DEF YieldHome, FiberRuns, Execs
<1>4. CASE ReturnZero \/ Throw \/ Unwind
  <2>1. place[cpu] \in Running /\ fault = "no"
    BY <1>4 DEF ReturnZero, Throw, Unwind, FiberRuns, CallerRuns, Running
  <2>2. cpu # Home
    BY <1>4 DEF ReturnZero, Throw, Unwind, FiberRuns, IInv, Whereabouts
  <2>3. \E status \in EndStates : Finish(status, "done")
    BY <1>4 DEF ReturnZero, Throw, Unwind, EndStates
  <2> QED
    BY <2>1, <2>2, <2>3, EndIInv
<1>5. CASE ReturnNonzero
  BY <1>5, ReturnNonzeroIInv
<1>6. ASSUME NEW f \in Fibers, CreateFiber(f) PROVE IInv'
  BY <1>6, CreateIInv
<1>7. ASSUME NEW f \in Fibers, Run(f) PROVE IInv'
  BY <1>7, CallIInv DEF Run, Execs
<1>8. ASSUME NEW f \in Fibers, YieldToFiber(f) PROVE IInv'
  BY <1>8, CallIInv DEF YieldToFiber, FiberRuns, Execs
<1>9. ASSUME NEW f \in Fibers, Terminate(f) PROVE IInv'
  BY <1>9, TerminateIInv
<1>10. ASSUME NEW f \in Fibers, ReleaseFiber(f) PROVE IInv'
  BY <1>10, ReleaseIInv
<1> QED
  BY <1>1, <1>2, <1>3, <1>4, <1>5, <1>6, <1>7, <1>8, <1>9, <1>10 DEF Next

LEMMA Invariance == Spec => []IInv
BY InitIInv, NextIInv, PTL DEF Spec

-----------------------------------------------------------------------------
(* The theorems.                                                            *)

\* JdFiber.hpp's records stay well typed.
THEOREM TypeCorrect == Spec => []TypeOK
BY Invariance, PTL DEF IInv

\* MakeTransfer (JdFiber.hpp:470-485) keeps the record of what runs and of where
\* the others are parked right, for any number of fibers and any nesting of calls.
THEOREM Contexts == Spec => []ContextsAreLive
BY Invariance, PTL DEF IInv

\* No jump ever misses a fiber that is parked: control is lost only to a fiber that
\* has ended or been released, or to the caller itself.
THEOREM JumpsLand == Spec => []OnlyTheDeadFault
BY Invariance, PTL DEF IInv

\* EJdFiberStatus is what the fiber is.
THEOREM Statuses == Spec => []StatusIsTrue
BY Invariance, PTL DEF IInv

-----------------------------------------------------------------------------
(* Refinement: every step is a step of the coroutines, or leaves them alone. *)

Stage(pl) ==
    [f \in Fibers |->
        IF pl[f] = "none" THEN "absent" ELSE IF pl[f] \in Ended THEN "ended" ELSE "ready"]
Resumer(tf) == [f \in Fibers |-> tf[f]]

LEMMA InitRefines == Init => Abstract!Init
BY FibersAssumption DEF Init, Abstract!Init, Execs

\* A jump that changes no stage resumes a coroutine.
LEMMA JumpResumes ==
    ASSUME IInv, NEW f \in Fibers, NEW p \in {"run", "yield"}, NEW st, JumpTo(f, p, st)
    PROVE  Abstract!Resume(f)
<1>1. /\ f # cpu /\ place[f] \in Parked /\ cpu' = f
      /\ transferredFrom' = [transferredFrom EXCEPT ![f] = cpu]
      /\ place' = [place EXCEPT ![cpu] = p, ![f] = Resumed(f, st)]
  BY JumpLands DEF Execs
<1>2. place[cpu] \in Running /\ Resumed(f, st) \in Running /\ cpu \in Execs /\ f \in Execs
  BY DEF IInv, TypeOK, Whereabouts, Resumed, Running, Execs
<1>3. Stage(place)[f] = "ready"
  BY <1>1 DEF Stage, Parked, Ended
<1>4. Stage(place') = Stage(place)
  <2>1. ASSUME NEW g \in Fibers PROVE Stage(place')[g] = Stage(place)[g]
    BY <1>1, <1>2 DEF IInv, TypeOK, Stage, Parked, Ended, Running, Execs
  <2> QED
    BY <2>1 DEF Stage
<1>5. Resumer(transferredFrom') = [Resumer(transferredFrom) EXCEPT ![f] = cpu]
  BY <1>1, <1>2 DEF IInv, TypeOK, Resumer, Execs
<1> QED
  BY <1>1, <1>3, <1>4, <1>5 DEF Abstract!Resume, Stage, Resumer

\* A jump home; stages are as the parting fiber leaves them.
LEMMA JumpGoesHome ==
    ASSUME IInv, cpu # Home, NEW p \in {"yield", "home", "done", "returned"}, NEW st,
           JumpTo(Home, p, st)
    PROVE  /\ cpu' = Home
           /\ Resumer(transferredFrom') = Resumer(transferredFrom)
           /\ p \in Ended => Stage(place') = [Stage(place) EXCEPT ![cpu] = "ended"]
           /\ p \notin Ended => Stage(place') = Stage(place)
<1>1. /\ cpu' = Home
      /\ transferredFrom' = [transferredFrom EXCEPT ![Home] = cpu]
      /\ place' = [place EXCEPT ![cpu] = p, ![Home] = Resumed(Home, st)]
  BY JumpLands DEF Execs
<1>2. place[cpu] \in Running /\ cpu \in Fibers /\ Home \notin Fibers
  BY FibersAssumption DEF IInv, TypeOK, Whereabouts, Execs
<1>3. Resumer(transferredFrom') = Resumer(transferredFrom)
  BY <1>1, <1>2 DEF IInv, TypeOK, Resumer, Execs
<1>4. \A g \in Fibers : place'[g] = IF g = cpu THEN p ELSE place[g]
  BY <1>1, <1>2 DEF IInv, TypeOK, Execs
<1>5. p \in Ended => Stage(place') = [Stage(place) EXCEPT ![cpu] = "ended"]
  BY <1>2, <1>4 DEF Stage, Ended
<1>6. p \notin Ended => Stage(place') = Stage(place)
  <2>1. ASSUME p \notin Ended, NEW g \in Fibers PROVE Stage(place')[g] = Stage(place)[g]
    BY <1>2, <1>4, <2>1 DEF Stage, Ended, Running
  <2> QED
    BY <2>1 DEF Stage
<1> QED
  BY <1>1, <1>3, <1>5, <1>6

\* A jump that fails changes nothing but fault.
LEMMA FailStutters ==
    ASSUME NEW f, JumpFails(f)
    PROVE  UNCHANGED Abstract!vars
BY DEF JumpFails, Abstract!vars

LEMMA StepRefines == IInv /\ [Next]_vars => [Abstract!Next]_(Abstract!vars)
<1> SUFFICES ASSUME IInv, [Next]_vars PROVE [Abstract!Next]_(Abstract!vars)
  OBVIOUS
<1>1. CASE UNCHANGED vars
  BY <1>1 DEF vars, Abstract!vars
<1>2. ASSUME Yield PROVE [Abstract!Next]_(Abstract!vars)
  <2> DEFINE f == transferredFrom[cpu]
  <2>1. cpu # Home /\ cpu \in Fibers /\ f \in Execs /\ Resumer(transferredFrom)[cpu] = f
    BY <1>2 DEF Yield, FiberRuns, IInv, TypeOK, Whereabouts, Execs, Resumer
  <2>6. \/ JumpTo(f, "yield", state) \/ JumpFails(f)
        \/ UNCHANGED <<state, context, transferredFrom, active, cpu, place>>
    BY <1>2 DEF Yield, Jump
  <2> HIDE DEF f
  <2>2. CASE JumpTo(f, "yield", state) /\ f \in Fibers
    <3>1. PICK g \in Fibers : g = f
      BY <2>2
    <3>2. JumpTo(g, "yield", state)
      BY <2>2, <3>1 DEF JumpTo, Live
    <3>3. Abstract!Resume(g)
      BY <3>2, JumpResumes
    <3>4. Abstract!Back
      BY <2>1, <3>1, <3>3 DEF Abstract!Back, Abstract!Resume, Resumer
    <3> QED
      BY <3>4 DEF Abstract!Next
  <2>3. CASE JumpTo(f, "yield", state) /\ f = Home
    <3>1. /\ cpu' = Home
          /\ Resumer(transferredFrom') = Resumer(transferredFrom)
          /\ Stage(place') = Stage(place)
      BY <2>1, <2>3, JumpGoesHome DEF Ended
    <3> QED
      BY <2>1, <2>3, <3>1 DEF Abstract!Next, Abstract!Back, Stage, Resumer
  <2>4. CASE JumpFails(f)
    BY <2>4, FailStutters
  <2>5. CASE UNCHANGED <<state, context, transferredFrom, active, cpu, place>>
    BY <2>5 DEF Abstract!vars
  <2> QED
    BY <2>1, <2>2, <2>3, <2>4, <2>5, <2>6 DEF Execs
<1>3. ASSUME YieldHome PROVE [Abstract!Next]_(Abstract!vars)
  <2>1. CASE JumpTo(Home, "home", state)
    <3>1. cpu # Home
      BY <1>3 DEF YieldHome, FiberRuns
    <3>2. /\ cpu' = Home
          /\ Resumer(transferredFrom') = Resumer(transferredFrom)
          /\ Stage(place') = Stage(place)
      BY <2>1, <3>1, JumpGoesHome DEF Ended
    <3> QED
      BY <3>1, <3>2 DEF Abstract!Next, Abstract!GoHome, Stage, Resumer
  <2> QED
    BY <1>3, <2>1, FailStutters DEF YieldHome, Jump
<1>4. ASSUME ReturnZero \/ ReturnNonzero \/ Throw \/ Unwind
      PROVE  [Abstract!Next]_(Abstract!vars)
  <2>1. cpu # Home
    BY <1>4 DEF ReturnZero, ReturnNonzero, Throw, Unwind, FiberRuns, IInv, Whereabouts
  <2>2. \E status, end : end \in Ended /\ Finish(status, end)
    BY <1>4 DEF ReturnZero, ReturnNonzero, Throw, Unwind, Ended
  <2>3. PICK status, end : end \in Ended /\ Finish(status, end)
    BY <2>2
  <2>4. CASE JumpTo(Home, end, [state EXCEPT ![cpu] = status])
    <3>1. /\ cpu' = Home
          /\ Resumer(transferredFrom') = Resumer(transferredFrom)
          /\ Stage(place') = [Stage(place) EXCEPT ![cpu] = "ended"]
      BY <2>1, <2>3, <2>4, JumpGoesHome DEF Ended
    <3> QED
      BY <2>1, <3>1 DEF Abstract!Next, Abstract!End, Stage, Resumer
  <2> QED
    BY <2>3, <2>4, FailStutters DEF Finish, Jump
<1>5. ASSUME NEW f \in Fibers, CreateFiber(f) PROVE [Abstract!Next]_(Abstract!vars)
  <2>1. f \in Execs /\ Stage(place)[f] = "absent" /\ cpu' = cpu
    BY <1>5 DEF CreateFiber, Stage, Execs
  <2>2. Stage(place') = [Stage(place) EXCEPT ![f] = "ready"]
    BY <1>5, <2>1 DEF CreateFiber, IInv, TypeOK, Stage, Ended, Execs
  <2>3. Resumer(transferredFrom') = [Resumer(transferredFrom) EXCEPT ![f] = Nobody]
    BY <1>5, <2>1 DEF CreateFiber, IInv, TypeOK, Resumer, Execs
  <2> QED
    BY <2>1, <2>2, <2>3 DEF Abstract!Next, Abstract!Create, Stage, Resumer
<1>6. ASSUME NEW f \in Fibers, Run(f) \/ YieldToFiber(f)
      PROVE  [Abstract!Next]_(Abstract!vars)
  <2>1. \/ JumpTo(f, "run", state) \/ JumpTo(f, "yield", state) \/ JumpFails(f)
    BY <1>6 DEF Run, YieldToFiber, Jump
  <2>2. CASE JumpTo(f, "run", state) \/ JumpTo(f, "yield", state)
    BY <2>2, JumpResumes DEF Abstract!Next
  <2> QED
    BY <2>1, <2>2, FailStutters
<1>7. ASSUME NEW f \in Fibers, Terminate(f) PROVE [Abstract!Next]_(Abstract!vars)
  <2>1. CASE /\ state[f] = "running"
             /\ place' = [place EXCEPT ![cpu] = "unwinding"]
             /\ UNCHANGED <<state, context, transferredFrom, active, cpu, fault>>
    <3>1. place[cpu] = "body"
      BY <1>7 DEF Terminate, CallerRuns
    <3>2. ASSUME NEW g \in Fibers PROVE Stage(place')[g] = Stage(place)[g]
      BY <2>1, <3>1 DEF IInv, TypeOK, Stage, Ended, Execs
    <3>3. Stage(place') = Stage(place)
      BY <3>2 DEF Stage
    <3> QED
      BY <2>1, <3>3 DEF Abstract!vars, Stage
  <2>2. CASE \E p \in {"run", "yield"} : Jump(f, p, [state EXCEPT ![f] = "terminating"])
    <3>1. PICK p \in {"run", "yield"} : Jump(f, p, [state EXCEPT ![f] = "terminating"])
      BY <2>2
    <3>2. CASE JumpTo(f, p, [state EXCEPT ![f] = "terminating"])
      BY <3>2, JumpResumes DEF Abstract!Next
    <3> QED
      BY <3>1, <3>2, FailStutters DEF Jump
  <2> QED
    BY <1>7, <2>1, <2>2 DEF Terminate
<1>8. ASSUME NEW f \in Fibers, ReleaseFiber(f) PROVE [Abstract!Next]_(Abstract!vars)
  <2>1. f \in Execs /\ f # cpu /\ Stage(place)[f] # "absent"
    BY <1>8 DEF ReleaseFiber, IInv, ContextsAreLive, Stage, Execs
  <2>2. Stage(place') = [Stage(place) EXCEPT ![f] = "absent"]
    BY <1>8, <2>1 DEF ReleaseFiber, IInv, TypeOK, Stage, Execs
  <2>3. cpu' = cpu /\ transferredFrom' = transferredFrom
    BY <1>8 DEF ReleaseFiber
  <2> QED
    BY <2>1, <2>2, <2>3 DEF Abstract!Next, Abstract!Remove, Stage
<1> QED
  BY <1>1, <1>2, <1>3, <1>4, <1>5, <1>6, <1>7, <1>8 DEF Next

\* JdFibers implements coroutines: Yield (nullptr) goes back to whoever resumed the
\* caller, and a fiber that has ended is never run again.
THEOREM Refinement == Spec => ImplementsCoroutines
BY InitRefines, StepRefines, Invariance, PTL
    DEF Spec, ImplementsCoroutines, Abstract!Spec

-----------------------------------------------------------------------------
(* Tables.                                                                  *)

Ids == RowIds \cup NativeIds
Elements == UNION {Columns(m) : m \in Messages}
Names == {e.name : e \in Elements}
Values == {e.value : e \in Elements}
Known == UNION {[names -> Values] : names \in SUBSET Names}
Row == [seq : Nat, values : Known]
Table == [extant : BOOLEAN,
          columns : SUBSET [name : Names, type : {v.type : v \in Values}, class : BOOLEAN],
          rows : UNION {[ids -> Row] : ids \in SUBSET Ids}]

TablesTypeOK ==
    /\ database \in [Tables -> Table]
    /\ m_tablesInitialized \in [Tables -> BOOLEAN]
    /\ sequence \in 0 .. MaxSequence
    /\ result \in {"ok", "error", "rowAlreadyExtant"}
    /\ written \in [Tables -> [Ids -> Known]]

\* No row has a number above n.
Numbered(table, n) == \A i \in DOMAIN table.rows : table.rows[i].seq <= n

\* A table, in the middle of a method too: every value has a column, its name's only one,
\* with its type and class.
Whole(table) ==
    /\ table \in Table
    /\ ~ table.extant => DOMAIN table.rows = {} /\ table.columns = {}
    /\ IsFiniteSet(DOMAIN table.rows)
    /\ \A c, d \in table.columns : c.name = d.name => c = d
    /\ \A i \in DOMAIN table.rows : \A n \in DOMAIN table.rows[i].values :
         ColumnOf([name |-> n, value |-> table.rows[i].values[n]]) \in table.columns

\* What is known of a row is in it.
Tells(table, id, known) ==
    id \in DOMAIN table.rows =>
      \A n \in DOMAIN known :
        n \in DOMAIN table.rows[id].values /\ table.rows[id].values[n] = known[n]

TablesInv ==
    /\ TablesTypeOK
    /\ \A t \in Tables :
         /\ Whole(database[t])
         /\ Numbered(database[t], MaxSequence)
         /\ m_tablesInitialized[t] => Numbered(database[t], sequence)
         /\ \A i \in Ids : Tells(database[t], i, written[t][i])

-----------------------------------------------------------------------------
LEMMA NothingKnown == << >> \in Known /\ DOMAIN << >> = {}
  BY DEF Known

LEMMA NoTableIsWhole == Whole(NoTable) /\ Whole(EmptyTable)
  <1>1. << >> \in UNION {[ids -> Row] : ids \in SUBSET Ids}
    OBVIOUS
  <1>2. EmptyTable \in Table /\ NoTable \in Table
    BY <1>1 DEF EmptyTable, NoTable, Table
  <1>3. DOMAIN EmptyTable.rows = {} /\ DOMAIN NoTable.rows = {}
        /\ EmptyTable.columns = {} /\ NoTable.columns = {}
    BY DEF EmptyTable, NoTable
  <1> QED
    BY <1>2, <1>3, FS_EmptySet DEF Whole

LEMMA InitTablesInv == InitTables => TablesInv
  <1> SUFFICES ASSUME InitTables PROVE TablesInv
    OBVIOUS
  <1>1. TablesTypeOK
    BY NothingKnown, NoTableIsWhole, TablesAssumption DEF InitTables, TablesTypeOK, Whole, Ids
  <1>2. \A t \in Tables : DOMAIN database[t].rows = {}
    BY DEF InitTables, NoTable, EmptyTable
  <1> QED
    BY <1>1, <1>2, NoTableIsWhole DEF InitTables, TablesInv, Numbered, Tells

\* The number of the last row written.
LEMMA HighestIsHighest ==
  ASSUME NEW table, NEW n \in Nat, Whole(table), Numbered(table, n)
  PROVE  HighestSeq(table) \in 0 .. n /\ Numbered(table, HighestSeq(table))
  <1> DEFINE seqs == {0} \cup {table.rows[i].seq : i \in DOMAIN table.rows}
             below == {n - s : s \in seqs}
             less == OpToRel(<, Nat)
  <1>1. seqs \subseteq 0 .. n
    BY DEF Whole, Table, Row, Numbered
  <1>2. below \subseteq Nat /\ below # {}
    BY <1>1
  <1>3. PICK least \in below : \A x \in below : <<x, least>> \notin less
    BY <1>2, NatLessThanWellFounded, WFMin
  <1>4. ASSUME NEW x \in below PROVE least <= x
    <2>1. x \in Nat /\ least \in Nat
      BY <1>2, <1>3
    <2> HIDE DEF below
    <2>2. x < least => <<x, least>> \in less
      BY <2>1, Zenon DEF OpToRel
    <2> HIDE DEF less
    <2> QED
      BY <2>1, <2>2, <1>3
  <1>5. PICK s \in seqs : least = n - s
    OBVIOUS
  <1>6. ASSUME NEW x \in seqs PROVE s >= x
    <2>1. n - x \in below
      OBVIOUS
    <2>2. n - s <= n - x
      BY <2>1, <1>4, <1>5
    <2> HIDE DEF seqs, below
    <2> QED
      BY <2>2, <1>1
  <1>7. HighestSeq(table) \in seqs /\ \A x \in seqs : HighestSeq(table) >= x
    BY <1>6 DEF HighestSeq, Max
  <1> HIDE DEF seqs
  <1>8. \A i \in DOMAIN table.rows : table.rows[i].seq \in seqs
    BY DEF seqs
  <1> QED
    BY <1>1, <1>7, <1>8 DEF Numbered

-----------------------------------------------------------------------------
(* What a method does to a whole table.                                     *)

\* From one step of a method on row id to a later one: rows are numbered upwards, and the
\* others hold what they did.
Follows(before, after, id) ==
    /\ Whole(after.table)
    /\ after.seq \in Nat /\ before.seq <= after.seq
    /\ \A i \in DOMAIN after.table.rows :
         \/ after.table.rows[i].seq <= after.seq
         \/ i \in DOMAIN before.table.rows
            /\ after.table.rows[i].seq = before.table.rows[i].seq
    /\ \A i \in DOMAIN after.table.rows \ {id} :
         /\ i \in DOMAIN before.table.rows
         /\ after.table.rows[i].values = before.table.rows[i].values

Sound(step) == Whole(step.table) /\ step.seq \in Nat

LEMMA FollowsIsTransitive ==
  ASSUME NEW a, NEW b, NEW c, NEW id, Sound(a), Follows(a, b, id), Follows(b, c, id)
  PROVE  Follows(a, c, id)
  <1>1. a.seq <= c.seq
    BY DEF Follows, Sound
  <1>2. ASSUME NEW i \in DOMAIN c.table.rows, ~ (c.table.rows[i].seq <= c.seq)
        PROVE  i \in DOMAIN a.table.rows /\ c.table.rows[i].seq = a.table.rows[i].seq
    <2>1. i \in DOMAIN b.table.rows /\ c.table.rows[i].seq = b.table.rows[i].seq
      BY <1>2 DEF Follows
    <2>2. b.table.rows[i].seq \in Nat
      BY <2>1 DEF Follows, Whole, Table, Row
    <2>3. ~ (b.table.rows[i].seq <= b.seq)
      BY <1>2, <2>1, <2>2 DEF Follows
    <2> QED
      BY <2>1, <2>3 DEF Follows
  <1> QED
    BY <1>1, <1>2 DEF Follows

LEMMA FollowsItself ==
  ASSUME NEW a, NEW id, Sound(a)
  PROVE  Follows(a, a, id)
  BY DEF Follows, Sound

LEMMA DoneFields ==
  ASSUME NEW table, NEW seq, NEW res
  PROVE  /\ Done(table, seq, res).table = table
         /\ Done(table, seq, res).seq = seq
         /\ Done(table, seq, res).result = res
  BY DEF Done

\* A message's elements, and what ModifyRow makes of them.
LEMMA MessageTypes ==
  ASSUME NEW m \in Messages
  PROVE  /\ \A i \in DOMAIN m : m[i] \in Columns(m)
         /\ \A e \in Columns(m) : e \in Elements /\ e.name \in Names /\ e.value \in Values
         /\ ValuesOf(m) \in Known
         /\ \A n \in DOMAIN ValuesOf(m) :
              \E e \in Columns(m) : e.name = n /\ e.value = ValuesOf(m)[n]
  <1>1. \A i \in DOMAIN m : m[i] \in Columns(m)
    BY TablesAssumption DEF Columns, ToSet
  <1>2. \A e \in Columns(m) : e \in Elements
    BY DEF Elements
  <1>3. \A e \in Columns(m) : e.name \in Names /\ e.value \in Values
    BY <1>2 DEF Names, Values
  <1>4. \A n \in NamesOf(m) : \E e \in Columns(m) : e.name = n
    BY DEF NamesOf
  <1>5. \A n \in NamesOf(m) :
          \E e \in Columns(m) : e.name = n /\ e.value = ValuesOf(m)[n]
    BY <1>4 DEF ValuesOf
  <1>6. DOMAIN ValuesOf(m) = NamesOf(m) /\ NamesOf(m) \subseteq Names
    BY <1>3 DEF ValuesOf, NamesOf
  <1>7. ValuesOf(m) \in [NamesOf(m) -> Values]
    BY <1>3, <1>5, <1>6 DEF ValuesOf
  <1> QED
    BY <1>1, <1>2, <1>3, <1>5, <1>6, <1>7 DEF Known

LEMMA OverrideTypes ==
  ASSUME NEW f \in Known, NEW g \in Known
  PROVE  /\ Override(f, g) \in Known
         /\ DOMAIN Override(f, g) = DOMAIN f \cup DOMAIN g
         /\ \A n \in DOMAIN g : Override(f, g)[n] = g[n]
         /\ \A n \in DOMAIN f \ DOMAIN g : Override(f, g)[n] = f[n]
  <1>1. PICK F \in SUBSET Names, G \in SUBSET Names : f \in [F -> Values] /\ g \in [G -> Values]
    BY DEF Known
  <1>2. Override(f, g) \in [F \cup G -> Values]
    BY <1>1 DEF Override
  <1>3. F \cup G \in SUBSET Names
    BY <1>1
  <1>4. Override(f, g) \in Known
    BY <1>2, <1>3 DEF Known
  <1> QED
    BY <1>4 DEF Override

LEMMA PutRowKeeps ==
  ASSUME NEW table, Whole(table), table.extant, NEW id \in Ids, NEW row \in Row,
         \A n \in DOMAIN row.values :
           ColumnOf([name |-> n, value |-> row.values[n]]) \in table.columns
  PROVE  /\ Whole(PutRow(table, id, row))
         /\ DOMAIN PutRow(table, id, row).rows = DOMAIN table.rows \cup {id}
         /\ PutRow(table, id, row).rows[id] = row
         /\ \A i \in DOMAIN table.rows \ {id} : PutRow(table, id, row).rows[i] = table.rows[i]
  <1> DEFINE put == PutRow(table, id, row)
  <1>1. table \in Table /\ DOMAIN table.rows \subseteq Ids
    BY DEF Whole, Table
  <1>2. put = [table EXCEPT !.rows = put.rows]
    BY <1>1 DEF PutRow, Table
  <1>3. put.rows = [i \in DOMAIN table.rows \cup {id} |-> IF i = id THEN row ELSE table.rows[i]]
    BY <1>1 DEF PutRow, Table, Override
  <1>4. put.rows \in [DOMAIN table.rows \cup {id} -> Row]
    BY <1>1, <1>3 DEF Table
  <1>5. put \in Table /\ put.extant = table.extant /\ put.columns = table.columns
    <2>1. put.rows \in UNION {[ids -> Row] : ids \in SUBSET Ids}
      BY <1>1, <1>4
    <2> HIDE DEF put
    <2> QED
      BY <1>1, <1>2, <2>1 DEF Table
  <1>6. IsFiniteSet(DOMAIN table.rows \cup {id})
    BY FS_AddElement DEF Whole
  <1> HIDE DEF put
  <1>7. \A i \in DOMAIN put.rows : \A n \in DOMAIN put.rows[i].values :
          ColumnOf([name |-> n, value |-> put.rows[i].values[n]]) \in put.columns
    BY <1>3, <1>5 DEF Whole
  <1>8. Whole(put)
    BY <1>3, <1>5, <1>6, <1>7 DEF Whole
  <1> QED
    BY <1>3, <1>8 DEF put

LEMMA DropRowKeeps ==
  ASSUME NEW table, Whole(table), NEW id
  PROVE  /\ Whole(DropRow(table, id))
         /\ DOMAIN DropRow(table, id).rows = DOMAIN table.rows \ {id}
         /\ \A i \in DOMAIN table.rows \ {id} : DropRow(table, id).rows[i] = table.rows[i]
  <1> DEFINE dropped == DropRow(table, id)
             left == DOMAIN table.rows \ {id}
  <1>1. table \in Table /\ DOMAIN table.rows \subseteq Ids
    BY DEF Whole, Table
  <1>2. dropped = [table EXCEPT !.rows = dropped.rows]
    BY <1>1 DEF DropRow, Table
  <1>3. dropped.rows = [i \in left |-> table.rows[i]]
    BY <1>1 DEF DropRow, Table
  <1>4. dropped.rows \in [left -> Row]
    BY <1>1, <1>3 DEF Table
  <1>5. IsFiniteSet(left)
    BY FS_Subset DEF Whole
  <1>6. dropped \in Table /\ dropped.extant = table.extant /\ dropped.columns = table.columns
    <2>1. dropped.rows \in UNION {[ids -> Row] : ids \in SUBSET Ids}
      BY <1>1, <1>4
    <2> HIDE DEF dropped
    <2> QED
      BY <1>1, <1>2, <2>1 DEF Table
  <1> HIDE DEF dropped
  <1>7. Whole(dropped)
    BY <1>3, <1>5, <1>6 DEF Whole
  <1> QED
    BY <1>3, <1>7 DEF dropped

\* A column is added for a name that has none, once.
LEMMA AddColumnsKeeps ==
  ASSUME NEW table, Whole(table), table.extant, NEW m \in Messages,
         NEW places \in SUBSET New(table, m)
  PROVE  /\ Whole(AddColumns(table, m, places))
         /\ AddColumns(table, m, places).rows = table.rows
         /\ AddColumns(table, m, places).extant = table.extant
  <1> DEFINE added == AddColumns(table, m, places)
             columns == table.columns \cup {AddedFor(m[i]) : i \in places}
             Column == [name : Names, type : {v.type : v \in Values}, class : BOOLEAN]
  <1>1. table \in Table
    BY DEF Whole
  <1>2. /\ added.columns = columns /\ added.rows = table.rows /\ added.extant = table.extant
        /\ added = [table EXCEPT !.columns = added.columns]
    BY <1>1 DEF AddColumns, Table
  <1>3. \A i \in places : AddedFor(m[i]) \in Column
    <2> SUFFICES ASSUME NEW i \in places PROVE AddedFor(m[i]) \in Column
      OBVIOUS
    <2>1. m[i].name \in Names /\ m[i].value \in Values
      BY MessageTypes DEF New
    <2> QED
      BY <2>1 DEF AddedFor, ColumnOf, HasClass
  <1>4. columns \in SUBSET Column
    BY <1>1, <1>3 DEF Table
  <1>5. added \in Table
    <2> HIDE DEF added, columns
    <2> QED
      BY <1>1, <1>2, <1>4 DEF Table
  <1>6. ASSUME NEW c \in columns, NEW d \in columns, c.name = d.name
        PROVE  c = d
    <2>1. CASE c \in table.columns /\ d \in table.columns
      BY <2>1, <1>6 DEF Whole
    <2>2. \A i \in places : AddedFor(m[i]).name = m[i].name
      BY DEF AddedFor, ColumnOf
    <2>3. \A i \in places : \A e \in table.columns : e.name # m[i].name
      BY DEF New, FindColumn
    <2>4. CASE c \notin table.columns /\ d \notin table.columns
      <3>1. PICK i \in places, j \in places : c = AddedFor(m[i]) /\ d = AddedFor(m[j])
        BY <2>4
      <3>2. m[i].name = m[j].name
        BY <3>1, <2>2, <1>6
      <3>3. i \in Nat /\ j \in Nat /\ i >= 1 /\ j >= 1
        <4>1. m \in Seq(ToSet(m))
          BY TablesAssumption
        <4> QED
          BY <4>1 DEF New
      <3>4. ~ (i < j) /\ ~ (j < i)
        BY <3>2, <3>3 DEF New
      <3> QED
        BY <3>1, <3>3, <3>4
    <2> QED
      BY <2>1, <2>2, <2>3, <2>4, <1>6
  <1> HIDE DEF added
  <1>7. Whole(added)
    BY <1>2, <1>5, <1>6 DEF Whole
  <1> QED
    BY <1>2, <1>7 DEF added

-----------------------------------------------------------------------------
(* The methods.                                                             *)

Results == {"ok", "error", "rowAlreadyExtant"}

LEMMA ModifyRowFollows ==
  ASSUME NEW step, Sound(step), NEW id \in Ids, NEW m \in Messages, NEW failing,
         NEW after, after = ModifyRowInternal(step, id, m, failing)
  PROVE  /\ Follows(step, after, id)
         /\ after.result \in Results
         /\ after.result = "ok" /\ id \in DOMAIN after.table.rows =>
              /\ id \in DOMAIN step.table.rows
              /\ after.table.rows[id].values = Override(step.table.rows[id].values, ValuesOf(m))
  <1> DEFINE new == New(step.table, m)
             but == {i \in new : \E j \in new : i < j}
             table == AddColumns(step.table, m, new)
             old == table.rows[id].values
             values == Override(old, ValuesOf(m))
             row == [seq |-> step.seq + 1, values |-> values]
  <1>1. CASE ~ step.table.extant
    <2>1. after = Done(step.table, step.seq, "error")
      BY <1>1 DEF ModifyRowInternal
    <2> QED
      BY <2>1, DoneFields DEF Follows, Sound, Results
  <1>2. CASE step.table.extant /\ failing = "alter" /\ new # {}
    <2>1. after = Done(AddColumns(step.table, m, but), step.seq, "error")
      BY <1>2 DEF ModifyRowInternal
    <2>2. but \in SUBSET New(step.table, m)
      OBVIOUS
    <2>3. /\ Whole(AddColumns(step.table, m, but))
          /\ AddColumns(step.table, m, but).rows = step.table.rows
      BY <1>2, <2>2, AddColumnsKeeps DEF Sound
    <2> HIDE DEF but
    <2> QED
      BY <2>1, <2>3, DoneFields DEF Follows, Sound, Results
  <1>3. CASE step.table.extant /\ ~ (failing = "alter" /\ new # {})
    <2>1. /\ Whole(table) /\ table.rows = step.table.rows
          /\ table.extant = step.table.extant
      <3>1. new \in SUBSET New(step.table, m)
        OBVIOUS
      <3> HIDE DEF new
      <3> QED
        BY <1>3, <3>1, AddColumnsKeeps DEF Sound
    <2>2. step.seq \in Nat
      BY DEF Sound
    <2>3. CASE failing = "update" \/ ~ IsStatement(table, m)
      <3>1. after = Done(table, step.seq + 1, "error")
        BY <1>3, <2>3 DEF ModifyRowInternal
      <3> HIDE DEF table
      <3> QED
        BY <2>1, <2>2, <3>1, DoneFields DEF Follows, Results
    <2>4. CASE ~ (failing = "update" \/ ~ IsStatement(table, m)) /\ id \notin DOMAIN table.rows
      <3>1. after = Done(table, step.seq + 1, "ok")
        BY <1>3, <2>4 DEF ModifyRowInternal
      <3> HIDE DEF table
      <3> QED
        BY <2>1, <2>2, <2>4, <3>1, DoneFields DEF Follows, Results
    <2>5. CASE IsStatement(table, m) /\ failing # "update" /\ id \in DOMAIN table.rows
      <3>1. after = Done(PutRow(table, id, row), step.seq + 1, "ok")
        BY <1>3, <2>5 DEF ModifyRowInternal
      <3>2. old \in Known /\ ValuesOf(m) \in Known
        <4> HIDE DEF table
        <4> QED
          BY <2>1, <2>5, MessageTypes DEF Whole, Table, Row
      <3>3. /\ values \in Known
            /\ \A n \in DOMAIN ValuesOf(m) : values[n] = ValuesOf(m)[n]
            /\ \A n \in DOMAIN values \ DOMAIN ValuesOf(m) :
                 n \in DOMAIN old /\ values[n] = old[n]
        <4> HIDE DEF old
        <4> QED
          BY <3>2, OverrideTypes
      <3>4. row \in Row /\ row.values = values /\ row.seq = step.seq + 1
        <4> HIDE DEF values
        <4> QED
          BY <2>2, <3>3 DEF Row
      <3>5. ASSUME NEW n \in DOMAIN row.values
            PROVE  ColumnOf([name |-> n, value |-> row.values[n]]) \in table.columns
        <4>1. CASE n \in DOMAIN ValuesOf(m)
          <5>1. PICK e \in Columns(m) : e.name = n /\ e.value = ValuesOf(m)[n]
            BY <4>1, MessageTypes
          <5>2. ColumnOf(e) \in table.columns
            BY <2>5 DEF IsStatement
          <5>3. row.values[n] = e.value
            BY <3>3, <3>4, <4>1, <5>1
          <5> QED
            BY <5>1, <5>2, <5>3 DEF ColumnOf
        <4>2. CASE n \notin DOMAIN ValuesOf(m)
          <5>1. n \in DOMAIN old /\ row.values[n] = old[n]
            BY <3>3, <3>4, <3>5, <4>2
          <5> QED
            BY <2>1, <2>5, <5>1 DEF Whole
        <4> QED
          BY <4>1, <4>2
      <3>6. step.table.extant /\ table.extant
        BY <1>3, <2>1
      <3> HIDE DEF table, row, values
      <3>7. /\ Whole(PutRow(table, id, row))
            /\ DOMAIN PutRow(table, id, row).rows = DOMAIN table.rows \cup {id}
            /\ PutRow(table, id, row).rows[id] = row
            /\ \A i \in DOMAIN table.rows \ {id} :
                 PutRow(table, id, row).rows[i] = table.rows[i]
        BY <2>1, <3>4, <3>5, <3>6, PutRowKeeps
      <3>8. /\ after.table = PutRow(table, id, row) /\ after.seq = step.seq + 1
            /\ after.result = "ok"
        BY <3>1, DoneFields DEF row, values
      <3>9. \A i \in DOMAIN after.table.rows \ {id} :
              i \in DOMAIN step.table.rows /\ after.table.rows[i] = step.table.rows[i]
        BY <2>1, <3>7, <3>8
      <3>10. after.table.rows[id] = row /\ id \in DOMAIN step.table.rows
        BY <2>1, <2>5, <3>7, <3>8
      <3>11. row.seq <= after.seq /\ step.seq <= after.seq /\ after.seq \in Nat
        BY <2>2, <3>4, <3>8
      <3>12. Follows(step, after, id)
        BY <3>7, <3>8, <3>9, <3>10, <3>11 DEF Follows
      <3> QED
        BY <2>1, <3>4, <3>8, <3>10, <3>12 DEF Results, values
    <2> QED
      BY <2>3, <2>4, <2>5
  <1> QED
    BY <1>1, <1>2, <1>3

\* After a modification that succeeds, what was known is still so but for what was written.
LEMMA ModifyRowTells ==
  ASSUME NEW step, Sound(step), NEW id \in Ids, NEW m \in Messages, NEW failing,
         NEW after, after = ModifyRowInternal(step, id, m, failing), after.result = "ok"
  PROVE  /\ Tells(after.table, id, ValuesOf(m))
         /\ \A known \in Known :
              Tells(step.table, id, known) =>
                Tells(after.table, id, Override(known, ValuesOf(m)))
  <1> DEFINE old == step.table.rows[id].values
  <1> SUFFICES ASSUME id \in DOMAIN after.table.rows
               PROVE  /\ Tells(after.table, id, ValuesOf(m))
                      /\ \A known \in Known :
                           Tells(step.table, id, known) =>
                             Tells(after.table, id, Override(known, ValuesOf(m)))
    BY DEF Tells
  <1>1. id \in DOMAIN step.table.rows
        /\ after.table.rows[id].values = Override(old, ValuesOf(m))
    BY ModifyRowFollows
  <1>2. old \in Known /\ ValuesOf(m) \in Known
    BY <1>1, MessageTypes DEF Sound, Whole, Table, Row
  <1>3. ASSUME NEW known \in Known, Tells(step.table, id, known)
        PROVE  Tells(after.table, id, Override(known, ValuesOf(m)))
    <2> HIDE DEF old
    <2>1. \A n \in DOMAIN known : n \in DOMAIN old /\ old[n] = known[n]
      BY <1>1, <1>3 DEF Tells, old
    <2>2. \A n \in DOMAIN Override(known, ValuesOf(m)) :
            n \in DOMAIN Override(old, ValuesOf(m))
            /\ Override(old, ValuesOf(m))[n] = Override(known, ValuesOf(m))[n]
      BY <2>1 DEF Override
    <2> QED
      BY <1>1, <2>2 DEF Tells
  <1> HIDE DEF old
  <1>4. Tells(after.table, id, ValuesOf(m))
    <2>1. \A n \in DOMAIN ValuesOf(m) :
            n \in DOMAIN Override(old, ValuesOf(m))
            /\ Override(old, ValuesOf(m))[n] = ValuesOf(m)[n]
      BY DEF Override
    <2> QED
      BY <1>1, <2>1 DEF Tells
  <1> QED
    BY <1>3, <1>4

LEMMA InsertFollows ==
  ASSUME NEW step, Sound(step), NEW id \in Ids, NEW failing,
         NEW after, after = Insert(step, id, failing)
  PROVE  /\ Follows(step, after, id)
         /\ after.result \in {"ok", "error"}
         /\ after.result = "ok" => after.table.rows[id].values = << >>
  <1> DEFINE row == [seq |-> step.seq + 1, values |-> << >>]
  <1>1. step.seq \in Nat /\ Whole(step.table)
    BY DEF Sound
  <1>2. CASE failing = "insert" \/ ~ step.table.extant
    <2>1. after = Done(step.table, step.seq + 1, "error")
      BY <1>2 DEF Insert
    <2> QED
      BY <1>1, <2>1, DoneFields DEF Follows
  <1>3. CASE failing # "insert" /\ step.table.extant
    <2>1. after = Done(PutRow(step.table, id, row), step.seq + 1, "ok")
      BY <1>3 DEF Insert
    <2>2. row \in Row /\ row.values = << >> /\ row.seq = step.seq + 1
      BY <1>1, NothingKnown DEF Row
    <2> HIDE DEF row
    <2>3. \A n \in DOMAIN row.values :
            ColumnOf([name |-> n, value |-> row.values[n]]) \in step.table.columns
      BY <2>2, NothingKnown
    <2>4. /\ Whole(PutRow(step.table, id, row))
          /\ DOMAIN PutRow(step.table, id, row).rows = DOMAIN step.table.rows \cup {id}
          /\ PutRow(step.table, id, row).rows[id] = row
          /\ \A i \in DOMAIN step.table.rows \ {id} :
               PutRow(step.table, id, row).rows[i] = step.table.rows[i]
      BY <1>1, <1>3, <2>2, <2>3, PutRowKeeps
    <2>5. /\ after.table = PutRow(step.table, id, row) /\ after.seq = step.seq + 1
          /\ after.result = "ok"
      BY <2>1, DoneFields
    <2>6. Follows(step, after, id)
      BY <1>1, <2>2, <2>4, <2>5 DEF Follows
    <2> QED
      BY <2>2, <2>4, <2>5, <2>6
  <1> QED
    BY <1>2, <1>3

LEMMA FollowsIsSound ==
  ASSUME NEW a, NEW b, NEW id, Follows(a, b, id)
  PROVE  Sound(b)
  BY DEF Follows, Sound

LEMMA EmptyMessageTells ==
  ASSUME NEW table, NEW id
  PROVE  Tells(table, id, ValuesOf(<<>>))
  <1>1. DOMAIN ValuesOf(<<>>) = {}
    BY DEF ValuesOf, NamesOf, Columns, ToSet
  <1> QED
    BY <1>1 DEF Tells

LEMMA CreateRowFollows ==
  ASSUME NEW step, Sound(step), NEW id \in Ids, NEW m \in Messages, NEW erase, NEW failing,
         NEW after, after = CreateRow(step, id, m, erase, failing)
  PROVE  /\ Follows(step, after, id)
         /\ after.result \in Results
         /\ after.result = "ok" => Tells(after.table, id, ValuesOf(m))
         /\ after.result = "rowAlreadyExtant" => after.table = step.table
  <1>1. CASE ~ erase /\ HasRow(step.table, id, failing)
    <2>1. after = Done(step.table, step.seq, IF m # <<>> THEN "rowAlreadyExtant" ELSE "ok")
      BY <1>1 DEF CreateRow
    <2> QED
      BY <2>1, DoneFields, FollowsItself, EmptyMessageTells DEF Follows, Sound, Results
  <1>2. CASE ~ (~ erase /\ HasRow(step.table, id, failing))
    <2> DEFINE inserted == Insert(step, id, failing)
    <2>1. after = IF m # <<>> THEN ModifyRowInternal(inserted, id, m, failing) ELSE inserted
      BY <1>2 DEF CreateRow
    <2>2. Follows(step, inserted, id) /\ inserted.result \in {"ok", "error"}
      BY InsertFollows
    <2> HIDE DEF inserted
    <2>3. Sound(inserted)
      BY <2>2, FollowsIsSound
    <2>4. CASE m = <<>>
      BY <2>1, <2>2, <2>4, EmptyMessageTells DEF Results
    <2>5. CASE m # <<>>
      <3>1. Follows(inserted, after, id) /\ after.result \in Results
            /\ (after.result = "ok" => Tells(after.table, id, ValuesOf(m)))
        BY <2>1, <2>3, <2>5, ModifyRowFollows, ModifyRowTells
      <3>2. after.result # "rowAlreadyExtant"
        BY <2>1, <2>5, DoneFields DEF ModifyRowInternal
      <3> QED
        BY <2>2, <3>1, <3>2, FollowsIsTransitive
    <2> QED
      BY <2>4, <2>5
  <1> QED
    BY <1>1, <1>2

LEMMA CreateNativeRowFollows ==
  ASSUME NEW step, Sound(step), NEW id \in Ids, NEW m \in Messages, NEW failing,
         NEW after, after = CreateNativeRow(step, id, m, failing)
  PROVE  /\ Follows(step, after, id)
         /\ after.result \in Results
         /\ after.result = "ok" => Tells(after.table, id, ValuesOf(m))
  <1> DEFINE inserted == Insert(step, id, failing)
  <1>1. Follows(step, inserted, id) /\ inserted.result \in {"ok", "error"}
    BY InsertFollows
  <1>2. after = IF inserted.result = "ok" /\ m # <<>>
                THEN ModifyRowInternal(inserted, id, m, failing) ELSE inserted
    BY DEF CreateNativeRow
  <1> HIDE DEF inserted
  <1>3. Sound(inserted)
    BY <1>1, FollowsIsSound
  <1>4. CASE inserted.result = "ok" /\ m # <<>>
    <2>1. Follows(inserted, after, id) /\ after.result \in Results
          /\ (after.result = "ok" => Tells(after.table, id, ValuesOf(m)))
      BY <1>2, <1>3, <1>4, ModifyRowFollows, ModifyRowTells
    <2> QED
      BY <1>1, <2>1, FollowsIsTransitive
  <1>5. CASE ~ (inserted.result = "ok" /\ m # <<>>)
    BY <1>1, <1>2, <1>5, EmptyMessageTells DEF Results
  <1> QED
    BY <1>4, <1>5

LEMMA EraseRowFollows ==
  ASSUME NEW step, Sound(step), NEW id \in Ids, NEW failing,
         NEW after, after = EraseRow(step, id, failing)
  PROVE  Follows(step, after, id) /\ after.result \in Results
  <1>1. CASE failing = "delete" \/ ~ step.table.extant
    <2>1. after = Done(step.table, step.seq, "error")
      BY <1>1 DEF EraseRow
    <2> QED
      BY <2>1, DoneFields DEF Follows, Sound, Results
  <1>2. CASE failing # "delete" /\ step.table.extant
    <2>1. after = Done(DropRow(step.table, id), step.seq, "ok")
      BY <1>2 DEF EraseRow
    <2> QED
      BY <2>1, DoneFields, DropRowKeeps DEF Follows, Sound, Results
  <1> QED
    BY <1>1, <1>2

-----------------------------------------------------------------------------
(* Calls keep the invariant.                                                *)

LEMMA SetupKeeps ==
  ASSUME TablesInv, NEW t \in Tables, NEW failing, NEW step, step = SetupDatabase(t, failing)
  PROVE  /\ Sound(step)
         /\ sequence <= step.seq
         /\ Numbered(step.table, MaxSequence)
         /\ m_tablesInitialized[t] \/ failing # "setup" => Numbered(step.table, step.seq)
         /\ \A i \in Ids : Tells(step.table, i, written[t][i])
  <1>1. /\ Whole(database[t]) /\ Numbered(database[t], MaxSequence)
        /\ (m_tablesInitialized[t] => Numbered(database[t], sequence))
        /\ (\A i \in Ids : Tells(database[t], i, written[t][i]))
        /\ sequence \in Nat /\ MaxSequence \in Nat
    BY TablesAssumption DEF TablesInv, TablesTypeOK
  <1>2. CASE m_tablesInitialized[t] \/ failing = "setup"
    <2>1. step = Done(database[t], sequence, "ok")
      BY <1>2 DEF SetupDatabase
    <2> QED
      BY <1>1, <1>2, <2>1, DoneFields DEF Sound
  <1>3. CASE ~ (m_tablesInitialized[t] \/ failing = "setup")
    <2> DEFINE table == IF database[t].extant THEN database[t] ELSE EmptyTable
               highest == HighestSeq(table)
    <2>1. step = Done(table, Max({sequence, highest}), "ok")
      BY <1>3 DEF SetupDatabase
    <2>2. Whole(table) /\ Numbered(table, MaxSequence)
          /\ \A i \in Ids : Tells(table, i, written[t][i])
      <3>1. DOMAIN EmptyTable.rows = {}
        BY DEF EmptyTable
      <3> QED
        BY <1>1, <3>1, NoTableIsWhole DEF Numbered, Tells
    <2> HIDE DEF table
    <2>3. highest \in Nat /\ Numbered(table, highest)
      BY <1>1, <2>2, HighestIsHighest
    <2> HIDE DEF highest
    <2>4. Max({sequence, highest}) = IF sequence >= highest THEN sequence ELSE highest
      BY <1>1, <2>3 DEF Max
    <2>5. Numbered(table, Max({sequence, highest}))
      <3>1. \A i \in DOMAIN table.rows : table.rows[i].seq \in Nat
        BY <2>2 DEF Whole, Table, Row
      <3> QED
        BY <1>1, <2>3, <2>4, <3>1 DEF Numbered
    <2> QED
      BY <1>1, <2>1, <2>2, <2>3, <2>4, <2>5, DoneFields DEF Sound
  <1> QED
    BY <1>2, <1>3

\* A call about row id, after which known is known of it.
LEMMA CallKeeps ==
  ASSUME TablesInv, NEW t \in Tables, NEW failing, NEW id \in Ids, NEW step, NEW known \in Known,
         Follows(SetupDatabase(t, failing), step, id), step.result \in Results,
         Call(t, failing, step),
         written' = [written EXCEPT ![t][id] = known], Tells(step.table, id, known)
  PROVE  TablesInv'
  <1> DEFINE setup == SetupDatabase(t, failing)
  <1>1. /\ Sound(setup) /\ sequence <= setup.seq /\ Numbered(setup.table, MaxSequence)
        /\ (m_tablesInitialized[t] \/ failing # "setup" => Numbered(setup.table, setup.seq))
        /\ \A i \in Ids : Tells(setup.table, i, written[t][i])
    BY SetupKeeps
  <1> HIDE DEF setup
  <1>2. Follows(setup, step, id)
    BY DEF setup
  <1>3. /\ Whole(step.table) /\ step.seq \in 0 .. MaxSequence /\ setup.seq <= step.seq
        /\ step.table \in Table /\ sequence \in Nat /\ setup.seq \in Nat /\ MaxSequence \in Nat
    BY <1>1, <1>2, TablesAssumption
    DEF Follows, Call, Whole, Sound, TablesInv, TablesTypeOK
  <1>4. /\ database' = [database EXCEPT ![t] = step.table]
        /\ m_tablesInitialized' =
             [m_tablesInitialized EXCEPT ![t] = m_tablesInitialized[t] \/ failing # "setup"]
        /\ sequence' = step.seq /\ result' = step.result
    BY DEF Call
  <1>5. TablesTypeOK'
    <2>1. TablesTypeOK
      BY DEF TablesInv
    <2>2. [written EXCEPT ![t][id] = known] \in [Tables -> [Ids -> Known]]
      BY <2>1 DEF TablesTypeOK
    <2> QED
      BY <1>3, <1>4, <2>1, <2>2 DEF TablesTypeOK, Results
  <1>6. \A i \in DOMAIN step.table.rows : step.table.rows[i].seq \in Nat
    BY <1>3 DEF Table, Row
  <1>7. \A i \in DOMAIN setup.table.rows : setup.table.rows[i].seq \in Nat
    BY <1>1 DEF Sound, Whole, Table, Row
  <1>8. Numbered(step.table, MaxSequence)
    BY <1>1, <1>2, <1>3, <1>6, <1>7 DEF Numbered, Follows
  <1>9. m_tablesInitialized[t] \/ failing # "setup" => Numbered(step.table, step.seq)
    BY <1>1, <1>2, <1>3, <1>6, <1>7 DEF Numbered, Follows
  <1>10. \A i \in Ids \ {id} : Tells(step.table, i, written[t][i])
    BY <1>1, <1>2 DEF Follows, Tells
  <1>11. ASSUME NEW u \in Tables
         PROVE  /\ Whole(database'[u])
                /\ Numbered(database'[u], MaxSequence)
                /\ m_tablesInitialized'[u] => Numbered(database'[u], sequence')
                /\ \A i \in Ids : Tells(database'[u], i, written'[u][i])
    <2>0. TablesTypeOK
      BY DEF TablesInv
    <2>1. CASE u = t
      <3>1. database'[u] = step.table
            /\ m_tablesInitialized'[u] = (m_tablesInitialized[t] \/ failing # "setup")
        BY <1>4, <2>0, <2>1 DEF TablesTypeOK
      <3>2. \A i \in Ids : written'[u][i] = IF i = id THEN known ELSE written[t][i]
        BY <2>0, <2>1 DEF TablesTypeOK
      <3> QED
        BY <1>3, <1>4, <1>8, <1>9, <1>10, <3>1, <3>2
    <2>2. CASE u # t
      <3>1. database'[u] = database[u] /\ m_tablesInitialized'[u] = m_tablesInitialized[u]
            /\ written'[u] = written[u]
        BY <1>4, <2>0, <2>2 DEF TablesTypeOK
      <3>2. /\ Whole(database[u]) /\ Numbered(database[u], MaxSequence)
            /\ m_tablesInitialized[u] => Numbered(database[u], sequence)
            /\ \A i \in Ids : Tells(database[u], i, written[u][i])
        BY DEF TablesInv
      <3>3. \A i \in DOMAIN database[u].rows : database[u].rows[i].seq \in Nat
        BY <3>2 DEF Whole, Table, Row
      <3>4. sequence <= sequence' /\ sequence' \in Nat
        BY <1>1, <1>3, <1>4
      <3> QED
        BY <1>3, <3>1, <3>2, <3>3, <3>4 DEF Numbered
    <2> QED
      BY <2>1, <2>2
  <1> QED
    BY <1>5, <1>11 DEF TablesInv, Whole, Numbered, Tells, Table, Row, Known

LEMMA CreateKeeps ==
  ASSUME TablesInv, NEW t \in Tables, NEW id \in Ids, NEW m \in Messages, NEW erase, NEW failing,
         Create(t, id, m, erase, failing)
  PROVE  TablesInv'
  <1> DEFINE setup == SetupDatabase(t, failing)
             step == CreateRow(setup, id, m, erase, failing)
  <1>1. Sound(setup) /\ \A i \in Ids : Tells(setup.table, i, written[t][i])
    BY SetupKeeps
  <1>2. Call(t, failing, step)
    BY DEF Create
  <1>3. IF m # <<>> /\ result' = "ok" THEN Tell(t, id, ValuesOf(m))
        ELSE IF result' = "rowAlreadyExtant" THEN UNCHANGED written
        ELSE Tell(t, id, << >>)
    BY DEF Create
  <1> HIDE DEF setup
  <1>4. /\ Follows(setup, step, id) /\ step.result \in Results
        /\ step.result = "ok" => Tells(step.table, id, ValuesOf(m))
        /\ step.result = "rowAlreadyExtant" => step.table = setup.table
    BY <1>1, CreateRowFollows
  <1> HIDE DEF step
  <1>5. result' = step.result
    BY <1>2 DEF Call
  <1>6. written[t][id] \in Known
        /\ written = [written EXCEPT ![t][id] = written[t][id]]
    BY DEF TablesInv, TablesTypeOK
  <1>7. PICK known \in Known :
          written' = [written EXCEPT ![t][id] = known] /\ Tells(step.table, id, known)
    <2>1. CASE m # <<>> /\ result' = "ok"
      BY <1>3, <1>4, <1>5, <2>1, MessageTypes DEF Tell
    <2>2. CASE result' = "rowAlreadyExtant"
      BY <1>1, <1>3, <1>4, <1>5, <1>6, <2>2
    <2>3. CASE ~ (m # <<>> /\ result' = "ok") /\ result' # "rowAlreadyExtant"
      <3>1. written' = [written EXCEPT ![t][id] = << >>]
        BY <1>3, <2>3 DEF Tell
      <3> QED
        BY <3>1, NothingKnown DEF Tells
    <2> QED
      BY <2>1, <2>2, <2>3
  <1> QED
    BY <1>2, <1>4, <1>7, CallKeeps DEF setup

\* What Tell records.
LEMMA TellTells ==
  ASSUME NEW t, NEW id, NEW known \in Known, Tell(t, id, known), NEW step,
         result' = step.result, step.result = "ok" => Tells(step.table, id, known)
  PROVE  \E k \in Known : written' = [written EXCEPT ![t][id] = k] /\ Tells(step.table, id, k)
  <1>1. CASE result' = "ok"
    BY <1>1 DEF Tell
  <1>2. CASE result' # "ok"
    <2>1. written' = [written EXCEPT ![t][id] = << >>]
      BY <1>2 DEF Tell
    <2> QED
      BY <2>1, NothingKnown DEF Tells
  <1> QED
    BY <1>1, <1>2

LEMMA CreateNativeKeeps ==
  ASSUME TablesInv, NEW t \in Tables, NEW m \in Messages, NEW failing, CreateNative(t, m, failing)
  PROVE  TablesInv'
  <1> DEFINE setup == SetupDatabase(t, failing)
             step(id) == CreateNativeRow(setup, id, m, failing)
  <1>1. Sound(setup)
    BY SetupKeeps
  <1>2. PICK id \in NativeIds : Call(t, failing, step(id)) /\ Tell(t, id, ValuesOf(m))
    BY DEF CreateNative
  <1>3. id \in Ids
    BY DEF Ids
  <1> HIDE DEF setup
  <1>4. /\ Follows(setup, step(id), id) /\ step(id).result \in Results
        /\ step(id).result = "ok" => Tells(step(id).table, id, ValuesOf(m))
    BY <1>1, <1>3, CreateNativeRowFollows
  <1> HIDE DEF step
  <1>5. result' = step(id).result
    BY <1>2 DEF Call
  <1>6. PICK known \in Known :
          written' = [written EXCEPT ![t][id] = known] /\ Tells(step(id).table, id, known)
    BY <1>2, <1>4, <1>5, MessageTypes, TellTells
  <1> QED
    BY <1>2, <1>3, <1>4, <1>6, CallKeeps DEF setup

LEMMA ModifyKeeps ==
  ASSUME TablesInv, NEW t \in Tables, NEW id \in Ids, NEW m \in Messages, NEW failing,
         Modify(t, id, m, failing)
  PROVE  TablesInv'
  <1> DEFINE setup == SetupDatabase(t, failing)
             step == ModifyRowInternal(setup, id, m, failing)
             known == Override(written[t][id], ValuesOf(m))
  <1>1. Sound(setup) /\ \A i \in Ids : Tells(setup.table, i, written[t][i])
    BY SetupKeeps
  <1>2. Call(t, failing, step) /\ Tell(t, id, known)
    BY DEF Modify
  <1>3. written[t][id] \in Known /\ known \in Known
    <2>1. written[t][id] \in Known
      BY DEF TablesInv, TablesTypeOK
    <2>2. ValuesOf(m) \in Known
      BY MessageTypes
    <2> QED
      BY <2>1, <2>2, OverrideTypes
  <1> HIDE DEF setup
  <1>4. Follows(setup, step, id) /\ step.result \in Results
    BY <1>1, ModifyRowFollows
  <1>5. step.result = "ok" => Tells(step.table, id, known)
    BY <1>1, <1>3, ModifyRowTells
  <1> HIDE DEF step, known
  <1>6. result' = step.result
    BY <1>2 DEF Call
  <1>7. PICK k \in Known :
          written' = [written EXCEPT ![t][id] = k] /\ Tells(step.table, id, k)
    BY <1>2, <1>3, <1>5, <1>6, TellTells
  <1> QED
    BY <1>2, <1>4, <1>7, CallKeeps DEF setup

LEMMA CreateOrModifyKeeps ==
  ASSUME TablesInv, NEW t \in Tables, NEW id \in Ids, NEW m \in Messages, NEW failing,
         CreateOrModify(t, id, m, failing)
  PROVE  TablesInv'
  <1> DEFINE setup == SetupDatabase(t, failing)
             has == HasRow(setup.table, id, failing)
             step == CreateOrModifyRow(setup, id, m, failing)
             known == IF has THEN Override(written[t][id], ValuesOf(m)) ELSE ValuesOf(m)
  <1>1. Sound(setup) /\ \A i \in Ids : Tells(setup.table, i, written[t][i])
    BY SetupKeeps
  <1>2. Call(t, failing, step) /\ Tell(t, id, known)
    BY DEF CreateOrModify
  <1>3. written[t][id] \in Known /\ known \in Known
    <2>1. written[t][id] \in Known
      BY DEF TablesInv, TablesTypeOK
    <2>2. ValuesOf(m) \in Known
      BY MessageTypes
    <2> QED
      BY <2>1, <2>2, OverrideTypes
  <1>4. step = IF has THEN ModifyRowInternal(setup, id, m, failing)
               ELSE CreateRow(setup, id, m, FALSE, failing)
    BY DEF CreateOrModifyRow
  <1> HIDE DEF setup
  <1>5. Follows(setup, step, id) /\ step.result \in Results
    <2> HIDE DEF step, has
    <2>1. CASE has
      BY <1>1, <1>4, <2>1, ModifyRowFollows
    <2>2. CASE ~ has
      BY <1>1, <1>4, <2>2, CreateRowFollows
    <2> QED
      BY <2>1, <2>2
  <1>6. step.result = "ok" => Tells(step.table, id, known)
    <2> HIDE DEF has, step
    <2>1. CASE has
      BY <1>1, <1>3, <1>4, <2>1, ModifyRowTells
    <2>2. CASE ~ has
      BY <1>1, <1>4, <2>2, CreateRowFollows
    <2> QED
      BY <2>1, <2>2
  <1> HIDE DEF step, known
  <1>7. result' = step.result
    BY <1>2 DEF Call
  <1>8. PICK k \in Known :
          written' = [written EXCEPT ![t][id] = k] /\ Tells(step.table, id, k)
    BY <1>2, <1>3, <1>6, <1>7, TellTells
  <1> QED
    BY <1>2, <1>5, <1>8, CallKeeps DEF setup

LEMMA EraseKeeps ==
  ASSUME TablesInv, NEW t \in Tables, NEW id \in Ids, NEW failing, Erase(t, id, failing)
  PROVE  TablesInv'
  <1> DEFINE setup == SetupDatabase(t, failing)
             step == EraseRow(setup, id, failing)
  <1>1. Sound(setup)
    BY SetupKeeps
  <1>2. Call(t, failing, step) /\ Tell(t, id, << >>)
    BY DEF Erase
  <1> HIDE DEF setup
  <1>3. Follows(setup, step, id) /\ step.result \in Results
    BY <1>1, EraseRowFollows
  <1> HIDE DEF step
  <1>4. result' = step.result /\ Tells(step.table, id, << >>)
    BY <1>2, NothingKnown DEF Call, Tells
  <1>5. PICK k \in Known :
          written' = [written EXCEPT ![t][id] = k] /\ Tells(step.table, id, k)
    BY <1>2, <1>4, NothingKnown, TellTells
  <1> QED
    BY <1>2, <1>3, <1>5, CallKeeps DEF setup

LEMMA DropKeeps ==
  ASSUME TablesInv, NEW t \in Tables, Drop(t)
  PROVE  TablesInv'
  <1>1. TablesTypeOK
    BY DEF TablesInv
  <1>2. /\ database' = [database EXCEPT ![t] = NoTable] /\ ~ m_tablesInitialized[t]
        /\ result' = "ok" /\ m_tablesInitialized' = m_tablesInitialized
        /\ sequence' = sequence
        /\ written' = [written EXCEPT ![t] = [i \in Ids |-> << >>]]
    BY <1>1 DEF Drop, TablesTypeOK
  <1>3. TablesTypeOK'
    BY <1>1, <1>2, NothingKnown, NoTableIsWhole DEF TablesTypeOK, Whole
  <1>4. DOMAIN NoTable.rows = {}
    BY DEF NoTable, EmptyTable
  <1>5. ASSUME NEW u \in Tables
        PROVE  /\ Whole(database'[u])
               /\ Numbered(database'[u], MaxSequence)
               /\ m_tablesInitialized'[u] => Numbered(database'[u], sequence')
               /\ \A i \in Ids : Tells(database'[u], i, written'[u][i])
    <2>1. CASE u = t
      <3>1. database'[u] = NoTable
        BY <1>1, <1>2, <2>1 DEF TablesTypeOK
      <3> QED
        BY <3>1, <1>4, NoTableIsWhole DEF Numbered, Tells
    <2>2. CASE u # t
      <3>1. database'[u] = database[u] /\ written'[u] = written[u]
        BY <1>1, <1>2, <2>2 DEF TablesTypeOK
      <3> QED
        BY <1>2, <3>1 DEF TablesInv
    <2> QED
      BY <2>1, <2>2
  <1> QED
    BY <1>3, <1>5 DEF TablesInv

LEMMA RestartKeeps ==
  ASSUME TablesInv, Restart
  PROVE  TablesInv'
  BY TablesAssumption DEF TablesInv, TablesTypeOK, Restart

LEMMA NextTablesInv == TablesInv /\ [NextTables]_tableVars => TablesInv'
  <1> SUFFICES ASSUME TablesInv, [NextTables]_tableVars PROVE TablesInv'
    OBVIOUS
  <1>1. ASSUME NEW t \in Tables, NEW m \in Messages, NEW failing \in Faults, NEW id \in RowIds,
               \/ \E erase \in BOOLEAN : Create(t, id, m, erase, failing)
               \/ Modify(t, id, m, failing)
               \/ CreateOrModify(t, id, m, failing)
               \/ Erase(t, id, failing)
        PROVE  TablesInv'
    <2>1. id \in Ids
      BY DEF Ids
    <2> QED
      BY <1>1, <2>1, CreateKeeps, ModifyKeeps, CreateOrModifyKeeps, EraseKeeps
  <1>2. ASSUME NEW t \in Tables, NEW m \in Messages, NEW failing \in Faults,
               CreateNative(t, m, failing)
        PROVE  TablesInv'
    BY <1>2, CreateNativeKeeps
  <1>3. CASE UNCHANGED tableVars
    BY <1>3 DEF tableVars, TablesInv, TablesTypeOK
  <1> QED
    BY <1>1, <1>2, <1>3, DropKeeps, RestartKeeps DEF NextTables

-----------------------------------------------------------------------------
LEMMA InvReads == TablesInv => RowsReadAsWritten
  <1> SUFFICES ASSUME TablesInv, NEW t \in Tables
               PROVE  /\ \A c, d \in database[t].columns : c.name = d.name => c = d
                      /\ \A i \in DOMAIN database[t].rows : \A n \in DOMAIN written[t][i] :
                           LET value == written[t][i][n]
                               row == GetRow(database[t], i)
                           IN  IF IsEncoded(ColumnOf([name |-> n, value |-> value]), value)
                               THEN n \in DOMAIN row /\ row[n] = ReadAs(value)
                               ELSE n \notin DOMAIN row
    BY DEF RowsReadAsWritten
  <1>1. Whole(database[t]) /\ \A i \in Ids : Tells(database[t], i, written[t][i])
    BY DEF TablesInv
  <1>2. ASSUME NEW i \in DOMAIN database[t].rows, NEW n \in DOMAIN written[t][i]
        PROVE  LET value == written[t][i][n]
                   row == GetRow(database[t], i)
               IN  IF IsEncoded(ColumnOf([name |-> n, value |-> value]), value)
                   THEN n \in DOMAIN row /\ row[n] = ReadAs(value)
                   ELSE n \notin DOMAIN row
    <2> DEFINE value == written[t][i][n]
               column == ColumnOf([name |-> n, value |-> value])
    <2>1. i \in Ids
      BY <1>1 DEF Whole, Table
    <2>2. n \in DOMAIN database[t].rows[i].values /\ database[t].rows[i].values[n] = value
      BY <1>1, <2>1 DEF Tells
    <2>6. column.name = n
      BY DEF ColumnOf
    <2>3. column \in database[t].columns
          /\ \A c \in database[t].columns : c.name = n => c = column
      BY <1>1, <2>2, <2>6 DEF Whole
    <2>4. database[t].extant
      BY <1>1 DEF Whole
    <2>5. GetRow(database[t], i) = EncodeRow(database[t], database[t].rows[i])
      BY <2>4 DEF GetRow
    <2> HIDE DEF value, column
    <2>7. n \in DOMAIN EncodeRow(database[t], database[t].rows[i]) <=> IsEncoded(column, value)
      BY <2>2, <2>3, <2>6 DEF EncodeRow
    <2>8. IsEncoded(column, value) => EncodeRow(database[t], database[t].rows[i])[n] = ReadAs(value)
      BY <2>2, <2>3, <2>6 DEF EncodeRow
    <2> QED
      BY <2>5, <2>7, <2>8 DEF value, column
  <1> QED
    BY <1>1, <1>2 DEF Whole

LEMMA InvAhead == TablesInv => SequenceIsAhead
  <1> SUFFICES ASSUME TablesInv, NEW t \in Tables, m_tablesInitialized[t]
               PROVE  sequence >= HighestSeq(database[t])
    BY DEF SequenceIsAhead
  <1>1. Whole(database[t]) /\ Numbered(database[t], sequence) /\ sequence \in Nat
    BY DEF TablesInv, TablesTypeOK
  <1>2. HighestSeq(database[t]) \in 0 .. sequence
    BY <1>1, HighestIsHighest
  <1> QED
    BY <1>1, <1>2

LEMMA InvQueries == TablesInv => QueriesAgree
  <1> SUFFICES ASSUME TablesInv, NEW t \in Tables, NEW m \in Messages
               PROVE  LET table == database[t] IN
                      /\ Select(table, m) \subseteq SelectAll(table)
                      /\ Cardinality(Select(table, m)) <= CountRows(table)
                      /\ (SelectRow(table, m) # << >>) =>
                           \A e \in Columns(m) : IsEncoded(ColumnOf(e), e.value) =>
                             /\ e.name \in DOMAIN SelectRow(table, m)
                             /\ SelectRow(table, m)[e.name] = ReadAs(e.value)
    BY DEF QueriesAgree
  <1> DEFINE table == database[t]
  <1>1. Whole(table)
    BY DEF TablesInv
  <1> HIDE DEF table
  <1>2. Select(table, m) \subseteq DOMAIN table.rows
    BY DEF Select
  <1>3. Cardinality(Select(table, m)) <= Cardinality(DOMAIN table.rows)
    BY <1>1, <1>2, FS_Subset DEF Whole
  <1>4. ASSUME SelectRow(table, m) # << >>, NEW e \in Columns(m), IsEncoded(ColumnOf(e), e.value)
        PROVE  e.name \in DOMAIN SelectRow(table, m) /\ SelectRow(table, m)[e.name] = ReadAs(e.value)
    <2>1. Cardinality(Select(table, m)) = 1
      BY <1>4 DEF SelectRow
    <2>2. Select(table, m) # {}
      BY <2>1, FS_EmptySet
    <2>3. PICK i \in Select(table, m) : SelectRow(table, m) = GetRow(table, i)
      BY <2>1, <2>2 DEF SelectRow
    <2>4. GetRow(table, i) = EncodeRow(table, table.rows[i])
      BY <1>4, <2>3 DEF GetRow
    <2>5. ColumnOf(e) \in table.columns /\ ColumnOf(e).name = e.name
      BY <2>3 DEF Select, IsStatement, ColumnOf
    <2>6. e.name \in DOMAIN table.rows[i].values /\ table.rows[i].values[e.name] = e.value
      BY <2>3 DEF Select
    <2> QED
      BY <1>4, <2>3, <2>4, <2>5, <2>6 DEF EncodeRow
  <1> QED
    BY <1>2, <1>3, <1>4 DEF SelectAll, CountRows, table

\* Every state of the tables is well typed.
THEOREM TablesTypeCorrect == TablesSpec => []TablesTypeOK
  <1>1. TablesInv => TablesTypeOK
    BY DEF TablesInv
  <1> QED
    BY InitTablesInv, NextTablesInv, <1>1, PTL DEF TablesSpec

\* A row reads as its callers were told, an array that is no array of f64 as the one item that
\* EncodeRow makes of its bytes; a table that is set up numbers its rows upwards, and the
\* queries agree, whatever statements fail and whenever the program ends.
THEOREM TablesKept == TablesSpec => []TablesAreKept
  <1>1. TablesInv => TablesAreKept
    BY InvReads, InvAhead, InvQueries DEF TablesAreKept
  <1> QED
    BY InitTablesInv, NextTablesInv, <1>1, PTL DEF TablesSpec

-----------------------------------------------------------------------------
(* Signals.                                                                 *)

Nodes == Links \cup {RingHead}
LiveLinks == [next : Nodes, prev : Nodes, function : Nat, ref_count : Nat \ {0}]

\* The i-th link of the ring, from the head on and back to it.
At(s, i) == IF i \in 1 .. Len(s) THEN s[i] ELSE RingHead
In(s) == {s[i] : i \in 1 .. Len(s)}
Own(s, l) == IF l = RingHead THEN 2 ELSE IF l \in In(s) THEN 1 ELSE 0

\* The ring is s, both ways, n[l] emissions hold l, and whoever stands at a removed link finds
\* back to it.
RingIs(ring, s, n) ==
    /\ s \in Seq(Links) /\ \A i, j \in 1 .. Len(s) : s[i] = s[j] => i = j
    /\ ring = [l \in Nodes |-> ring[l]]
    /\ \A l \in Nodes : ring[l] = Deleted \/ ring[l] \in LiveLinks
    /\ \A i \in 0 .. Len(s) : ring[At(s, i)].next = At(s, i + 1) /\ ring[At(s, i + 1)].prev = At(s, i)
    /\ \A l \in Nodes : /\ n[l] \in Nat
                        /\ ring[l] = Deleted => n[l] = 0 /\ Own(s, l) = 0
                        /\ ring[l] # Deleted => /\ ring[l].ref_count = n[l] + Own(s, l)
                                                /\ ring[l].next \in In(s) \cup {RingHead}

LEMMA DeletedIsNoLink == Deleted \notin LiveLinks
BY DEF Deleted, LiveLinks

LEMMA RingFacts ==
  ASSUME NEW ring, NEW s, NEW n, RingIs(ring, s, n)
  PROVE  /\ s \in Seq(Links) /\ Len(s) \in Nat /\ In(s) \subseteq Links
         /\ \A i \in 1 .. Len(s) : s[i] \in Links /\ s[i] \in In(s) /\ s[i] # RingHead
         /\ \A i, j \in 1 .. Len(s) : s[i] = s[j] => i = j
         /\ \A i \in 0 .. Len(s) + 1 : At(s, i) \in Nodes /\ ring[At(s, i)] \in LiveLinks
         /\ \A i \in 0 .. Len(s) : ring[At(s, i)].next = At(s, i + 1) /\ ring[At(s, i + 1)].prev = At(s, i)
         /\ \A l \in Nodes : ring[l] # Deleted => ring[l] \in LiveLinks
         /\ \A l \in Nodes : Own(s, l) > 0 => ring[l] # Deleted
<1>1. /\ s \in Seq(Links) /\ Len(s) \in Nat
      /\ \A i, j \in 1 .. Len(s) : s[i] = s[j] => i = j
  BY DEF RingIs
<1>2. \A i \in 1 .. Len(s) : s[i] \in Links /\ s[i] \in In(s) /\ s[i] # RingHead
  BY <1>1, SignalAssumption DEF In
<1>3. In(s) \subseteq Links
  BY <1>2 DEF In
<1>4. \A l \in Nodes : /\ ring[l] # Deleted => ring[l] \in LiveLinks
                       /\ Own(s, l) > 0 => ring[l] # Deleted
  BY DEF RingIs
<1>5. ASSUME NEW i \in 0 .. Len(s) + 1 PROVE At(s, i) \in Nodes /\ ring[At(s, i)] \in LiveLinks
  <2>1. At(s, i) \in Nodes
    BY <1>2 DEF At, Nodes
  <2>2. Own(s, At(s, i)) > 0
    BY <1>1, <1>2 DEF At, Own
  <2> QED BY <1>4, <2>1, <2>2
<1>6. \A i \in 0 .. Len(s) : ring[At(s, i)].next = At(s, i + 1) /\ ring[At(s, i + 1)].prev = At(s, i)
  BY DEF RingIs
<1> QED BY <1>1, <1>2, <1>3, <1>4, <1>5, <1>6

-----------------------------------------------------------------------------
(* The siblings are the sequence.                                           *)

LEMMA LeastNatural ==
  ASSUME NEW T, T \subseteq Nat, T # {}
  PROVE  \E x \in T : \A y \in T : x <= y
<1>1. PICK x \in T : \A y \in T : ~ (<<y, x>> \in OpToRel(<, Nat))
  BY NatLessThanWellFounded, WFMin
<1>2. \A y \in T : ~ (y < x)
  BY <1>1 DEF OpToRel
<1> QED BY <1>2

\* No more links are in the ring than there are.
LEMMA RingIsShort ==
  ASSUME NEW ring, NEW s, NEW n, RingIs(ring, s, n)
  PROVE  Cardinality(Links) \in Nat /\ Len(s) <= Cardinality(Links)
<1>1. s \in Seq(Links) /\ Len(s) \in Nat /\ \A i, j \in 1 .. Len(s) : s[i] = s[j] => i = j
  BY RingFacts
<1>2. IsFiniteSet(Links)
  BY SignalAssumption
<1>3. s \in Injection(1 .. Len(s), Links)
  BY <1>1 DEF Injection, IsInjective
<1>4. IsFiniteSet(1 .. Len(s)) /\ Cardinality(1 .. Len(s)) = Len(s)
  <2>1. 1 \in Int /\ Len(s) \in Int
    BY <1>1
  <2>2. IsFiniteSet(1 .. Len(s))
    BY <2>1, FS_Interval
  <2>3. Cardinality(1 .. Len(s)) = IF 1 > Len(s) THEN 0 ELSE Len(s) - 1 + 1
    BY <2>1, FS_Interval
  <2> QED BY <1>1, <2>2, <2>3
<1>5. Cardinality(1 .. Len(s)) <= Cardinality(Links)
  BY <1>2, <1>3, FS_Injection
<1>6. Cardinality(Links) \in Nat
  BY <1>2, FS_CardinalityType
<1> QED BY <1>4, <1>5, <1>6

\* The walk from a, as a function.
NextOf(a, ring, f, n) == IF n = 0 THEN a ELSE ring[f[n - 1]].next

LEMMA RingWalkExists ==
  ASSUME NEW a, NEW ring
  PROVE  \E f : f = [n \in Nat |-> NextOf(a, ring, f, n)]
<1> DEFINE Upto(f, k) == \A n \in 0 .. k : f[n] = NextOf(a, ring, f, n)
           T == {k \in Nat : ~ \E f : Upto(f, k)}
<1>1. T = {}
  <2> SUFFICES ASSUME T # {} PROVE FALSE
    OBVIOUS
  <2>1. PICK k \in T : \A j \in T : k <= j
    <3>1. T \subseteq Nat
      OBVIOUS
    <3> HIDE DEF T
    <3> QED BY <3>1, LeastNatural
  <2>2. k \in Nat
    OBVIOUS
  <2>3. k # 0
    <3>1. Upto([n \in {0} |-> a], 0)
      BY DEF NextOf
    <3> QED BY <3>1
  <2>4. k - 1 \in Nat /\ k - 1 \notin T
    BY <2>1, <2>2, <2>3
  <2>5. PICK f : Upto(f, k - 1)
    BY <2>4
  <2> DEFINE g == [n \in 0 .. k |-> IF n = k THEN ring[f[k - 1]].next ELSE f[n]]
  <2>6. Upto(g, k)
    <3> SUFFICES ASSUME NEW n \in 0 .. k PROVE g[n] = NextOf(a, ring, g, n)
      OBVIOUS
    <3>1. CASE n = k
      <4>1. k - 1 \in 0 .. k /\ k - 1 # k /\ k \in 0 .. k
        BY <2>2, <2>3
      <4> QED BY <2>3, <3>1, <4>1 DEF NextOf
    <3>2. CASE n # k
      <4>1. n \in 0 .. k - 1
        BY <2>2, <3>2
      <4>2. f[n] = NextOf(a, ring, f, n)
        BY <2>5, <4>1
      <4>3. n # 0 => n - 1 \in 0 .. k /\ n - 1 # k
        BY <2>2
      <4> QED BY <3>2, <4>2, <4>3 DEF NextOf
    <3> QED BY <3>1, <3>2
  <2> QED BY <2>1, <2>6
<1>2. \A k \in Nat : \E f : Upto(f, k)
  BY <1>1
<1> DEFINE h == [n \in Nat |-> (CHOOSE f : Upto(f, n))[n]]
<1>3. \A k \in Nat : Upto(CHOOSE f : Upto(f, k), k)
  BY <1>2
\* Two of them agree as far as both go.
<1>4. ASSUME NEW f, NEW g, NEW j \in Nat, NEW k \in Nat, Upto(f, j), Upto(g, k)
      PROVE  \A n \in Nat : n <= j /\ n <= k => f[n] = g[n]
  <2> DEFINE U == {n \in Nat : n <= j /\ n <= k /\ f[n] # g[n]}
  <2> SUFFICES ASSUME U # {} PROVE FALSE
    OBVIOUS
  <2>1. PICK n \in U : \A m \in U : n <= m
    <3>1. U \subseteq Nat
      OBVIOUS
    <3> HIDE DEF U
    <3> QED BY <3>1, LeastNatural
  <2>2. n \in Nat /\ n <= j /\ n <= k /\ f[n] # g[n]
    OBVIOUS
  <2>3. f[n] = NextOf(a, ring, f, n) /\ g[n] = NextOf(a, ring, g, n)
    BY <1>4, <2>2
  <2>4. n # 0
    BY <2>2, <2>3 DEF NextOf
  <2>5. n - 1 \in Nat /\ n - 1 <= j /\ n - 1 <= k /\ n - 1 \notin U
    BY <2>1, <2>2, <2>4
  <2>6. f[n - 1] = g[n - 1]
    BY <2>5
  <2> QED BY <2>2, <2>3, <2>4, <2>6 DEF NextOf
<1>5. ASSUME NEW n \in Nat PROVE h[n] = NextOf(a, ring, h, n)
  <2> PICK f : f = CHOOSE g : Upto(g, n)
    OBVIOUS
  <2>1. h[n] = f[n] /\ Upto(f, n)
    BY <1>3
  <2>2. f[n] = NextOf(a, ring, f, n)
    BY <2>1
  <2>3. CASE n = 0
    BY <2>1, <2>2, <2>3 DEF NextOf
  <2>4. CASE n # 0
    <3> PICK g : g = CHOOSE c : Upto(c, n - 1)
      OBVIOUS
    <3>1. n - 1 \in Nat /\ n - 1 <= n
      BY <2>4
    <3>2. h[n - 1] = g[n - 1] /\ Upto(g, n - 1)
      BY <1>3, <3>1
    <3> HIDE DEF Upto
    <3>3. f[n - 1] = g[n - 1]
      BY <1>4, <2>1, <3>1, <3>2
    <3> HIDE DEF h
    <3> QED BY <2>1, <2>2, <2>4, <3>2, <3>3 DEF NextOf
  <2> QED BY <2>3, <2>4
<1> HIDE DEF Upto
<1>6. h = [n \in Nat |-> NextOf(a, ring, h, n)]
  <2>1. h = [n \in Nat |-> h[n]]
    OBVIOUS
  <2> HIDE DEF h
  <2> QED BY <1>5, <2>1
<1> QED BY <1>6

LEMMA SiblingsAre ==
  ASSUME NEW ring, NEW s, NEW n, RingIs(ring, s, n)
  PROVE  Siblings(ring) = s
<1> DEFINE at == CHOOSE f : f = [m \in Nat |-> NextOf(RingHead, ring, f, m)]
<1>1. at = [m \in Nat |-> NextOf(RingHead, ring, at, m)]
  BY RingWalkExists
<1>2. Siblings(ring) =
        LET home == CHOOSE m \in 1 .. Cardinality(Links) + 1 :
                      at[m] = RingHead /\ \A k \in 1 .. m - 1 : at[k] # RingHead
        IN  [i \in 1 .. home - 1 |-> at[i]]
  BY DEF Siblings, NextOf
<1> HIDE DEF at
<1>3. /\ s \in Seq(Links) /\ Len(s) \in Nat
      /\ \A i \in 1 .. Len(s) : s[i] # RingHead
      /\ \A i \in 0 .. Len(s) : ring[At(s, i)].next = At(s, i + 1)
  BY RingFacts
<1>4. Cardinality(Links) \in Nat /\ Len(s) <= Cardinality(Links)
  BY RingIsShort
<1>5. \A i \in 0 .. Len(s) + 1 : at[i] = At(s, i)
  <2> DEFINE U == {i \in Nat : i <= Len(s) + 1 /\ at[i] # At(s, i)}
  <2>1. U = {}
    <3> SUFFICES ASSUME U # {} PROVE FALSE
      OBVIOUS
    <3>1. PICK i \in U : \A j \in U : i <= j
      <4>1. U \subseteq Nat
        OBVIOUS
      <4> HIDE DEF U
      <4> QED BY <4>1, LeastNatural
    <3>2. i \in Nat /\ i <= Len(s) + 1 /\ at[i] # At(s, i)
      OBVIOUS
    <3>3. at[i] = NextOf(RingHead, ring, at, i)
      BY <1>1, <3>2
    <3>4. i # 0
      BY <3>2, <3>3 DEF NextOf, At
    <3>5. i - 1 \in Nat /\ i - 1 \in 0 .. Len(s) /\ i - 1 + 1 = i /\ i - 1 \notin U
      BY <1>3, <3>1, <3>2, <3>4
    <3>6. at[i - 1] = At(s, i - 1)
      BY <1>3, <3>5
    <3> QED BY <1>3, <3>2, <3>3, <3>4, <3>5, <3>6 DEF NextOf
  <2> HIDE DEF at
  <2> QED BY <1>3, <2>1
<1> DEFINE Again(m) == at[m] = RingHead /\ \A k \in 1 .. m - 1 : at[k] # RingHead
           home == CHOOSE m \in 1 .. Cardinality(Links) + 1 : Again(m)
<1>6. Len(s) + 1 \in 1 .. Cardinality(Links) + 1 /\ Again(Len(s) + 1)
  <2>1. at[Len(s) + 1] = RingHead
    <3>1. Len(s) + 1 \in 0 .. Len(s) + 1 /\ Len(s) + 1 \notin 1 .. Len(s)
      BY <1>3
    <3> QED BY <1>5, <3>1 DEF At
  <2>2. ASSUME NEW k \in 1 .. Len(s) + 1 - 1 PROVE at[k] # RingHead
    <3>1. k \in 0 .. Len(s) + 1 /\ k \in 1 .. Len(s)
      BY <1>3
    <3> QED BY <1>3, <1>5, <3>1 DEF At
  <2>3. Len(s) + 1 \in 1 .. Cardinality(Links) + 1
    BY <1>3, <1>4
  <2> QED BY <2>1, <2>2, <2>3
<1>7. home \in 1 .. Cardinality(Links) + 1 /\ Again(home)
  <2> HIDE DEF Again
  <2> QED BY <1>6
<1>8. home = Len(s) + 1
  <2>1. ~ (home <= Len(s))
    <3> SUFFICES ASSUME home <= Len(s) PROVE FALSE
      OBVIOUS
    <3> HIDE DEF home
    <3>1. home \in 1 .. Len(s) /\ home \in 0 .. Len(s) + 1
      BY <1>3, <1>4, <1>7
    <3> QED BY <1>3, <1>5, <1>7, <3>1 DEF At
  <2>2. ~ (Len(s) + 1 <= home - 1)
    <3> HIDE DEF home
    <3> QED BY <1>3, <1>6, <1>7
  <2> HIDE DEF home, Again
  <2> QED BY <1>3, <1>4, <1>7, <2>1, <2>2
<1>9. Siblings(ring) = [i \in 1 .. home - 1 |-> at[i]]
  BY <1>2
<1> HIDE DEF home
<1>10. \A i \in 1 .. Len(s) : at[i] = s[i]
  BY <1>3, <1>5 DEF At
<1>11. home - 1 = Len(s)
  BY <1>3, <1>8
<1>12. s = [i \in 1 .. Len(s) |-> s[i]]
  BY <1>3
<1> QED BY <1>9, <1>10, <1>11, <1>12

\* A link that is there is where it was, with its callback.
Same(old, new) ==
    \A l \in Nodes : new[l] # Deleted =>
        old[l] # Deleted /\ new[l].next = old[l].next /\ new[l].function = old[l].function

\* The ring with another count at one link, which is deleted at 0.
CountSet(ring, l, c) ==
    [k \in Nodes |-> IF k = l THEN IF c = 0 THEN Deleted ELSE [ring[l] EXCEPT !.ref_count = c]
                     ELSE ring[k]]

LEMMA CountKeeps ==
  ASSUME NEW ring, NEW s, NEW n, RingIs(ring, s, n), NEW l \in Nodes, ring[l] # Deleted,
         NEW m, \A k \in Nodes : k # l => m[k] = n[k],
         m[l] \in Nat, NEW c, c = m[l] + Own(s, l),
         NEW r, r = CountSet(ring, l, c)
  PROVE  RingIs(r, s, m) /\ Same(ring, r)
<1>1. /\ s \in Seq(Links) /\ Len(s) \in Nat
      /\ \A i, j \in 1 .. Len(s) : s[i] = s[j] => i = j
      /\ ring = [k \in Nodes |-> ring[k]]
  BY DEF RingIs
<1>2. ring[l] \in LiveLinks
  BY RingFacts
<1>3. Own(s, l) \in Nat /\ c \in Nat
  BY DEF Own
<1> DEFINE x == IF c = 0 THEN Deleted ELSE [ring[l] EXCEPT !.ref_count = c]
<1>4. r = [k \in Nodes |-> IF k = l THEN x ELSE ring[k]]
  BY DEF CountSet
<1>6. c # 0 => /\ x \in LiveLinks /\ x.next = ring[l].next /\ x.prev = ring[l].prev
               /\ x.function = ring[l].function /\ x.ref_count = c
  BY <1>2, <1>3 DEF LiveLinks
<1>7. c = 0 => x = Deleted
  OBVIOUS
<1>8. c # 0 => x # Deleted
  BY <1>6, DeletedIsNoLink
<1> HIDE DEF x
<1>9. r[l] = x /\ \A k \in Nodes : k # l => r[k] = ring[k]
  BY <1>4
<1>10. \A k \in Nodes : r[k] = Deleted \/ r[k] \in LiveLinks
  BY <1>6, <1>7, <1>9 DEF RingIs
<1>11. r = [k \in Nodes |-> r[k]]
  BY <1>4, <1>9
<1>12. Same(ring, r)
  BY <1>6, <1>7, <1>9 DEF Same
<1>13. ASSUME NEW i \in 0 .. Len(s)
       PROVE  r[At(s, i)].next = At(s, i + 1) /\ r[At(s, i + 1)].prev = At(s, i)
  <2>1. /\ At(s, i) \in Nodes /\ At(s, i + 1) \in Nodes
        /\ ring[At(s, i)].next = At(s, i + 1) /\ ring[At(s, i + 1)].prev = At(s, i)
    <3>1. i \in 0 .. Len(s) + 1 /\ i + 1 \in 0 .. Len(s) + 1
      BY <1>1
    <3> QED BY <3>1, RingFacts
  <2>2. Own(s, At(s, i)) > 0 /\ Own(s, At(s, i + 1)) > 0
    BY <1>1 DEF Own, At, In
  <2>3. (At(s, i) = l => c # 0) /\ (At(s, i + 1) = l => c # 0)
    BY <1>3, <2>2
  <2> QED BY <1>6, <1>9, <2>1, <2>3
<1>14. ASSUME NEW k \in Nodes
       PROVE  /\ m[k] \in Nat
              /\ r[k] = Deleted => m[k] = 0 /\ Own(s, k) = 0
              /\ r[k] # Deleted => /\ r[k].ref_count = m[k] + Own(s, k)
                                   /\ r[k].next \in In(s) \cup {RingHead}
  <2>1. CASE k = l
    <3>1. ring[l].next \in In(s) \cup {RingHead}
      BY DEF RingIs
    <3>2. c = 0 => m[l] = 0 /\ Own(s, l) = 0
      BY <1>3
    <3> QED BY <1>6, <1>7, <1>8, <1>9, <2>1, <3>1, <3>2
  <2>2. CASE k # l
    BY <1>9, <2>2 DEF RingIs
  <2> QED BY <2>1, <2>2
<1> QED BY <1>1, <1>10, <1>11, <1>12, <1>13, <1>14 DEF RingIs

LEMMA IncrefKeeps ==
  ASSUME NEW ring, NEW s, NEW n, RingIs(ring, s, n), NEW l \in Nodes, ring[l] # Deleted,
         NEW m, m[l] = n[l] + 1, \A k \in Nodes : k # l => m[k] = n[k]
  PROVE  RingIs(Incref(ring, l), s, m) /\ Same(ring, Incref(ring, l)) /\ Incref(ring, l)[l] # Deleted
<1>1. n[l] \in Nat /\ ring[l].ref_count = n[l] + Own(s, l) /\ Own(s, l) \in Nat
  BY DEF RingIs, Own
<1>2. /\ m[l] \in Nat /\ m[l] + Own(s, l) # 0
      /\ ring[l].ref_count + 1 = m[l] + Own(s, l)
  BY <1>1
<1> PICK r : r = Incref(ring, l)
  OBVIOUS
<1> PICK c : c = m[l] + Own(s, l)
  OBVIOUS
<1>3. c # 0 /\ ring[l].ref_count + 1 = c
  BY <1>2
<1>4. ring = [k \in Nodes |-> ring[k]]
  BY DEF RingIs
<1>5. r = CountSet(ring, l, c)
  BY <1>3, <1>4 DEF Incref, CountSet
<1>6. m[l] \in Nat
  BY <1>2
<1>7. RingIs(r, s, m) /\ Same(ring, r)
  BY <1>5, <1>6, CountKeeps
<1>8. r[l] # Deleted
  BY <1>2, <1>7 DEF RingIs
<1> QED BY <1>7, <1>8

LEMMA DecrefKeeps ==
  ASSUME NEW ring, NEW s, NEW n, RingIs(ring, s, n), NEW l \in Nodes, n[l] > 0,
         NEW m, m[l] = n[l] - 1, \A k \in Nodes : k # l => m[k] = n[k]
  PROVE  RingIs(Decref(ring, l), s, m) /\ Same(ring, Decref(ring, l))
<1>1. n[l] \in Nat /\ Own(s, l) \in Nat
  BY DEF RingIs, Own
<1>2. ring[l] # Deleted /\ ring[l].ref_count = n[l] + Own(s, l)
  BY <1>1 DEF RingIs
<1>3. /\ m[l] \in Nat /\ ring[l].ref_count - 1 = m[l] + Own(s, l)
      /\ ring[l].ref_count = 1 <=> m[l] + Own(s, l) = 0
  BY <1>1, <1>2
<1> PICK r : r = Decref(ring, l)
  OBVIOUS
<1>4. ring = [k \in Nodes |-> ring[k]]
  BY DEF RingIs
<1> PICK c : c = m[l] + Own(s, l)
  OBVIOUS
<1>5. ring[l].ref_count - 1 = c /\ (ring[l].ref_count = 1 <=> c = 0)
  BY <1>3
<1>6. r = CountSet(ring, l, c)
  <2>1. CASE ring[l].ref_count = 1
    BY <1>4, <1>5, <2>1 DEF Decref, CountSet
  <2>2. CASE ring[l].ref_count # 1
    BY <1>4, <1>5, <2>2 DEF Decref, CountSet
  <2> QED BY <2>1, <2>2
<1>7. m[l] \in Nat
  BY <1>3
<1>8. RingIs(r, s, m) /\ Same(ring, r)
  BY <1>2, <1>6, <1>7, CountKeeps
<1> QED BY <1>8

LEMMA AtInjective ==
  ASSUME NEW s \in Seq(Links), \A i, j \in 1 .. Len(s) : s[i] = s[j] => i = j
  PROVE  /\ \A i, j \in 0 .. Len(s) : At(s, i) = At(s, j) => i = j
         /\ \A i, j \in 1 .. Len(s) + 1 : At(s, i) = At(s, j) => i = j
<1>1. \A i \in 1 .. Len(s) : s[i] # RingHead
  BY SignalAssumption
<1>2. Len(s) \in Nat
  OBVIOUS
<1>3. ASSUME NEW i \in 0 .. Len(s), NEW j \in 0 .. Len(s), At(s, i) = At(s, j) PROVE i = j
  BY <1>1, <1>2, <1>3 DEF At
<1>4. ASSUME NEW i \in 1 .. Len(s) + 1, NEW j \in 1 .. Len(s) + 1, At(s, i) = At(s, j) PROVE i = j
  BY <1>1, <1>2, <1>4 DEF At
<1> QED BY <1>3, <1>4

-----------------------------------------------------------------------------
(* A link more.                                                             *)

Added(ring, r, s, new, f) ==
    /\ r[new].function = f
    /\ \A l \in Nodes : l # new /\ ring[l] # Deleted =>
         /\ r[l] # Deleted /\ r[l].function = ring[l].function
         /\ r[l].next = IF l = At(s, Len(s)) THEN new ELSE ring[l].next

LEMMA AddKeeps ==
  ASSUME NEW ring, NEW s, NEW n, RingIs(ring, s, n), NEW new \in Links, ring[new] = Deleted, NEW f \in Nat,
         NEW r, r = AddBefore(ring, new, f)
  PROVE  RingIs(r, Append(s, new), n) /\ Added(ring, r, s, new, f)
<1> DEFINE t == Append(s, new)
           last == At(s, Len(s))
           x == [next |-> RingHead, prev |-> last, function |-> f, ref_count |-> 1]
<1>1. /\ s \in Seq(Links) /\ Len(s) \in Nat /\ In(s) \subseteq Links
      /\ \A i \in 1 .. Len(s) : s[i] \in Links /\ s[i] \in In(s) /\ s[i] # RingHead
      /\ \A i, j \in 1 .. Len(s) : s[i] = s[j] => i = j
      /\ \A i \in 0 .. Len(s) + 1 : At(s, i) \in Nodes /\ ring[At(s, i)] \in LiveLinks
      /\ \A i \in 0 .. Len(s) : ring[At(s, i)].next = At(s, i + 1) /\ ring[At(s, i + 1)].prev = At(s, i)
      /\ \A l \in Nodes : ring[l] # Deleted => ring[l] \in LiveLinks
  BY RingFacts
<1>2. ring = [l \in Nodes |-> ring[l]]
  BY DEF RingIs
<1>3. new \in Nodes /\ RingHead \in Nodes /\ new # RingHead
  BY SignalAssumption DEF Nodes
<1>4. ring[RingHead].prev = last /\ last \in Nodes /\ ring[last] \in LiveLinks /\ ring[RingHead] \in LiveLinks
  <2>1. At(s, Len(s) + 1) = RingHead /\ Len(s) \in 0 .. Len(s) /\ Len(s) \in 0 .. Len(s) + 1
    BY <1>1 DEF At
  <2>2. At(s, 0) = RingHead
    BY DEF At
  <2>3. 0 \in 0 .. Len(s) + 1
    BY <1>1
  <2> QED BY <1>1, <2>1, <2>2, <2>3
<1>5. last # new /\ new \notin In(s)
  <2>1. last # new
    BY <1>4, DeletedIsNoLink
  <2>2. \A i \in 1 .. Len(s) : s[i] # new
    <3>1. \A i \in 1 .. Len(s) : At(s, i) = s[i] /\ i \in 0 .. Len(s) + 1
      BY <1>1 DEF At
    <3> QED BY <1>1, <3>1, DeletedIsNoLink
  <2> QED BY <2>1, <2>2 DEF In
<1> DEFINE u == [ring EXCEPT ![new] = x, ![RingHead].prev = new]
<1>6. r = [u EXCEPT ![last].next = new]
  BY <1>4 DEF AddBefore
<1>7. /\ u = [l \in Nodes |-> IF l = RingHead THEN [ring[RingHead] EXCEPT !.prev = new]
                            ELSE IF l = new THEN x ELSE ring[l]]
  BY <1>2, <1>3
<1> HIDE DEF u
<1>8. r = [l \in Nodes |-> IF l = last THEN [u[last] EXCEPT !.next = new] ELSE u[l]]
  BY <1>6, <1>7
<1>9. r[new] = x
  BY <1>3, <1>5, <1>7, <1>8
<1>10. ASSUME NEW l \in Nodes, l # new
       PROVE  /\ ring[l] = Deleted => r[l] = Deleted
              /\ ring[l] # Deleted =>
                   /\ r[l] \in LiveLinks
                   /\ r[l].next = IF l = last THEN new ELSE ring[l].next
                   /\ r[l].prev = IF l = RingHead THEN new ELSE ring[l].prev
                   /\ r[l].function = ring[l].function
                   /\ r[l].ref_count = ring[l].ref_count
  <2> HIDE DEF last, x
  <2>1. ring[l] = Deleted => l # last /\ l # RingHead
    BY <1>4, DeletedIsNoLink
  <2>2. CASE l # last /\ l # RingHead
    <3>1. r[l] = ring[l]
      BY <1>7, <1>8, <1>10, <2>2
    <3> QED BY <1>1, <2>2, <3>1
  <2>3. CASE l = last /\ l # RingHead
    <3>1. r[l] = [ring[l] EXCEPT !.next = new]
      BY <1>7, <1>8, <1>10, <2>3
    <3>2. ring[l] \in LiveLinks
      BY <1>4, <2>3
    <3> QED BY <1>3, <2>1, <2>3, <3>1, <3>2 DEF LiveLinks
  <2>4. CASE l # last /\ l = RingHead
    <3>1. r[l] = [ring[l] EXCEPT !.prev = new]
      BY <1>7, <1>8, <1>10, <2>4
    <3>2. ring[l] \in LiveLinks
      BY <1>4, <2>4
    <3> QED BY <1>3, <2>1, <2>4, <3>1, <3>2 DEF LiveLinks
  <2>5. CASE l = last /\ l = RingHead
    <3>1. r[l] = [[ring[l] EXCEPT !.prev = new] EXCEPT !.next = new]
      BY <1>7, <1>8, <1>10, <2>5
    <3>2. ring[l] \in LiveLinks
      BY <1>4, <2>5
    <3> QED BY <1>3, <2>1, <2>5, <3>1, <3>2 DEF LiveLinks
  <2> QED BY <2>2, <2>3, <2>4, <2>5
<1>11. x \in LiveLinks /\ x.next = RingHead /\ x.prev = last /\ x.function = f /\ x.ref_count = 1
  BY <1>3, <1>4 DEF LiveLinks
<1> HIDE DEF x
<1>12. Added(ring, r, s, new, f)
  <2>1. \A l \in Nodes : l # new /\ ring[l] # Deleted =>
          /\ r[l] # Deleted /\ r[l].function = ring[l].function
          /\ r[l].next = IF l = last THEN new ELSE ring[l].next
    BY <1>10, DeletedIsNoLink
  <2> QED BY <1>9, <1>11, <2>1 DEF Added
<1>13. /\ t \in Seq(Links) /\ Len(t) = Len(s) + 1 /\ t[Len(s) + 1] = new
       /\ \A i \in 1 .. Len(s) : t[i] = s[i]
  BY <1>1
<1>14. \A i \in 0 .. Len(s) : At(t, i) = At(s, i)
  BY <1>1, <1>13 DEF At
<1>15. At(t, Len(s) + 1) = new /\ At(t, Len(s) + 2) = RingHead
  BY <1>1, <1>13 DEF At
<1>16. In(t) = In(s) \cup {new}
  <2> HIDE DEF t
  <2>1. ASSUME NEW i \in 1 .. Len(t) PROVE t[i] \in In(s) \cup {new}
    <3>1. i \in 1 .. Len(s) \/ i = Len(s) + 1
      BY <1>1, <1>13
    <3> QED BY <1>1, <1>13, <3>1
  <2>2. ASSUME NEW i \in 1 .. Len(s) PROVE s[i] \in In(t)
    <3>1. i \in 1 .. Len(t)
      BY <1>1, <1>13
    <3> QED BY <1>13, <3>1 DEF In
  <2>3. new \in In(t)
    <3>1. Len(s) + 1 \in 1 .. Len(t)
      BY <1>1, <1>13
    <3> QED BY <1>13, <3>1 DEF In
  <2> QED BY <2>1, <2>2, <2>3 DEF In
<1> HIDE DEF t
<1>17. \A i, j \in 1 .. Len(t) : t[i] = t[j] => i = j
  <2>1. \A i \in 1 .. Len(s) : s[i] # new
    BY <1>1, <1>5
  <2> QED BY <1>1, <1>13, <2>1
<1>18. r = [l \in Nodes |-> r[l]]
  BY <1>8
<1>19. \A l \in Nodes : r[l] = Deleted \/ r[l] \in LiveLinks
  BY <1>1, <1>9, <1>10, <1>11
<1>20. \A i, j \in 0 .. Len(s) : At(s, i) = At(s, j) => i = j
  BY <1>1, AtInjective
<1>21. ASSUME NEW i \in 0 .. Len(t)
       PROVE  r[At(t, i)].next = At(t, i + 1) /\ r[At(t, i + 1)].prev = At(t, i)
  <2>1. CASE i \in 0 .. Len(s) - 1
    <3>1. /\ i \in 0 .. Len(s) /\ i + 1 \in 0 .. Len(s) /\ i # Len(s) /\ i + 1 \in 1 .. Len(s)
          /\ Len(s) \in 0 .. Len(s) /\ i \in 0 .. Len(s) + 1 /\ i + 1 \in 0 .. Len(s) + 1
      BY <1>1, <2>1
    <3>2. At(t, i) = At(s, i) /\ At(t, i + 1) = At(s, i + 1)
      BY <1>14, <3>1
    <3>3. At(s, i) # last
      BY <1>20, <3>1
    <3>4. At(s, i + 1) # RingHead
      BY <1>1, <3>1 DEF At
    <3>5. /\ At(s, i) \in Nodes /\ At(s, i + 1) \in Nodes
          /\ ring[At(s, i)] # Deleted /\ ring[At(s, i + 1)] # Deleted
          /\ At(s, i) # new /\ At(s, i + 1) # new
      BY <1>1, <3>1, DeletedIsNoLink
    <3>6. ring[At(s, i)].next = At(s, i + 1) /\ ring[At(s, i + 1)].prev = At(s, i)
      BY <1>1, <3>1
    <3> HIDE DEF last
    <3>7. r[At(s, i)].next = ring[At(s, i)].next
      BY <1>10, <3>3, <3>5
    <3>8. r[At(s, i + 1)].prev = ring[At(s, i + 1)].prev
      BY <1>10, <3>4, <3>5
    <3> QED BY <3>2, <3>6, <3>7, <3>8
  <2>2. CASE i = Len(s)
    <3>1. At(t, i) = last /\ At(t, i + 1) = new
      BY <1>1, <1>14, <1>15, <2>2
    <3> HIDE DEF last
    <3> QED BY <1>4, <1>5, <1>9, <1>10, <1>11, <3>1, DeletedIsNoLink
  <2>3. CASE i = Len(s) + 1
    <3>1. At(t, i) = new /\ At(t, i + 1) = RingHead
      <4>1. i + 1 = Len(s) + 2
        BY <1>1, <2>3
      <4> QED BY <1>15, <2>3, <4>1
    <3> HIDE DEF last
    <3> QED BY <1>3, <1>4, <1>9, <1>10, <1>11, <3>1, DeletedIsNoLink
  <2>4. i \in 0 .. Len(s) - 1 \/ i = Len(s) \/ i = Len(s) + 1
    BY <1>1, <1>13
  <2> QED BY <2>1, <2>2, <2>3, <2>4
<1>22. ASSUME NEW l \in Nodes
       PROVE  /\ n[l] \in Nat
              /\ r[l] = Deleted => n[l] = 0 /\ Own(t, l) = 0
              /\ r[l] # Deleted => /\ r[l].ref_count = n[l] + Own(t, l)
                                   /\ r[l].next \in In(t) \cup {RingHead}
  <2> HIDE DEF last
  <2>1. CASE l = new
    <3>1. n[l] = 0 /\ Own(t, l) = 1
      BY <1>3, <1>16, <2>1 DEF RingIs, Own
    <3> QED BY <1>9, <1>11, <2>1, <3>1, DeletedIsNoLink
  <2>2. CASE l # new
    <3>1. Own(t, l) = Own(s, l)
      BY <1>16, <2>2 DEF Own
    <3>2. /\ n[l] \in Nat
          /\ ring[l] = Deleted => n[l] = 0 /\ Own(s, l) = 0
          /\ ring[l] # Deleted => /\ ring[l].ref_count = n[l] + Own(s, l)
                                  /\ ring[l].next \in In(s) \cup {RingHead}
      BY DEF RingIs
    <3> QED BY <1>10, <1>16, <2>2, <3>1, <3>2, DeletedIsNoLink
  <2> QED BY <2>1, <2>2
<1>23. RingIs(r, t, n)
  BY <1>13, <1>17, <1>18, <1>19, <1>21, <1>22 DEF RingIs
<1> QED BY <1>12, <1>23 DEF t

-----------------------------------------------------------------------------
(* A link less.                                                             *)

Without(s, k) == [i \in 1 .. Len(s) - 1 |-> IF i < k THEN s[i] ELSE s[i + 1]]

\* Nobody stands at a removed link whose next is l.
Heard(ring, s, l) == \A m \in Links : ring[m] # Deleted /\ m \notin In(s) => ring[m].next # l

Relinked(ring, r, s, k) ==
    \A l \in Nodes : r[l] # Deleted =>
         /\ ring[l] # Deleted
         /\ r[l].next = IF l = At(s, k - 1) THEN At(s, k + 1) ELSE ring[l].next
         /\ l # s[k] => r[l].function = ring[l].function

\* Both ways around the link.
Bypass(ring, l) ==
    [[ring EXCEPT ![ring[l].next].prev = ring[l].prev]
          EXCEPT ![ring[l].prev].next = ring[l].next, ![l].function = NoFunction]

LEMMA WithoutFacts ==
  ASSUME NEW s \in Seq(Links), \A i, j \in 1 .. Len(s) : s[i] = s[j] => i = j, NEW k \in 1 .. Len(s),
         NEW t, t = Without(s, k)
  PROVE  /\ t \in Seq(Links) /\ Len(t) = Len(s) - 1
         /\ \A i \in 1 .. Len(t) : t[i] = IF i < k THEN s[i] ELSE s[i + 1]
         /\ \A i, j \in 1 .. Len(t) : t[i] = t[j] => i = j
         /\ \A i \in 0 .. Len(t) + 1 : At(t, i) = IF i < k THEN At(s, i) ELSE At(s, i + 1)
         /\ In(t) = In(s) \ {s[k]}
<1>1. Len(s) \in Nat /\ Len(s) - 1 \in Nat /\ k \in Nat
  OBVIOUS
<1>2. t \in Seq(Links) /\ Len(t) = Len(s) - 1
  <2>1. t \in [1 .. Len(s) - 1 -> Links]
    BY <1>1 DEF Without
  <2> QED BY <1>1, <2>1
<1>3. \A i \in 1 .. Len(t) : t[i] = IF i < k THEN s[i] ELSE s[i + 1]
  BY <1>2 DEF Without
<1>4. \A i, j \in 1 .. Len(t) : t[i] = t[j] => i = j
  BY <1>1, <1>2, <1>3
<1>5. \A i \in 0 .. Len(t) + 1 : At(t, i) = IF i < k THEN At(s, i) ELSE At(s, i + 1)
  BY <1>1, <1>2, <1>3 DEF At
<1>6. In(t) = In(s) \ {s[k]}
  <2>1. ASSUME NEW i \in 1 .. Len(t) PROVE t[i] \in In(s) /\ t[i] # s[k]
    <3>1. i \in 1 .. Len(s) /\ i + 1 \in 1 .. Len(s)
      BY <1>1, <1>2
    <3> QED BY <1>1, <1>3, <3>1 DEF In
  <2>2. ASSUME NEW i \in 1 .. Len(s), i # k PROVE s[i] \in In(t)
    <3>1. CASE i < k
      <4>1. i \in 1 .. Len(t) /\ t[i] = s[i]
        BY <1>1, <1>2, <1>3, <3>1
      <4> QED BY <4>1 DEF In
    <3>2. CASE i > k
      <4>1. i - 1 \in 1 .. Len(t)
        BY <1>1, <1>2, <3>2
      <4>2. t[i - 1] = s[i]
        BY <1>1, <1>3, <3>2, <4>1
      <4> QED BY <4>1, <4>2 DEF In
    <3> QED BY <1>1, <2>2, <3>1, <3>2
  <2>3. ASSUME NEW q \in In(t) PROVE q \in In(s) \ {s[k]}
    <3>1. PICK i \in 1 .. Len(t) : q = t[i]
      BY DEF In
    <3> QED BY <2>1, <3>1
  <2>4. ASSUME NEW q \in In(s) \ {s[k]} PROVE q \in In(t)
    <3>1. PICK i \in 1 .. Len(s) : q = s[i]
      BY DEF In
    <3> QED BY <2>2, <3>1
  <2> QED BY <2>3, <2>4
<1> QED BY <1>2, <1>3, <1>4, <1>5, <1>6

LEMMA RemoveKeeps ==
  ASSUME NEW ring, NEW s, NEW n, RingIs(ring, s, n), NEW k \in 1 .. Len(s), Heard(ring, s, s[k]),
         NEW r, r = Unlink(ring, s[k])
  PROVE  RingIs(r, Without(s, k), n) /\ Relinked(ring, r, s, k)
<1> DEFINE l == s[k]
           t == Without(s, k)
           prev == At(s, k - 1)
           next == At(s, k + 1)
<1>1. /\ s \in Seq(Links) /\ Len(s) \in Nat /\ In(s) \subseteq Links
      /\ \A i \in 1 .. Len(s) : s[i] \in Links /\ s[i] \in In(s) /\ s[i] # RingHead
      /\ \A i, j \in 1 .. Len(s) : s[i] = s[j] => i = j
      /\ \A i \in 0 .. Len(s) + 1 : At(s, i) \in Nodes /\ ring[At(s, i)] \in LiveLinks
      /\ \A i \in 0 .. Len(s) : ring[At(s, i)].next = At(s, i + 1) /\ ring[At(s, i + 1)].prev = At(s, i)
      /\ \A q \in Nodes : ring[q] # Deleted => ring[q] \in LiveLinks
  BY RingFacts
<1>2. /\ \A i, j \in 0 .. Len(s) : At(s, i) = At(s, j) => i = j
      /\ \A i, j \in 1 .. Len(s) + 1 : At(s, i) = At(s, j) => i = j
  BY <1>1, AtInjective
<1>3. /\ t \in Seq(Links) /\ Len(t) = Len(s) - 1
      /\ \A i, j \in 1 .. Len(t) : t[i] = t[j] => i = j
      /\ \A i \in 0 .. Len(t) + 1 : At(t, i) = IF i < k THEN At(s, i) ELSE At(s, i + 1)
      /\ In(t) = In(s) \ {l}
  <2> HIDE DEF t
  <2>1. t = Without(s, k)
    BY DEF t
  <2> QED BY <1>1, <2>1, WithoutFacts
<1>4. /\ k - 1 \in 0 .. Len(s) /\ k \in 0 .. Len(s) /\ k + 1 \in 1 .. Len(s) + 1 /\ k \in 1 .. Len(s) + 1
      /\ k - 1 + 1 = k /\ k - 1 \in 0 .. Len(s) + 1 /\ k \in 0 .. Len(s) + 1 /\ k + 1 \in 0 .. Len(s) + 1
  BY <1>1
<1>5. l = At(s, k) /\ l \in Nodes /\ l # RingHead /\ l \in Links /\ l \in In(s)
  BY <1>1 DEF At, Nodes
<1>6. /\ ring[l].prev = prev /\ ring[l].next = next /\ prev # l /\ next # l
      /\ prev \in Nodes /\ next \in Nodes
      /\ ring[prev] # Deleted /\ ring[next] # Deleted /\ ring[l] # Deleted
  <2>1. ring[At(s, k - 1)].next = At(s, k) /\ ring[At(s, k)].prev = At(s, k - 1)
    BY <1>1, <1>4
  <2>2. ring[At(s, k)].next = At(s, k + 1)
    BY <1>1, <1>4
  <2>3. prev # l
    BY <1>2, <1>4, <1>5
  <2>4. next # l
    BY <1>2, <1>4, <1>5
  <2> QED BY <1>1, <1>4, <1>5, <2>1, <2>2, <2>3, <2>4, DeletedIsNoLink
<1> DEFINE u == Bypass(ring, l)
<1>7. r = Decref(u, l)
  BY DEF Unlink, Bypass
<1>8. ring = [q \in Nodes |-> ring[q]]
  BY DEF RingIs
<1>9. u = [[ring EXCEPT ![next].prev = prev] EXCEPT ![prev].next = next, ![l].function = NoFunction]
  BY <1>6 DEF Bypass
<1> HIDE DEF u, l, prev, next, t
<1> DEFINE v == [ring EXCEPT ![next].prev = prev]
<1>10. v = [q \in Nodes |-> IF q = next THEN [ring[next] EXCEPT !.prev = prev] ELSE ring[q]]
  BY <1>6, <1>8
<1>11. u = [v EXCEPT ![prev].next = next, ![l].function = NoFunction]
  BY <1>9
<1> HIDE DEF v
<1>12. u = [q \in Nodes |-> IF q = l THEN [v[l] EXCEPT !.function = NoFunction]
                            ELSE IF q = prev THEN [v[prev] EXCEPT !.next = next] ELSE v[q]]
  BY <1>5, <1>6, <1>10, <1>11
<1>13. ASSUME NEW q \in Nodes
       PROVE  /\ ring[q] = Deleted => u[q] = Deleted
              /\ ring[q] # Deleted =>
                   /\ u[q] \in LiveLinks
                   /\ u[q].next = IF q = prev THEN next ELSE ring[q].next
                   /\ u[q].prev = IF q = next THEN prev ELSE ring[q].prev
                   /\ q # l => u[q].function = ring[q].function
                   /\ u[q].ref_count = ring[q].ref_count
  <2>1. ring[q] = Deleted => q # prev /\ q # next /\ q # l
    BY <1>6
  <2>2. CASE q # l /\ q # prev /\ q # next
    <3>1. u[q] = ring[q]
      BY <1>10, <1>12, <2>2
    <3> QED BY <1>1, <2>2, <3>1
  <2>3. CASE q = l
    <3>1. u[q] = [ring[q] EXCEPT !.function = NoFunction]
      BY <1>6, <1>10, <1>12, <2>3
    <3>2. ring[q] \in LiveLinks
      BY <1>1, <1>6, <2>3
    <3> QED BY <1>6, <2>1, <2>3, <3>1, <3>2 DEF LiveLinks, NoFunction
  <2>4. CASE q # l /\ q = prev /\ q # next
    <3>1. u[q] = [ring[q] EXCEPT !.next = next]
      BY <1>10, <1>12, <2>4
    <3>2. ring[q] \in LiveLinks
      BY <1>1, <1>6, <2>4
    <3> QED BY <1>6, <2>1, <2>4, <3>1, <3>2 DEF LiveLinks
  <2>5. CASE q # l /\ q # prev /\ q = next
    <3>1. u[q] = [ring[q] EXCEPT !.prev = prev]
      BY <1>10, <1>12, <2>5
    <3>2. ring[q] \in LiveLinks
      BY <1>1, <1>6, <2>5
    <3> QED BY <1>6, <2>1, <2>5, <3>1, <3>2 DEF LiveLinks
  <2>6. CASE q # l /\ q = prev /\ q = next
    <3>1. u[q] = [[ring[q] EXCEPT !.prev = prev] EXCEPT !.next = next]
      BY <1>10, <1>12, <2>6
    <3>2. ring[q] \in LiveLinks
      BY <1>1, <1>6, <2>6
    <3> QED BY <1>6, <2>1, <2>6, <3>1, <3>2 DEF LiveLinks
  <2> QED BY <2>2, <2>3, <2>4, <2>5, <2>6
\* The reference the ring had is one that somebody holds, and lets go.
<1> DEFINE m == [q \in Nodes |-> IF q = l THEN n[l] + 1 ELSE n[q]]
<1>14. /\ m[l] = n[l] + 1 /\ \A q \in Nodes : q # l => m[q] = n[q]
  BY <1>5
<1>15. \A q \in Nodes : n[q] \in Nat
  BY DEF RingIs
<1> HIDE DEF m
<1>16. ASSUME NEW i \in 0 .. Len(t)
       PROVE  u[At(t, i)].next = At(t, i + 1) /\ u[At(t, i + 1)].prev = At(t, i)
  <2>0. /\ i \in 0 .. Len(t) + 1 /\ i + 1 \in 0 .. Len(t) + 1 /\ i \in Nat /\ k \in Nat
    BY <1>1, <1>3
  <2>1. CASE i < k - 1
    <3>1. At(t, i) = At(s, i) /\ At(t, i + 1) = At(s, i + 1)
      BY <1>3, <2>0, <2>1
    <3>2. i \in 0 .. Len(s) /\ i # k - 1 /\ i + 1 \in 1 .. Len(s) + 1 /\ i + 1 # k + 1
      BY <1>1, <1>3, <2>0, <2>1
    <3>3. At(s, i) # prev
      BY <1>2, <1>4, <3>2 DEF prev
    <3>4. At(s, i + 1) # next
      BY <1>2, <1>4, <3>2 DEF next
    <3>5. i \in 0 .. Len(s) + 1 /\ i + 1 \in 0 .. Len(s) + 1
      BY <1>1, <3>2
    <3>6. /\ At(s, i) \in Nodes /\ At(s, i + 1) \in Nodes
          /\ ring[At(s, i)] # Deleted /\ ring[At(s, i + 1)] # Deleted
      BY <1>1, <3>5, DeletedIsNoLink
    <3>7. ring[At(s, i)].next = At(s, i + 1) /\ ring[At(s, i + 1)].prev = At(s, i)
      BY <1>1, <3>2
    <3>8. u[At(s, i)].next = At(s, i + 1)
      BY <1>13, <3>3, <3>6, <3>7
    <3>9. u[At(s, i + 1)].prev = At(s, i)
      BY <1>13, <3>4, <3>6, <3>7
    <3> QED BY <3>1, <3>8, <3>9
  <2>2. CASE i = k - 1
    <3>1. At(t, i) = prev /\ At(t, i + 1) = next
      BY <1>3, <2>0, <2>2 DEF prev, next
    <3> QED BY <1>6, <1>13, <3>1
  <2>3. CASE i >= k
    <3>1. At(t, i) = At(s, i + 1) /\ At(t, i + 1) = At(s, i + 1 + 1)
      BY <1>3, <2>0, <2>3
    <3>2. /\ i + 1 \in 0 .. Len(s) /\ i + 1 # k - 1
          /\ i + 1 + 1 \in 1 .. Len(s) + 1 /\ i + 1 + 1 # k + 1
      BY <1>1, <1>3, <2>0, <2>3
    <3>3. At(s, i + 1) # prev
      BY <1>2, <1>4, <3>2 DEF prev
    <3>4. At(s, i + 1 + 1) # next
      BY <1>2, <1>4, <3>2 DEF next
    <3>5. i + 1 \in 0 .. Len(s) + 1 /\ i + 1 + 1 \in 0 .. Len(s) + 1
      BY <1>1, <3>2
    <3>6. /\ At(s, i + 1) \in Nodes /\ At(s, i + 1 + 1) \in Nodes
          /\ ring[At(s, i + 1)] # Deleted /\ ring[At(s, i + 1 + 1)] # Deleted
      BY <1>1, <3>5, DeletedIsNoLink
    <3>7. ring[At(s, i + 1)].next = At(s, i + 1 + 1) /\ ring[At(s, i + 1 + 1)].prev = At(s, i + 1)
      BY <1>1, <3>2
    <3>8. u[At(s, i + 1)].next = At(s, i + 1 + 1)
      BY <1>13, <3>3, <3>6, <3>7
    <3>9. u[At(s, i + 1 + 1)].prev = At(s, i + 1)
      BY <1>13, <3>4, <3>6, <3>7
    <3> QED BY <3>1, <3>8, <3>9
  <2>4. i < k - 1 \/ i = k - 1 \/ i >= k
    BY <2>0
  <2> QED BY <2>1, <2>2, <2>3, <2>4
<1>17. prev \in In(t) \cup {RingHead} /\ next \in In(t) \cup {RingHead}
  <2>1. prev \in In(s) \cup {RingHead} /\ next \in In(s) \cup {RingHead}
    BY <1>1 DEF At, prev, next
  <2> QED BY <1>3, <1>6, <2>1
<1>18. ASSUME NEW q \in Nodes, ring[q] # Deleted, q # prev PROVE ring[q].next # l
  <2>1. CASE q \in In(s) \cup {RingHead}
    <3>1. PICK i \in 0 .. Len(s) : q = At(s, i)
      <4>1. RingHead = At(s, 0) /\ 0 \in 0 .. Len(s)
        BY <1>1 DEF At
      <4>2. ASSUME NEW j \in 1 .. Len(s) PROVE s[j] = At(s, j) /\ j \in 0 .. Len(s)
        BY <1>1 DEF At
      <4> QED BY <2>1, <4>1, <4>2 DEF In
    <3>2. ring[q].next = At(s, i + 1) /\ i + 1 \in 1 .. Len(s) + 1
      BY <1>1, <3>1
    <3>3. i # k - 1
      BY <1>18, <3>1 DEF prev
    <3>4. i + 1 # k
      BY <1>1, <3>3
    <3> QED BY <1>2, <1>4, <1>5, <3>2, <3>4
  <2>2. CASE q \notin In(s) \cup {RingHead}
    <3>1. q \in Links /\ q \notin In(s)
      BY <2>2 DEF Nodes
    <3> QED BY <1>18, <3>1 DEF Heard, l
  <2> QED BY <2>1, <2>2
<1>19. ASSUME NEW q \in Nodes
       PROVE  /\ m[q] \in Nat
              /\ u[q] = Deleted => m[q] = 0 /\ Own(t, q) = 0
              /\ u[q] # Deleted => /\ u[q].ref_count = m[q] + Own(t, q)
                                   /\ u[q].next \in In(t) \cup {RingHead}
  <2>1. /\ n[q] \in Nat
        /\ ring[q] = Deleted => n[q] = 0 /\ Own(s, q) = 0
        /\ ring[q] # Deleted => /\ ring[q].ref_count = n[q] + Own(s, q)
                                /\ ring[q].next \in In(s) \cup {RingHead}
    BY DEF RingIs
  <2>2. m[q] \in Nat /\ m[q] + Own(t, q) = n[q] + Own(s, q)
    <3>1. CASE q = l
      <4>1. m[q] = n[q] + 1 /\ Own(t, q) = 0 /\ Own(s, q) = 1
        BY <1>3, <1>5, <1>14, <3>1 DEF Own
      <4> QED BY <2>1, <4>1
    <3>2. CASE q # l
      <4>1. m[q] = n[q] /\ Own(t, q) = Own(s, q)
        BY <1>3, <1>14, <3>2 DEF Own
      <4> QED BY <2>1, <4>1
    <3> QED BY <3>1, <3>2
  <2>3. ring[q] = Deleted => m[q] = 0 /\ Own(t, q) = 0
    <3>1. Own(t, q) \in Nat /\ Own(s, q) \in Nat
      BY DEF Own
    <3>2. ring[q] = Deleted => m[q] + Own(t, q) = 0
      <4>1. ring[q] = Deleted => n[q] + Own(s, q) = 0
        BY <2>1
      <4> QED BY <2>2, <4>1
    <3> QED BY <2>2, <3>1, <3>2
  <2>4. ring[q] # Deleted => u[q].next \in In(t) \cup {RingHead}
    <3>1. CASE q = prev
      BY <1>13, <1>17, <3>1
    <3>2. CASE q # prev
      BY <1>3, <1>13, <1>18, <2>1, <3>2
    <3> QED BY <3>1, <3>2
  <2> QED BY <1>13, <2>1, <2>2, <2>3, <2>4, DeletedIsNoLink
<1>20. u = [q \in Nodes |-> u[q]]
  BY <1>12
<1>21. \A q \in Nodes : u[q] = Deleted \/ u[q] \in LiveLinks
  BY <1>13
<1>22. RingIs(u, t, m)
  BY <1>3, <1>16, <1>19, <1>20, <1>21 DEF RingIs
<1>23. m[l] > 0 /\ n[l] = m[l] - 1 /\ \A q \in Nodes : q # l => n[q] = m[q]
  BY <1>5, <1>14, <1>15
<1>24. RingIs(r, t, n) /\ Same(u, r)
  BY <1>5, <1>7, <1>22, <1>23, DecrefKeeps
<1>25. Relinked(ring, r, s, k)
  <2>1. ASSUME NEW q \in Nodes, r[q] # Deleted
        PROVE  /\ ring[q] # Deleted
               /\ r[q].next = IF q = prev THEN next ELSE ring[q].next
               /\ q # l => r[q].function = ring[q].function
    <3>1. u[q] # Deleted /\ r[q].next = u[q].next /\ r[q].function = u[q].function
      BY <1>24, <2>1 DEF Same
    <3> QED BY <1>13, <3>1
  <2> QED BY <2>1 DEF Relinked, prev, next, l
<1> QED BY <1>24, <1>25 DEF t

-----------------------------------------------------------------------------
(* Emissions.                                                               *)

Before(x, y) == DefaultCallback \in {x, y} \/ x < y
Callbacks(c) == (1 .. c) \cup {DefaultCallback}
EmissionsOf(c) == [at : Nodes, calls : Seq(Callbacks(c)), due : SUBSET Callbacks(c)]

\* The siblings' callbacks are in the order they were connected.
Named(ring, s, c) ==
    /\ \A i \in 1 .. Len(s) : ring[s[i]].function \in Callbacks(c)
    /\ \A i, j \in 1 .. Len(s) : i < j => Before(ring[s[i]].function, ring[s[j]].function)
    /\ ring[RingHead].function \in {NoFunction, DefaultCallback}

\* The emission is about to go on to the link after p siblings: what was due up to there has
\* been called, and all that was called comes before the rest.
Called(ring, s, e, p) ==
    /\ ring[e.at].next = At(s, p + 1)
    /\ \A i \in 1 .. p : ring[s[i]].function \in e.due => ring[s[i]].function \in ToSet(e.calls)
    /\ \A i \in p + 1 .. Len(s) : \A x \in ToSet(e.calls) : Before(x, ring[s[i]].function)

Safe(ring, s, e, c) ==
    /\ e \in EmissionsOf(c) /\ InOrder(e.calls)
    /\ ring[RingHead].function \in e.due => ring[RingHead].function \in ToSet(e.calls)
    /\ \E p \in 0 .. Len(s) : Called(ring, s, e, p)

LEMMA SafeStays ==
  ASSUME NEW ring, NEW s, NEW n, RingIs(ring, s, n), NEW r, NEW m, RingIs(r, s, m), Same(ring, r),
         NEW c, NEW e, Safe(ring, s, e, c), m[e.at] > 0
  PROVE  Safe(r, s, e, c)
<1>1. e \in EmissionsOf(c) /\ e.at \in Nodes
  BY DEF Safe, EmissionsOf
<1>2. r[e.at] # Deleted
  BY <1>1 DEF RingIs
<1>3. RingHead \in Nodes /\ r[RingHead] # Deleted
  <2>1. RingHead \in Nodes /\ Own(s, RingHead) > 0
    BY DEF Nodes, Own
  <2> QED BY <2>1, RingFacts
<1>4. \A i \in 1 .. Len(s) : s[i] \in Nodes /\ r[s[i]] # Deleted
  <2>1. ASSUME NEW i \in 1 .. Len(s) PROVE s[i] \in Nodes /\ Own(s, s[i]) > 0
    <3>1. s[i] \in Links /\ s[i] \in In(s)
      BY RingFacts
    <3> QED BY <3>1 DEF Nodes, Own
  <2> QED BY <2>1, RingFacts
<1>5. /\ r[e.at].next = ring[e.at].next
      /\ r[RingHead].function = ring[RingHead].function
      /\ \A i \in 1 .. Len(s) : r[s[i]].function = ring[s[i]].function
  BY <1>1, <1>2, <1>3, <1>4 DEF Same
<1>6. PICK p \in 0 .. Len(s) : Called(ring, s, e, p)
  BY DEF Safe
<1>7. Len(s) \in Nat
  BY RingFacts
<1>8. Called(r, s, e, p)
  <2>1. \A i \in p + 1 .. Len(s) : i \in 1 .. Len(s)
    BY <1>7
  <2>2. \A i \in 1 .. p : i \in 1 .. Len(s)
    BY <1>7
  <2> QED BY <1>5, <1>6, <2>1, <2>2 DEF Called
<1> QED BY <1>5, <1>8 DEF Safe

LEMMA NamedStays ==
  ASSUME NEW ring, NEW s, NEW n, RingIs(ring, s, n), NEW r, NEW m, RingIs(r, s, m), Same(ring, r),
         NEW c, Named(ring, s, c)
  PROVE  Named(r, s, c)
<1>3. RingHead \in Nodes /\ r[RingHead] # Deleted
  <2>1. RingHead \in Nodes /\ Own(s, RingHead) > 0
    BY DEF Nodes, Own
  <2> QED BY <2>1, RingFacts
<1>4. \A i \in 1 .. Len(s) : s[i] \in Nodes /\ r[s[i]] # Deleted
  <2>1. ASSUME NEW i \in 1 .. Len(s) PROVE s[i] \in Nodes /\ Own(s, s[i]) > 0
    <3>1. s[i] \in Links /\ s[i] \in In(s)
      BY RingFacts
    <3> QED BY <3>1 DEF Nodes, Own
  <2> QED BY <2>1, RingFacts
<1>5. /\ r[RingHead].function = ring[RingHead].function
      /\ \A i \in 1 .. Len(s) : r[s[i]].function = ring[s[i]].function
  BY <1>3, <1>4 DEF Same
<1> QED BY <1>5 DEF Named

LEMMA CallbacksGrow ==
  ASSUME NEW c \in Nat
  PROVE  /\ Callbacks(c) \subseteq Callbacks(c + 1)
         /\ \A e \in EmissionsOf(c) : e \in EmissionsOf(c + 1)
<1>1. Callbacks(c) \subseteq Callbacks(c + 1)
  BY DEF Callbacks
<1>2. ASSUME NEW e \in EmissionsOf(c) PROVE e \in EmissionsOf(c + 1)
  <2>1. e.calls \in Seq(Callbacks(c))
    BY DEF EmissionsOf
  <2>2. e.calls \in Seq(Callbacks(c + 1))
    <3> HIDE DEF Callbacks
    <3> PICK q : q = e.calls
      OBVIOUS
    <3>1. Len(q) \in Nat /\ q = [i \in 1 .. Len(q) |-> q[i]] /\ \A i \in 1 .. Len(q) : q[i] \in Callbacks(c)
      BY <2>1
    <3>2. q \in [1 .. Len(q) -> Callbacks(c + 1)]
      BY <1>1, <3>1
    <3> QED BY <3>1, <3>2
  <2> QED BY <1>1, <2>2 DEF EmissionsOf
<1> QED BY <1>1, <1>2

LEMMA CallbacksAreNumbers ==
  ASSUME NEW c \in Nat
  PROVE  Callbacks(c) \subseteq Nat /\ NoFunction \notin Callbacks(c)
BY SignalAssumption DEF Callbacks, DefaultCallback, NoFunction

\* After connect.
LEMMA AddStays ==
  ASSUME NEW ring, NEW s, NEW n, RingIs(ring, s, n), NEW new \in Links, ring[new] = Deleted,
         NEW c \in Nat, c < MaxConnections, NEW r, RingIs(r, Append(s, new), n), Added(ring, r, s, new, c + 1),
         NEW e, Safe(ring, s, e, c), n[e.at] > 0
  PROVE  Safe(r, Append(s, new), e, c + 1)
<1> PICK t : t = Append(s, new)
  OBVIOUS
<1>1. /\ s \in Seq(Links) /\ Len(s) \in Nat
      /\ \A i \in 1 .. Len(s) : s[i] \in Links /\ s[i] \in In(s)
      /\ \A i \in 0 .. Len(s) + 1 : At(s, i) \in Nodes /\ ring[At(s, i)] \in LiveLinks
      /\ \A i \in 0 .. Len(s) : ring[At(s, i)].next = At(s, i + 1) /\ ring[At(s, i + 1)].prev = At(s, i)
  BY RingFacts
<1>2. /\ t \in Seq(Links) /\ Len(t) = Len(s) + 1 /\ t[Len(s) + 1] = new
      /\ \A i \in 1 .. Len(s) : t[i] = s[i]
  BY <1>1
<1>3. e \in EmissionsOf(c) /\ InOrder(e.calls) /\ e.at \in Nodes
  BY DEF Safe, EmissionsOf
<1>4. e.at # new /\ ring[e.at] # Deleted
  <2>1. new \in Nodes
    BY DEF Nodes
  <2>2. n[new] = 0
    BY <2>1 DEF RingIs
  <2>3. ring[e.at] # Deleted
    BY <1>3 DEF RingIs
  <2> QED BY <2>3
<1>5. \A i \in 1 .. Len(s) : s[i] \in Nodes /\ ring[s[i]] # Deleted /\ s[i] # new
  <2>1. ASSUME NEW i \in 1 .. Len(s) PROVE s[i] \in Nodes /\ Own(s, s[i]) > 0
    BY <1>1 DEF Nodes, Own
  <2> QED BY <2>1, RingFacts
<1>6. RingHead \in Nodes /\ ring[RingHead] # Deleted /\ RingHead # new
  <2>1. RingHead \in Nodes /\ Own(s, RingHead) > 0
    BY DEF Nodes, Own
  <2> QED BY <2>1, RingFacts
<1>7. /\ \A i \in 1 .. Len(s) : r[t[i]].function = ring[s[i]].function
      /\ r[RingHead].function = ring[RingHead].function
      /\ r[new].function = c + 1
      /\ r[e.at].next = IF e.at = At(s, Len(s)) THEN new ELSE ring[e.at].next
  BY <1>2, <1>3, <1>4, <1>5, <1>6 DEF Added
<1>8. PICK p \in 0 .. Len(s) : Called(ring, s, e, p)
  BY DEF Safe
<1>9. /\ p \in Nat /\ p <= Len(s)
      /\ ring[e.at].next = At(s, p + 1)
      /\ \A i \in 1 .. p : ring[s[i]].function \in e.due => ring[s[i]].function \in ToSet(e.calls)
      /\ \A i \in p + 1 .. Len(s) : \A x \in ToSet(e.calls) : Before(x, ring[s[i]].function)
  BY <1>1, <1>8 DEF Called
<1>10. e.due \subseteq Callbacks(c) /\ ToSet(e.calls) \subseteq Callbacks(c)
  BY <1>3 DEF EmissionsOf, ToSet
<1>11. \A x \in ToSet(e.calls) : Before(x, c + 1)
  BY <1>10 DEF Callbacks, Before
<1>12. c + 1 \notin e.due
  BY <1>10, SignalAssumption DEF Callbacks, DefaultCallback
<1>13. e \in EmissionsOf(c + 1)
  BY <1>3, CallbacksGrow
<1>14. r[RingHead].function \in e.due => r[RingHead].function \in ToSet(e.calls)
  BY <1>7 DEF Safe
<1> SUFFICES \E q \in 0 .. Len(t) : Called(r, t, e, q)
  BY <1>3, <1>13, <1>14 DEF Safe
<1>15. At(t, Len(s) + 1) = new /\ At(t, Len(s) + 2) = RingHead /\ At(s, Len(s) + 1) = RingHead
  BY <1>1, <1>2 DEF At
<1>16. \A i \in 0 .. Len(s) : At(t, i) = At(s, i)
  BY <1>1, <1>2 DEF At
<1>17. \A i \in p + 1 .. Len(t) : \A x \in ToSet(e.calls) : Before(x, r[t[i]].function)
  <2> SUFFICES ASSUME NEW i \in p + 1 .. Len(t), NEW x \in ToSet(e.calls)
               PROVE  Before(x, r[t[i]].function)
    OBVIOUS
  <2>1. CASE i \in p + 1 .. Len(s)
    <3>1. i \in 1 .. Len(s)
      BY <1>1, <1>9, <2>1
    <3> QED BY <1>7, <1>9, <2>1, <3>1
  <2>2. CASE i = Len(s) + 1
    BY <1>2, <1>7, <1>11, <2>2
  <2>3. i \in p + 1 .. Len(s) \/ i = Len(s) + 1
    BY <1>1, <1>2, <1>9
  <2> QED BY <2>1, <2>2, <2>3
<1>18. \A i \in 1 .. p : r[t[i]].function \in e.due => r[t[i]].function \in ToSet(e.calls)
  <2>1. \A i \in 1 .. p : i \in 1 .. Len(s)
    BY <1>1, <1>9
  <2> QED BY <1>7, <1>9, <2>1
<1>19. p \in 0 .. Len(t) /\ Len(t) \in 0 .. Len(t)
  BY <1>1, <1>2, <1>9
<1>20. CASE p < Len(s)
  <2>1. p + 1 \in 0 .. Len(s) /\ p + 1 \in 1 .. Len(s) + 1 /\ Len(s) + 1 \in 1 .. Len(s) + 1
        /\ p + 1 # Len(s) + 1
    BY <1>1, <1>9, <1>20
  <2>2. e.at # At(s, Len(s))
    <3>1. \A i, j \in 1 .. Len(s) : s[i] = s[j] => i = j
      BY RingFacts
    <3>2. At(s, p + 1) # At(s, Len(s) + 1)
      BY <1>1, <2>1, <3>1, AtInjective
    <3>3. Len(s) \in 0 .. Len(s)
      BY <1>1
    <3> QED BY <1>1, <1>9, <3>2, <3>3
  <2>3. r[e.at].next = At(t, p + 1)
    BY <1>7, <1>9, <1>16, <2>1, <2>2
  <2>4. Called(r, t, e, p)
    BY <1>17, <1>18, <2>3 DEF Called
  <2> QED BY <1>19, <2>4
<1>21. CASE p = Len(s) /\ e.at = At(s, Len(s))
  <2>1. r[e.at].next = At(t, p + 1)
    BY <1>7, <1>15, <1>21
  <2>4. Called(r, t, e, p)
    BY <1>17, <1>18, <2>1 DEF Called
  <2> QED BY <1>19, <2>4
<1>22. CASE p = Len(s) /\ e.at # At(s, Len(s))
  <2>1. Len(t) + 1 = Len(s) + 2
    BY <1>1, <1>2
  <2>2. r[e.at].next = At(t, Len(t) + 1)
    BY <1>7, <1>9, <1>15, <1>22, <2>1
  <2>3. \A i \in 1 .. Len(t) : r[t[i]].function \in e.due => r[t[i]].function \in ToSet(e.calls)
    <3>1. \A i \in 1 .. Len(t) : i \in 1 .. p \/ i = Len(s) + 1
      BY <1>1, <1>2, <1>22
    <3> QED BY <1>2, <1>7, <1>12, <1>18, <3>1
  <2>4. \A i \in Len(t) + 1 .. Len(t) : \A x \in ToSet(e.calls) : Before(x, r[t[i]].function)
    BY <1>1, <1>2
  <2>5. Called(r, t, e, Len(t))
    BY <2>2, <2>3, <2>4 DEF Called
  <2> QED BY <1>19, <2>5
<1> QED BY <1>1, <1>9, <1>20, <1>21, <1>22

\* After a link was removed.
LEMMA RemoveStays ==
  ASSUME NEW ring, NEW s, NEW n, RingIs(ring, s, n), NEW k \in 1 .. Len(s), Heard(ring, s, s[k]),
         NEW r, RingIs(r, Without(s, k), n), Relinked(ring, r, s, k),
         NEW c \in Nat, NEW e, Safe(ring, s, e, c), n[e.at] > 0
  PROVE  Safe(r, Without(s, k), e, c)
<1> PICK t : t = Without(s, k)
  OBVIOUS
<1>1. /\ s \in Seq(Links) /\ Len(s) \in Nat
      /\ \A i \in 1 .. Len(s) : s[i] \in Links /\ s[i] \in In(s) /\ s[i] # RingHead
      /\ \A i, j \in 1 .. Len(s) : s[i] = s[j] => i = j
      /\ \A i \in 0 .. Len(s) : ring[At(s, i)].next = At(s, i + 1) /\ ring[At(s, i + 1)].prev = At(s, i)
  BY RingFacts
<1>2. /\ \A i, j \in 0 .. Len(s) : At(s, i) = At(s, j) => i = j
      /\ \A i, j \in 1 .. Len(s) + 1 : At(s, i) = At(s, j) => i = j
  BY <1>1, AtInjective
<1>3. /\ t \in Seq(Links) /\ Len(t) = Len(s) - 1
      /\ \A i \in 1 .. Len(t) : t[i] = IF i < k THEN s[i] ELSE s[i + 1]
      /\ \A i \in 0 .. Len(t) + 1 : At(t, i) = IF i < k THEN At(s, i) ELSE At(s, i + 1)
  <2>1. t \in Seq(Links) /\ Len(t) = Len(s) - 1
    BY <1>1, WithoutFacts
  <2>2. \A i \in 1 .. Len(t) : t[i] = IF i < k THEN s[i] ELSE s[i + 1]
    BY <1>1, WithoutFacts
  <2>3. \A i \in 0 .. Len(t) + 1 : At(t, i) = IF i < k THEN At(s, i) ELSE At(s, i + 1)
    BY <1>1, WithoutFacts
  <2> QED BY <2>1, <2>2, <2>3
<1>4. \A i \in 1 .. Len(t) : t[i] \in Nodes /\ r[t[i]] # Deleted
  <2>1. RingIs(r, t, n)
    OBVIOUS
  <2>2. ASSUME NEW i \in 1 .. Len(t) PROVE t[i] \in Nodes /\ Own(t, t[i]) > 0
    <3>1. t[i] \in Links /\ t[i] \in In(t)
      BY <2>1, RingFacts
    <3> QED BY <3>1 DEF Nodes, Own
  <2> QED BY <2>1, <2>2, RingFacts
<1>5. RingHead \in Nodes /\ r[RingHead] # Deleted
  <2>1. RingHead \in Nodes /\ Own(Without(s, k), RingHead) > 0
    BY DEF Nodes, Own
  <2> QED BY <2>1, RingFacts
<1>6. e \in EmissionsOf(c) /\ InOrder(e.calls) /\ e.at \in Nodes
  BY DEF Safe, EmissionsOf
<1>7. r[e.at] # Deleted /\ ring[e.at] # Deleted
  BY <1>6 DEF RingIs
<1>8. /\ r[RingHead].function = ring[RingHead].function
      /\ \A i \in 1 .. Len(t) : i < k => r[t[i]].function = ring[s[i]].function
      /\ \A i \in 1 .. Len(t) : i >= k => r[t[i]].function = ring[s[i + 1]].function
      /\ r[e.at].next = IF e.at = At(s, k - 1) THEN At(s, k + 1) ELSE ring[e.at].next
  <2>1. r[RingHead].function = ring[RingHead].function
    BY <1>1, <1>5 DEF Relinked
  <2>2. r[e.at].next = IF e.at = At(s, k - 1) THEN At(s, k + 1) ELSE ring[e.at].next
    BY <1>6, <1>7 DEF Relinked
  <2>3. ASSUME NEW i \in 1 .. Len(t) PROVE t[i] # s[k] /\ r[t[i]].function = ring[t[i]].function
    <3>1. i \in 1 .. Len(s) /\ i + 1 \in 1 .. Len(s) /\ i \in Nat /\ k \in Nat
      BY <1>1, <1>3
    <3>2. t[i] # s[k]
      BY <1>1, <1>3, <3>1
    <3> QED BY <1>4, <3>2 DEF Relinked
  <2>4. \A i \in 1 .. Len(t) : i < k => r[t[i]].function = ring[s[i]].function
    BY <1>3, <2>3
  <2>5. \A i \in 1 .. Len(t) : i >= k => r[t[i]].function = ring[s[i + 1]].function
    BY <1>3, <2>3
  <2> QED BY <2>1, <2>2, <2>4, <2>5
<1>9. PICK p \in 0 .. Len(s) : Called(ring, s, e, p)
  BY DEF Safe
<1>10. /\ p \in Nat /\ p <= Len(s) /\ k \in Nat /\ k <= Len(s) /\ 1 <= k
       /\ ring[e.at].next = At(s, p + 1)
       /\ \A i \in 1 .. p : ring[s[i]].function \in e.due => ring[s[i]].function \in ToSet(e.calls)
       /\ \A i \in p + 1 .. Len(s) : \A x \in ToSet(e.calls) : Before(x, ring[s[i]].function)
  BY <1>1, <1>9 DEF Called
<1> DEFINE q == IF k <= p THEN p - 1 ELSE p
<1>11. q \in 0 .. Len(t) /\ q \in Nat
  BY <1>1, <1>3, <1>10
<1>12. At(s, k) = s[k]
  BY <1>1 DEF At
<1>13. r[e.at].next = At(t, q + 1)
  <2>1. CASE e.at = At(s, k - 1)
    <3>1. ring[e.at].next = At(s, k)
      <4>1. k - 1 \in 0 .. Len(s) /\ k - 1 + 1 = k
        BY <1>1, <1>10
      <4> QED BY <1>1, <2>1, <4>1
    <3>2. p + 1 \in 1 .. Len(s) + 1 /\ k \in 1 .. Len(s) + 1
      BY <1>1, <1>10
    <3>3. p + 1 = k
      BY <1>2, <1>10, <3>1, <3>2
    <3>4. q + 1 = k /\ k \in 0 .. Len(t) + 1
      BY <1>1, <1>3, <1>10, <3>3
    <3>5. At(t, k) = At(s, k + 1)
      BY <1>3, <1>10, <3>4
    <3> QED BY <1>8, <2>1, <3>4, <3>5
  <2>2. CASE e.at # At(s, k - 1)
    <3>1. p + 1 # k
      <4> SUFFICES ASSUME p + 1 = k PROVE FALSE
        OBVIOUS
      <4>1. ring[e.at].next = s[k]
        BY <1>10, <1>12
      <4>2. e.at \in In(s) \cup {RingHead}
        <5>1. e.at \notin In(s) => e.at \notin Links
          BY <1>7, <4>1 DEF Heard
        <5> QED BY <1>6, <5>1 DEF Nodes
      <4>3. PICK i \in 0 .. Len(s) : e.at = At(s, i)
        <5>1. RingHead = At(s, 0) /\ 0 \in 0 .. Len(s)
          BY <1>1 DEF At
        <5>2. ASSUME NEW j \in 1 .. Len(s) PROVE s[j] = At(s, j) /\ j \in 0 .. Len(s)
          BY <1>1 DEF At
        <5> QED BY <4>2, <5>1, <5>2 DEF In
      <4>4. ring[e.at].next = At(s, i + 1) /\ i + 1 \in 1 .. Len(s) + 1 /\ k \in 1 .. Len(s) + 1
        BY <1>1, <1>10, <4>3
      <4>5. i + 1 = k
        BY <1>2, <1>12, <4>1, <4>4
      <4>6. i = k - 1
        BY <1>10, <4>5
      <4> QED BY <2>2, <4>3, <4>6
    <3>2. CASE k <= p
      <4>1. q + 1 = p /\ p \in 0 .. Len(t) + 1 /\ ~ (p < k)
        BY <1>1, <1>3, <1>10, <3>2
      <4>2. At(t, p) = At(s, p + 1)
        BY <1>3, <4>1
      <4> QED BY <1>8, <1>10, <2>2, <4>1, <4>2
    <3>3. CASE k > p + 1
      <4>1. q + 1 = p + 1 /\ p + 1 \in 0 .. Len(t) + 1 /\ p + 1 < k
        BY <1>1, <1>3, <1>10, <3>3
      <4>2. At(t, p + 1) = At(s, p + 1)
        BY <1>3, <4>1
      <4> QED BY <1>8, <1>10, <2>2, <4>1, <4>2
    <3> QED BY <1>10, <3>1, <3>2, <3>3
  <2> QED BY <2>1, <2>2
<1>14. ASSUME NEW i \in 1 .. q
       PROVE  r[t[i]].function \in e.due => r[t[i]].function \in ToSet(e.calls)
  <2>1. i \in 1 .. Len(t) /\ i \in Nat
    BY <1>3, <1>10, <1>11
  <2>2. CASE i < k
    <3>1. i \in 1 .. p
      BY <1>10, <2>1, <2>2
    <3> QED BY <1>8, <1>10, <2>1, <2>2, <3>1
  <2>3. CASE i >= k
    <3>1. i + 1 \in 1 .. p
      BY <1>10, <2>1, <2>3
    <3> QED BY <1>8, <1>10, <2>1, <2>3, <3>1
  <2> QED BY <1>10, <2>1, <2>2, <2>3
<1>15. ASSUME NEW i \in q + 1 .. Len(t), NEW x \in ToSet(e.calls)
       PROVE  Before(x, r[t[i]].function)
  <2>1. i \in 1 .. Len(t) /\ i \in Nat
    BY <1>1, <1>3, <1>10, <1>11
  <2>2. CASE i < k
    <3>1. i \in p + 1 .. Len(s)
      BY <1>1, <1>3, <1>10, <2>1, <2>2
    <3> QED BY <1>8, <1>10, <2>1, <2>2, <3>1
  <2>3. CASE i >= k
    <3>1. i + 1 \in p + 1 .. Len(s)
      BY <1>1, <1>3, <1>10, <2>1, <2>3
    <3> QED BY <1>8, <1>10, <2>1, <2>3, <3>1
  <2> QED BY <1>10, <2>1, <2>2, <2>3
<1> HIDE DEF q
<1>16. Called(r, t, e, q)
  BY <1>13, <1>14, <1>15 DEF Called
<1>17. r[RingHead].function \in e.due => r[RingHead].function \in ToSet(e.calls)
  BY <1>8 DEF Safe
<1> QED BY <1>6, <1>11, <1>16, <1>17 DEF Safe

\* How many emissions stand at a link.
Standing(em) == [l \in Nodes |-> Cardinality({i \in DOMAIN em : em[i].at = l})]

LEMMA StandingIs ==
  ASSUME NEW X, NEW em \in Seq(X), NEW l \in Nodes
  PROVE  /\ Standing(em)[l] \in Nat
         /\ \A i \in 1 .. Len(em) : em[i].at = l => Standing(em)[l] > 0
<1> DEFINE A == {i \in DOMAIN em : em[i].at = l}
<1>1. Len(em) \in Nat /\ DOMAIN em = 1 .. Len(em)
  OBVIOUS
<1>2. IsFiniteSet(1 .. Len(em))
  <2>1. 1 \in Int /\ Len(em) \in Int
    BY <1>1
  <2> QED BY <2>1, FS_Interval
<1>3. IsFiniteSet(A)
  <2>1. A \subseteq 1 .. Len(em)
    BY <1>1
  <2> HIDE DEF A
  <2> QED BY <1>2, <2>1, FS_Subset
<1>4. Standing(em)[l] = Cardinality(A)
  BY DEF Standing
<1>5. Cardinality(A) \in Nat
  <2> HIDE DEF A
  <2> QED BY <1>3, FS_CardinalityType
<1>6. Cardinality(A) = 0 => A = {}
  <2> HIDE DEF A
  <2> QED BY <1>3, FS_EmptySet
<1>7. ASSUME NEW i \in 1 .. Len(em), em[i].at = l PROVE Cardinality(A) > 0
  <2>1. A # {}
    BY <1>1, <1>7
  <2> HIDE DEF A
  <2> QED BY <1>5, <1>6, <2>1
<1> QED BY <1>4, <1>5, <1>7

LEMMA StandingAppend ==
  ASSUME NEW X, NEW em \in Seq(X), NEW e, NEW l \in Nodes
  PROVE  Standing(Append(em, e))[l] = Standing(em)[l] + IF e.at = l THEN 1 ELSE 0
<1> DEFINE A == {i \in DOMAIN em : em[i].at = l}
           more == Append(em, e)
           B == {i \in DOMAIN more : more[i].at = l}
<1>1. Len(em) \in Nat /\ DOMAIN em = 1 .. Len(em)
  OBVIOUS
<1>2. IsFiniteSet(1 .. Len(em))
  <2>1. 1 \in Int /\ Len(em) \in Int
    BY <1>1
  <2> QED BY <2>1, FS_Interval
<1>3. IsFiniteSet(A) /\ Len(em) + 1 \notin A
  <2>1. A \subseteq 1 .. Len(em)
    BY <1>1
  <2> HIDE DEF A
  <2>2. IsFiniteSet(A)
    BY <1>2, <2>1, FS_Subset
  <2>3. Len(em) + 1 \notin 1 .. Len(em)
    BY <1>1
  <2> QED BY <2>1, <2>2, <2>3
<1>4. Standing(em)[l] = Cardinality(A) /\ Standing(more)[l] = Cardinality(B)
  BY DEF Standing
<1>5. /\ DOMAIN more = 1 .. Len(em) + 1 /\ more[Len(em) + 1] = e
      /\ \A i \in 1 .. Len(em) : more[i] = em[i]
  OBVIOUS
<1> HIDE DEF more
<1>6. CASE e.at = l
  <2>1. B = A \cup {Len(em) + 1}
    BY <1>1, <1>5, <1>6
  <2>2. Cardinality(A \cup {Len(em) + 1}) = Cardinality(A) + 1
    <3> HIDE DEF A
    <3> QED BY <1>3, FS_AddElement
  <2> HIDE DEF A, B
  <2> QED BY <1>4, <1>6, <2>1, <2>2 DEF more
<1>7. CASE e.at # l
  <2>1. B = A
    BY <1>1, <1>5, <1>7
  <2>2. Cardinality(A) \in Nat
    <3> HIDE DEF A
    <3> QED BY <1>3, FS_CardinalityType
  <2> HIDE DEF A, B
  <2> QED BY <1>4, <1>7, <2>1, <2>2 DEF more
<1> QED BY <1>6, <1>7

LEMMA InnermostLast ==
  ASSUME NEW X, NEW em \in Seq(X), em # <<>>
  PROVE  /\ Front(em) \in Seq(X) /\ Last(em) \in X
         /\ em = Append(Front(em), Last(em))
         /\ Len(em) = Len(Front(em)) + 1 /\ Last(em) = em[Len(em)]
         /\ \A i \in 1 .. Len(Front(em)) : Front(em)[i] = em[i]
<1>1. Len(em) \in Nat /\ Len(em) # 0
  OBVIOUS
<1> PICK n : n = Len(em)
  OBVIOUS
<1> PICK f : f = Front(em)
  OBVIOUS
<1>2. f = [i \in 1 .. n - 1 |-> em[i]]
  BY DEF Front
<1>3. n - 1 \in Nat /\ n \in 1 .. n
  BY <1>1
<1>4. \A i \in 1 .. n - 1 : i \in 1 .. n /\ em[i] \in X
  BY <1>1
<1>5. f \in Seq(X) /\ Len(f) = n - 1
  BY <1>2, <1>3, <1>4
<1>6. Last(em) = em[n] /\ em[n] \in X
  BY <1>3 DEF Last
<1>7. em = Append(f, em[n])
  <2>1. Len(Append(f, em[n])) = n /\ Append(f, em[n]) \in Seq(X)
    BY <1>1, <1>5, <1>6
  <2>2. \A i \in 1 .. n : Append(f, em[n])[i] = em[i]
    BY <1>1, <1>2, <1>5
  <2> QED BY <2>1, <2>2
<1> QED BY <1>1, <1>2, <1>5, <1>6, <1>7

-----------------------------------------------------------------------------
(* The walk of an emission.                                                 *)

StepOn(x) == [ring |-> IF x.ring[x.ring[x.at].next] = Deleted THEN x.ring ELSE Go(x.ring, x.at),
              at |-> x.ring[x.at].next]
ArrivedAt(x) == x.at = RingHead \/ x.ring[x.at] = Deleted \/ x.ring[x.at].function # NoFunction
OnOf(ring, at, f, n) ==
    IF n = 0 THEN StepOn([ring |-> ring, at |-> at])
    ELSE IF ArrivedAt(f[n - 1]) THEN f[n - 1] ELSE StepOn(f[n - 1])

\* Where the next link has a callback, it is one step.
LEMMA OnwardIs ==
  ASSUME NEW ring, NEW at, NEW to, to = ring[at].next, ring[to] # Deleted,
         NEW r, r = Go(ring, at), to # RingHead => r[to].function # NoFunction
  PROVE  Onward(ring, at) = [ring |-> r, at |-> to]
<1> DEFINE f == CHOOSE g : g = [n \in Nat |-> OnOf(ring, at, g, n)]
           x == [ring |-> r, at |-> to]
           h == [n \in Nat |-> x]
<1>1. StepOn([ring |-> ring, at |-> at]) = x
  BY DEF StepOn
<1>2. ArrivedAt(x)
  BY DEF ArrivedAt
<1> HIDE DEF x
<1>3. \A n \in Nat : OnOf(ring, at, h, n) = x
  <2>1. ASSUME NEW n \in Nat PROVE OnOf(ring, at, h, n) = x
    <3>1. n # 0 => h[n - 1] = x
      OBVIOUS
    <3> HIDE DEF h
    <3> QED BY <1>1, <1>2, <3>1 DEF OnOf
  <2> QED BY <2>1
<1>4. h = [n \in Nat |-> OnOf(ring, at, h, n)]
  <2>1. h = [n \in Nat |-> x]
    OBVIOUS
  <2> HIDE DEF h
  <2> QED BY <1>3, <2>1
<1>5. \E g : g = [n \in Nat |-> OnOf(ring, at, g, n)]
  <2> HIDE DEF h
  <2> QED BY <1>4
<1>6. f = [n \in Nat |-> OnOf(ring, at, f, n)]
  BY <1>5
<1>7. Onward(ring, at) = f[Cardinality(Links)]
  BY DEF Onward, OnOf, StepOn, ArrivedAt
<1> HIDE DEF f
<1>8. \A n \in Nat : f[n] = x
  <2> DEFINE U == {n \in Nat : f[n] # x}
  <2> SUFFICES ASSUME U # {} PROVE FALSE
    OBVIOUS
  <2>1. PICK n \in U : \A k \in U : n <= k
    <3>1. U \subseteq Nat
      OBVIOUS
    <3> HIDE DEF U
    <3> QED BY <3>1, LeastNatural
  <2>2. n \in Nat /\ f[n] # x
    OBVIOUS
  <2>3. f[n] = OnOf(ring, at, f, n)
    BY <1>6, <2>2
  <2>4. n # 0
    BY <1>1, <2>2, <2>3 DEF OnOf
  <2>5. n - 1 \in Nat /\ n - 1 \notin U
    BY <2>1, <2>2, <2>4
  <2>6. f[n - 1] = x
    BY <2>5
  <2> QED BY <1>2, <2>2, <2>3, <2>4, <2>6 DEF OnOf
<1>9. Cardinality(Links) \in Nat
  BY SignalAssumption, FS_CardinalityType
<1> QED BY <1>7, <1>8, <1>9 DEF x

-----------------------------------------------------------------------------
(* The signal between two calls, while no link was cut off.                 *)

SignalIs(ring, s, em, c) ==
    /\ c \in Nat
    /\ RingIs(ring, s, Standing(em))
    /\ Named(ring, s, c)
    /\ em \in Seq(EmissionsOf(c))
    /\ \A i \in 1 .. Len(em) : Safe(ring, s, em[i], c)

LEMMA SignalIsAfter ==
  ASSUME NEW ring, NEW s, NEW n, RingIs(ring, s, n), NEW c \in Nat, Named(ring, s, c),
         NEW em \in Seq(EmissionsOf(c)), \A i \in 1 .. Len(em) : Safe(ring, s, em[i], c),
         NEW r, NEW m, RingIs(r, s, m), Same(ring, r), \A l \in Nodes : m[l] = Standing(em)[l]
  PROVE  SignalIs(r, s, em, c)
<1>1. Standing(em) = [l \in Nodes |-> Standing(em)[l]]
  BY DEF Standing
<1>2. RingIs(r, s, Standing(em))
  BY DEF RingIs
<1>3. ASSUME NEW i \in 1 .. Len(em) PROVE Safe(r, s, em[i], c)
  <2>1. Safe(ring, s, em[i], c)
    OBVIOUS
  <2> PICK e : e = em[i]
    OBVIOUS
  <2>2. e.at \in Nodes
    BY <2>1 DEF Safe, EmissionsOf
  <2>3. m[e.at] > 0
    BY <2>2, StandingIs
  <2> QED BY <2>1, <2>3, SafeStays
<1>4. Named(r, s, c)
  BY NamedStays
<1> QED BY <1>2, <1>3, <1>4 DEF SignalIs

\* The next link is in the ring.
LEMMA NextIsThere ==
  ASSUME NEW ring, NEW s, NEW n, RingIs(ring, s, n), NEW c \in Nat, Named(ring, s, c),
         NEW e, Safe(ring, s, e, c), NEW p \in 0 .. Len(s), Called(ring, s, e, p),
         NEW to, to = ring[e.at].next
  PROVE  /\ to = At(s, p + 1) /\ to \in Nodes /\ ring[to] # Deleted
         /\ to = RingHead => p = Len(s)
         /\ to # RingHead => p + 1 \in 1 .. Len(s) /\ to = s[p + 1] /\ ring[to].function \in Callbacks(c)
<1>1. /\ s \in Seq(Links) /\ Len(s) \in Nat
      /\ \A i \in 1 .. Len(s) : s[i] # RingHead
      /\ \A i \in 0 .. Len(s) + 1 : At(s, i) \in Nodes /\ ring[At(s, i)] \in LiveLinks
  BY RingFacts
<1>2. to = At(s, p + 1)
  BY DEF Called
<1>3. p + 1 \in 0 .. Len(s) + 1
  BY <1>1
<1>4. to \in Nodes /\ ring[to] # Deleted
  BY <1>1, <1>2, <1>3, DeletedIsNoLink
<1>5. to = RingHead => p = Len(s)
  <2>1. p # Len(s) => p + 1 \in 1 .. Len(s)
    BY <1>1
  <2> QED BY <1>1, <1>2, <2>1 DEF At
<1>6. to # RingHead => p + 1 \in 1 .. Len(s) /\ to = s[p + 1]
  BY <1>2 DEF At
<1>7. to # RingHead => ring[to].function \in Callbacks(c)
  BY <1>6 DEF Named
<1> QED BY <1>2, <1>4, <1>5, <1>6, <1>7

\* One call more.
LEMMA CallStays ==
  ASSUME NEW ring, NEW s, NEW n, RingIs(ring, s, n), NEW c \in Nat, Named(ring, s, c),
         NEW e, Safe(ring, s, e, c), NEW p \in 0 .. Len(s), Called(ring, s, e, p),
         NEW to, to = ring[e.at].next, to # RingHead,
         NEW calls, calls = Append(e.calls, ring[to].function),
         NEW d, d = [at |-> to, due |-> e.due, calls |-> calls]
  PROVE  Safe(ring, s, d, c)
<1>1. /\ p + 1 \in 1 .. Len(s) /\ to = s[p + 1] /\ to \in Nodes /\ ring[to].function \in Callbacks(c)
  BY NextIsThere
<1>2. /\ s \in Seq(Links) /\ Len(s) \in Nat /\ p \in Nat
      /\ \A i \in 0 .. Len(s) : ring[At(s, i)].next = At(s, i + 1) /\ ring[At(s, i + 1)].prev = At(s, i)
  BY RingFacts
<1>3. e \in EmissionsOf(c) /\ InOrder(e.calls) /\ e.due \subseteq Callbacks(c) /\ e.calls \in Seq(Callbacks(c))
  BY DEF Safe, EmissionsOf
<1> PICK f : f = ring[to].function
  OBVIOUS
<1> PICK old : old = e.calls
  OBVIOUS
<1>4. /\ calls \in Seq(Callbacks(c)) /\ Len(calls) = Len(old) + 1 /\ calls[Len(old) + 1] = f
      /\ \A i \in 1 .. Len(old) : calls[i] = old[i]
      /\ Len(old) \in Nat
  BY <1>1, <1>3
<1>5. ToSet(calls) = ToSet(old) \cup {f}
  <2>1. DOMAIN calls = 1 .. Len(old) + 1 /\ DOMAIN old = 1 .. Len(old)
    BY <1>3, <1>4
  <2>2. ASSUME NEW x \in ToSet(calls) PROVE x \in ToSet(old) \cup {f}
    <3>1. PICK i \in 1 .. Len(old) + 1 : x = calls[i]
      BY <2>1 DEF ToSet
    <3>2. i \in 1 .. Len(old) \/ i = Len(old) + 1
      BY <1>4
    <3> QED BY <1>4, <2>1, <3>1, <3>2 DEF ToSet
  <2>3. ASSUME NEW x \in ToSet(old) PROVE x \in ToSet(calls)
    <3>1. PICK i \in 1 .. Len(old) : x = old[i]
      BY <2>1 DEF ToSet
    <3>2. i \in 1 .. Len(old) + 1
      BY <1>4
    <3> QED BY <1>4, <2>1, <3>1, <3>2 DEF ToSet
  <2>4. f \in ToSet(calls)
    <3>1. Len(old) + 1 \in 1 .. Len(old) + 1
      BY <1>4
    <3> QED BY <1>4, <2>1, <3>1 DEF ToSet
  <2> QED BY <2>2, <2>3, <2>4
<1>6. /\ \A i \in 1 .. p : ring[s[i]].function \in e.due => ring[s[i]].function \in ToSet(old)
      /\ \A i \in p + 1 .. Len(s) : \A x \in ToSet(old) : Before(x, ring[s[i]].function)
  BY DEF Called
<1>7. \A x \in ToSet(old) : Before(x, f)
  <2>1. p + 1 \in p + 1 .. Len(s)
    BY <1>1, <1>2
  <2> QED BY <1>1, <1>6, <2>1
<1>8. InOrder(calls)
  <2>0. DOMAIN calls = 1 .. Len(old) + 1
    BY <1>4
  <2> SUFFICES ASSUME NEW i \in 1 .. Len(old) + 1, NEW j \in 1 .. Len(old) + 1, i < j,
                      DefaultCallback \notin {calls[i], calls[j]}
               PROVE  calls[i] < calls[j]
    BY <2>0 DEF InOrder
  <2>1. DOMAIN old = 1 .. Len(old)
    BY <1>3
  <2>2. i \in 1 .. Len(old)
    BY <1>4
  <2>3. CASE j = Len(old) + 1
    <3>1. old[i] \in ToSet(old)
      BY <2>1, <2>2 DEF ToSet
    <3> QED BY <1>4, <1>7, <2>2, <2>3, <3>1 DEF Before
  <2>4. CASE j # Len(old) + 1
    <3>1. j \in 1 .. Len(old)
      BY <1>4, <2>4
    <3> QED BY <1>3, <1>4, <2>1, <2>2, <3>1 DEF InOrder
  <2> QED BY <2>3, <2>4
<1>9. d.at = to /\ d.due = e.due /\ d.calls = calls /\ d \in EmissionsOf(c)
  BY <1>1, <1>3, <1>4 DEF EmissionsOf
<1>10. ring[RingHead].function \in d.due => ring[RingHead].function \in ToSet(d.calls)
  BY <1>5, <1>9 DEF Safe
<1>11. Called(ring, s, d, p + 1)
  <2>1. ring[d.at].next = At(s, p + 1 + 1)
    <3>1. p + 1 \in 0 .. Len(s) /\ At(s, p + 1) = to
      BY <1>1, <1>2 DEF At
    <3> QED BY <1>2, <1>9, <3>1
  <2>2. ASSUME NEW i \in 1 .. p + 1
        PROVE  ring[s[i]].function \in d.due => ring[s[i]].function \in ToSet(d.calls)
    <3>1. i \in 1 .. p \/ i = p + 1
      BY <1>2
    <3> QED BY <1>1, <1>5, <1>6, <1>9, <3>1
  <2>3. ASSUME NEW i \in p + 1 + 1 .. Len(s), NEW x \in ToSet(d.calls)
        PROVE  Before(x, ring[s[i]].function)
    <3>1. /\ i \in p + 1 .. Len(s) /\ i \in 1 .. Len(s) /\ p + 1 \in 1 .. Len(s) /\ p + 1 < i
      BY <1>1, <1>2
    <3>2. Before(f, ring[s[i]].function)
      BY <1>1, <3>1 DEF Named
    <3> QED BY <1>5, <1>6, <1>9, <3>1, <3>2
  <2> QED BY <2>1, <2>2, <2>3 DEF Called
<1>12. p + 1 \in 0 .. Len(s)
  BY <1>1, <1>2
<1> QED BY <1>8, <1>9, <1>10, <1>11, <1>12, <1>3 DEF Safe

\* An emission at the link it comes to is at its end, or at its next call.
WentOn(ring, s, c, e, outer, x) ==
    /\ x.at = ring[e.at].next /\ x.ring[x.at] # Deleted
    /\ x.at = RingHead => SignalIs(Decref(x.ring, RingHead), s, outer, c)
    /\ x.at # RingHead =>
         SignalIs(x.ring, s,
               Append(outer, [at |-> x.at, due |-> e.due,
                              calls |-> Append(e.calls, x.ring[x.at].function)]), c)

LEMMA WalkGoesOn ==
  ASSUME NEW ring, NEW s, NEW n, RingIs(ring, s, n), NEW c \in Nat, Named(ring, s, c),
         NEW e, Safe(ring, s, e, c),
         NEW outer \in Seq(EmissionsOf(c)), \A i \in 1 .. Len(outer) : Safe(ring, s, outer[i], c),
         \A l \in Nodes : n[l] = Standing(outer)[l] + IF e.at = l THEN 1 ELSE 0,
         NEW x, x = Onward(ring, e.at)
  PROVE  WentOn(ring, s, c, e, outer, x)
<1>1. PICK p \in 0 .. Len(s) : Called(ring, s, e, p)
  BY DEF Safe
<1>0. PICK to : to = ring[e.at].next
  OBVIOUS
<1>2. /\ to = At(s, p + 1) /\ to \in Nodes /\ ring[to] # Deleted
      /\ to # RingHead => p + 1 \in 1 .. Len(s) /\ to = s[p + 1] /\ ring[to].function \in Callbacks(c)
  BY <1>0, <1>1, NextIsThere
<1>3. e \in EmissionsOf(c) /\ e.at \in Nodes
  BY DEF Safe, EmissionsOf
<1> DEFINE held == Incref(ring, to)
           m1 == [l \in Nodes |-> IF l = to THEN n[l] + 1 ELSE n[l]]
           m2 == [l \in Nodes |-> IF l = e.at THEN m1[l] - 1 ELSE m1[l]]
<1>4. /\ m1[to] = n[to] + 1 /\ \A k \in Nodes : k # to => m1[k] = n[k]
  BY <1>2
<1>5. RingIs(held, s, m1) /\ Same(ring, held) /\ held[to] # Deleted
  <2> HIDE DEF m1
  <2> QED BY <1>2, <1>4, IncrefKeeps
<1>6. \A l \in Nodes : n[l] \in Nat /\ Standing(outer)[l] \in Nat
  <2>1. \A l \in Nodes : Standing(outer)[l] \in Nat
    BY StandingIs
  <2> QED BY <2>1 DEF RingIs
<1>7. m1[e.at] > 0 /\ m2[e.at] = m1[e.at] - 1 /\ \A k \in Nodes : k # e.at => m2[k] = m1[k]
  <2>1. n[e.at] > 0
    BY <1>3, <1>6
  <2> QED BY <1>3, <1>6, <2>1
<1> PICK r : r = Go(ring, e.at)
  OBVIOUS
<1>8. r = Decref(held, e.at)
  BY <1>0 DEF Go
<1> HIDE DEF held
<1>9. \A l \in Nodes : m2[l] = Standing(outer)[l] + IF to = l THEN 1 ELSE 0
  <2> SUFFICES ASSUME NEW l \in Nodes PROVE m2[l] = Standing(outer)[l] + IF to = l THEN 1 ELSE 0
    OBVIOUS
  <2>1. n[l] = Standing(outer)[l] + IF e.at = l THEN 1 ELSE 0
    OBVIOUS
  <2>2. m1[l] = n[l] + IF to = l THEN 1 ELSE 0
    BY <1>6
  <2>3. m2[l] = m1[l] - IF e.at = l THEN 1 ELSE 0
    BY <1>6, <2>2
  <2> HIDE DEF m1, m2
  <2> QED BY <1>6, <2>1, <2>2, <2>3
<1> HIDE DEF m1, m2
<1>10. RingIs(r, s, m2) /\ Same(held, r)
  BY <1>3, <1>5, <1>7, <1>8, DecrefKeeps
<1>11. r[to] # Deleted /\ r[to].function = ring[to].function
  <2>1. m2[to] > 0
    BY <1>2, <1>6, <1>9
  <2>2. r[to] # Deleted
    BY <1>2, <1>10, <2>1 DEF RingIs
  <2> QED BY <1>2, <1>5, <1>10, <2>2 DEF Same
<1>12. to # RingHead => r[to].function # NoFunction
  BY <1>2, <1>11, CallbacksAreNumbers
<1>13. x = [ring |-> r, at |-> to]
  <2> PICK at : at = e.at
    OBVIOUS
  <2>1. to = ring[at].next /\ r = Go(ring, at)
    BY <1>0
  <2>2. Onward(ring, at) = [ring |-> r, at |-> to]
    BY <1>2, <1>12, <2>1, OnwardIs
  <2> QED BY <2>2
<1>14. Same(ring, r)
  BY <1>5, <1>10 DEF Same
<1>15. CASE to = RingHead
  <2>1. m2[RingHead] > 0
    BY <1>2, <1>6, <1>9, <1>15
  <2> DEFINE m3 == Standing(outer)
             last == Decref(r, RingHead)
  <2>2. RingHead \in Nodes
    BY DEF Nodes
  <2>3. m3[RingHead] = m2[RingHead] - 1 /\ \A k \in Nodes : k # RingHead => m3[k] = m2[k]
    BY <1>6, <1>9, <1>15, <2>2
  <2>4. RingIs(last, s, m3) /\ Same(r, last)
    <3> HIDE DEF m3
    <3> QED BY <1>10, <2>1, <2>2, <2>3, DecrefKeeps
  <2>5. Same(ring, last)
    BY <1>14, <2>4 DEF Same
  <2>6. SignalIs(last, s, outer, c)
    <3> HIDE DEF last
    <3> QED BY <2>4, <2>5, SignalIsAfter
  <2> QED BY <1>0, <1>11, <1>13, <1>15, <2>6 DEF WentOn
<1>16. CASE to # RingHead
  <2>a. PICK calls : calls = Append(e.calls, ring[to].function)
    OBVIOUS
  <2>b. PICK d : d = [at |-> to, due |-> e.due, calls |-> calls]
    OBVIOUS
  <2>1. Safe(ring, s, d, c)
    BY <1>0, <1>1, <1>16, <2>a, <2>b, CallStays
  <2>2. d \in EmissionsOf(c) /\ d.at = to
    BY <2>1, <2>b DEF Safe
  <2>c. PICK em : em = Append(outer, d)
    OBVIOUS
  <2>3. em \in Seq(EmissionsOf(c))
    BY <2>2, <2>c
  <2>4. \A i \in 1 .. Len(em) : Safe(ring, s, em[i], c)
    <3>1. Len(em) = Len(outer) + 1 /\ em[Len(outer) + 1] = d /\ Len(outer) \in Nat
          /\ \A i \in 1 .. Len(outer) : em[i] = outer[i]
      BY <2>2, <2>c
    <3> SUFFICES ASSUME NEW i \in 1 .. Len(em) PROVE Safe(ring, s, em[i], c)
      OBVIOUS
    <3>2. i \in 1 .. Len(outer) \/ i = Len(outer) + 1
      BY <3>1
    <3> QED BY <2>1, <3>1, <3>2
  <2>5. \A l \in Nodes : m2[l] = Standing(em)[l]
    <3>1. \A l \in Nodes : Standing(Append(outer, d))[l] = Standing(outer)[l] + IF d.at = l THEN 1 ELSE 0
      BY StandingAppend
    <3> QED BY <1>9, <2>2, <2>c, <3>1
  <2>6. SignalIs(r, s, em, c)
    BY <1>10, <1>14, <2>3, <2>4, <2>5, SignalIsAfter
  <2>7. x.ring = r /\ x.at = to /\ calls = Append(e.calls, r[to].function)
    BY <1>11, <1>13, <2>a
  <2> QED BY <1>0, <1>11, <1>16, <2>6, <2>7, <2>a, <2>b, <2>c DEF WentOn
<1> QED BY <1>15, <1>16

LEMMA Innermost ==
  ASSUME NEW ring, NEW s, NEW em, NEW c, SignalIs(ring, s, em, c), em # <<>>,
         NEW e, e = Last(em), NEW outer, outer = Front(em)
  PROVE  /\ Safe(ring, s, e, c) /\ e.at \in Nodes
         /\ outer \in Seq(EmissionsOf(c)) /\ \A i \in 1 .. Len(outer) : Safe(ring, s, outer[i], c)
         /\ \A l \in Nodes : Standing(em)[l] = Standing(outer)[l] + IF e.at = l THEN 1 ELSE 0
         /\ Standing(em)[e.at] > 0
<1>1. em \in Seq(EmissionsOf(c)) /\ \A i \in 1 .. Len(em) : Safe(ring, s, em[i], c)
  BY DEF SignalIs
<1>2. /\ outer \in Seq(EmissionsOf(c)) /\ e \in EmissionsOf(c) /\ em = Append(outer, e)
      /\ Len(em) = Len(outer) + 1 /\ e = em[Len(em)]
      /\ \A i \in 1 .. Len(outer) : outer[i] = em[i]
  BY <1>1, InnermostLast
<1>3. Len(outer) \in Nat /\ Len(em) \in 1 .. Len(em) /\ \A i \in 1 .. Len(outer) : i \in 1 .. Len(em)
  BY <1>2
<1>4. Safe(ring, s, e, c) /\ \A i \in 1 .. Len(outer) : Safe(ring, s, outer[i], c)
  BY <1>1, <1>2, <1>3
<1>5. e.at \in Nodes
  BY <1>2 DEF EmissionsOf
<1>6. \A l \in Nodes : Standing(Append(outer, e))[l] = Standing(outer)[l] + IF e.at = l THEN 1 ELSE 0
  BY <1>2, StandingAppend
<1>7. Standing(em)[e.at] > 0
  <2>1. em[Len(em)].at = e.at
    BY <1>2
  <2> QED BY <1>1, <1>3, <1>5, <2>1, StandingIs
<1> QED BY <1>2, <1>4, <1>5, <1>6, <1>7

LEMMA SiblingSet ==
  ASSUME NEW ring, NEW s, NEW n, RingIs(ring, s, n)
  PROVE  ToSet(Siblings(ring)) = In(s)
<1>1. Siblings(ring) = s
  BY SiblingsAre
<1>2. DOMAIN s = 1 .. Len(s)
  BY RingFacts
<1> QED BY <1>1, <1>2 DEF ToSet, In

-----------------------------------------------------------------------------
(* What is made and what is removed.                                        *)

LEMMA EmptyRing ==
  ASSUME NEW f \in {NoFunction, DefaultCallback}, NEW n, \A l \in Nodes : n[l] = 0, NEW c
  PROVE  RingIs(Ring(f), <<>>, n) /\ Named(Ring(f), <<>>, c) /\ Ring(f)[RingHead].function = f
<1> PICK r : r = Ring(f)
  OBVIOUS
<1> DEFINE x == [next |-> RingHead, prev |-> RingHead, function |-> f, ref_count |-> 2]
<1>1. r = [l \in Nodes |-> IF l = RingHead THEN x ELSE Deleted]
  BY DEF Ring, Nodes
<1>2. f \in Nat /\ RingHead \in Nodes
  BY SignalAssumption DEF NoFunction, DefaultCallback, Nodes
<1>3. x \in LiveLinks /\ x.next = RingHead /\ x.prev = RingHead /\ x.function = f /\ x.ref_count = 2
  BY <1>2 DEF LiveLinks
<1>4. x # Deleted
  BY <1>3, DeletedIsNoLink
<1> HIDE DEF x
<1> PICK s : s = <<>>
  OBVIOUS
<1>5. s \in Seq(Links) /\ Len(s) = 0
  OBVIOUS
<1>6. \A i \in 0 .. 1 : At(s, i) = RingHead
  BY <1>5 DEF At
<1>7. In(s) = {}
  BY <1>5 DEF In
<1>8. r = [l \in Nodes |-> r[l]] /\ \A l \in Nodes : r[l] = Deleted \/ r[l] \in LiveLinks
  BY <1>1, <1>3
<1>9. \A i \in 0 .. Len(s) : r[At(s, i)].next = At(s, i + 1) /\ r[At(s, i + 1)].prev = At(s, i)
  <2>1. \A i \in 0 .. Len(s) : i = 0
    BY <1>5
  <2>2. r[At(s, 0)].next = At(s, 1) /\ r[At(s, 1)].prev = At(s, 0)
    BY <1>1, <1>2, <1>3, <1>6
  <2> QED BY <2>1, <2>2
<1>10. ASSUME NEW l \in Nodes
       PROVE  /\ n[l] \in Nat
              /\ r[l] = Deleted => n[l] = 0 /\ Own(s, l) = 0
              /\ r[l] # Deleted => /\ r[l].ref_count = n[l] + Own(s, l)
                                   /\ r[l].next \in In(s) \cup {RingHead}
  BY <1>1, <1>3, <1>4, <1>7 DEF Own
<1>11. RingIs(r, s, n)
  BY <1>5, <1>8, <1>9, <1>10 DEF RingIs
<1>12. r[RingHead].function = f
  BY <1>1, <1>2, <1>3
<1>13. Named(r, s, c)
  BY <1>5, <1>12 DEF Named
<1> QED BY <1>11, <1>12, <1>13

\* A callback that comes after all there are.
LEMMA NamedAdd ==
  ASSUME NEW ring, NEW s, NEW n, RingIs(ring, s, n), NEW new \in Links, ring[new] = Deleted,
         NEW c, NEW d, Named(ring, s, c), Callbacks(c) \subseteq Callbacks(d), NEW f \in Callbacks(d),
         \A i \in 1 .. Len(s) : Before(ring[s[i]].function, f),
         NEW r, Added(ring, r, s, new, f)
  PROVE  /\ Named(r, Append(s, new), d)
         /\ r[RingHead].function = ring[RingHead].function
         /\ \A i \in 1 .. Len(s) : r[s[i]].function = ring[s[i]].function
<1> PICK t : t = Append(s, new)
  OBVIOUS
<1>1. /\ s \in Seq(Links) /\ Len(s) \in Nat
      /\ \A i \in 1 .. Len(s) : s[i] \in Links /\ s[i] \in In(s)
  BY RingFacts
<1>2. /\ t \in Seq(Links) /\ Len(t) = Len(s) + 1 /\ t[Len(s) + 1] = new
      /\ \A i \in 1 .. Len(s) : t[i] = s[i]
  BY <1>1
<1>3. \A i \in 1 .. Len(s) : s[i] \in Nodes /\ ring[s[i]] # Deleted /\ s[i] # new
  <2>1. ASSUME NEW i \in 1 .. Len(s) PROVE s[i] \in Nodes /\ Own(s, s[i]) > 0
    BY <1>1 DEF Nodes, Own
  <2> QED BY <2>1, RingFacts
<1>4. RingHead \in Nodes /\ ring[RingHead] # Deleted /\ RingHead # new
  <2>1. RingHead \in Nodes /\ Own(s, RingHead) > 0
    BY DEF Nodes, Own
  <2> QED BY <2>1, RingFacts
<1>5. /\ \A i \in 1 .. Len(s) : r[s[i]].function = ring[s[i]].function
      /\ r[RingHead].function = ring[RingHead].function /\ r[new].function = f
  BY <1>3, <1>4 DEF Added
<1>6. \A i \in 1 .. Len(t) : i \in 1 .. Len(s) \/ i = Len(s) + 1
  BY <1>1, <1>2
<1>7. \A i \in 1 .. Len(t) : r[t[i]].function \in Callbacks(d)
  BY <1>2, <1>5, <1>6 DEF Named
<1>8. ASSUME NEW i \in 1 .. Len(t), NEW j \in 1 .. Len(t), i < j
      PROVE  Before(r[t[i]].function, r[t[j]].function)
  <2>1. i \in 1 .. Len(s)
    BY <1>1, <1>2, <1>8
  <2>2. CASE j \in 1 .. Len(s)
    BY <1>2, <1>5, <1>8, <2>1, <2>2 DEF Named
  <2>3. CASE j = Len(s) + 1
    BY <1>2, <1>5, <2>1, <2>3
  <2> QED BY <1>6, <2>2, <2>3
<1>9. r[RingHead].function \in {NoFunction, DefaultCallback}
  BY <1>5 DEF Named
<1> QED BY <1>5, <1>7, <1>8, <1>9 DEF Named

LEMMA ConnectedIs ==
  ASSUME NEW ring, NEW s, NEW em, NEW c, SignalIs(ring, s, em, c), c < MaxConnections,
         NEW new \in Links, ring[new] = Deleted,
         NEW r, r = AddBefore(ring, new, c + 1)
  PROVE  \E t : SignalIs(r, t, em, c + 1)
<1> PICK n : n = Standing(em)
  OBVIOUS
<1> PICK t : t = Append(s, new)
  OBVIOUS
<1>1. c \in Nat /\ RingIs(ring, s, n) /\ Named(ring, s, c) /\ em \in Seq(EmissionsOf(c))
      /\ \A i \in 1 .. Len(em) : Safe(ring, s, em[i], c)
  BY DEF SignalIs
<1>2. c + 1 \in Nat
  BY <1>1
<1>3. RingIs(r, t, n) /\ Added(ring, r, s, new, c + 1)
  BY <1>1, <1>2, AddKeeps
<1>4. Callbacks(c) \subseteq Callbacks(c + 1) /\ c + 1 \in Callbacks(c + 1)
  BY <1>1 DEF Callbacks
<1>5. \A i \in 1 .. Len(s) : Before(ring[s[i]].function, c + 1)
  BY <1>1 DEF Named, Callbacks, Before
<1>6. Named(r, t, c + 1)
  BY <1>1, <1>3, <1>4, <1>5, NamedAdd
<1>7. ASSUME NEW i \in 1 .. Len(em) PROVE Safe(r, t, em[i], c + 1)
  <2> PICK e : e = em[i]
    OBVIOUS
  <2>1. Safe(ring, s, e, c)
    BY <1>1
  <2>2. e.at \in Nodes
    BY <2>1 DEF Safe, EmissionsOf
  <2>3. n[e.at] > 0
    BY <1>1, <2>2, StandingIs
  <2> QED BY <1>1, <1>3, <2>1, <2>3, AddStays
<1>8. em \in Seq(EmissionsOf(c + 1))
  <2>1. Len(em) \in Nat /\ em = [i \in 1 .. Len(em) |-> em[i]] /\ \A i \in 1 .. Len(em) : em[i] \in EmissionsOf(c)
    BY <1>1
  <2>2. \A i \in 1 .. Len(em) : em[i] \in EmissionsOf(c + 1)
    BY <1>1, <2>1, CallbacksGrow
  <2>3. em \in [1 .. Len(em) -> EmissionsOf(c + 1)]
    BY <2>1, <2>2
  <2> QED BY <2>1, <2>3
<1> QED BY <1>2, <1>3, <1>6, <1>7, <1>8 DEF SignalIs

LEMMA RemovedIs ==
  ASSUME NEW ring, NEW s, NEW em, NEW c, SignalIs(ring, s, em, c), NEW k \in 1 .. Len(s),
         \A stale \in Stale(ring) : ring[stale].next # s[k],
         NEW r, r = Unlink(ring, s[k])
  PROVE  SignalIs(r, Without(s, k), em, c)
<1> PICK n : n = Standing(em)
  OBVIOUS
<1> PICK t : t = Without(s, k)
  OBVIOUS
<1>1. c \in Nat /\ RingIs(ring, s, n) /\ Named(ring, s, c) /\ em \in Seq(EmissionsOf(c))
      /\ \A i \in 1 .. Len(em) : Safe(ring, s, em[i], c)
  BY DEF SignalIs
<1>2. Heard(ring, s, s[k])
  <2>1. ToSet(Siblings(ring)) = In(s)
    BY <1>1, SiblingSet
  <2> QED BY <2>1 DEF Heard, Stale
<1>3. RingIs(r, t, n) /\ Relinked(ring, r, s, k)
  BY <1>1, <1>2, RemoveKeeps
<1>4. ASSUME NEW i \in 1 .. Len(em) PROVE Safe(r, t, em[i], c)
  <2> PICK e : e = em[i]
    OBVIOUS
  <2>1. Safe(ring, s, e, c)
    BY <1>1
  <2>2. e.at \in Nodes
    BY <2>1 DEF Safe, EmissionsOf
  <2>3. n[e.at] > 0
    BY <1>1, <2>2, StandingIs
  <2> QED BY <1>1, <1>2, <1>3, <2>1, <2>3, RemoveStays
<1>5. /\ s \in Seq(Links) /\ Len(s) \in Nat
      /\ \A i \in 1 .. Len(s) : s[i] # RingHead
      /\ \A i, j \in 1 .. Len(s) : s[i] = s[j] => i = j
  BY <1>1, RingFacts
<1>6. Len(t) = Len(s) - 1
  BY <1>5, WithoutFacts
<1>7. \A i \in 1 .. Len(t) : t[i] = IF i < k THEN s[i] ELSE s[i + 1]
  BY <1>5, <1>6 DEF Without
<1>8. \A i \in 1 .. Len(t) : t[i] \in Nodes /\ r[t[i]] # Deleted
  <2>1. ASSUME NEW i \in 1 .. Len(t) PROVE t[i] \in Nodes /\ Own(t, t[i]) > 0
    <3>1. t[i] \in Links /\ t[i] \in In(t)
      BY <1>3, RingFacts
    <3> QED BY <3>1 DEF Nodes, Own
  <2> QED BY <1>3, <2>1, RingFacts
<1>9. RingHead \in Nodes /\ r[RingHead] # Deleted
  <2>1. RingHead \in Nodes /\ Own(t, RingHead) > 0
    BY DEF Nodes, Own
  <2> QED BY <1>3, <2>1, RingFacts
<1> DEFINE old(i) == IF i < k THEN i ELSE i + 1
<1>10. ASSUME NEW i \in 1 .. Len(t)
       PROVE  /\ old(i) \in 1 .. Len(s) /\ t[i] = s[old(i)]
              /\ r[t[i]].function = ring[s[old(i)]].function
  <2>1. old(i) \in 1 .. Len(s) /\ old(i) # k
    BY <1>5, <1>6
  <2>2. t[i] = s[old(i)]
    BY <1>7
  <2> HIDE DEF old
  <2>3. t[i] # s[k]
    BY <1>5, <2>1, <2>2
  <2>4. r[t[i]].function = ring[t[i]].function
    BY <1>3, <1>8, <2>3 DEF Relinked
  <2> QED BY <2>1, <2>2, <2>4
<1>11. r[RingHead].function = ring[RingHead].function
  BY <1>3, <1>5, <1>9 DEF Relinked
<1>12. \A i, j \in 1 .. Len(t) : i < j => old(i) < old(j)
  BY <1>5, <1>6
<1> HIDE DEF old
<1>13. Named(r, t, c)
  BY <1>1, <1>10, <1>11, <1>12 DEF Named
<1> QED BY <1>1, <1>3, <1>4, <1>13 DEF SignalIs

-----------------------------------------------------------------------------
(* One removal after the other.                                             *)

ClearOf(ring, cutBefore, siblings, f, i) ==
    IF i = 0 THEN [ring |-> ring, cut |-> cutBefore] ELSE RemoveSibling(f[i - 1], siblings[i])

LEMMA ClearIs ==
  ASSUME NEW ring, NEW cutBefore, NEW q, Len(q) \in Nat
  PROVE  \E f : f = [i \in 0 .. Len(q) |-> ClearOf(ring, cutBefore, q, f, i)]
<1> DEFINE Upto(f, k) == \A n \in 0 .. k : f[n] = ClearOf(ring, cutBefore, q, f, n)
           T == {k \in Nat : ~ \E f : Upto(f, k)}
<1>1. T = {}
  <2> SUFFICES ASSUME T # {} PROVE FALSE
    OBVIOUS
  <2>1. PICK k \in T : \A j \in T : k <= j
    <3>1. T \subseteq Nat
      OBVIOUS
    <3> HIDE DEF T
    <3> QED BY <3>1, LeastNatural
  <2>2. k \in Nat
    OBVIOUS
  <2>3. k # 0
    <3>1. Upto([n \in {0} |-> [ring |-> ring, cut |-> cutBefore]], 0)
      BY DEF ClearOf
    <3> QED BY <3>1
  <2>4. k - 1 \in Nat /\ k - 1 \notin T
    <3> HIDE DEF T
    <3>1. k - 1 \in Nat /\ ~ (k <= k - 1)
      BY <2>2, <2>3
    <3> QED BY <2>1, <3>1
  <2>5. PICK f : Upto(f, k - 1)
    BY <2>4
  <2> DEFINE g == [n \in 0 .. k |-> IF n = k THEN RemoveSibling(f[k - 1], q[k]) ELSE f[n]]
  <2>6. Upto(g, k)
    <3> SUFFICES ASSUME NEW n \in 0 .. k PROVE g[n] = ClearOf(ring, cutBefore, q, g, n)
      OBVIOUS
    <3>1. CASE n = k
      <4>1. k - 1 \in 0 .. k /\ k - 1 # k /\ k \in 0 .. k
        BY <2>2, <2>3
      <4> QED BY <2>3, <3>1, <4>1 DEF ClearOf
    <3>2. CASE n # k
      <4>1. n \in 0 .. k - 1
        BY <2>2, <3>2
      <4>2. f[n] = ClearOf(ring, cutBefore, q, f, n)
        BY <2>5, <4>1
      <4>3. n # 0 => n - 1 \in 0 .. k /\ n - 1 # k
        BY <2>2
      <4> QED BY <3>2, <4>2, <4>3 DEF ClearOf
    <3> QED BY <3>1, <3>2
  <2> QED BY <2>1, <2>6
<1>2. PICK f : Upto(f, Len(q))
  BY <1>1
<1> DEFINE g == [i \in 0 .. Len(q) |-> f[i]]
<1>3. \A i \in 0 .. Len(q) : g[i] = ClearOf(ring, cutBefore, q, g, i)
  <2> SUFFICES ASSUME NEW i \in 0 .. Len(q) PROVE g[i] = ClearOf(ring, cutBefore, q, g, i)
    OBVIOUS
  <2>1. f[i] = ClearOf(ring, cutBefore, q, f, i)
    BY <1>2
  <2>2. i # 0 => i - 1 \in 0 .. Len(q)
    OBVIOUS
  <2> QED BY <2>1, <2>2 DEF ClearOf
<1>4. g = [i \in 0 .. Len(q) |-> g[i]]
  OBVIOUS
<1> HIDE DEF g
<1>5. g = [i \in 0 .. Len(q) |-> ClearOf(ring, cutBefore, q, g, i)]
  BY <1>3, <1>4
<1> QED BY <1>5

\* What is left after the first i.
Rest(s, i) == [j \in 1 .. Len(s) - i |-> s[i + j]]

LEMMA ClearedIs ==
  ASSUME NEW ring, NEW s, NEW em, NEW c, SignalIs(ring, s, em, c), NEW before,
         NEW f, f = [i \in 0 .. Len(s) |-> ClearOf(ring, before, s, f, i)]
  PROVE  \A i \in 0 .. Len(s) : f[i].cut \/ SignalIs(f[i].ring, Rest(s, i), em, c)
<1>1. s \in Seq(Links) /\ Len(s) \in Nat
  BY RingFacts DEF SignalIs
<1> DEFINE Good(i) == f[i].cut \/ SignalIs(f[i].ring, Rest(s, i), em, c)
           T == {i \in Nat : i <= Len(s) /\ ~ Good(i)}
<1> SUFFICES ASSUME T # {} PROVE FALSE
  BY <1>1
<1>2. PICK i \in T : \A j \in T : i <= j
  <2>1. T \subseteq Nat
    OBVIOUS
  <2> HIDE DEF T
  <2> QED BY <2>1, LeastNatural
<1>3. i \in Nat /\ i <= Len(s) /\ ~ Good(i)
  OBVIOUS
<1>4. f[i] = ClearOf(ring, before, s, f, i)
  BY <1>1, <1>3
<1>5. i # 0
  <2> SUFFICES ASSUME i = 0 PROVE FALSE
    OBVIOUS
  <2>1. f[0].ring = ring
    BY <1>4 DEF ClearOf
  <2>2. Rest(s, 0) = s
    <3>1. s = [j \in 1 .. Len(s) |-> s[j]]
      BY <1>1
    <3>2. Len(s) - 0 = Len(s) /\ \A j \in 1 .. Len(s) : 0 + j = j
      BY <1>1
    <3> QED BY <3>1, <3>2 DEF Rest
  <2> QED BY <1>3, <2>1, <2>2
<1>6. i - 1 \in Nat /\ i - 1 <= Len(s) /\ i - 1 \notin T
  BY <1>1, <1>2, <1>3, <1>5
<1>7. Good(i - 1)
  BY <1>6
<1> PICK was : was = f[i - 1]
  OBVIOUS
<1> PICK rest : rest = Rest(s, i - 1)
  OBVIOUS
<1>8. f[i] = RemoveSibling(was, s[i])
  BY <1>4, <1>5 DEF ClearOf
<1>9. /\ f[i].ring = Unlink(was.ring, s[i])
      /\ ~ f[i].cut => ~ was.cut /\ \A stale \in Stale(was.ring) : was.ring[stale].next # s[i]
  <2>1. f[i].ring = Unlink(was.ring, s[i])
    BY <1>8 DEF RemoveSibling
  <2>2. f[i].cut = (was.cut \/ \E stale \in Stale(was.ring) : was.ring[stale].next = s[i])
    <3>1. PICK y : y = (was.cut \/ \E stale \in Stale(was.ring) : was.ring[stale].next = s[i])
      OBVIOUS
    <3>2. f[i] = [ring |-> Unlink(was.ring, s[i]), cut |-> y]
      BY <1>8, <3>1, Zenon DEF RemoveSibling
    <3>3. f[i].cut = y
      BY <3>2
    <3> QED BY <3>1, <3>3, Zenon
  <2> QED BY <2>1, <2>2, Zenon
<1>10. ~ f[i].cut /\ ~ SignalIs(f[i].ring, Rest(s, i), em, c)
  BY <1>3
<1>11. SignalIs(was.ring, rest, em, c) /\ \A stale \in Stale(was.ring) : was.ring[stale].next # s[i]
  BY <1>7, <1>9, <1>10
<1>12. rest = [j \in 1 .. Len(s) - (i - 1) |-> s[i - 1 + j]]
  BY DEF Rest
<1>13. Len(s) - (i - 1) \in Nat /\ \A j \in 1 .. Len(s) - (i - 1) : i - 1 + j \in 1 .. Len(s)
  BY <1>1, <1>3, <1>5, <1>6
<1>14. rest \in Seq(Links) /\ Len(rest) = Len(s) - (i - 1)
  <2>1. \A j \in 1 .. Len(s) - (i - 1) : s[i - 1 + j] \in Links
    BY <1>1, <1>13
  <2>2. rest \in [1 .. Len(s) - (i - 1) -> Links]
    BY <1>12, <2>1
  <2> PICK n : n = Len(s) - (i - 1)
    OBVIOUS
  <2>3. n \in Nat /\ rest \in [1 .. n -> Links]
    BY <1>13, <2>2
  <2>4. rest \in Seq(Links) /\ Len(rest) = n
    BY <2>3
  <2> QED BY <2>4
<1>15. 1 \in 1 .. Len(rest) /\ rest[1] = s[i]
  <2>1. 1 \in 1 .. Len(s) - (i - 1) /\ i - 1 + 1 = i
    BY <1>1, <1>3, <1>5
  <2> QED BY <1>12, <1>14, <2>1
<1> PICK r : r = Unlink(was.ring, rest[1])
  OBVIOUS
<1>16. SignalIs(r, Without(rest, 1), em, c)
  BY <1>11, <1>15, RemovedIs
<1>17. Without(rest, 1) = Rest(s, i)
  <2>1. Len(rest) - 1 = Len(s) - i
    BY <1>1, <1>3, <1>14
  <2>2. \A j \in 1 .. Len(s) - i : ~ (j < 1) /\ rest[j + 1] = s[i + j]
    <3> SUFFICES ASSUME NEW j \in 1 .. Len(s) - i PROVE ~ (j < 1) /\ rest[j + 1] = s[i + j]
      OBVIOUS
    <3>1. j + 1 \in 1 .. Len(s) - (i - 1) /\ i - 1 + (j + 1) = i + j
      BY <1>1, <1>3
    <3> QED BY <1>12, <3>1
  <2> QED BY <2>1, <2>2 DEF Without, Rest
<1>18. r = f[i].ring
  BY <1>9, <1>15
<1> QED BY <1>10, <1>16, <1>17, <1>18

-----------------------------------------------------------------------------
(* A copy.                                                                  *)

CopyOf(ring, all, called, to, f, i) ==
    IF i = 0 THEN Ring(NoFunction)
    ELSE IF i \in called THEN AddBefore(f[i - 1], to[i], ring[all[i]].function)
    ELSE f[i - 1]

LEMMA CopyIs ==
  ASSUME NEW ring, NEW all, Len(all) \in Nat, NEW called, NEW to
  PROVE  \E f : f = [i \in 0 .. Len(all) |-> CopyOf(ring, all, called, to, f, i)]
<1> DEFINE Upto(f, k) == \A n \in 0 .. k : f[n] = CopyOf(ring, all, called, to, f, n)
           T == {k \in Nat : ~ \E f : Upto(f, k)}
<1>1. T = {}
  <2> SUFFICES ASSUME T # {} PROVE FALSE
    OBVIOUS
  <2>1. PICK k \in T : \A j \in T : k <= j
    <3>1. T \subseteq Nat
      OBVIOUS
    <3> HIDE DEF T
    <3> QED BY <3>1, LeastNatural
  <2>2. k \in Nat
    OBVIOUS
  <2>3. k # 0
    <3>1. Upto([n \in {0} |-> Ring(NoFunction)], 0)
      BY DEF CopyOf
    <3> QED BY <3>1
  <2>4. k - 1 \in Nat /\ k - 1 \notin T
    <3> HIDE DEF T
    <3>1. k - 1 \in Nat /\ ~ (k <= k - 1)
      BY <2>2, <2>3
    <3> QED BY <2>1, <3>1
  <2>5. PICK f : Upto(f, k - 1)
    BY <2>4
  <2> DEFINE x == IF k \in called THEN AddBefore(f[k - 1], to[k], ring[all[k]].function) ELSE f[k - 1]
             g == [n \in 0 .. k |-> IF n = k THEN x ELSE f[n]]
  <2>6. Upto(g, k)
    <3> SUFFICES ASSUME NEW n \in 0 .. k PROVE g[n] = CopyOf(ring, all, called, to, g, n)
      OBVIOUS
    <3>1. CASE n = k
      <4>1. k - 1 \in 0 .. k /\ k - 1 # k /\ k \in 0 .. k
        BY <2>2, <2>3
      <4> QED BY <2>3, <3>1, <4>1 DEF CopyOf
    <3>2. CASE n # k
      <4>1. n \in 0 .. k - 1
        BY <2>2, <3>2
      <4>2. f[n] = CopyOf(ring, all, called, to, f, n)
        BY <2>5, <4>1
      <4>3. n # 0 => n - 1 \in 0 .. k /\ n - 1 # k
        BY <2>2
      <4> QED BY <3>2, <4>2, <4>3 DEF CopyOf
    <3> QED BY <3>1, <3>2
  <2> QED BY <2>1, <2>6
<1>2. PICK f : Upto(f, Len(all))
  BY <1>1
<1> DEFINE g == [i \in 0 .. Len(all) |-> f[i]]
<1>3. \A i \in 0 .. Len(all) : g[i] = CopyOf(ring, all, called, to, g, i)
  <2> SUFFICES ASSUME NEW i \in 0 .. Len(all) PROVE g[i] = CopyOf(ring, all, called, to, g, i)
    OBVIOUS
  <2>1. f[i] = CopyOf(ring, all, called, to, f, i)
    BY <1>2
  <2>2. i # 0 => i - 1 \in 0 .. Len(all)
    OBVIOUS
  <2> QED BY <2>1, <2>2 DEF CopyOf
<1>4. g = [i \in 0 .. Len(all) |-> g[i]]
  OBVIOUS
<1> HIDE DEF g
<1>5. g = [i \in 0 .. Len(all) |-> CopyOf(ring, all, called, to, g, i)]
  BY <1>3, <1>4
<1> QED BY <1>5

\* The callbacks called for, in their order.
Calls(ring, all, called, c) ==
    /\ \A i \in called : i \in 1 .. Len(all) /\ ring[all[i]].function \in Callbacks(c)
    /\ \A i, j \in called : i < j => Before(ring[all[i]].function, ring[all[j]].function)

\* The copy of the first i of them is t.
Copied(ring, all, called, to, c, r, t, i) ==
    /\ RingIs(r, t, Standing(<<>>)) /\ Named(r, t, c)
    /\ \A k \in called : k > i =>
         /\ to[k] \notin In(t)
         /\ \A j \in 1 .. Len(t) : Before(r[t[j]].function, ring[all[k]].function)

LEMMA NobodyStands == \A l \in Nodes : Standing(<<>>)[l] = 0
<1> SUFFICES ASSUME NEW l \in Nodes PROVE Standing(<<>>)[l] = 0
  OBVIOUS
<1>1. {i \in DOMAIN <<>> : <<>>[i].at = l} = {}
  OBVIOUS
<1>2. Standing(<<>>)[l] = Cardinality({i \in DOMAIN <<>> : <<>>[i].at = l})
  BY DEF Standing
<1> QED BY <1>1, <1>2, FS_EmptySet

LEMMA CopiedIs ==
  ASSUME NEW ring, NEW all, Len(all) \in Nat, NEW called, NEW c \in Nat, Calls(ring, all, called, c),
         NEW to \in Injection(called, Links),
         NEW f, f = [i \in 0 .. Len(all) |-> CopyOf(ring, all, called, to, f, i)]
  PROVE  \A i \in 0 .. Len(all) : \E t : Copied(ring, all, called, to, c, f[i], t, i)
<1> DEFINE Good(i) == \E t : Copied(ring, all, called, to, c, f[i], t, i)
           T == {i \in Nat : i <= Len(all) /\ ~ Good(i)}
<1> SUFFICES ASSUME T # {} PROVE FALSE
  OBVIOUS
<1>2. PICK i \in T : \A j \in T : i <= j
  <2>1. T \subseteq Nat
    OBVIOUS
  <2> HIDE DEF T
  <2> QED BY <2>1, LeastNatural
<1>3. i \in Nat /\ i <= Len(all) /\ ~ Good(i)
  OBVIOUS
<1>4. f[i] = CopyOf(ring, all, called, to, f, i)
  BY <1>3
<1>5. i # 0
  <2> SUFFICES ASSUME i = 0 PROVE FALSE
    OBVIOUS
  <2>1. f[0] = Ring(NoFunction)
    BY <1>4 DEF CopyOf
  <2>2. RingIs(Ring(NoFunction), <<>>, Standing(<<>>)) /\ Named(Ring(NoFunction), <<>>, c)
    BY NobodyStands, EmptyRing
  <2>3. Copied(ring, all, called, to, c, f[0], <<>>, 0)
    <3> PICK t : t = <<>>
      OBVIOUS
    <3>1. Len(t) = 0 /\ In(t) = {}
      BY DEF In
    <3> QED BY <2>1, <2>2, <3>1 DEF Copied
  <2> QED BY <1>3, <2>3
<1>6. i - 1 \in Nat /\ i - 1 <= Len(all) /\ i - 1 \notin T
  <2> HIDE DEF T
  <2>1. i - 1 \in Nat /\ i - 1 <= Len(all) /\ ~ (i <= i - 1)
    BY <1>3, <1>5
  <2> QED BY <1>2, <2>1
<1>7. PICK t : Copied(ring, all, called, to, c, f[i - 1], t, i - 1)
  BY <1>6
<1> PICK r : r = f[i - 1]
  OBVIOUS
<1>8. Copied(ring, all, called, to, c, r, t, i - 1)
  BY <1>7
<1>9. /\ RingIs(r, t, Standing(<<>>)) /\ Named(r, t, c)
      /\ \A k \in called : k > i - 1 =>
           /\ to[k] \notin In(t)
           /\ \A j \in 1 .. Len(t) : Before(r[t[j]].function, ring[all[k]].function)
  BY <1>8 DEF Copied
<1>10. /\ \A k \in called : k \in 1 .. Len(all) /\ ring[all[k]].function \in Callbacks(c)
       /\ \A j, k \in called : j < k => Before(ring[all[j]].function, ring[all[k]].function)
  BY DEF Calls
<1>11. \A k \in called : k > i => k > i - 1
  BY <1>3, <1>10
<1>12. CASE i \notin called
  <2>1. f[i] = r
    BY <1>4, <1>5, <1>12 DEF CopyOf
  <2>2. Copied(ring, all, called, to, c, r, t, i)
    BY <1>9, <1>11 DEF Copied
  <2> QED BY <1>3, <2>1, <2>2
<1>13. CASE i \in called
  <2> PICK new : new = to[i]
    OBVIOUS
  <2> PICK fn : fn = ring[all[i]].function
    OBVIOUS
  <2> PICK r1 : r1 = AddBefore(r, new, fn)
    OBVIOUS
  <2> PICK t1 : t1 = Append(t, new)
    OBVIOUS
  <2>1. f[i] = r1
    BY <1>4, <1>5, <1>13 DEF CopyOf
  <2>2. i > i - 1 /\ new \in Links /\ \A k \in called : k # i => to[k] # new
    BY <1>3, <1>13 DEF Injection, IsInjective
  <2>3. new \notin In(t) /\ \A j \in 1 .. Len(t) : Before(r[t[j]].function, fn)
    BY <1>9, <1>13, <2>2
  <2>4. fn \in Callbacks(c) /\ fn \in Nat
    BY <1>10, <1>13, CallbacksAreNumbers
  <2>5. r[new] = Deleted
    <3>1. new \in Nodes /\ Own(t, new) = 0
      BY <2>2, <2>3, SignalAssumption DEF Own, Nodes
    <3>2. r[new] # Deleted => r[new].ref_count = Standing(<<>>)[new] + Own(t, new) /\ r[new] \in LiveLinks
      BY <1>9, <3>1 DEF RingIs
    <3>3. r[new] # Deleted => r[new].ref_count = 0
      BY <3>1, <3>2, NobodyStands
    <3> QED BY <3>2, <3>3 DEF LiveLinks
  <2>6. RingIs(r1, t1, Standing(<<>>)) /\ Added(r, r1, t, new, fn)
    BY <1>9, <2>2, <2>4, <2>5, AddKeeps
  <2>7. /\ Named(r1, t1, c)
        /\ \A j \in 1 .. Len(t) : r1[t[j]].function = r[t[j]].function
    <3>1. Callbacks(c) \subseteq Callbacks(c)
      OBVIOUS
    <3>2. RingIs(r, t, Standing(<<>>)) /\ Named(r, t, c) /\ new \in Links
      BY <1>9, <2>2
    <3>3. \A j \in 1 .. Len(t) : Before(r[t[j]].function, fn)
      BY <2>3
    <3>4. Added(r, r1, t, new, fn)
      BY <2>6
    <3>5. Named(r1, Append(t, new), c)
      BY <2>4, <2>5, <3>1, <3>2, <3>3, <3>4, NamedAdd
    <3>6. ASSUME NEW j \in 1 .. Len(t) PROVE r1[t[j]].function = r[t[j]].function
      <4>1. t[j] \in Links /\ t[j] \in In(t)
        BY <3>2, RingFacts
      <4>2. t[j] \in Nodes /\ Own(t, t[j]) > 0
        BY <4>1, SignalAssumption DEF Nodes, Own
      <4>3. r[t[j]] # Deleted /\ t[j] # new
        BY <2>5, <3>2, <4>2, RingFacts
      <4> QED BY <3>4, <4>2, <4>3 DEF Added
    <3> QED BY <3>5, <3>6
  <2>8. /\ t \in Seq(Links) /\ Len(t) \in Nat /\ Len(t1) = Len(t) + 1 /\ t1[Len(t) + 1] = new
        /\ \A j \in 1 .. Len(t) : t1[j] = t[j]
    <3>1. t \in Seq(Links)
      BY <1>9, RingFacts
    <3> QED BY <2>2, <3>1
  <2>9. ASSUME NEW k \in called, k > i
        PROVE  /\ to[k] \notin In(t1)
               /\ \A j \in 1 .. Len(t1) : Before(r1[t1[j]].function, ring[all[k]].function)
    <3>1. k > i - 1 /\ k # i
      BY <1>3, <1>10, <2>9
    <3>2. \A j \in 1 .. Len(t1) : j \in 1 .. Len(t) \/ j = Len(t) + 1
      BY <2>8
    <3>3. to[k] \notin In(t) /\ to[k] # new
      BY <1>9, <2>2, <3>1
    <3>4. to[k] \notin In(t1)
      <4>1. \A j \in 1 .. Len(t1) : t1[j] # to[k]
        <5>1. \A j \in 1 .. Len(t) : t[j] # to[k]
          BY <3>3 DEF In
        <5> QED BY <2>8, <3>2, <3>3, <5>1
      <4> QED BY <4>1 DEF In
    <3>5. r1[new].function = fn
      BY <2>6 DEF Added
    <3>6. Before(fn, ring[all[k]].function)
      BY <1>10, <1>13, <2>9
    <3>7. \A j \in 1 .. Len(t) : Before(r[t[j]].function, ring[all[k]].function)
      BY <1>9, <3>1
    <3>8. ASSUME NEW j \in 1 .. Len(t1) PROVE Before(r1[t1[j]].function, ring[all[k]].function)
      <4>1. CASE j \in 1 .. Len(t)
        <5>1. t1[j] = t[j] /\ r1[t[j]].function = r[t[j]].function
          BY <2>7, <2>8, <4>1
        <5> QED BY <3>7, <4>1, <5>1
      <4>2. CASE j = Len(t) + 1
        BY <2>8, <3>5, <3>6, <4>2
      <4> QED BY <3>2, <4>1, <4>2
    <3> QED BY <3>4, <3>8
  <2>10. Copied(ring, all, called, to, c, r1, t1, i)
    BY <2>6, <2>7, <2>9 DEF Copied
  <2> QED BY <1>3, <2>1, <2>10
<1> QED BY <1>12, <1>13

\* While no link was cut off: no emission strayed, and the ring, the counts and the emissions
\* are as they should be.
EmissionsInv ==
    cut \/ /\ ~ strayed /\ connected \in 0 .. MaxConnections
           /\ \E s : SignalIs(link, s, emissions, connected)

LEMMA EmissionsInvSafe == EmissionsInv => EmissionsAreSafe
<1> SUFFICES ASSUME EmissionsInv, ~ cut PROVE EmissionsAreSafe
  BY DEF EmissionsAreSafe
<1>1. ~ strayed
  BY DEF EmissionsInv
<1> PICK s : SignalIs(link, s, emissions, connected)
  BY DEF EmissionsInv
<1> PICK ring : ring = link
  OBVIOUS
<1> PICK em : em = emissions
  OBVIOUS
<1> PICK c : c = connected
  OBVIOUS
<1> PICK n : n = Standing(em)
  OBVIOUS
<1>2. /\ c \in Nat /\ RingIs(ring, s, n) /\ Named(ring, s, c) /\ em \in Seq(EmissionsOf(c))
      /\ \A i \in 1 .. Len(em) : Safe(ring, s, em[i], c)
  BY DEF SignalIs
<1>3. ToSet(Siblings(ring)) = In(s)
  BY <1>2, SiblingSet
<1>4. LinksAreHeld
  <2>1. ASSUME NEW l \in Nodes
        PROVE  LET standing == Cardinality({i \in DOMAIN em : em[i].at = l})
                   own == IF l = RingHead THEN 2 ELSE IF l \in ToSet(Siblings(ring)) THEN 1 ELSE 0
               IN  IF ring[l] = Deleted THEN standing + own = 0 ELSE ring[l].ref_count = standing + own
    <3>1. n[l] = Cardinality({i \in DOMAIN em : em[i].at = l})
      BY DEF Standing
    <3>2. Own(s, l) = IF l = RingHead THEN 2 ELSE IF l \in ToSet(Siblings(ring)) THEN 1 ELSE 0
      BY <1>3 DEF Own
    <3>3. /\ ring[l] = Deleted => n[l] = 0 /\ Own(s, l) = 0
          /\ ring[l] # Deleted => ring[l].ref_count = n[l] + Own(s, l)
      BY <1>2 DEF RingIs
    <3>4. IF ring[l] = Deleted THEN n[l] + Own(s, l) = 0 ELSE ring[l].ref_count = n[l] + Own(s, l)
      BY <3>3
    <3> QED BY <3>1, <3>2, <3>4
  <2> QED BY <2>1 DEF LinksAreHeld, Nodes
<1>5. ASSUME em # <<>>, NEW e, e = Last(em), Onward(ring, e.at).at = RingHead
      PROVE  e.due \cap Functions(ring) \subseteq ToSet(e.calls)
  <2> PICK outer : outer = Front(em)
    OBVIOUS
  <2>1. /\ Safe(ring, s, e, c)
        /\ outer \in Seq(EmissionsOf(c)) /\ \A i \in 1 .. Len(outer) : Safe(ring, s, outer[i], c)
        /\ \A l \in Nodes : n[l] = Standing(outer)[l] + IF e.at = l THEN 1 ELSE 0
    BY <1>5, Innermost
  <2>2. PICK x : x = Onward(ring, e.at)
    OBVIOUS
  <2>3. x.at = ring[e.at].next
    <3>1. WentOn(ring, s, c, e, outer, x)
      BY <1>2, <2>1, <2>2, WalkGoesOn
    <3> QED BY <3>1 DEF WentOn
  <2>4. ring[e.at].next = RingHead
    BY <1>5, <2>2, <2>3
  <2>5. PICK p \in 0 .. Len(s) : Called(ring, s, e, p)
    BY <2>1 DEF Safe
  <2>6. p = Len(s)
    BY <1>2, <2>1, <2>4, <2>5, NextIsThere
  <2>7. \A i \in 1 .. Len(s) : ring[s[i]].function \in e.due => ring[s[i]].function \in ToSet(e.calls)
    BY <2>5, <2>6 DEF Called
  <2>8. ring[RingHead].function \in e.due => ring[RingHead].function \in ToSet(e.calls)
    BY <2>1 DEF Safe
  <2> QED BY <1>3, <2>7, <2>8 DEF Functions, In
<1>6. ASSUME NEW i \in DOMAIN em PROVE InOrder(em[i].calls)
  <2>1. i \in 1 .. Len(em)
    BY <1>2
  <2> QED BY <1>2, <2>1 DEF Safe
<1>7. ASSUME NEW i \in DOMAIN em, i = Len(em), Onward(ring, em[i].at).at = RingHead
      PROVE  em[i].due \cap Functions(ring) \subseteq ToSet(em[i].calls)
  <2>1. i \in 1 .. Len(em) /\ em # <<>>
    BY <1>2, <1>7
  <2>2. Last(em) = em[i]
    BY <1>7 DEF Last
  <2> QED BY <1>5, <1>7, <2>1, <2>2
<1> QED BY <1>1, <1>4, <1>6, <1>7 DEF EmissionsAreSafe

-----------------------------------------------------------------------------
(* Every call.                                                              *)

LEMMA SignalIsInv ==
  ASSUME ~ strayed', NEW s, NEW ring, ring = link', NEW em, em = emissions',
         NEW c, c = connected', c <= MaxConnections, SignalIs(ring, s, em, c)
  PROVE  EmissionsInv'
<1>1. c \in 0 .. MaxConnections
  BY SignalAssumption DEF SignalIs
<1> QED BY <1>1 DEF EmissionsInv

LEMMA EmissionsInvInit == InitSignal => EmissionsInv
<1> SUFFICES ASSUME InitSignal PROVE EmissionsInv
  OBVIOUS
<1>1. PICK f \in {NoFunction, DefaultCallback} : link = Ring(f)
  BY DEF InitSignal
<1>2. emissions = <<>> /\ ~ strayed /\ connected = 0
  BY DEF InitSignal
<1>3. RingIs(Ring(f), <<>>, Standing(<<>>)) /\ Named(Ring(f), <<>>, 0)
  BY NobodyStands, EmptyRing
<1> PICK em : em = <<>>
  OBVIOUS
<1>4. em \in Seq(EmissionsOf(0)) /\ Len(em) = 0
  OBVIOUS
<1>5. SignalIs(Ring(f), <<>>, em, 0)
  BY <1>3, <1>4 DEF SignalIs
<1> QED BY <1>1, <1>2, <1>5, SignalAssumption DEF EmissionsInv

LEMMA ConnectKeeps ==
  ASSUME EmissionsInv, ~ strayed, NEW new \in Links, Connect(new) PROVE EmissionsInv'
<1>1. CASE cut
  BY <1>1 DEF Connect, EmissionsInv
<1>2. CASE ~ cut
  <2>1. PICK s : SignalIs(link, s, emissions, connected)
    BY <1>2 DEF EmissionsInv
  <2>2. PICK ring, em, c : ring = link /\ em = emissions /\ c = connected
    OBVIOUS
  <2>3. PICK r : r = AddBefore(ring, new, c + 1)
    OBVIOUS
  <2>4. /\ c < MaxConnections /\ ring[new] = Deleted
        /\ link' = AddBefore(link, new, connected') /\ emissions' = em /\ connected' = c + 1
        /\ ~ strayed'
    BY <2>2 DEF Connect
  <2>5. link' = r
    BY <2>2, <2>3, <2>4
  <2>6. PICK t : SignalIs(r, t, em, c + 1)
    BY <2>1, <2>2, <2>3, <2>4, ConnectedIs
  <2>7. c + 1 <= MaxConnections
    BY <2>1, <2>2, <2>4, SignalAssumption DEF SignalIs
  <2> QED BY <2>4, <2>5, <2>6, <2>7, SignalIsInv
<1> QED BY <1>1, <1>2

LEMMA DisconnectKeeps ==
  ASSUME EmissionsInv, ~ strayed, NEW l \in Links, Disconnect(l) PROVE EmissionsInv'
<1>1. CASE cut
  BY <1>1 DEF Disconnect, Removed, EmissionsInv
<1>2. CASE ~ cut
  <2>1. PICK s : SignalIs(link, s, emissions, connected)
    BY <1>2 DEF EmissionsInv
  <2>2. PICK ring, em, c : ring = link /\ em = emissions /\ c = connected
    OBVIOUS
  <2>3. c <= MaxConnections
    BY <1>2, <2>2 DEF EmissionsInv
  <2>4. SignalIs(ring, s, em, c)
    BY <2>1, <2>2
  <2>5. ToSet(Siblings(ring)) = In(s)
    BY <2>4, SiblingSet DEF SignalIs
  <2>6. l \in In(s)
    BY <2>2, <2>5 DEF Disconnect
  <2>7. PICK k \in 1 .. Len(s) : l = s[k]
    BY <2>6 DEF In
  <2>8. PICK r : r = Unlink(ring, s[k])
    OBVIOUS
  <2>9. /\ link' = r /\ emissions' = em /\ connected' = c /\ ~ strayed'
        /\ ~ cut' => \A stale \in Stale(ring) : ring[stale].next # s[k]
    BY <2>2, <2>7, <2>8 DEF Disconnect, Removed, RemoveSibling
  <2>10. CASE cut'
    BY <2>10 DEF EmissionsInv
  <2>11. CASE ~ cut'
    <3>1. SignalIs(r, Without(s, k), em, c)
      BY <2>4, <2>8, <2>9, <2>11, RemovedIs
    <3> QED BY <2>3, <2>9, <3>1, SignalIsInv
  <2> QED BY <2>10, <2>11
<1> QED BY <1>1, <1>2

LEMMA ClearKeeps ==
  ASSUME EmissionsInv, ~ strayed, Clear PROVE EmissionsInv'
<1>1. CASE cut
  BY <1>1 DEF Clear, Removed, EmissionsInv
<1>2. CASE ~ cut
  <2>1. PICK s : SignalIs(link, s, emissions, connected)
    BY <1>2 DEF EmissionsInv
  <2>2. PICK ring, em, c : ring = link /\ em = emissions /\ c = connected
    OBVIOUS
  <2>3. c <= MaxConnections
    BY <1>2, <2>2 DEF EmissionsInv
  <2>4. SignalIs(ring, s, em, c)
    BY <2>1, <2>2
  <2>5. Siblings(ring) = s /\ Len(s) \in Nat
    <3>1. RingIs(ring, s, Standing(em))
      BY <2>4 DEF SignalIs
    <3> QED BY <3>1, SiblingsAre, RingFacts
  <2> DEFINE f == CHOOSE g : g = [i \in 0 .. Len(s) |-> ClearOf(ring, FALSE, s, g, i)]
  <2>6. f = [i \in 0 .. Len(s) |-> ClearOf(ring, FALSE, s, f, i)]
    BY <2>5, ClearIs
  <2>7. link' = f[Len(s)].ring /\ cut' = (cut \/ f[Len(s)].cut)
        /\ emissions' = em /\ connected' = c /\ ~ strayed'
    <3>1. Siblings(link) = s
      BY <2>2, <2>5
    <3> QED BY <2>2, <3>1 DEF Clear, Removed, ClearOf
  <2> HIDE DEF f
  <2>8. Len(s) \in 0 .. Len(s)
    BY <2>5
  <2>9. PICK last : last = f[Len(s)]
    OBVIOUS
  <2>10. last.cut \/ SignalIs(last.ring, Rest(s, Len(s)), em, c)
    BY <2>4, <2>6, <2>8, <2>9, ClearedIs
  <2>11. CASE cut'
    BY <2>11 DEF EmissionsInv
  <2>12. CASE ~ cut'
    <3>1. SignalIs(last.ring, Rest(s, Len(s)), em, c)
      BY <2>7, <2>9, <2>10, <2>12
    <3>2. last.ring = link'
      BY <2>7, <2>9
    <3> QED BY <2>3, <2>7, <3>1, <3>2, SignalIsInv
  <2> QED BY <2>11, <2>12
<1> QED BY <1>1, <1>2

LEMMA CopyKeeps ==
  ASSUME EmissionsInv, ~ strayed, Copy PROVE EmissionsInv'
<1>1. CASE cut
  BY <1>1 DEF Copy, EmissionsInv
<1>2. CASE ~ cut
  <2>1. PICK s : SignalIs(link, s, emissions, connected)
    BY <1>2 DEF EmissionsInv
  <2>2. PICK c : c = connected
    OBVIOUS
  <2>3. c <= MaxConnections
    BY <1>2, <2>2 DEF EmissionsInv
  <2>4. SignalIs(link, s, <<>>, c)
    BY <2>1, <2>2 DEF Copy
  <2>5. RingIs(link, s, Standing(<<>>)) /\ Named(link, s, c) /\ c \in Nat
    BY <2>4 DEF SignalIs
  <2>6. Siblings(link) = s /\ s \in Seq(Links) /\ Len(s) \in Nat
    BY <2>5, SiblingsAre, RingFacts
  <2> DEFINE all == <<RingHead>> \o Siblings(link)
             called == {i \in DOMAIN all : link[all[i]].function # NoFunction}
  <2>7. /\ DOMAIN all = 1 .. Len(s) + 1 /\ Len(all) = Len(s) + 1 /\ all[1] = RingHead
        /\ \A i \in 1 .. Len(s) : all[i + 1] = s[i]
    BY <2>6
  <2>8. PICK to \in Injection(called, Links) :
          LET copied[i \in 0 .. Len(all)] ==
                  IF i = 0 THEN Ring(NoFunction)
                  ELSE IF i \in called THEN AddBefore(copied[i - 1], to[i], link[all[i]].function)
                  ELSE copied[i - 1]
          IN  link' = copied[Len(all)]
    BY DEF Copy
  <2>9. /\ emissions' = <<>> /\ connected' = c /\ ~ strayed'
    BY <2>2 DEF Copy
  <2>10. Calls(link, all, called, c)
    <3>1. ASSUME NEW i \in called
          PROVE  /\ i \in 1 .. Len(all) /\ link[all[i]].function \in Callbacks(c)
                 /\ i = 1 => link[all[i]].function = DefaultCallback
                 /\ i # 1 => i - 1 \in 1 .. Len(s) /\ all[i] = s[i - 1]
      <4>1. i \in 1 .. Len(s) + 1 /\ link[all[i]].function # NoFunction
        BY <2>7
      <4>2. CASE i = 1
        <5>1. link[all[i]].function = DefaultCallback
          BY <2>5, <2>7, <4>1, <4>2 DEF Named
        <5> QED BY <2>7, <4>1, <4>2, <5>1 DEF Callbacks
      <4>3. CASE i # 1
        <5>1. i - 1 \in 1 .. Len(s) /\ i - 1 + 1 = i
          BY <2>6, <4>1, <4>3
        <5>2. all[i] = s[i - 1]
          BY <2>7, <5>1
        <5> HIDE DEF all, called
        <5> QED BY <2>5, <2>7, <4>1, <4>3, <5>1, <5>2 DEF Named
      <4> QED BY <4>2, <4>3
    <3> HIDE DEF all, called
    <3>2. ASSUME NEW i \in called, NEW j \in called, i < j
          PROVE  Before(link[all[i]].function, link[all[j]].function)
      <4>1. CASE i = 1
        BY <3>1, <4>1 DEF Before
      <4>2. CASE i # 1
        <5>1. i \in 1 .. Len(all) /\ j \in 1 .. Len(all) /\ j # 1
          BY <2>6, <2>7, <3>1, <3>2
        <5>2. /\ i - 1 \in 1 .. Len(s) /\ all[i] = s[i - 1]
              /\ j - 1 \in 1 .. Len(s) /\ all[j] = s[j - 1]
          BY <3>1, <4>2, <5>1
        <5>3. i - 1 < j - 1
          BY <2>6, <2>7, <3>2, <5>1
        <5> QED BY <2>5, <5>2, <5>3 DEF Named
      <4> QED BY <4>1, <4>2
    <3> QED BY <3>1, <3>2 DEF Calls
  <2> DEFINE f == CHOOSE g : g = [i \in 0 .. Len(all) |-> CopyOf(link, all, called, to, g, i)]
  <2> HIDE DEF all, called
  <2>11. Len(all) \in Nat
    BY <2>6, <2>7
  <2>12. f = [i \in 0 .. Len(all) |-> CopyOf(link, all, called, to, f, i)]
    BY <2>11, CopyIs
  <2>13. link' = f[Len(all)]
    BY <2>8 DEF CopyOf
  <2> HIDE DEF f
  <2>14. Len(all) \in 0 .. Len(all)
    BY <2>11
  <2>15. PICK last : last = f[Len(all)]
    OBVIOUS
  <2>16. PICK t : Copied(link, all, called, to, c, f[Len(all)], t, Len(all))
    BY <2>5, <2>10, <2>11, <2>12, <2>14, CopiedIs
  <2>17. RingIs(last, t, Standing(<<>>)) /\ Named(last, t, c)
    BY <2>15, <2>16 DEF Copied
  <2>18. PICK em : em = <<>>
    OBVIOUS
  <2>19. em \in Seq(EmissionsOf(c)) /\ Len(em) = 0
    BY <2>18
  <2>20. SignalIs(last, t, em, c)
    BY <2>5, <2>17, <2>18, <2>19 DEF SignalIs
  <2>21. last = link' /\ em = emissions'
    BY <2>9, <2>13, <2>15, <2>18
  <2> QED BY <2>3, <2>9, <2>20, <2>21, SignalIsInv
<1> QED BY <1>1, <1>2

\* Wherever an emission comes to.
LEMMA ArriveKeeps ==
  ASSUME NEW ring, NEW s, NEW e, NEW c, c <= MaxConnections, NEW outer, NEW x,
         WentOn(ring, s, c, e, outer, x), connected = c,
         Arrive(x, outer, e.calls, e.due)
  PROVE  EmissionsInv'
<1>1. x.ring[x.at] # Deleted
  BY DEF WentOn
<1>2. ~ strayed' /\ connected' = c
  BY <1>1 DEF Arrive
<1>3. CASE x.at = RingHead
  <2>1. PICK r : r = Decref(x.ring, RingHead)
    OBVIOUS
  <2>2. SignalIs(r, s, outer, c)
    BY <1>3, <2>1 DEF WentOn
  <2>3. r = link' /\ outer = emissions'
    BY <1>1, <1>3, <2>1 DEF Arrive
  <2> QED BY <1>2, <2>2, <2>3, SignalIsInv
<1>4. CASE x.at # RingHead
  <2>1. PICK r, em : r = x.ring
                     /\ em = Append(outer, [at |-> x.at, due |-> e.due,
                                            calls |-> Append(e.calls, x.ring[x.at].function)])
    OBVIOUS
  <2>2. SignalIs(r, s, em, c)
    BY <1>4, <2>1 DEF WentOn
  <2>3. r = link' /\ em = emissions'
    BY <1>1, <1>4, <2>1 DEF Arrive
  <2> QED BY <1>2, <2>2, <2>3, SignalIsInv
<1> QED BY <1>3, <1>4

LEMMA GoOnKeeps ==
  ASSUME EmissionsInv, ~ strayed, GoOn PROVE EmissionsInv'
<1>1. CASE cut
  BY <1>1 DEF GoOn, Arrive, EmissionsInv
<1>2. CASE ~ cut
  <2>1. PICK s : SignalIs(link, s, emissions, connected)
    BY <1>2 DEF EmissionsInv
  <2>2. PICK ring, em, c : ring = link /\ em = emissions /\ c = connected
    OBVIOUS
  <2>3. c <= MaxConnections
    BY <1>2, <2>2 DEF EmissionsInv
  <2>4. SignalIs(ring, s, em, c) /\ em # <<>>
    BY <2>1, <2>2 DEF GoOn
  <2>5. PICK e, outer : e = Last(em) /\ outer = Front(em)
    OBVIOUS
  <2>6. PICK x : x = Onward(ring, e.at)
    OBVIOUS
  <2>7. PICK n : n = Standing(em)
    OBVIOUS
  <2>8. /\ Safe(ring, s, e, c)
        /\ outer \in Seq(EmissionsOf(c)) /\ \A i \in 1 .. Len(outer) : Safe(ring, s, outer[i], c)
        /\ \A l \in Nodes : n[l] = Standing(outer)[l] + IF e.at = l THEN 1 ELSE 0
    BY <2>4, <2>5, <2>7, Innermost
  <2>9. RingIs(ring, s, n) /\ Named(ring, s, c) /\ c \in Nat
    BY <2>4, <2>7 DEF SignalIs
  <2>10. WentOn(ring, s, c, e, outer, x)
    BY <2>6, <2>8, <2>9, WalkGoesOn
  <2>11. Arrive(x, outer, e.calls, e.due)
    BY <2>2, <2>5, <2>6 DEF GoOn
  <2> QED BY <2>2, <2>3, <2>10, <2>11, ArriveKeeps
<1> QED BY <1>1, <1>2

LEMMA StopKeeps ==
  ASSUME EmissionsInv, ~ strayed, Stop PROVE EmissionsInv'
<1>1. CASE cut
  BY <1>1 DEF Stop, EmissionsInv
<1>2. CASE ~ cut
  <2>1. PICK s : SignalIs(link, s, emissions, connected)
    BY <1>2 DEF EmissionsInv
  <2>2. PICK ring, em, c : ring = link /\ em = emissions /\ c = connected
    OBVIOUS
  <2>3. c <= MaxConnections
    BY <1>2, <2>2 DEF EmissionsInv
  <2>4. SignalIs(ring, s, em, c) /\ em # <<>>
    BY <2>1, <2>2 DEF Stop
  <2>5. PICK e, outer : e = Last(em) /\ outer = Front(em)
    OBVIOUS
  <2>6. PICK r : r = Decref(ring, e.at)
    OBVIOUS
  <2>7. PICK n, m : n = Standing(em) /\ m = Standing(outer)
    OBVIOUS
  <2>8. /\ Safe(ring, s, e, c) /\ e.at \in Nodes
        /\ outer \in Seq(EmissionsOf(c)) /\ \A i \in 1 .. Len(outer) : Safe(ring, s, outer[i], c)
        /\ \A l \in Nodes : n[l] = m[l] + IF e.at = l THEN 1 ELSE 0
        /\ n[e.at] > 0
    BY <2>4, <2>5, <2>7, Innermost
  <2>9. RingIs(ring, s, n) /\ Named(ring, s, c) /\ c \in Nat
    BY <2>4, <2>7 DEF SignalIs
  <2>10. m[e.at] = n[e.at] - 1 /\ \A k \in Nodes : k # e.at => m[k] = n[k]
    <3>1. \A l \in Nodes : m[l] \in Nat
      BY <2>7, <2>8, StandingIs
    <3> QED BY <2>8, <3>1
  <2>11. RingIs(r, s, m) /\ Same(ring, r)
    BY <2>6, <2>8, <2>9, <2>10, DecrefKeeps
  <2>12. \A l \in Nodes : m[l] = Standing(outer)[l]
    BY <2>7
  <2>13. SignalIs(r, s, outer, c)
    BY <2>8, <2>9, <2>11, <2>12, SignalIsAfter
  <2>14. r = link' /\ outer = emissions' /\ c = connected' /\ ~ strayed'
    BY <2>2, <2>5, <2>6 DEF Stop
  <2> QED BY <2>3, <2>13, <2>14, SignalIsInv
<1> QED BY <1>1, <1>2

\* The callbacks that are due.
LEMMA FunctionsAre ==
  ASSUME NEW ring, NEW s, NEW n, RingIs(ring, s, n), NEW c \in Nat, Named(ring, s, c)
  PROVE  /\ Functions(ring) \subseteq Callbacks(c)
         /\ ring[RingHead].function = NoFunction => ring[RingHead].function \notin Functions(ring)
<1>1. ToSet(Siblings(ring)) = In(s)
  BY SiblingSet
<1>2. \A l \in In(s) : ring[l].function \in Callbacks(c)
  BY DEF In, Named
<1>3. ring[RingHead].function \in {NoFunction} \cup Callbacks(c)
  BY DEF Named, Callbacks
<1> QED BY <1>1, <1>2, <1>3 DEF Functions

LEMMA EmitKeeps ==
  ASSUME EmissionsInv, ~ strayed, Emit PROVE EmissionsInv'
<1>1. CASE cut
  BY <1>1 DEF Emit, Arrive, EmissionsInv
<1>2. CASE ~ cut
  <2>1. PICK s : SignalIs(link, s, emissions, connected)
    BY <1>2 DEF EmissionsInv
  <2>2. PICK ring, em, c : ring = link /\ em = emissions /\ c = connected
    OBVIOUS
  <2>3. c <= MaxConnections
    BY <1>2, <2>2 DEF EmissionsInv
  <2>4. SignalIs(ring, s, em, c)
    BY <2>1, <2>2
  <2>5. PICK n : n = Standing(em)
    OBVIOUS
  <2>6. /\ RingIs(ring, s, n) /\ Named(ring, s, c) /\ c \in Nat
        /\ em \in Seq(EmissionsOf(c)) /\ \A i \in 1 .. Len(em) : Safe(ring, s, em[i], c)
    BY <2>4, <2>5 DEF SignalIs
  <2>7. PICK held : held = Incref(ring, RingHead)
    OBVIOUS
  <2>8. PICK m : m = [l \in Nodes |-> n[l] + IF RingHead = l THEN 1 ELSE 0]
    OBVIOUS
  <2>9. RingHead \in Nodes /\ ring[RingHead] # Deleted
    <3>1. RingHead \in Nodes /\ Own(s, RingHead) > 0
      BY DEF Nodes, Own
    <3> QED BY <2>6, <3>1, RingFacts
  <2>10. \A l \in Nodes : n[l] \in Nat
    BY <2>6 DEF RingIs
  <2>11. m[RingHead] = n[RingHead] + 1 /\ \A k \in Nodes : k # RingHead => m[k] = n[k]
    BY <2>8, <2>9, <2>10
  <2>12. RingIs(held, s, m) /\ Same(ring, held) /\ held[RingHead] # Deleted
    BY <2>6, <2>7, <2>9, <2>11, IncrefKeeps
  <2>13. held[RingHead].function = ring[RingHead].function
    BY <2>9, <2>12 DEF Same
  <2>14. Named(held, s, c)
    BY <2>6, <2>12, NamedStays
  <2>15. \A i \in 1 .. Len(em) : Safe(held, s, em[i], c)
    <3> SUFFICES ASSUME NEW i \in 1 .. Len(em) PROVE Safe(held, s, em[i], c)
      OBVIOUS
    <3>1. PICK e : e = em[i]
      OBVIOUS
    <3>2. Safe(ring, s, e, c)
      BY <2>6, <3>1
    <3>3. e.at \in Nodes
      BY <3>2 DEF Safe, EmissionsOf
    <3>4. n[e.at] > 0
      BY <2>5, <2>6, <3>1, <3>3, StandingIs
    <3>5. m[e.at] > 0
      BY <2>10, <2>11, <3>3, <3>4
    <3>6. Safe(held, s, e, c)
      BY <2>6, <2>12, <3>2, <3>5, SafeStays
    <3> QED BY <3>1, <3>6
  <2>16. /\ Functions(ring) \subseteq Callbacks(c)
         /\ ring[RingHead].function = NoFunction => ring[RingHead].function \notin Functions(ring)
    BY <2>6, FunctionsAre
  <2>17. At(s, 1) = held[RingHead].next /\ Len(s) \in Nat
    <3>1. 0 \in 0 .. Len(s) /\ At(s, 0) = RingHead /\ Len(s) \in Nat
      <4>1. Len(s) \in Nat
        BY <2>6, RingFacts
      <4> QED BY <4>1 DEF At
    <3>2. held[At(s, 0)].next = At(s, 0 + 1)
      BY <2>12, <3>1 DEF RingIs
    <3> QED BY <3>1, <3>2
  <2>18. CASE ring[RingHead].function # NoFunction
    <3>1. PICK fn : fn = ring[RingHead].function
      OBVIOUS
    <3>2. PICK calls : calls = <<fn>>
      OBVIOUS
    <3>3. PICK e : e = [at |-> RingHead, due |-> Functions(ring), calls |-> calls]
      OBVIOUS
    <3>4. fn = DefaultCallback /\ fn \in Callbacks(c)
      BY <2>6, <2>18, <3>1 DEF Named, Callbacks
    <3>5. /\ calls \in Seq(Callbacks(c)) /\ DOMAIN calls = {1} /\ calls[1] = fn
          /\ ToSet(calls) = {fn}
      BY <3>2, <3>4 DEF ToSet
    <3>6. InOrder(calls)
      BY <3>5 DEF InOrder
    <3>7. e \in EmissionsOf(c) /\ e.at = RingHead /\ e.calls = calls
      BY <2>9, <2>16, <3>3, <3>5 DEF EmissionsOf
    <3>8. Called(held, s, e, 0)
      <4>1. 0 + 1 = 1 /\ 1 .. 0 = {}
        OBVIOUS
      <4>2. held[e.at].next = At(s, 0 + 1)
        BY <2>17, <3>7, <4>1
      <4>3. \A i \in 0 + 1 .. Len(s) : \A y \in ToSet(e.calls) : Before(y, held[s[i]].function)
        BY <3>4, <3>5, <3>7 DEF Before
      <4> QED BY <4>1, <4>2, <4>3 DEF Called
    <3>9. Safe(held, s, e, c)
      BY <2>13, <2>17, <3>1, <3>5, <3>6, <3>7, <3>8 DEF Safe
    <3>10. PICK more : more = Append(em, e)
      OBVIOUS
    <3>11. /\ more \in Seq(EmissionsOf(c)) /\ Len(more) = Len(em) + 1 /\ more[Len(em) + 1] = e
           /\ Len(em) \in Nat /\ \A i \in 1 .. Len(em) : more[i] = em[i]
      BY <2>6, <3>7, <3>10
    <3>12. ASSUME NEW i \in 1 .. Len(more) PROVE Safe(held, s, more[i], c)
      <4>1. i \in 1 .. Len(em) \/ i = Len(em) + 1
        BY <3>11
      <4> QED BY <2>15, <3>9, <3>11, <4>1
    <3>13. \A l \in Nodes : m[l] = Standing(more)[l]
      <4>1. \A l \in Nodes : Standing(Append(em, e))[l] = Standing(em)[l] + IF e.at = l THEN 1 ELSE 0
        BY <2>6, StandingAppend
      <4> QED BY <2>5, <2>8, <3>7, <3>10, <4>1
    <3>14. Same(held, held)
      BY DEF Same
    <3>15. SignalIs(held, s, more, c)
      BY <2>6, <2>12, <2>14, <3>11, <3>12, <3>13, <3>14, SignalIsAfter
    <3>16. held = link' /\ more = emissions' /\ c = connected' /\ ~ strayed'
      BY <2>2, <2>7, <2>18, <3>1, <3>2, <3>3, <3>10 DEF Emit
    <3> QED BY <2>3, <3>15, <3>16, SignalIsInv
  <2>19. CASE ring[RingHead].function = NoFunction
    <3>1. PICK calls : calls = <<>>
      OBVIOUS
    <3>2. PICK e : e = [at |-> RingHead, due |-> Functions(ring), calls |-> calls]
      OBVIOUS
    <3>3. calls \in Seq(Callbacks(c)) /\ DOMAIN calls = {} /\ ToSet(calls) = {}
      BY <3>1 DEF ToSet
    <3>4. InOrder(calls)
      BY <3>3 DEF InOrder
    <3>5. e \in EmissionsOf(c) /\ e.at = RingHead /\ e.calls = calls /\ e.due = Functions(ring)
      BY <2>9, <2>16, <3>2, <3>3 DEF EmissionsOf
    <3>6. Called(held, s, e, 0)
      <4>1. 0 + 1 = 1 /\ 1 .. 0 = {}
        OBVIOUS
      <4>2. held[e.at].next = At(s, 0 + 1)
        BY <2>17, <3>5, <4>1
      <4>3. \A i \in 0 + 1 .. Len(s) : \A y \in ToSet(e.calls) : Before(y, held[s[i]].function)
        BY <3>3, <3>5
      <4> QED BY <4>1, <4>2, <4>3 DEF Called
    <3>7. Safe(held, s, e, c)
      BY <2>13, <2>16, <2>17, <2>19, <3>4, <3>5, <3>6 DEF Safe
    <3>8. PICK x : x = Onward(held, e.at)
      OBVIOUS
    <3>9. \A l \in Nodes : m[l] = Standing(em)[l] + IF e.at = l THEN 1 ELSE 0
      BY <2>5, <2>8, <3>5
    <3>10. WentOn(held, s, c, e, em, x)
      BY <2>6, <2>12, <2>14, <2>15, <3>7, <3>8, <3>9, WalkGoesOn
    <3>11. x = Onward(held, RingHead)
      BY <3>5, <3>8
    <3>12. Arrive(x, em, e.calls, e.due)
      BY <2>2, <2>7, <2>19, <3>1, <3>5, <3>11 DEF Emit
    <3> QED BY <2>2, <2>3, <3>10, <3>12, ArriveKeeps
  <2> QED BY <2>18, <2>19
<1> QED BY <1>1, <1>2

\* While signals emit within their own callbacks, which connect, disconnect, clear, copy and
\* stop, and until one of them removes a link that follows a removed link at which an emission
\* stands (itself and the next one, or all): no emission comes to a deleted link, what a link
\* counts is what holds it, and every callback that is due and stays is called, once and in
\* order.  After such a removal nothing is claimed, and RemovalIsSafe does not hold.
THEOREM EmissionsHold == SignalSpec => []EmissionsAreSafe
<1>1. ASSUME EmissionsInv, [NextSignal]_signalVars PROVE EmissionsInv'
  <2>1. CASE NextSignal
    <3>1. ~ strayed
      BY <2>1 DEF NextSignal
    <3>2. ASSUME NEW l \in Links, Connect(l) PROVE EmissionsInv'
      BY <1>1, <3>1, <3>2, ConnectKeeps
    <3>3. ASSUME NEW l \in Links, Disconnect(l) PROVE EmissionsInv'
      BY <1>1, <3>1, <3>3, DisconnectKeeps
    <3>4. CASE Clear
      BY <1>1, <3>1, <3>4, ClearKeeps
    <3>5. CASE Copy
      BY <1>1, <3>1, <3>5, CopyKeeps
    <3>6. CASE Emit
      BY <1>1, <3>1, <3>6, EmitKeeps
    <3>7. CASE GoOn
      BY <1>1, <3>1, <3>7, GoOnKeeps
    <3>8. CASE Stop
      BY <1>1, <3>1, <3>8, StopKeeps
    <3> QED BY <2>1, <3>2, <3>3, <3>4, <3>5, <3>6, <3>7, <3>8 DEF NextSignal
  <2>2. CASE UNCHANGED signalVars
    BY <1>1, <2>2 DEF signalVars, EmissionsInv
  <2> QED BY <1>1, <2>1, <2>2
<1> QED BY <1>1, EmissionsInvInit, EmissionsInvSafe, PTL DEF SignalSpec

-----------------------------------------------------------------------------
(* The circular allocator: places in a ring of words.                      *)

\* The i-th round of a ring of b words, and the place in it.
LEMMA RoundAndPlace ==
  ASSUME NEW x \in Nat, NEW b \in Nat, b > 0
  PROVE  /\ x \div b \in Nat /\ (x % b) \in 0 .. b - 1
         /\ x = b * (x \div b) + (x % b)
<1>1. (x % b) \in 0 .. b - 1
  OBVIOUS
<1>2. x = b * (x \div b) + (x % b) /\ x \div b \in Int
  <2>1. x \div b \in Int
    OBVIOUS
  <2>2. x = b * (x \div b) + (x % b)
    OBVIOUS
  <2> QED BY <2>1, <2>2
<1>3. x \div b >= 0
  <2>1. SUFFICES ASSUME x \div b < 0 PROVE FALSE
    BY <1>2
  <2>2. PICK d \in Nat : x \div b = 0 - 1 - d
    <3>1. 0 - 1 - (x \div b) \in Nat /\ x \div b = 0 - 1 - (0 - 1 - (x \div b))
      BY <1>2, <2>1
    <3> QED BY <3>1
  <2>3. b * (x \div b) = 0 - b - b * d /\ b * d \in Nat
    BY <2>2
  <2> QED BY <1>1, <1>2, <2>3
<1> QED BY <1>1, <1>2, <1>3

LEMMA PlaceIs ==
  ASSUME NEW q \in Nat, NEW b \in Nat, NEW r \in 0 .. b - 1
  PROVE  (b * q + r) % b = r
<1> DEFINE x == b * q + r
           p == x \div b
           m == (x % b)
<1>1. b * q \in Nat /\ x \in Nat
  OBVIOUS
<1>2. p \in Nat /\ m \in 0 .. b - 1 /\ x = b * p + m
  BY <1>1, RoundAndPlace
<1> HIDE DEF p, m
<1>3. b * q + r = b * p + m
  BY <1>2
<1>4. CASE p = q
  <2>1. b * p = b * q /\ b * p \in Nat
    BY <1>2, <1>4
  <2> QED BY <1>1, <1>2, <1>3, <2>1 DEF m
<1>5. CASE p < q
  <2>1. PICK d \in Nat : q = p + 1 + d
    <3>1. q - p - 1 \in Nat /\ q = p + 1 + (q - p - 1)
      BY <1>2, <1>5
    <3> QED BY <3>1
  <2>2. b * q = b * p + b + b * d
    BY <1>2, <2>1
  <2>3. b * d \in Nat /\ b * p \in Nat
    BY <1>2
  <2> QED BY <1>1, <1>2, <1>3, <2>2, <2>3
<1>6. CASE q < p
  <2>1. PICK d \in Nat : p = q + 1 + d
    <3>1. p - q - 1 \in Nat /\ p = q + 1 + (p - q - 1)
      BY <1>2, <1>6
    <3> QED BY <3>1
  <2>2. b * p = b * q + b + b * d
    BY <1>2, <2>1
  <2>3. b * d \in Nat /\ b * p \in Nat
    BY <1>2
  <2> QED BY <1>1, <1>2, <1>3, <2>2, <2>3
<1> QED BY <1>2, <1>4, <1>5, <1>6

\* Two places not a round apart are apart, and the one that comes back is before.
LEMMA PlacesApart ==
  ASSUME NEW b \in Nat, b > 0, NEW p \in Nat, NEW q \in Nat, p < q, q < p + b
  PROVE  \/ (q % b) - (p % b) = q - p
         \/ (q % b) - (p % b) = q - p - b
<1> DEFINE pm == (p % b)
           pq == p \div b
           qm == (q % b)
           qq == q \div b
<1>1. pq \in Nat /\ pm \in 0 .. b - 1 /\ p = b * pq + pm
  BY RoundAndPlace
<1>2. qq \in Nat /\ qm \in 0 .. b - 1 /\ q = b * qq + qm
  BY RoundAndPlace
<1>0. pm = (p % b) /\ qm = (q % b)
  OBVIOUS
<1> HIDE DEF pm, pq, qm, qq
<1>3. b * pq \in Nat /\ b * qq \in Nat
  BY <1>1, <1>2
<1>4. CASE qq = pq
  BY <1>0, <1>1, <1>2, <1>3, <1>4
<1>5. CASE qq = pq + 1
  <2>1. b * qq = b * pq + b
    BY <1>1, <1>5
  <2>2. q = b * pq + b + qm
    BY <1>2, <2>1
  <2>3. q - p - b = qm - pm
    BY <1>1, <1>2, <1>3, <2>2
  <2> QED BY <1>0, <2>3
<1>6. CASE qq < pq
  <2>1. PICK d \in Nat : pq = qq + 1 + d
    <3>1. pq - qq - 1 \in Nat /\ pq = qq + 1 + (pq - qq - 1)
      BY <1>1, <1>2, <1>6
    <3> QED BY <3>1
  <2>2. b * pq = b * qq + b + b * d /\ b * d \in Nat
    BY <1>1, <1>2, <2>1
  <2> QED BY <1>1, <1>2, <1>3, <2>2
<1>7. CASE qq > pq + 1
  <2>1. PICK d \in Nat : qq = pq + 2 + d
    <3>1. qq - pq - 2 \in Nat /\ qq = pq + 2 + (qq - pq - 2)
      BY <1>1, <1>2, <1>7
    <3> QED BY <3>1
  <2>2. b * qq = b * pq + 2 * b + b * d /\ b * d \in Nat
    BY <1>1, <1>2, <2>1
  <2> QED BY <1>1, <1>2, <1>3, <2>2
<1> QED BY <1>1, <1>2, <1>4, <1>5, <1>6, <1>7

\* What is between two indices that go round, if it is less than a round.
LEMMA DistanceIs ==
  ASSUME NEW w \in Nat, w > 0, NEW x \in Nat, NEW y \in Nat, x <= y, y < x + w
  PROVE  ((y % w) - (x % w) + w) % w = y - x
<1>1. (x % w) \in 0 .. w - 1 /\ (y % w) \in 0 .. w - 1
  BY RoundAndPlace
<1>2. ASSUME NEW z, z = y - x \/ z = y - x + w PROVE (z % w) = y - x
  <2>1. w * 0 = 0 /\ w * 1 = w
    OBVIOUS
  <2>2. y - x \in 0 .. w - 1
    OBVIOUS
  <2>3. (w * 0 + (y - x)) % w = y - x /\ (w * 1 + (y - x)) % w = y - x
    BY <2>2, PlaceIs
  <2> QED BY <1>2, <2>1, <2>2, <2>3
<1>3. CASE x = y
  BY <1>1, <1>2, <1>3
<1>4. CASE x < y
  <2>1. (y % w) - (x % w) = y - x \/ (y % w) - (x % w) = y - x - w
    BY <1>4, PlacesApart
  <2>2. (y % w) - (x % w) + w = y - x \/ (y % w) - (x % w) + w = y - x + w
    BY <1>1, <2>1
  <2> QED BY <1>2, <2>2
<1> QED BY <1>3, <1>4

\* An index that goes round, and what it stands for, come to the same places.
SamePlace(index, x, b) == \A n \in Nat : (index + n) % b = (x + n) % b

\* It goes round as a multiple of b.
LEMMA PlaceAfter ==
  ASSUME NEW x \in Nat, NEW b \in Nat, b > 0, NEW w \in Nat, w > 0, (w % b) = 0,
         NEW index, index = x % w
  PROVE  SamePlace(index, x, b)
<1>1. PICK k \in Nat : w = k * b
  <2>1. w \div b \in Nat /\ w = b * (w \div b) + (w % b)
    BY RoundAndPlace
  <2>2. PICK k \in Nat : k = w \div b
    BY <2>1
  <2>3. w = b * k + 0
    BY <2>1, <2>2
  <2>4. b * k = k * b
    OBVIOUS
  <2> QED BY <2>3, <2>4
<1> DEFINE r == (x % w)
           q == x \div w
<1>2. q \in Nat /\ r \in Nat /\ x = w * q + r /\ index = r
  BY <1>1, RoundAndPlace
<1> HIDE DEF r, q
<1>3. ASSUME NEW n \in Nat PROVE (r + n) % b = (x + n) % b
  <2> DEFINE s == ((r + n) % b)
             p == (r + n) \div b
  <2>1. p \in Nat /\ s \in 0 .. b - 1 /\ r + n = b * p + s
    BY <1>2, RoundAndPlace
  <2> HIDE DEF s, p
  <2>2. x + n = b * (k * q + p) + s
    <3>1. w * q = b * (k * q)
      BY <1>1, <1>2
    <3>2. b * (k * q + p) = b * (k * q) + b * p
      BY <1>2, <2>1
    <3>3. w * q \in Nat /\ b * p \in Nat
      BY <1>1, <1>2, <2>1
    <3> QED BY <1>2, <2>1, <3>1, <3>2, <3>3
  <2>3. k * q + p \in Nat
    BY <1>2, <2>1
  <2>4. (x + n) % b = s
    BY <2>1, <2>2, <2>3, PlaceIs
  <2> QED BY <2>4 DEF s
<1> QED BY <1>2, <1>3 DEF SamePlace

-----------------------------------------------------------------------------
WordRecords == [size : Nat, allocated : BOOLEAN]
ChunkAt(w, b, p) == [at |-> p % b, size |-> w[p % b].size]

\* The words from r to c, counted without going round, are tiled by chunks that begin at the
\* places p; the ones that are allocated are ch.
Tiled(r, c, places, b, w, ch) ==
    /\ r \in Nat /\ c \in Nat /\ r <= c /\ c <= r + b
    /\ places \subseteq r .. c - 1
    /\ r < c => r \in places
    /\ \A p \in places : /\ (p % b) \in DOMAIN w /\ w[p % b] \in WordRecords
                         /\ w[p % b].size > 0
                         /\ p + w[p % b].size \in places \cup {c}
    /\ \A p, q \in places : p < q => p + w[p % b].size <= q
    /\ ch = {ChunkAt(w, b, p) : p \in {q \in places : w[q % b].allocated}}

LEMMA TiledIs ==
  ASSUME NEW b, NEW r, NEW c, NEW places, NEW w, NEW ch,
         r \in Nat, c \in Nat, r <= c, c <= r + b, places \subseteq r .. c - 1, r < c => r \in places,
         \A p \in places : /\ (p % b) \in DOMAIN w /\ w[p % b] \in WordRecords
                           /\ w[p % b].size > 0
                           /\ p + w[p % b].size \in places \cup {c},
         \A p, q \in places : p < q => p + w[p % b].size <= q,
         ch = {ChunkAt(w, b, p) : p \in {q \in places : w[q % b].allocated}}
  PROVE  Tiled(r, c, places, b, w, ch)
BY DEF Tiled

LEMMA TiledFacts ==
  ASSUME NEW b \in Nat, b > 0, NEW r, NEW c, NEW places, NEW w, NEW ch,
         Tiled(r, c, places, b, w, ch)
  PROVE  /\ r \in Nat /\ c \in Nat /\ r <= c /\ c <= r + b
         /\ \A p \in places : /\ p \in Nat /\ r <= p /\ p < c /\ p < r + b
                              /\ (p % b) \in 0 .. b - 1
                              /\ w[p % b].size \in Nat \ {0} /\ w[p % b].allocated \in BOOLEAN
                              /\ p + w[p % b].size <= c
         /\ \A p, q \in places : (p % b) = (q % b) => p = q
<1>1. /\ r \in Nat /\ c \in Nat /\ r <= c /\ c <= r + b
      /\ \A p \in places : p \in r .. c - 1
      /\ \A p \in places : w[p % b] \in WordRecords /\ w[p % b].size > 0 /\ p + w[p % b].size \in places \cup {c}
  BY DEF Tiled
<1>2. \A p \in places : p \in Nat /\ r <= p /\ p < c /\ p < r + b
  BY <1>1
<1>3. \A p \in places : w[p % b].size \in Nat \ {0} /\ w[p % b].allocated \in BOOLEAN
  BY <1>1 DEF WordRecords
<1>4. \A p \in places : p + w[p % b].size <= c
  <2>1. SUFFICES ASSUME NEW p \in places, NEW z, z = p + w[p % b].size PROVE z <= c
    OBVIOUS
  <2> QED BY <1>1, <1>2, <2>1
<1>5. ASSUME NEW p \in places, NEW q \in places, p < q PROVE (p % b) # (q % b)
  <2>1. p \in Nat /\ q \in Nat /\ q < p + b
    BY <1>1, <1>2
  <2>2. (q % b) - (p % b) = q - p \/ (q % b) - (p % b) = q - p - b
    BY <1>5, <2>1, PlacesApart
  <2>3. (p % b) \in Nat /\ (q % b) \in Nat
    BY <2>1, RoundAndPlace
  <2> QED BY <1>5, <2>1, <2>2, <2>3
<1>6. \A p, q \in places : (p % b) = (q % b) => p = q
  BY <1>2, <1>5
<1>7. \A p \in places : (p % b) \in 0 .. b - 1
  BY <1>2, RoundAndPlace
<1> QED BY <1>1, <1>2, <1>3, <1>4, <1>6, <1>7

\* A chunk more, of n words, at the place of c.
PlacedIn(w, at, n) ==
    [i \in DOMAIN w |-> IF i = at THEN [size |-> n, allocated |-> TRUE]
                        ELSE IF i \in at + 1 .. at + n - 1 THEN Data ELSE w[i]]

LEMMA PlaceTiles ==
  ASSUME NEW b \in Nat, b > 0, NEW r, NEW c, NEW places, NEW w, NEW ch,
         Tiled(r, c, places, b, w, ch),
         NEW n \in Nat, n > 0, c + n <= r + b, 0 .. b - 1 \subseteq DOMAIN w
  PROVE  /\ Tiled(r, c + n, places \cup {c}, b, PlacedIn(w, c % b, n),
                  ch \cup {[at |-> c % b, size |-> n]})
         /\ \A p \in places : PlacedIn(w, c % b, n)[p % b] = w[p % b]
         /\ PlacedIn(w, c % b, n)[c % b].allocated
<1> DEFINE at == (c % b)
           w2 == PlacedIn(w, at, n)
           ps == places \cup {c}
<1>1. /\ r \in Nat /\ c \in Nat /\ r <= c /\ c <= r + b
      /\ \A p \in places : /\ p \in Nat /\ r <= p /\ p < c
                           /\ w[p % b].size \in Nat \ {0} /\ p + w[p % b].size <= c
                           /\ (p % b) \in 0 .. b - 1
  BY TiledFacts
<1>2. at \in 0 .. b - 1
  BY <1>1, RoundAndPlace
<1>3. ASSUME NEW p \in places PROVE w2[p % b] = w[p % b] /\ (p % b) \in DOMAIN w2
  <2>1. p \in Nat /\ p < c /\ c < p + b /\ c - p <= b - n
    BY <1>1
  <2>2. at - (p % b) = c - p \/ at - (p % b) = c - p - b
    BY <1>1, <2>1, PlacesApart
  <2>3. (p % b) \in 0 .. b - 1
    BY <1>1
  <2> HIDE DEF at
  <2>4. (p % b) # at /\ (p % b) \notin at + 1 .. at + n - 1
    BY <1>1, <1>2, <2>1, <2>2, <2>3
  <2>5. (p % b) \in DOMAIN w
    BY <2>3
  <2> QED BY <2>4, <2>5 DEF PlacedIn
<1>4. at \in DOMAIN w2 /\ w2[at] = [size |-> n, allocated |-> TRUE]
  BY <1>2 DEF PlacedIn
<1>5. c + n \in Nat /\ r <= c + n
  BY <1>1
<1>6. ps \subseteq r .. c + n - 1 /\ r \in ps
  <2>1. \A p \in ps : p \in Nat /\ r <= p /\ p <= c + n - 1
    BY <1>1
  <2>2. r = c \/ r \in places
    BY <1>1 DEF Tiled
  <2> QED BY <1>1, <2>1, <2>2
<1> HIDE DEF w2
<1>7. ASSUME NEW p \in ps
      PROVE  /\ (p % b) \in DOMAIN w2 /\ w2[p % b] \in WordRecords /\ w2[p % b].size > 0
             /\ p + w2[p % b].size \in ps \cup {c + n}
  <2>1. CASE p = c
    <3>1. (p % b) \in DOMAIN w2 /\ w2[p % b] = [size |-> n, allocated |-> TRUE]
      BY <1>4, <2>1
    <3>2. [size |-> n, allocated |-> TRUE] \in WordRecords
      BY DEF WordRecords
    <3> QED BY <2>1, <3>1, <3>2
  <2>2. CASE p \in places
    <3>1. /\ w[p % b] \in WordRecords /\ w[p % b].size > 0
          /\ p + w[p % b].size \in places \cup {c}
      BY <2>2 DEF Tiled
    <3> QED BY <1>3, <2>2, <3>1
  <2> QED BY <2>1, <2>2
<1>8. ASSUME NEW p \in ps, NEW q \in ps, p < q PROVE p + w2[p % b].size <= q
  <2>1. p \in places
    BY <1>1, <1>8
  <2>2. w2[p % b].size = w[p % b].size
    BY <1>3, <2>1
  <2>3. CASE q = c
    BY <1>1, <2>1, <2>2, <2>3
  <2>4. CASE q \in places
    BY <1>8, <2>1, <2>2, <2>4 DEF Tiled
  <2> QED BY <2>3, <2>4
<1>9. ch \cup {[at |-> at, size |-> n]} = {ChunkAt(w2, b, p) : p \in {q \in ps : w2[q % b].allocated}}
  <2> DEFINE old == {q \in places : w[q % b].allocated}
             new == {q \in ps : w2[q % b].allocated}
  <2>1. new = old \cup {c}
    BY <1>3, <1>4
  <2>2. \A p \in old : ChunkAt(w2, b, p) = ChunkAt(w, b, p)
    BY <1>3 DEF ChunkAt
  <2>3. ChunkAt(w2, b, c) = [at |-> at, size |-> n]
    BY <1>4 DEF ChunkAt
  <2>4. ch = {ChunkAt(w, b, p) : p \in old}
    BY DEF Tiled
  <2> HIDE DEF old, new, at
  <2>5. ASSUME NEW x \in ch \cup {[at |-> at, size |-> n]} PROVE \E p \in new : x = ChunkAt(w2, b, p)
    BY <2>1, <2>2, <2>3, <2>4
  <2>6. ASSUME NEW p \in new PROVE ChunkAt(w2, b, p) \in ch \cup {[at |-> at, size |-> n]}
    BY <2>1, <2>2, <2>3, <2>4
  <2>7. ch \cup {[at |-> at, size |-> n]} = {ChunkAt(w2, b, p) : p \in new}
    BY <2>5, <2>6
  <2> QED BY <2>7 DEF new
<1> HIDE DEF ps, at
<1>11. r < c + n => r \in ps
  BY <1>6
<1>12. \A p, q \in ps : p < q => p + w2[p % b].size <= q
  BY <1>8
<1>13. \A p \in ps : /\ (p % b) \in DOMAIN w2 /\ w2[p % b] \in WordRecords /\ w2[p % b].size > 0
                     /\ p + w2[p % b].size \in ps \cup {c + n}
  BY <1>7
<1>10. Tiled(r, c + n, ps, b, w2, ch \cup {[at |-> at, size |-> n]})
  <2>1. PICK end : end = c + n
    OBVIOUS
  <2>2. PICK more : more = ch \cup {[at |-> at, size |-> n]}
    OBVIOUS
  <2>3. Tiled(r, end, ps, b, w2, more)
    <3>1. r \in Nat /\ end \in Nat /\ r <= end /\ end <= r + b /\ ps \subseteq r .. end - 1
      BY <1>1, <1>5, <1>6, <2>1
    <3>2. r < end => r \in ps
      BY <1>6
    <3>3. \A p \in ps : /\ (p % b) \in DOMAIN w2 /\ w2[p % b] \in WordRecords
                       /\ w2[p % b].size > 0
                       /\ p + w2[p % b].size \in ps \cup {end}
      BY <1>13, <2>1
    <3>4. more = {ChunkAt(w2, b, p) : p \in {q \in ps : w2[q % b].allocated}}
      BY <1>9, <2>2
    <3> QED BY <1>12, <3>1, <3>2, <3>3, <3>4, TiledIs
  <2> QED BY <2>1, <2>2, <2>3
<1> QED BY <1>3, <1>4, <1>10 DEF w2, ps, at

\* A chunk that is released where it is.
Freed(w, at) == [w EXCEPT ![at].allocated = FALSE]

LEMMA FreeTiles ==
  ASSUME NEW b \in Nat, b > 0, NEW r, NEW c, NEW places, NEW w, NEW ch,
         Tiled(r, c, places, b, w, ch), w \in [DOMAIN w -> WordRecords], NEW chunk \in ch
  PROVE  /\ Tiled(r, c, places, b, Freed(w, chunk.at), ch \ {chunk})
         /\ \E p \in places : chunk.at = (p % b)
<1> DEFINE w2 == Freed(w, chunk.at)
<1>1. PICK p0 \in places : chunk = ChunkAt(w, b, p0) /\ w[p0 % b].allocated
  BY DEF Tiled
<1>2. chunk.at = (p0 % b)
  BY <1>1 DEF ChunkAt
<1>3. \A p, q \in places : (p % b) = (q % b) => p = q
  BY TiledFacts
<1>4. \A p \in places : (p % b) \in DOMAIN w /\ w[p % b] \in WordRecords
  BY DEF Tiled
<1>5. DOMAIN w2 = DOMAIN w
  BY DEF Freed
<1>6. w2[p0 % b] = [size |-> w[p0 % b].size, allocated |-> FALSE]
  <2>1. w2[p0 % b] = [w[p0 % b] EXCEPT !.allocated = FALSE]
    BY <1>2, <1>4 DEF Freed
  <2> QED BY <2>1, <1>4 DEF WordRecords
<1>7. \A p \in places : p # p0 => w2[p % b] = w[p % b]
  BY <1>2, <1>3, <1>4 DEF Freed
<1> HIDE DEF w2
<1>8. \A p \in places : w2[p % b] \in WordRecords /\ w2[p % b].size = w[p % b].size
  <2>1. ASSUME NEW p \in places, p # p0
        PROVE  w2[p % b] \in WordRecords /\ w2[p % b].size = w[p % b].size
    BY <1>4, <1>7, <2>1
  <2>2. w2[p0 % b] \in WordRecords /\ w2[p0 % b].size = w[p0 % b].size
    <3>1. w[p0 % b].size \in Nat
      BY <1>4 DEF WordRecords
    <3> QED BY <1>6, <3>1 DEF WordRecords
  <2> QED BY <2>1, <2>2
<1>9. ch \ {chunk} = {ChunkAt(w2, b, p) : p \in {q \in places : w2[q % b].allocated}}
  <2> DEFINE old == {q \in places : w[q % b].allocated}
             new == {q \in places : w2[q % b].allocated}
  <2>1. new = old \ {p0}
    BY <1>6, <1>7
  <2>2. \A p \in new : ChunkAt(w2, b, p) = ChunkAt(w, b, p)
    BY <1>8 DEF ChunkAt
  <2>3. ch = {ChunkAt(w, b, p) : p \in old}
    BY DEF Tiled
  <2>4. \A p, q \in old : ChunkAt(w, b, p) = ChunkAt(w, b, q) => p = q
    BY <1>3 DEF ChunkAt
  <2>5. p0 \in old
    BY <1>1
  <2> HIDE DEF old, new
  <2>6. ASSUME NEW x \in ch \ {chunk} PROVE \E p \in new : x = ChunkAt(w2, b, p)
    BY <1>1, <2>1, <2>2, <2>3
  <2>7. ASSUME NEW p \in new PROVE ChunkAt(w2, b, p) \in ch \ {chunk}
    BY <1>1, <2>1, <2>2, <2>3, <2>4, <2>5
  <2>8. ch \ {chunk} = {ChunkAt(w2, b, p) : p \in new}
    BY <2>6, <2>7
  <2> QED BY <2>8 DEF new
<1>10. Tiled(r, c, places, b, w2, ch \ {chunk})
  <2>1. PICK less : less = ch \ {chunk}
    OBVIOUS
  <2>2. /\ r \in Nat /\ c \in Nat /\ r <= c /\ c <= r + b
        /\ places \subseteq r .. c - 1
        /\ r < c => r \in places
    BY DEF Tiled
  <2>3. \A p \in places : /\ (p % b) \in DOMAIN w2 /\ w2[p % b] \in WordRecords
                       /\ w2[p % b].size > 0
                       /\ p + w2[p % b].size \in places \cup {c}
    BY <1>4, <1>5, <1>8 DEF Tiled
  <2>4. \A p, q \in places : p < q => p + w2[p % b].size <= q
    BY <1>8 DEF Tiled
  <2>5. less = {ChunkAt(w2, b, p) : p \in {q \in places : w2[q % b].allocated}}
    BY <1>9, <2>1
  <2>6. Tiled(r, c, places, b, w2, less)
    BY <2>2, <2>3, <2>4, <2>5, TiledIs
  <2> QED BY <2>1, <2>6
<1> QED BY <1>2, <1>10 DEF w2

\* The released chunks at the front are given up.
From(places, to) == {p \in places : to <= p}

LEMMA CutTiles ==
  ASSUME NEW b \in Nat, b > 0, NEW r, NEW c, NEW places, NEW w, NEW ch,
         Tiled(r, c, places, b, w, ch), NEW to \in places \cup {c},
         \A p \in places : p < to => ~ w[p % b].allocated
  PROVE  Tiled(to, c, From(places, to), b, w, ch)
<1> DEFINE ps == {p \in places : to <= p}
<1>1. /\ r \in Nat /\ c \in Nat /\ r <= c /\ c <= r + b
      /\ \A p \in places : /\ p \in Nat /\ r <= p /\ p < c
                           /\ w[p % b].size \in Nat \ {0} /\ p + w[p % b].size <= c
  BY TiledFacts
<1>2. to \in Nat /\ to <= c /\ c <= to + b
  <2>1. CASE to = c
    BY <1>1, <2>1
  <2>2. CASE to \in places
    BY <1>1, <2>2
  <2> QED BY <2>1, <2>2
<1>3. ps \subseteq to .. c - 1 /\ (to < c => to \in ps)
  <2>1. \A p \in ps : p \in Nat /\ to <= p /\ p < c
    BY <1>1
  <2>2. to < c => to \in places /\ to <= to
    BY <1>2
  <2> HIDE DEF ps
  <2>3. ps \subseteq to .. c - 1
    BY <1>1, <1>2, <2>1
  <2> QED BY <2>2, <2>3 DEF ps
<1>4. ASSUME NEW p \in ps
      PROVE  /\ (p % b) \in DOMAIN w /\ w[p % b] \in WordRecords
             /\ w[p % b].size > 0
             /\ p + w[p % b].size \in ps \cup {c}
  <2>1. /\ (p % b) \in DOMAIN w /\ w[p % b] \in WordRecords /\ w[p % b].size > 0
        /\ p + w[p % b].size \in places \cup {c}
    BY DEF Tiled
  <2>2. p \in Nat /\ to <= p /\ w[p % b].size \in Nat
    BY <1>1
  <2>3. PICK z : z = p + w[p % b].size
    OBVIOUS
  <2>4. z \in places \cup {c} /\ to <= z
    BY <1>2, <2>1, <2>2, <2>3
  <2>5. z \in ps \cup {c}
    BY <2>4
  <2> QED BY <2>1, <2>3, <2>5
<1>5. \A p, q \in ps : p < q => p + w[p % b].size <= q
  BY DEF Tiled
<1>6. ch = {ChunkAt(w, b, p) : p \in {q \in ps : w[q % b].allocated}}
  <2> DEFINE old == {q \in places : w[q % b].allocated}
             new == {q \in ps : w[q % b].allocated}
  <2>1. new = old
    <3>1. ASSUME NEW p \in old PROVE p \in new
      <4>1. ~ (p < to)
        OBVIOUS
      <4>2. to <= p
        BY <1>1, <1>2, <4>1
      <4> QED BY <4>2
    <3> QED BY <3>1
  <2>2. ch = {ChunkAt(w, b, p) : p \in old}
    BY DEF Tiled
  <2> QED BY <2>1, <2>2
<1> HIDE DEF ps
<1>7. Tiled(to, c, ps, b, w, ch)
  BY <1>1, <1>2, <1>3, <1>4, <1>5, <1>6, TiledIs
<1> QED BY <1>7 DEF ps, From

\* Released, as a function.
OverOf(w, b, index, claimed, f, i) ==
    IF i = 0 THEN 0
    ELSE IF f[i - 1] = claimed \/ w[(index + f[i - 1]) % b].allocated THEN f[i - 1]
         ELSE f[i - 1] + w[(index + f[i - 1]) % b].size

\* No allocated chunk is before the place that is n words on.
Passed(r, places, b, w, n) == \A p \in places : p < r + n => ~ w[p % b].allocated

LEMMA OverGoesOn ==
  ASSUME NEW b \in Nat, b > 0, NEW r, NEW c, NEW places, NEW w, NEW ch,
         Tiled(r, c, places, b, w, ch),
         NEW index, SamePlace(index, r, b),
         NEW f, f = [i \in Nat |-> OverOf(w, b, index, c - r, f, i)]
  PROVE  \A i \in Nat : /\ f[i] \in Nat /\ r + f[i] \in places \cup {c}
                        /\ Passed(r, places, b, w, f[i])
                        /\ f[i] >= i \/ f[i] = c - r \/ w[(r + f[i]) % b].allocated
<1> DEFINE Good(i) == /\ f[i] \in Nat /\ r + f[i] \in places \cup {c}
                      /\ Passed(r, places, b, w, f[i])
                      /\ f[i] >= i \/ f[i] = c - r \/ w[(r + f[i]) % b].allocated
           T == {i \in Nat : ~ Good(i)}
<1> SUFFICES ASSUME T # {} PROVE FALSE
  OBVIOUS
<1>1. PICK i \in T : \A k \in T : i <= k
  <2>1. T \subseteq Nat
    OBVIOUS
  <2> HIDE DEF T
  <2> QED BY <2>1, LeastNatural
<1>2. i \in Nat /\ ~ Good(i)
  OBVIOUS
<1>3. f[i] = OverOf(w, b, index, c - r, f, i)
  BY <1>2
<1>4. /\ r \in Nat /\ c \in Nat /\ r <= c
      /\ \A p \in places : p \in Nat /\ r <= p /\ p < c /\ w[p % b].size \in Nat \ {0}
  BY TiledFacts
<1>5. i # 0
  <2>1. SUFFICES ASSUME i = 0 PROVE FALSE
    OBVIOUS
  <2>2. f[i] = 0
    BY <1>3, <2>1 DEF OverOf
  <2>3. r \in places \cup {c}
    BY <1>4 DEF Tiled
  <2>4. Passed(r, places, b, w, 0)
    BY <1>4 DEF Passed
  <2>5. Good(i)
    BY <1>4, <2>1, <2>2, <2>3, <2>4
  <2> QED BY <1>2, <2>5
<1>6. i - 1 \in Nat /\ i - 1 \notin T
  <2> HIDE DEF T
  <2>1. i - 1 \in Nat /\ ~ (i <= i - 1)
    BY <1>2, <1>5
  <2> QED BY <1>1, <2>1
<1>7. Good(i - 1)
  BY <1>6
<1> HIDE DEF T
<1>8. PICK n : n = f[i - 1]
  OBVIOUS
<1>9. /\ n \in Nat /\ r + n \in places \cup {c} /\ Passed(r, places, b, w, n)
      /\ n >= i - 1 \/ n = c - r \/ w[(r + n) % b].allocated
  BY <1>7, <1>8
<1>10. (index + n) % b = (r + n) % b
  BY <1>9 DEF SamePlace
<1>11. f[i] = IF n = c - r \/ w[(r + n) % b].allocated THEN n ELSE n + w[(r + n) % b].size
  BY <1>3, <1>5, <1>8, <1>10 DEF OverOf
<1>12. CASE n = c - r \/ w[(r + n) % b].allocated
  BY <1>2, <1>9, <1>11, <1>12
<1>13. CASE ~ (n = c - r \/ w[(r + n) % b].allocated)
  <2>1. PICK p : p = r + n
    OBVIOUS
  <2>2. p \in places
    BY <1>4, <1>9, <1>13, <2>1
  <2>3. PICK size : size = w[p % b].size
    OBVIOUS
  <2>4. size \in Nat \ {0} /\ f[i] = n + size
    BY <1>4, <1>11, <1>13, <2>1, <2>2, <2>3
  <2>5. f[i] \in Nat /\ f[i] >= i
    BY <1>2, <1>9, <1>13, <2>4
  <2>6. r + f[i] \in places \cup {c}
    <3>1. p + size \in places \cup {c}
      BY <2>2, <2>3 DEF Tiled
    <3>2. r + f[i] = p + size
      BY <1>4, <1>9, <2>1, <2>4
    <3> QED BY <3>1, <3>2
  <2>7. Passed(r, places, b, w, f[i])
    <3>1. SUFFICES ASSUME NEW q \in places, q < r + f[i] PROVE ~ w[q % b].allocated
      BY DEF Passed
    <3>2. CASE q < p
      BY <1>9, <2>1, <3>2 DEF Passed
    <3>3. CASE q = p
      BY <1>13, <2>1, <3>3
    <3>4. CASE p < q
      <4>1. p + size <= q
        BY <2>2, <2>3, <3>4 DEF Tiled
      <4>2. r + f[i] = p + size
        BY <1>4, <1>9, <2>1, <2>4
      <4>3. q \in Nat /\ p + size \in Nat
        BY <1>4, <1>9, <2>1, <2>4
      <4> QED BY <3>1, <4>1, <4>2, <4>3
    <3> QED BY <1>4, <2>2, <3>2, <3>3, <3>4
  <2> QED BY <1>2, <2>5, <2>6, <2>7
<1> QED BY <1>12, <1>13

WaitRecords ==
    [for : {"room"}, size : Nat \ {0}, notified : BOOLEAN, missed : BOOLEAN]
    \cup [for : {"resize"}, size : Buffers, notified : BOOLEAN, missed : BOOLEAN]

AllocatorTypeOK ==
    /\ m_maxAllocationSize \in Nat
    /\ IndexWidth > 0
    /\ \/ m_bufferSize = 0
       \/ /\ m_bufferSize \in 1 .. IndexWidth - 1 /\ IndexWidth % m_bufferSize = 0
          /\ DOMAIN word = 0 .. m_bufferSize + m_maxAllocationSize - 1
    /\ word \in [DOMAIN word -> WordRecords]
    /\ waiting \in [Threads -> {Idle, Notifying} \cup WaitRecords]

\* What is claimed is tiled by chunks, of which the first is allocated.
TiledFrom(r, c, places) ==
    /\ m_releaseIndex = r % IndexWidth /\ m_claimedIndex = c % IndexWidth
    /\ Tiled(r, c, places, m_bufferSize, word, chunks)
    /\ r < c => word[r % m_bufferSize].allocated

AllocatorInv ==
    /\ AllocatorTypeOK
    /\ \E r \in Nat, c \in Nat, places \in SUBSET Nat : TiledFrom(r, c, places)

LEMMA InitAllocator == InitRing => AllocatorInv
<1> SUFFICES ASSUME InitRing PROVE AllocatorInv
  OBVIOUS
<1>1. PICK b \in Buffers : m_maxAllocationSize = b.max
  BY DEF InitRing
<1>2. RoundUpToAPowerOf2(b.buffer) \in 1 .. IndexWidth - 1 /\ IndexWidth \in Nat /\ b.max \in Nat
  BY AllocatorAssumption
<1>3. IndexWidth > 0
  <2>1. PICK z : z = RoundUpToAPowerOf2(b.buffer)
    OBVIOUS
  <2> QED BY <1>2, <2>1
<1>4. word \in [DOMAIN word -> WordRecords]
  BY DEF InitRing
<1>5. waiting \in [Threads -> {Idle, Notifying} \cup WaitRecords]
  BY DEF InitRing
<1>6. AllocatorTypeOK
  BY <1>1, <1>2, <1>3, <1>4, <1>5 DEF AllocatorTypeOK, InitRing
<1>7. 0 % IndexWidth = 0
  BY <1>2, <1>3
<1>8. Tiled(0, 0, {}, 0, word, {})
  BY DEF Tiled
<1>9. TiledFrom(0, 0, {})
  BY <1>7, <1>8 DEF TiledFrom, InitRing
<1> QED BY <1>6, <1>9 DEF AllocatorInv

LEMMA ClaimedIs ==
  ASSUME AllocatorTypeOK, NEW r \in Nat, NEW c \in Nat, NEW places, TiledFrom(r, c, places)
  PROVE  Claimed = c - r /\ r <= c /\ c <= r + m_bufferSize
<1>1. r <= c /\ c <= r + m_bufferSize
  BY DEF TiledFrom, Tiled
<1>2. IndexWidth \in Nat /\ IndexWidth > 0 /\ m_bufferSize < IndexWidth /\ m_bufferSize \in Nat
  BY AllocatorAssumption DEF AllocatorTypeOK
<1>3. c < r + IndexWidth
  BY <1>1, <1>2
<1>4. ((c % IndexWidth) - (r % IndexWidth) + IndexWidth) % IndexWidth = c - r
  BY <1>1, <1>2, <1>3, DistanceIs
<1> QED BY <1>1, <1>4 DEF Claimed, TiledFrom

LEMMA MaskedIs ==
  ASSUME AllocatorTypeOK, m_bufferSize # 0, NEW x \in Nat, NEW i, i = x % IndexWidth
  PROVE  SamePlace(i, x, m_bufferSize) /\ i % m_bufferSize = x % m_bufferSize
<1>1. /\ m_bufferSize \in Nat /\ m_bufferSize > 0 /\ IndexWidth \in Nat /\ IndexWidth > 0
      /\ IndexWidth % m_bufferSize = 0
  BY AllocatorAssumption DEF AllocatorTypeOK
<1>2. SamePlace(i, x, m_bufferSize)
  BY <1>1, PlaceAfter
<1>3. (i + 0) % m_bufferSize = (x + 0) % m_bufferSize
  BY <1>2 DEF SamePlace
<1>4. i + 0 = i /\ x + 0 = x
  <2>1. i \in Nat
    BY <1>1, RoundAndPlace
  <2> QED BY <2>1
<1>5. i % m_bufferSize = x % m_bufferSize
  BY <1>3, <1>4
<1> QED BY <1>2, <1>5

LEMMA IndexGoesOn ==
  ASSUME NEW x \in Nat, NEW n \in Nat, IndexWidth \in Nat, IndexWidth > 0, NEW i, i = x % IndexWidth
  PROVE  (i + n) % IndexWidth = (x + n) % IndexWidth
<1>1. IndexWidth % IndexWidth = 0
  OBVIOUS
<1>2. SamePlace(i, x, IndexWidth)
  BY <1>1, PlaceAfter
<1> QED BY <1>2 DEF SamePlace

-----------------------------------------------------------------------------
\* The chunks are apart and in the buffer.
LEMMA InvApart == AllocatorInv => ChunksAreApart
<1> SUFFICES ASSUME AllocatorInv PROVE ChunksAreApart
  OBVIOUS
<1>1. AllocatorTypeOK
  BY DEF AllocatorInv
<1>2. PICK r \in Nat, c \in Nat, places \in SUBSET Nat : TiledFrom(r, c, places)
  BY DEF AllocatorInv
<1>3. PICK b : b = m_bufferSize
  OBVIOUS
<1>4. b \in Nat /\ m_maxAllocationSize \in Nat
  BY <1>1, <1>3, AllocatorAssumption DEF AllocatorTypeOK
<1>5. Claimed = c - r /\ r <= c /\ c <= r + b
  BY <1>1, <1>2, <1>3, ClaimedIs
<1>6. Tiled(r, c, places, b, word, chunks)
  BY <1>2, <1>3 DEF TiledFrom
<1>7. Claimed <= m_bufferSize
  BY <1>3, <1>4, <1>5
<1>8. chunks = {} => Claimed = 0
  <2>1. SUFFICES ASSUME r # c PROVE chunks # {}
    BY <1>5
  <2>2. r < c
    BY <1>5, <2>1
  <2>3. r \in places /\ word[r % b].allocated
    BY <1>2, <1>3, <1>6, <2>2 DEF Tiled, TiledFrom
  <2>4. ChunkAt(word, b, r) \in chunks
    BY <1>6, <2>3 DEF Tiled
  <2> QED BY <2>4
<1>9. \A d \in chunks : \E p \in places : d = ChunkAt(word, b, p) /\ word[p % b].allocated
  BY <1>6 DEF Tiled
<1>10. ASSUME NEW d \in chunks PROVE b # 0
  <2>1. PICK p \in places : p \in r .. c - 1
    BY <1>6, <1>9 DEF Tiled
  <2> QED BY <1>4, <1>5, <2>1
<1>11. ASSUME NEW d \in chunks
       PROVE  /\ d.size <= m_maxAllocationSize + 1 => Words(d) \subseteq DOMAIN word
              /\ word[d.at] = [size |-> d.size, allocated |-> TRUE]
              /\ Masked(d.at + m_bufferSize - Masked(m_releaseIndex)) + d.size <= Claimed
  <2>1. b > 0
    BY <1>4, <1>10
  <2>2. PICK p \in places : d = ChunkAt(word, b, p) /\ word[p % b].allocated
    BY <1>9
  <2>3. PICK at : at = (p % b)
    OBVIOUS
  <2>4. PICK size : size = word[at].size
    OBVIOUS
  <2>5. d.at = at /\ d.size = size
    BY <2>2, <2>3, <2>4 DEF ChunkAt
  <2>6. /\ p \in Nat /\ r <= p /\ p < r + b /\ at \in 0 .. b - 1 /\ size \in Nat \ {0}
        /\ p + size <= c
    BY <1>4, <1>6, <2>1, <2>3, <2>4, TiledFacts
  <2>7. d.size <= m_maxAllocationSize + 1 => Words(d) \subseteq DOMAIN word
    <3>1. DOMAIN word = 0 .. b + m_maxAllocationSize - 1
      BY <1>1, <1>3, <2>1 DEF AllocatorTypeOK
    <3> QED BY <1>4, <2>5, <2>6, <3>1 DEF Words
  <2>8. word[at] = [size |-> size, allocated |-> TRUE]
    <3>1. word[at] \in WordRecords
      BY <1>6, <2>3 DEF Tiled
    <3> QED BY <2>2, <2>3, <2>4, <3>1 DEF WordRecords
  <2>9. Masked(d.at + m_bufferSize - Masked(m_releaseIndex)) = p - r
    <3>1. Masked(m_releaseIndex) = r % b
      BY <1>1, <1>2, <1>3, <2>1, MaskedIs DEF Masked, TiledFrom
    <3>2. ((p % b) - (r % b) + b) % b = p - r
      BY <1>4, <2>1, <2>6, DistanceIs
    <3>3. at + b - (r % b) = at - (r % b) + b
      <4>1. (r % b) \in Nat
        BY <1>4, <2>1, RoundAndPlace
      <4> QED BY <1>4, <2>6, <4>1
    <3> QED BY <1>3, <2>3, <2>5, <3>1, <3>2, <3>3 DEF Masked
  <2>10. p - r + size <= c - r
    BY <2>6
  <2> QED BY <1>5, <2>5, <2>7, <2>8, <2>9, <2>10
<1>12. ASSUME NEW d \in chunks, NEW e \in chunks, d # e PROVE Words(d) \cap Words(e) = {}
  <2>1. b > 0
    BY <1>4, <1>10
  <2>2. ASSUME NEW p \in places, NEW q \in places, p < q
        PROVE  Words(ChunkAt(word, b, p)) \cap Words(ChunkAt(word, b, q)) = {}
    <3>1. PICK x, y, n, m : x = (p % b) /\ y = (q % b) /\ n = word[x].size /\ m = word[y].size
      OBVIOUS
    <3>2. /\ p \in Nat /\ r <= p /\ x \in 0 .. b - 1 /\ n \in Nat
          /\ q \in Nat /\ q < r + b /\ y \in 0 .. b - 1 /\ m \in Nat /\ q + m <= c
      BY <1>4, <1>6, <2>1, <3>1, TiledFacts
    <3>3. p + n <= q
      BY <1>6, <2>2, <3>1 DEF Tiled
    <3>4. y - x = q - p \/ y - x = q - p - b
      <4>1. q < p + b
        BY <1>4, <3>2
      <4>2. (q % b) - (p % b) = q - p \/ (q % b) - (p % b) = q - p - b
        BY <1>4, <2>1, <2>2, <3>2, <4>1, PlacesApart
      <4> QED BY <3>1, <4>2
    <3>5. x + n <= y \/ y + m <= x
      BY <1>4, <1>5, <3>2, <3>3, <3>4
    <3>6. (x .. x + n - 1) \cap (y .. y + m - 1) = {}
      BY <3>2, <3>5
    <3> QED BY <3>1, <3>6 DEF Words, ChunkAt
  <2>3. PICK p \in places : d = ChunkAt(word, b, p)
    BY <1>9
  <2>4. PICK q \in places : e = ChunkAt(word, b, q)
    BY <1>9
  <2>5. p \in Nat /\ q \in Nat /\ p # q
    BY <1>12, <2>3, <2>4
  <2>6. CASE p < q
    BY <2>2, <2>3, <2>4, <2>6
  <2>7. CASE q < p
    BY <2>2, <2>3, <2>4, <2>7
  <2> QED BY <2>5, <2>6, <2>7
<1> QED BY <1>7, <1>8, <1>11, <1>12 DEF ChunksAreApart

Wants == [for : {"room"}, size : Nat \ {0}] \cup [for : {"resize"}, size : Buffers]

\* An allocation that has room.
LEMMA PlaceKeeps ==
  ASSUME AllocatorInv, NEW size \in Nat \ {0}, GetNumAvailableBytes >= size, Place(size),
         waiting' \in [Threads -> {Idle, Notifying} \cup WaitRecords]
  PROVE  AllocatorInv' /\ Claimed' = Claimed + size /\ m_bufferSize' = m_bufferSize
         /\ Claimed \in Nat /\ m_bufferSize \in Nat
         /\ m_claimedIndex' # m_releaseIndex'
<1>1. AllocatorTypeOK
  BY DEF AllocatorInv
<1>2. PICK r \in Nat, c \in Nat, places \in SUBSET Nat : TiledFrom(r, c, places)
  BY DEF AllocatorInv
<1>3. PICK b : b = m_bufferSize
  OBVIOUS
<1>4. b \in Nat /\ m_maxAllocationSize \in Nat /\ IndexWidth \in Nat /\ IndexWidth > 0 /\ b < IndexWidth
  BY <1>1, <1>3, AllocatorAssumption DEF AllocatorTypeOK
<1>5. Claimed = c - r /\ r <= c /\ c <= r + b
  BY <1>1, <1>2, <1>3, ClaimedIs
<1>6. b > 0 /\ c + size <= r + b
  BY <1>3, <1>4, <1>5 DEF GetNumAvailableBytes
<1>7. Tiled(r, c, places, b, word, chunks)
  BY <1>2, <1>3 DEF TiledFrom
<1>8. DOMAIN word = 0 .. b + m_maxAllocationSize - 1 /\ word \in [DOMAIN word -> WordRecords]
  BY <1>1, <1>3, <1>6 DEF AllocatorTypeOK
<1>9. 0 .. b - 1 \subseteq DOMAIN word
  BY <1>4, <1>8
<1>10. Masked(m_claimedIndex) = c % b
  BY <1>1, <1>2, <1>3, <1>6, MaskedIs DEF Masked, TiledFrom
<1>11. /\ m_claimedIndex' = (m_claimedIndex + size) % IndexWidth
       /\ word' = PlacedIn(word, c % b, size)
       /\ chunks' = chunks \cup {[at |-> c % b, size |-> size]}
       /\ UNCHANGED <<m_bufferSize, m_maxAllocationSize, m_releaseIndex>>
  BY <1>10 DEF Place, PlacedIn
<1>12. /\ Tiled(r, c + size, places \cup {c}, b, word', chunks')
       /\ \A p \in places : word'[p % b] = word[p % b]
       /\ word'[c % b].allocated
  <2>1. size > 0
    OBVIOUS
  <2>2. /\ Tiled(r, c + size, places \cup {c}, b, PlacedIn(word, c % b, size),
                 chunks \cup {[at |-> c % b, size |-> size]})
        /\ \A p \in places : PlacedIn(word, c % b, size)[p % b] = word[p % b]
        /\ PlacedIn(word, c % b, size)[c % b].allocated
    BY <1>4, <1>6, <1>7, <1>9, <2>1, PlaceTiles
  <2> QED BY <1>11, <2>2
<1>13. m_claimedIndex' = (c + size) % IndexWidth
  BY <1>2, <1>4, <1>11, IndexGoesOn DEF TiledFrom
<1>14. word'[r % b].allocated
  <2>1. CASE r = c
    BY <1>12, <2>1
  <2>2. CASE r # c
    <3>1. r \in places /\ word[r % b].allocated
      BY <1>2, <1>3, <1>5, <1>7, <2>2 DEF Tiled, TiledFrom
    <3> QED BY <1>12, <3>1
  <2> QED BY <2>1, <2>2
<1>15. TiledFrom(r, c + size, places \cup {c})'
  BY <1>2, <1>3, <1>11, <1>12, <1>13, <1>14 DEF TiledFrom
<1>16. word' \in [DOMAIN word' -> WordRecords] /\ DOMAIN word' = DOMAIN word
  <2>1. [size |-> size, allocated |-> TRUE] \in WordRecords /\ Data \in WordRecords
    BY DEF WordRecords, Data
  <2> QED BY <1>8, <1>11, <2>1 DEF PlacedIn
<1>17. AllocatorTypeOK'
  BY <1>1, <1>11, <1>16 DEF AllocatorTypeOK
<1>18. c + size \in Nat /\ places \cup {c} \in SUBSET Nat
  OBVIOUS
<1>19. AllocatorInv'
  BY <1>15, <1>17, <1>18 DEF AllocatorInv
<1>20. Claimed' = c + size - r
  <2>1. PICK c2 \in Nat, ps \in SUBSET Nat : c2 = c + size /\ ps = places \cup {c}
    BY <1>18
  <2>2. TiledFrom(r, c2, ps)'
    BY <1>15, <2>1
  <2>3. Claimed' = c2 - r
    <3>1. m_claimedIndex' = c2 % IndexWidth /\ m_releaseIndex' = r % IndexWidth
      BY <2>2 DEF TiledFrom
    <3>2. r <= c2 /\ c2 < r + IndexWidth
      BY <1>4, <1>5, <1>6, <2>1
    <3>3. ((c2 % IndexWidth) - (r % IndexWidth) + IndexWidth) % IndexWidth = c2 - r
      BY <1>4, <3>2, DistanceIs
    <3> QED BY <3>1, <3>3 DEF Claimed
  <2> QED BY <2>1, <2>3
<1>21. m_claimedIndex' # m_releaseIndex'
  <2>1. SUFFICES ASSUME m_claimedIndex' = m_releaseIndex' PROVE FALSE
    OBVIOUS
  <2>2. m_releaseIndex' \in Nat
    BY <1>2, <1>4, <1>11, RoundAndPlace DEF TiledFrom
  <2>3. Claimed' = IndexWidth % IndexWidth
    BY <1>4, <2>1, <2>2 DEF Claimed
  <2>4. IndexWidth % IndexWidth = 0
    BY <1>4
  <2> QED BY <1>5, <1>20, <2>3, <2>4
<1> QED BY <1>3, <1>4, <1>5, <1>11, <1>19, <1>20, <1>21

LEMMA EmptyIsTiled ==
  ASSUME NEW r \in Nat, NEW b \in Nat, NEW w
  PROVE  Tiled(r, r, {}, b, w, {})
<1>1. r <= r /\ r <= r + b /\ ~ (r < r)
  OBVIOUS
<1> QED BY <1>1 DEF Tiled

\* A resize, while nothing is claimed.
LEMMA SetSizeKeeps ==
  ASSUME AllocatorInv, NEW b \in Buffers, m_claimedIndex = m_releaseIndex, SetSize(b),
         waiting' \in [Threads -> {Idle, Notifying} \cup WaitRecords]
  PROVE  AllocatorInv'
<1>1. AllocatorTypeOK
  BY DEF AllocatorInv
<1>2. PICK r \in Nat, c \in Nat, places \in SUBSET Nat : TiledFrom(r, c, places)
  BY DEF AllocatorInv
<1>3. IndexWidth \in Nat /\ IndexWidth > 0
  BY <1>1, AllocatorAssumption DEF AllocatorTypeOK
<1>4. c = r
  <2>1. m_releaseIndex \in Nat
    BY <1>2, <1>3, RoundAndPlace DEF TiledFrom
  <2>2. Claimed = IndexWidth % IndexWidth /\ IndexWidth % IndexWidth = 0
    BY <1>3, <2>1 DEF Claimed
  <2> QED BY <1>1, <1>2, <2>2, ClaimedIs
<1>5. Tiled(r, r, places, m_bufferSize, word, chunks)
  BY <1>2, <1>4 DEF TiledFrom
<1>6. places = {}
  <2>1. \A p \in places : p \in r .. r - 1
    BY <1>5 DEF Tiled
  <2> QED BY <2>1
<1>7. chunks = {}
  BY <1>5, <1>6 DEF Tiled
<1>8. /\ m_bufferSize' = RoundUpToAPowerOf2(b.buffer)
      /\ m_maxAllocationSize' = IF b.max = 0 THEN m_maxAllocationSize ELSE b.max
      /\ word' = [i \in 0 .. m_bufferSize' + m_maxAllocationSize' - 1 |->
                    IF i \in DOMAIN word THEN word[i] ELSE Data]
      /\ UNCHANGED <<m_claimedIndex, m_releaseIndex, chunks>>
  BY DEF SetSize
<1>9. /\ m_bufferSize' \in 1 .. IndexWidth - 1 /\ IndexWidth % m_bufferSize' = 0
      /\ m_maxAllocationSize' \in Nat
  BY <1>1, <1>8, AllocatorAssumption DEF AllocatorTypeOK
<1>10. word' \in [DOMAIN word' -> WordRecords] /\ DOMAIN word' = 0 .. m_bufferSize' + m_maxAllocationSize' - 1
  <2>1. Data \in WordRecords /\ word \in [DOMAIN word -> WordRecords]
    BY <1>1 DEF WordRecords, Data, AllocatorTypeOK
  <2> QED BY <1>8, <2>1
<1>11. AllocatorTypeOK'
  BY <1>1, <1>9, <1>10 DEF AllocatorTypeOK
<1>12. Tiled(r, r, {}, m_bufferSize', word', chunks')
  <2>1. PICK size : size = m_bufferSize'
    OBVIOUS
  <2>2. size \in Nat
    BY <1>3, <1>9, <2>1
  <2>3. Tiled(r, r, {}, size, word', {})
    BY <2>2, EmptyIsTiled
  <2> QED BY <1>7, <1>8, <2>1, <2>3
<1>13. TiledFrom(r, r, {})'
  BY <1>2, <1>4, <1>8, <1>12 DEF TiledFrom
<1> QED BY <1>11, <1>13 DEF AllocatorInv

\* The walk over what was released is always from a chunk to the next.
LEMMA OverExists ==
  ASSUME NEW b \in Nat, b > 0, NEW r, NEW c, NEW places, NEW w, NEW ch,
         Tiled(r, c, places, b, w, ch), NEW index, SamePlace(index, r, b)
  PROVE  \E f : f = [i \in Nat |-> OverOf(w, b, index, c - r, f, i)]
<1> DEFINE Step(n) == IF n = c - r \/ w[(r + n) % b].allocated THEN n ELSE n + w[(r + n) % b].size
           links == [n \in Nat |-> [next |-> Step(n)]]
<1>1. /\ r \in Nat /\ c \in Nat /\ r <= c
      /\ \A p \in places : p \in Nat /\ r <= p /\ p < c /\ w[p % b].size \in Nat \ {0}
  BY TiledFacts
<1>2. PICK f : f = [i \in Nat |-> NextOf(0, links, f, i)]
  BY RingWalkExists
<1>3. ASSUME NEW n \in Nat, r + n \in places \cup {c}
      PROVE  Step(n) \in Nat /\ r + Step(n) \in places \cup {c}
  <2>1. PICK p : p = r + n
    OBVIOUS
  <2>2. CASE n = c - r \/ w[(r + n) % b].allocated
    BY <1>3, <2>2
  <2>3. CASE ~ (n = c - r \/ w[(r + n) % b].allocated)
    <3>1. p \in places
      BY <1>1, <1>3, <2>1, <2>3
    <3>2. PICK size : size = w[p % b].size
      OBVIOUS
    <3>3. size \in Nat /\ p + size \in places \cup {c}
      BY <1>1, <3>1, <3>2 DEF Tiled
    <3>4. Step(n) = n + size
      BY <2>1, <2>3, <3>2
    <3>5. r + Step(n) = p + size
      BY <1>1, <2>1, <3>3, <3>4
    <3> QED BY <3>3, <3>4, <3>5
  <2> QED BY <2>2, <2>3
<1>4. \A n \in Nat : links[n].next = Step(n)
  OBVIOUS
<1> HIDE DEF Step, links
<1> DEFINE T == {i \in Nat : ~ (f[i] \in Nat /\ r + f[i] \in places \cup {c})}
<1>5. T = {}
  <2> SUFFICES ASSUME T # {} PROVE FALSE
    OBVIOUS
  <2>1. PICK i \in T : \A k \in T : i <= k
    <3>1. T \subseteq Nat
      OBVIOUS
    <3> HIDE DEF T
    <3> QED BY <3>1, LeastNatural
  <2>2. i \in Nat /\ ~ (f[i] \in Nat /\ r + f[i] \in places \cup {c})
    OBVIOUS
  <2>3. f[i] = NextOf(0, links, f, i)
    BY <1>2, <2>2
  <2>4. i # 0
    <3>1. r + 0 = r /\ r \in places \cup {c}
      BY <1>1 DEF Tiled
    <3> QED BY <2>2, <2>3, <3>1 DEF NextOf
  <2>5. i - 1 \in Nat /\ i - 1 \notin T
    <3> HIDE DEF T
    <3>1. i - 1 \in Nat /\ ~ (i <= i - 1)
      BY <2>2, <2>4
    <3> QED BY <2>1, <3>1
  <2>6. PICK n : n = f[i - 1]
    OBVIOUS
  <2>7. n \in Nat /\ r + n \in places \cup {c}
    BY <2>5, <2>6
  <2>8. f[i] = Step(n)
    BY <1>4, <2>3, <2>4, <2>6, <2>7 DEF NextOf
  <2> QED BY <1>3, <2>2, <2>7, <2>8
<1>6. \A i \in Nat : f[i] \in Nat
  BY <1>5
<1>7. ASSUME NEW i \in Nat PROVE f[i] = OverOf(w, b, index, c - r, f, i)
  <2>1. f[i] = NextOf(0, links, f, i)
    BY <1>2
  <2>2. CASE i = 0
    BY <2>1, <2>2 DEF NextOf, OverOf
  <2>3. CASE i # 0
    <3>1. PICK n : n = f[i - 1]
      OBVIOUS
    <3>2. n \in Nat
      BY <1>6, <2>3, <3>1
    <3>3. f[i] = Step(n)
      BY <1>4, <2>1, <2>3, <3>1, <3>2 DEF NextOf
    <3>4. (index + n) % b = (r + n) % b
      BY <3>2 DEF SamePlace
    <3> QED BY <2>3, <3>1, <3>3, <3>4 DEF OverOf, Step
  <2> QED BY <2>2, <2>3
<1>8. f = [i \in Nat |-> f[i]]
  BY <1>2
<1>9. f = [i \in Nat |-> OverOf(w, b, index, c - r, f, i)]
  BY <1>7, <1>8
<1> QED BY <1>9

\* It goes over all that is released, and stops at what is not.
LEMMA ReleasedIs ==
  ASSUME NEW r, NEW c, NEW places, NEW w, NEW ch, NEW at,
         m_bufferSize \in Nat, m_bufferSize > 0, Claimed = c - r,
         Tiled(r, c, places, m_bufferSize, w, ch), SamePlace(m_releaseIndex, r, m_bufferSize),
         at = Masked(m_releaseIndex)
  PROVE  LET n == Released(w, at) IN
         /\ n \in Nat /\ r + n \in places \cup {c} /\ Passed(r, places, m_bufferSize, w, n)
         /\ n = c - r \/ w[(r + n) % m_bufferSize].allocated
<1>1. PICK b \in Nat : b = m_bufferSize
  OBVIOUS
<1>2. b > 0 /\ Tiled(r, c, places, b, w, ch) /\ SamePlace(m_releaseIndex, r, b)
  BY <1>1
<1> DEFINE f == CHOOSE g : g = [i \in Nat |-> OverOf(w, b, m_releaseIndex, c - r, g, i)]
<1>3. f = [i \in Nat |-> OverOf(w, b, m_releaseIndex, c - r, f, i)]
  BY <1>2, OverExists
<1>4. Released(w, at) = f[c - r]
  BY <1>1 DEF Released, OverOf, Masked
<1> HIDE DEF f
<1>5. c - r \in Nat
  BY <1>2, TiledFacts
<1>6. PICK i \in Nat : i = c - r
  BY <1>5
<1>7. /\ f[i] \in Nat /\ r + f[i] \in places \cup {c}
      /\ Passed(r, places, b, w, f[i])
      /\ f[i] >= i \/ f[i] = c - r \/ w[(r + f[i]) % b].allocated
  BY <1>2, <1>3, OverGoesOn
<1>8. f[i] >= i => f[i] = c - r
  <2>1. /\ r \in Nat /\ c \in Nat /\ r <= c
        /\ \A p \in places : p \in Nat /\ p < c
    BY <1>2, TiledFacts
  <2>2. r + f[i] <= c
    <3>1. CASE r + f[i] = c
      BY <2>1, <3>1
    <3>2. CASE r + f[i] \in places
      <4>1. PICK p \in places : p = r + f[i]
        BY <3>2
      <4> QED BY <2>1, <4>1
    <3> QED BY <1>7, <3>1, <3>2
  <2> QED BY <1>6, <1>7, <2>1, <2>2
<1> QED BY <1>1, <1>4, <1>6, <1>7, <1>8

\* A chunk is released, and with it those behind it that were.
LEMMA ReleaseKeeps ==
  ASSUME AllocatorInv, NEW t \in Threads, NEW chunk \in chunks, Release(t, chunk)
  PROVE  AllocatorInv'
<1>1. AllocatorTypeOK
  BY DEF AllocatorInv
<1>2. PICK r \in Nat, c \in Nat, places \in SUBSET Nat : TiledFrom(r, c, places)
  BY DEF AllocatorInv
<1>3. PICK b : b = m_bufferSize
  OBVIOUS
<1>4. b \in Nat /\ IndexWidth \in Nat /\ IndexWidth > 0
  BY <1>1, <1>3, AllocatorAssumption DEF AllocatorTypeOK
<1>5. Claimed = c - r /\ r <= c /\ c <= r + b
  BY <1>1, <1>2, <1>3, ClaimedIs
<1>6. Tiled(r, c, places, b, word, chunks)
  BY <1>2, <1>3 DEF TiledFrom
<1>7. b > 0 /\ r < c
  <2>1. PICK p \in places : p \in r .. c - 1
    BY <1>6 DEF Tiled
  <2> QED BY <1>4, <1>5, <2>1
<1>8. PICK w, ch : w = Freed(word, chunk.at) /\ ch = chunks \ {chunk}
  OBVIOUS
<1>9. word \in [DOMAIN word -> WordRecords]
  BY <1>1 DEF AllocatorTypeOK
<1>10. Tiled(r, c, places, b, w, ch) /\ \E p \in places : chunk.at = (p % b)
  BY <1>4, <1>6, <1>7, <1>8, <1>9, FreeTiles
<1>11. PICK p0 \in places : chunk.at = (p0 % b)
  BY <1>10
<1>12. PICK n : n = Released(w, chunk.at)
  OBVIOUS
<1>13. /\ word' = w /\ chunks' = ch /\ m_releaseIndex' = (m_releaseIndex + n) % IndexWidth
       /\ UNCHANGED <<m_bufferSize, m_maxAllocationSize, m_claimedIndex>>
       /\ waiting' = [waiting EXCEPT ![t] = IF m_releaseIndex' = m_releaseIndex THEN @ ELSE Notifying]
  BY <1>8, <1>12 DEF Release, Freed
<1>14. SamePlace(m_releaseIndex, r, b) /\ m_releaseIndex % b = r % b
  BY <1>1, <1>2, <1>3, <1>7, MaskedIs DEF TiledFrom
<1>15. \A p, q \in places : (p % b) = (q % b) => p = q
  BY <1>4, <1>6, <1>7, TiledFacts
<1>16. r \in places /\ word[r % b].allocated
  BY <1>2, <1>3, <1>6, <1>7 DEF TiledFrom, Tiled
<1>17. \A p \in places : (p % b) \in DOMAIN word
  BY <1>6 DEF Tiled
<1>18. /\ n \in Nat /\ r + n \in places \cup {c} /\ Passed(r, places, b, w, n)
       /\ r + n < c => w[(r + n) % b].allocated
  <2>1. CASE chunk.at = Masked(m_releaseIndex)
    <3>1. /\ n \in Nat /\ r + n \in places \cup {c} /\ Passed(r, places, b, w, n)
          /\ n = c - r \/ w[(r + n) % b].allocated
      <4>1. m_bufferSize \in Nat /\ m_bufferSize > 0 /\ Tiled(r, c, places, m_bufferSize, w, ch)
            /\ SamePlace(m_releaseIndex, r, m_bufferSize)
        BY <1>3, <1>4, <1>7, <1>10, <1>14
      <4> QED BY <1>3, <1>5, <1>12, <2>1, <4>1, ReleasedIs
    <3> QED BY <3>1
  <2>2. CASE chunk.at # Masked(m_releaseIndex)
    <3>1. n = 0
      BY <1>12, <2>2 DEF Released
    <3>2. p0 # r
      BY <1>3, <1>11, <1>14, <2>2 DEF Masked
    <3>3. (r % b) # chunk.at
      BY <1>11, <1>15, <1>16, <3>2
    <3>4. w[r % b] = word[r % b]
      BY <1>8, <3>3, <1>16, <1>17 DEF Freed
    <3>5. r + 0 = r /\ Passed(r, places, b, w, 0)
      <4>1. \A p \in places : p \in Nat /\ r <= p
        BY <1>4, <1>6, <1>7, TiledFacts
      <4> QED BY <4>1 DEF Passed
    <3> QED BY <1>16, <3>1, <3>4, <3>5
  <2> QED BY <2>1, <2>2
<1>19. PICK to \in Nat : to = r + n
  BY <1>18
<1>20. to \in places \cup {c} /\ \A p \in places : p < to => ~ w[p % b].allocated
  BY <1>18, <1>19 DEF Passed
<1>21. Tiled(to, c, From(places, to), b, w, ch)
  <2>1. to \in places \cup {c}
    BY <1>20
  <2>2. \A p \in places : p < to => ~ w[p % b].allocated
    BY <1>20
  <2> QED BY <1>4, <1>7, <1>10, <2>1, <2>2, CutTiles
<1>22. m_releaseIndex' = to % IndexWidth
  BY <1>2, <1>4, <1>13, <1>18, <1>19, IndexGoesOn DEF TiledFrom
<1>23. to < c => w[to % b].allocated
  BY <1>18, <1>19
<1>24. PICK ps : ps = From(places, to)
  OBVIOUS
<1>25. ps \in SUBSET Nat
  BY <1>24 DEF From
<1>26. TiledFrom(to, c, ps)'
  BY <1>2, <1>3, <1>13, <1>21, <1>22, <1>23, <1>24 DEF TiledFrom
<1>27. w \in [DOMAIN w -> WordRecords] /\ DOMAIN w = DOMAIN word
  <2>1. chunk.at \in DOMAIN word
    BY <1>11, <1>17
  <2>2. [word[chunk.at] EXCEPT !.allocated = FALSE] \in WordRecords
    BY <1>9, <2>1 DEF WordRecords
  <2> QED BY <1>8, <1>9, <2>1, <2>2 DEF Freed
<1>28. waiting' \in [Threads -> {Idle, Notifying} \cup WaitRecords]
  BY <1>1, <1>13 DEF AllocatorTypeOK
<1>29. AllocatorTypeOK'
  BY <1>1, <1>13, <1>27, <1>28 DEF AllocatorTypeOK
<1> QED BY <1>26, <1>25, <1>29 DEF AllocatorInv

-----------------------------------------------------------------------------
(* Who sleeps.                                                              *)

LEMMA AsleepIs ==
  ASSUME AllocatorTypeOK, NEW t \in Threads
  PROVE  /\ Asleep(t) <=> waiting[t] \in WaitRecords
         /\ waiting[t] # Notifying \/ ~ Asleep(t)
<1>1. waiting[t] \in {Idle, Notifying} \cup WaitRecords
  BY DEF AllocatorTypeOK
<1>2. Idle.for = "nothing" /\ Notifying.for = "unlocked"
  BY DEF Idle, Notifying
<1>3. \A w \in WaitRecords : w.for \in {"room", "resize"}
  BY DEF WaitRecords
<1> QED BY <1>1, <1>2, <1>3 DEF Asleep

\* What a thread does once it has the lock.
LEMMA TryKeeps ==
  ASSUME AllocatorInv, SleepersAreNotified, NEW t \in Threads, waiting[t] # Notifying,
         NEW w \in Wants, Try(t, w)
  PROVE  AllocatorInv' /\ SleepersAreNotified'
<1>1. AllocatorTypeOK
  BY DEF AllocatorInv
<1>2. waiting \in [Threads -> {Idle, Notifying} \cup WaitRecords]
  BY <1>1 DEF AllocatorTypeOK
<1>3. \/ w.for = "room" /\ w.size \in Nat \ {0}
      \/ w.for = "resize" /\ w.size \in Buffers
  BY DEF Wants
<1>4. CASE ~ MayGoOn(w)
  <2> DEFINE rest == [for |-> w.for, size |-> w.size, notified |-> FALSE, missed |-> FALSE]
  <2>1. /\ waiting' = [waiting EXCEPT ![t] = rest]
        /\ UNCHANGED <<m_bufferSize, m_maxAllocationSize, m_claimedIndex, m_releaseIndex, word, chunks>>
    BY <1>4 DEF Try, GoToSleep
  <2>2. rest \in WaitRecords /\ rest.for = w.for /\ rest.size = w.size
    BY <1>3 DEF WaitRecords
  <2> HIDE DEF rest
  <2>3. waiting' \in [Threads -> {Idle, Notifying} \cup WaitRecords]
    BY <1>2, <2>1, <2>2
  <2>4. AllocatorTypeOK'
    BY <1>1, <2>1, <2>3 DEF AllocatorTypeOK
  <2>5. AllocatorInv'
    <3>1. PICK r \in Nat, c \in Nat, places \in SUBSET Nat : TiledFrom(r, c, places)
      BY DEF AllocatorInv
    <3>2. TiledFrom(r, c, places)'
      BY <2>1, <3>1 DEF TiledFrom
    <3> QED BY <2>4, <3>2 DEF AllocatorInv
  <2>6. SleepersAreNotified'
    <3>1. SUFFICES ASSUME NEW u \in Threads, Asleep(u)', MayGoOn(waiting[u])'
                   PROVE  \/ waiting'[u].notified \/ waiting'[u].missed
                          \/ \E v \in Threads : waiting'[v] = Notifying
      BY DEF SleepersAreNotified
    <3>2. Claimed' = Claimed /\ GetNumAvailableBytes' = GetNumAvailableBytes
      BY <2>1 DEF Claimed, GetNumAvailableBytes
    <3>3. u # t
      <4>1. SUFFICES ASSUME u = t PROVE FALSE
        OBVIOUS
      <4>2. waiting'[u] = rest
        BY <1>2, <2>1, <4>1
      <4> QED BY <1>4, <2>1, <2>2, <3>1, <3>2, <4>2 DEF MayGoOn
    <3>4. waiting'[u] = waiting[u]
      BY <1>2, <2>1, <3>3
    <3>5. Asleep(u) /\ MayGoOn(waiting[u])
      BY <2>1, <3>1, <3>2, <3>4 DEF Asleep, MayGoOn
    <3>6. CASE \E v \in Threads : waiting[v] = Notifying
      <4>1. PICK v \in Threads : waiting[v] = Notifying
        BY <3>6
      <4>2. waiting'[v] = Notifying
        BY <1>2, <2>1, <4>1
      <4> QED BY <4>2
    <3> QED BY <3>4, <3>5, <3>6 DEF SleepersAreNotified
  <2> QED BY <2>5, <2>6
<1>5. CASE MayGoOn(w) /\ w.for = "room"
  <2>1. /\ Place(w.size)
        /\ waiting' = [u \in Threads |-> IF u = t THEN Idle ELSE waiting[u]]
    BY <1>5 DEF Try, Succeed
  <2>2. waiting' \in [Threads -> {Idle, Notifying} \cup WaitRecords]
    BY <1>2, <2>1
  <2>3. w.size \in Nat \ {0} /\ GetNumAvailableBytes >= w.size
    BY <1>3, <1>5 DEF MayGoOn
  <2>4. /\ AllocatorInv' /\ Claimed' = Claimed + w.size /\ m_bufferSize' = m_bufferSize
        /\ Claimed \in Nat /\ m_bufferSize \in Nat
        /\ m_claimedIndex' # m_releaseIndex'
    BY <2>1, <2>2, <2>3, PlaceKeeps
  <2>5. SleepersAreNotified'
    <3>1. SUFFICES ASSUME NEW u \in Threads, Asleep(u)', MayGoOn(waiting[u])'
                   PROVE  \/ waiting'[u].notified \/ waiting'[u].missed
                          \/ \E v \in Threads : waiting'[v] = Notifying
      BY DEF SleepersAreNotified
    <3>2. u # t
      <4>1. waiting'[t] = Idle /\ Idle.for = "nothing"
        BY <2>1 DEF Idle
      <4> QED BY <3>1, <4>1 DEF Asleep
    <3>3. waiting'[u] = waiting[u]
      BY <2>1, <3>2
    <3>4. Asleep(u)
      BY <3>1, <3>3 DEF Asleep
    <3>5. waiting[u].for = "room" /\ GetNumAvailableBytes' >= waiting[u].size
      BY <2>4, <3>1, <3>3, <3>4 DEF Asleep, MayGoOn
    <3>6. waiting[u].size \in Nat
      <4>1. waiting[u] \in WaitRecords
        BY <1>1, <3>4, AsleepIs
      <4> QED BY <3>5, <4>1 DEF WaitRecords
    <3>7. GetNumAvailableBytes >= waiting[u].size
      BY <2>3, <2>4, <3>5, <3>6 DEF GetNumAvailableBytes
    <3>8. MayGoOn(waiting[u])
      BY <3>5, <3>7 DEF MayGoOn
    <3>9. CASE \E v \in Threads : waiting[v] = Notifying
      <4>1. PICK v \in Threads : waiting[v] = Notifying
        BY <3>9
      <4>2. waiting'[v] = Notifying
        BY <2>1, <4>1
      <4> QED BY <4>2
    <3> QED BY <3>3, <3>4, <3>8, <3>9 DEF SleepersAreNotified
  <2> QED BY <2>4, <2>5
<1>6. CASE MayGoOn(w) /\ w.for = "resize"
  <2>1. /\ SetSize(w.size)
        /\ waiting' = [u \in Threads |-> IF u = t THEN Idle
                         ELSE IF Asleep(u) THEN [waiting[u] EXCEPT !.missed = TRUE] ELSE waiting[u]]
    BY <1>6 DEF Try, Succeed
  <2>2. ASSUME NEW u \in Threads, Asleep(u)
        PROVE  /\ [waiting[u] EXCEPT !.missed = TRUE] \in WaitRecords
               /\ [waiting[u] EXCEPT !.missed = TRUE].missed
    <3>1. waiting[u] \in WaitRecords
      BY <1>1, <2>2, AsleepIs
    <3> QED BY <3>1 DEF WaitRecords
  <2>3. waiting' \in [Threads -> {Idle, Notifying} \cup WaitRecords]
    BY <1>2, <2>1, <2>2
  <2>4. w.size \in Buffers /\ m_claimedIndex = m_releaseIndex
    BY <1>3, <1>6 DEF MayGoOn
  <2>5. AllocatorInv'
    BY <2>1, <2>3, <2>4, SetSizeKeeps
  <2>6. SleepersAreNotified'
    <3>1. SUFFICES ASSUME NEW u \in Threads, Asleep(u)' PROVE waiting'[u].missed
      BY DEF SleepersAreNotified
    <3>2. u # t
      <4>1. waiting'[t] = Idle /\ Idle.for = "nothing"
        BY <2>1 DEF Idle
      <4> QED BY <3>1, <4>1 DEF Asleep
    <3>3. CASE Asleep(u)
      BY <2>1, <2>2, <3>2, <3>3
    <3>4. CASE ~ Asleep(u)
      <4>1. waiting'[u] = waiting[u]
        BY <2>1, <3>2, <3>4
      <4> QED BY <3>1, <3>4, <4>1 DEF Asleep
    <3> QED BY <3>3, <3>4
  <2> QED BY <2>5, <2>6
<1> QED BY <1>3, <1>4, <1>5, <1>6

\* A release that gives something up is followed by its notification.
LEMMA ReleaseNotifies ==
  ASSUME AllocatorInv, SleepersAreNotified, NEW t \in Threads, NEW chunk \in chunks,
         Release(t, chunk)
  PROVE  SleepersAreNotified'
<1>1. waiting \in [Threads -> {Idle, Notifying} \cup WaitRecords]
  BY DEF AllocatorInv, AllocatorTypeOK
<1>2. /\ waiting' = [waiting EXCEPT ![t] = IF m_releaseIndex' = m_releaseIndex THEN @ ELSE Notifying]
      /\ UNCHANGED <<m_bufferSize, m_maxAllocationSize, m_claimedIndex>>
  BY DEF Release
<1>3. CASE m_releaseIndex' # m_releaseIndex
  <2>1. waiting'[t] = Notifying
    BY <1>1, <1>2, <1>3
  <2> QED BY <2>1 DEF SleepersAreNotified
<1>4. CASE m_releaseIndex' = m_releaseIndex
  <2>1. waiting' = waiting
    BY <1>1, <1>2, <1>4
  <2> QED BY <1>2, <1>4, <2>1 DEF SleepersAreNotified, Asleep, MayGoOn, GetNumAvailableBytes, Claimed
<1> QED BY <1>3, <1>4

LEMMA NotifyAllKeeps ==
  ASSUME AllocatorInv, NEW t \in Threads, NotifyAll(t)
  PROVE  AllocatorInv' /\ SleepersAreNotified'
<1>1. AllocatorTypeOK
  BY DEF AllocatorInv
<1>2. waiting \in [Threads -> {Idle, Notifying} \cup WaitRecords]
  BY <1>1 DEF AllocatorTypeOK
<1>3. /\ waiting' = [u \in Threads |-> IF u = t THEN Idle
                       ELSE IF Asleep(u) THEN [waiting[u] EXCEPT !.notified = TRUE] ELSE waiting[u]]
      /\ UNCHANGED <<m_bufferSize, m_maxAllocationSize, m_claimedIndex, m_releaseIndex, word, chunks>>
  BY DEF NotifyAll
<1>4. ASSUME NEW u \in Threads, Asleep(u)
      PROVE  /\ [waiting[u] EXCEPT !.notified = TRUE] \in WaitRecords
             /\ [waiting[u] EXCEPT !.notified = TRUE].notified
  <2>1. waiting[u] \in WaitRecords
    BY <1>1, <1>4, AsleepIs
  <2> QED BY <2>1 DEF WaitRecords
<1>5. waiting' \in [Threads -> {Idle, Notifying} \cup WaitRecords]
  BY <1>2, <1>3, <1>4
<1>6. AllocatorTypeOK'
  BY <1>1, <1>3, <1>5 DEF AllocatorTypeOK
<1>7. AllocatorInv'
  <2>1. PICK r \in Nat, c \in Nat, places \in SUBSET Nat : TiledFrom(r, c, places)
    BY DEF AllocatorInv
  <2>2. TiledFrom(r, c, places)'
    BY <1>3, <2>1 DEF TiledFrom
  <2> QED BY <1>6, <2>2 DEF AllocatorInv
<1>8. SleepersAreNotified'
  <2>1. SUFFICES ASSUME NEW u \in Threads, Asleep(u)' PROVE waiting'[u].notified
    BY DEF SleepersAreNotified
  <2>2. u # t
    <3>1. waiting'[t] = Idle /\ Idle.for = "nothing"
      BY <1>3 DEF Idle
    <3> QED BY <2>1, <3>1 DEF Asleep
  <2>3. CASE Asleep(u)
    BY <1>3, <1>4, <2>2, <2>3
  <2>4. CASE ~ Asleep(u)
    <3>1. waiting'[u] = waiting[u]
      BY <1>3, <2>2, <2>4
    <3> QED BY <2>1, <2>4, <3>1 DEF Asleep
  <2> QED BY <2>3, <2>4
<1> QED BY <1>7, <1>8

LEMMA NextAllocator ==
  ASSUME AllocatorInv, SleepersAreNotified, [NextRing]_ringVars
  PROVE  AllocatorInv' /\ SleepersAreNotified'
<1>1. AllocatorTypeOK
  BY DEF AllocatorInv
<1>2. CASE UNCHANGED ringVars
  <2>1. AllocatorTypeOK'
    BY <1>1, <1>2 DEF AllocatorTypeOK, ringVars
  <2>2. PICK r \in Nat, c \in Nat, places \in SUBSET Nat : TiledFrom(r, c, places)
    BY DEF AllocatorInv
  <2>3. TiledFrom(r, c, places)'
    BY <1>2, <2>2 DEF TiledFrom, ringVars
  <2>4. SleepersAreNotified'
    BY <1>2 DEF SleepersAreNotified, Asleep, MayGoOn, GetNumAvailableBytes, Claimed, ringVars
  <2> QED BY <2>1, <2>3, <2>4 DEF AllocatorInv
<1>3. ASSUME NEW t \in Threads, NEW n \in Requests, Allocate(t, n)
      PROVE  AllocatorInv' /\ SleepersAreNotified'
  <2> DEFINE w == [for |-> "room", size |-> n + 1]
  <2>1. n \in Nat
    BY AllocatorAssumption
  <2>2. w \in Wants
    BY <2>1 DEF Wants
  <2>3. waiting[t] # Notifying
    BY <1>3 DEF Allocate, Idle, Notifying
  <2>4. Try(t, w)
    BY <1>3 DEF Allocate
  <2> QED BY <2>2, <2>3, <2>4, TryKeeps
<1>4. ASSUME NEW t \in Threads, NEW b \in Buffers, Resize(t, b)
      PROVE  AllocatorInv' /\ SleepersAreNotified'
  <2> DEFINE w == [for |-> "resize", size |-> b]
  <2>1. w \in Wants
    BY DEF Wants
  <2>2. waiting[t] # Notifying
    BY <1>4 DEF Resize, Idle, Notifying
  <2>3. Try(t, w)
    BY <1>4 DEF Resize
  <2> QED BY <2>1, <2>2, <2>3, TryKeeps
<1>5. ASSUME NEW t \in Threads, NEW chunk \in chunks, Release(t, chunk)
      PROVE  AllocatorInv' /\ SleepersAreNotified'
  BY <1>5, ReleaseKeeps, ReleaseNotifies
<1>6. ASSUME NEW t \in Threads, Wake(t) PROVE AllocatorInv' /\ SleepersAreNotified'
  <2> DEFINE w == [for |-> waiting[t].for, size |-> waiting[t].size]
  <2>1. waiting[t] \in WaitRecords /\ waiting[t] # Notifying
    BY <1>1, <1>6, AsleepIs DEF Wake
  <2>2. w \in Wants
    BY <2>1 DEF Wants, WaitRecords
  <2>3. Try(t, w)
    BY <1>6 DEF Wake
  <2> QED BY <2>1, <2>2, <2>3, TryKeeps
<1>7. ASSUME NEW t \in Threads, NotifyAll(t) PROVE AllocatorInv' /\ SleepersAreNotified'
  BY <1>7, NotifyAllKeeps
<1> QED BY <1>2, <1>3, <1>4, <1>5, <1>6, <1>7 DEF NextRing

\* However threads allocate, sleep, release and resize: chunks are apart and in the buffer, and
\* whoever sleeps though there is room for it is told.
THEOREM RingKept == RingSpec => []RingIsKept
<1>1. InitRing => AllocatorInv /\ SleepersAreNotified
  <2>1. InitRing => SleepersAreNotified
    BY DEF InitRing, SleepersAreNotified, Asleep, Idle
  <2> QED BY <2>1, InitAllocator
<1>2. AllocatorInv /\ SleepersAreNotified /\ [NextRing]_ringVars => (AllocatorInv /\ SleepersAreNotified)'
  BY NextAllocator
<1>3. AllocatorInv /\ SleepersAreNotified => RingIsKept
  BY InvApart DEF RingIsKept
<1> QED BY <1>1, <1>2, <1>3, PTL DEF RingSpec
=============================================================================
