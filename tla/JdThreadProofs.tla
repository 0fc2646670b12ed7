--------------------------- MODULE JdThreadProofs ---------------------------
(***************************************************************************)
(* The life of any number of threads, slow or prompt, with a std::thread    *)
(* that may fail to start.  The two sides share no lock, so the invariant   *)
(* says for each state the owner has put a thread in where its runner can   *)
(* be (Lives), and for each place of the runner what it has published       *)
(* (Publishes); the owner's own place ties both to the call (Attends).      *)
(***************************************************************************)
EXTENDS JdThread, TLAPS

Lives(t) ==
    /\ t \notin pool => m_state[t] = "pending"
    /\ m_state[t] = "pending" => runner[t] = "none" /\ ~ joinable[t] /\ ~ broken[t]
    /\ m_state[t] = "running" => runner[t] # "cancelled"
    /\ m_state[t] = "quiting" => runner[t] # "cancelled" /\ target = t /\ opc \in {"poll", "join"}
    /\ m_state[t] = "quit" => runner[t] = "done" /\ ~ joinable[t]

Publishes(t) ==
    /\ exited[t] <=> runner[t] = "done"
    /\ runner[t] \in {"store", "flag", "done"} => final[t] # "none"
    /\ runner[t] \in {"flag", "done"} => result[t] = final[t]
    /\ m_state[t] = "quit" /\ handed[t] # "none" => handed[t] = final[t]
    /\ m_state[t] \notin {"quit", "zombie"} => handed[t] = "none"
    /\ ready[t] = 1 => opc = "started" /\ target = t /\ runner[t] # "begin"
    /\ runner[t] = "begin" => opc = "started" /\ target = t

Attends ==
    /\ opc \in {"started", "stop", "poll", "join", "teardown", "stopped"} => target \in JdThreads
    /\ opc = "started" => m_state[target] = "running"
    /\ opc = "poll" => m_state[target] = "quiting"
    /\ opc = "join" => m_state[target] = "quiting" /\ exited[target]
    /\ opc = "teardown" => m_state[target] \in {"quit", "zombie"}
    /\ opc = "stopped" => m_state[target] \in {"pending", "quit", "zombie"}
    /\ opc = "stop" /\ doing = "create" => exited[target]

IInv ==
    /\ ThreadTypeOK
    /\ \A t \in JdThreads : Lives(t) /\ Publishes(t)
    /\ Attends

-----------------------------------------------------------------------------
\* A step of a thread.
LEMMA RunnerKeeps ==
    ASSUME IInv, NEW t \in JdThreads, RunnerStep(t)
    PROVE  IInv'
<1> USE DEF objectVars, ownerVars, RunnerMove, OwnerMove, ThreadTypeOK, Lives, Publishes, Attends
<1>0. ThreadTypeOK /\ Attends /\ \A u \in JdThreads : Lives(u) /\ Publishes(u)
  BY DEF IInv
<1>1. CASE Begin(t)
  <2>1. ThreadTypeOK'
    BY <1>0, <1>1 DEF Results, Calls, Begin
  <2>2. ASSUME NEW u \in JdThreads PROVE Lives(u)' /\ Publishes(u)'
    BY <1>0, <1>1 DEF Begin
  <2>3. Attends'
    BY <1>0, <1>1 DEF Begin
  <2> QED
    BY <2>1, <2>2, <2>3 DEF IInv
<1>2. CASE RunReturns(t)
  <2>1. ThreadTypeOK'
    BY <1>0, <1>2 DEF Results, Calls, RunReturns
  <2>2. ASSUME NEW u \in JdThreads PROVE Lives(u)' /\ Publishes(u)'
    BY <1>0, <1>2 DEF RunReturns
  <2>3. Attends'
    BY <1>0, <1>2 DEF RunReturns
  <2> QED
    BY <2>1, <2>2, <2>3 DEF IInv
<1>3. CASE Finalize(t)
  <2>1. ThreadTypeOK'
    BY <1>0, <1>3 DEF Results, Calls, Finalize
  <2>2. ASSUME NEW u \in JdThreads PROVE Lives(u)' /\ Publishes(u)'
    <3>1. PICK r \in Results : final' = [final EXCEPT ![t] = r]
      BY <1>3 DEF Finalize
    <3>2. r # "none" /\ final'[t] = r
      BY <1>0, <3>1 DEF Results
    <3> QED
      BY <1>0, <1>3, <3>1, <3>2 DEF Finalize
  <2>3. Attends'
    BY <1>0, <1>3 DEF Finalize
  <2> QED
    BY <2>1, <2>2, <2>3 DEF IInv
<1>4. CASE StoreResult(t)
  <2>1. ThreadTypeOK'
    BY <1>0, <1>4 DEF Results, Calls, StoreResult
  <2>2. ASSUME NEW u \in JdThreads PROVE Lives(u)' /\ Publishes(u)'
    BY <1>0, <1>4 DEF StoreResult
  <2>3. Attends'
    BY <1>0, <1>4 DEF StoreResult
  <2> QED
    BY <2>1, <2>2, <2>3 DEF IInv
<1>5. CASE SetExited(t)
  <2>1. ThreadTypeOK'
    BY <1>0, <1>5 DEF Results, Calls, SetExited
  <2>2. ASSUME NEW u \in JdThreads PROVE Lives(u)' /\ Publishes(u)'
    BY <1>0, <1>5 DEF SetExited
  <2>3. Attends'
    BY <1>0, <1>5 DEF SetExited
  <2> QED
    BY <2>1, <2>2, <2>3 DEF IInv
<1>6. CASE Cancelled(t)
  <2>1. ThreadTypeOK'
    BY <1>0, <1>6 DEF Results, Calls, Cancelled
  <2>2. ASSUME NEW u \in JdThreads PROVE Lives(u)' /\ Publishes(u)'
    BY <1>0, <1>6 DEF Cancelled
  <2>3. Attends'
    BY <1>0, <1>6 DEF Cancelled
  <2> QED
    BY <2>1, <2>2, <2>3 DEF IInv
<1> QED
  BY <1>1, <1>2, <1>3, <1>4, <1>5, <1>6 DEF RunnerStep

\* A step of the owner inside a call.
LEMMA OwnerKeeps ==
    ASSUME IInv, OwnerStep
    PROVE  IInv'
<1> USE DEF objectVars, ownerVars, RunnerMove, OwnerMove, ThreadTypeOK, Lives, Publishes, Attends
<1>0. ThreadTypeOK /\ Attends /\ \A u \in JdThreads : Lives(u) /\ Publishes(u)
  BY DEF IInv
<1>1. ASSUME NEW t \in JdThreads, Skip(t) PROVE IInv'
  <2>1. ThreadTypeOK'
    BY <1>0, <1>1 DEF Results, Calls, Skip
  <2>2. ASSUME NEW u \in JdThreads PROVE Lives(u)' /\ Publishes(u)'
    BY <1>0, <1>1 DEF Skip
  <2>3. Attends'
    BY <1>0, <1>1 DEF Skip
  <2> QED
    BY <2>1, <2>2, <2>3 DEF IInv
<1>2. ASSUME NEW t \in JdThreads, Visit(t) PROVE IInv'
  <2>1. ThreadTypeOK'
    BY <1>0, <1>2 DEF Results, Calls, Visit
  <2>2. ASSUME NEW u \in JdThreads PROVE Lives(u)' /\ Publishes(u)'
    BY <1>0, <1>2 DEF Visit
  <2>3. Attends'
    BY <1>0, <1>2 DEF Visit
  <2> QED
    BY <2>1, <2>2, <2>3 DEF IInv
<1>3. ASSUME NEW t \in JdThreads, NewThread(t) PROVE IInv'
  <2>1. ThreadTypeOK'
    BY <1>0, <1>3 DEF Results, Calls, NewThread
  <2>2. ASSUME NEW u \in JdThreads PROVE Lives(u)' /\ Publishes(u)'
    BY <1>0, <1>3 DEF NewThread
  <2>3. Attends'
    BY <1>0, <1>3 DEF NewThread
  <2> QED
    BY <2>1, <2>2, <2>3 DEF IInv
<1>4. CASE EndVisits
  <2>1. ThreadTypeOK'
    BY <1>0, <1>4 DEF Results, Calls, EndVisits
  <2>2. ASSUME NEW u \in JdThreads PROVE Lives(u)' /\ Publishes(u)'
    BY <1>0, <1>4 DEF EndVisits
  <2>3. Attends'
    BY <1>0, <1>4 DEF EndVisits
  <2> QED
    BY <2>1, <2>2, <2>3 DEF IInv
<1>5. CASE Started
  <2>1. ThreadTypeOK'
    BY <1>0, <1>5 DEF Results, Calls, Started
  <2>2. ASSUME NEW u \in JdThreads PROVE Lives(u)' /\ Publishes(u)'
    BY <1>0, <1>5 DEF Started
  <2>3. Attends'
    BY <1>0, <1>5 DEF Started
  <2> QED
    BY <2>1, <2>2, <2>3 DEF IInv
<1>6. CASE StopNotRunning
  <2>1. ThreadTypeOK'
    BY <1>0, <1>6 DEF Results, Calls, StopNotRunning
  <2>2. ASSUME NEW u \in JdThreads PROVE Lives(u)' /\ Publishes(u)'
    BY <1>0, <1>6 DEF StopNotRunning
  <2>3. Attends'
    BY <1>0, <1>6 DEF StopNotRunning
  <2> QED
    BY <2>1, <2>2, <2>3 DEF IInv
<1>7. CASE Stop
  <2>1. ThreadTypeOK'
    BY <1>0, <1>7 DEF Results, Calls, Stop
  <2>2. ASSUME NEW u \in JdThreads PROVE Lives(u)' /\ Publishes(u)'
    BY <1>0, <1>7 DEF Stop
  <2>3. Attends'
    BY <1>0, <1>7 DEF Stop
  <2> QED
    BY <2>1, <2>2, <2>3 DEF IInv
<1>8. CASE DidExit
  <2>1. ThreadTypeOK'
    BY <1>0, <1>8 DEF Results, Calls, DidExit
  <2>2. ASSUME NEW u \in JdThreads PROVE Lives(u)' /\ Publishes(u)'
    BY <1>0, <1>8 DEF DidExit
  <2>3. Attends'
    BY <1>0, <1>8 DEF DidExit
  <2> QED
    BY <2>1, <2>2, <2>3 DEF IInv
<1>9. CASE WaitOver
  <2>1. ThreadTypeOK'
    BY <1>0, <1>9 DEF Results, Calls, WaitOver
  <2>2. ASSUME NEW u \in JdThreads PROVE Lives(u)' /\ Publishes(u)'
    BY <1>0, <1>9 DEF WaitOver
  <2>3. Attends'
    BY <1>0, <1>9 DEF WaitOver
  <2> QED
    BY <2>1, <2>2, <2>3 DEF IInv
<1>10. CASE Join
  <2>1. ThreadTypeOK'
    BY <1>0, <1>10 DEF Results, Calls, Join
  <2>2. ASSUME NEW u \in JdThreads PROVE Lives(u)' /\ Publishes(u)'
    BY <1>0, <1>10 DEF Join
  <2>3. Attends'
    BY <1>0, <1>10 DEF Join
  <2> QED
    BY <2>1, <2>2, <2>3 DEF IInv
<1>11. CASE Teardown
  <2>1. ThreadTypeOK'
    BY <1>0, <1>11 DEF Results, Calls, Teardown
  <2>2. ASSUME NEW u \in JdThreads PROVE Lives(u)' /\ Publishes(u)'
    BY <1>0, <1>11 DEF Teardown
  <2>3. Attends'
    BY <1>0, <1>11 DEF Teardown
  <2> QED
    BY <2>1, <2>2, <2>3 DEF IInv
<1>12. CASE StopReturns
  <2>1. ThreadTypeOK'
    BY <1>0, <1>12 DEF Results, Calls, StopReturns
  <2>2. ASSUME NEW u \in JdThreads PROVE Lives(u)' /\ Publishes(u)'
    BY <1>0, <1>12 DEF StopReturns
  <2>3. Attends'
    BY <1>0, <1>12 DEF StopReturns
  <2> QED
    BY <2>1, <2>2, <2>3 DEF IInv
<1>13. CASE Renew
  <2>1. ThreadTypeOK'
    <3>1. opc' = "idle" /\ UNCHANGED <<doing, target, todo>>
      BY <1>13 DEF Renew
    <3>2. CASE UNCHANGED <<pool, objectVars>>
      BY <1>0, <3>1, <3>2
    <3>3. CASE pool' \subseteq pool /\ Fresh(target)
      BY <1>0, <3>1, <3>3 DEF Results, Fresh, FreshBut
    <3> QED
      BY <1>13, <3>2, <3>3 DEF Renew
  <2>2. ASSUME NEW u \in JdThreads PROVE Lives(u)' /\ Publishes(u)'
    BY <1>0, <1>13 DEF Renew, Fresh, FreshBut
  <2>3. Attends'
    BY <1>0, <1>13 DEF Renew, Fresh, FreshBut
  <2> QED
    BY <2>1, <2>2, <2>3 DEF IInv
<1>14. CASE Delete
  <2>1. ThreadTypeOK'
    <3>1. opc' \in {"idle", "visit", "aborted"} /\ UNCHANGED <<doing, target, todo>>
      BY <1>14 DEF Delete
    <3>2. CASE UNCHANGED <<pool, objectVars>>
      BY <1>0, <3>1, <3>2
    <3>3. CASE pool' \subseteq pool /\ Fresh(target)
      BY <1>0, <3>1, <3>3 DEF Results, Fresh, FreshBut
    <3> QED
      BY <1>14, <3>2, <3>3 DEF Delete
  <2>2. ASSUME NEW u \in JdThreads PROVE Lives(u)' /\ Publishes(u)'
    BY <1>0, <1>14 DEF Delete, Fresh, FreshBut
  <2>3. Attends'
    BY <1>0, <1>14 DEF Delete, Fresh, FreshBut
  <2> QED
    BY <2>1, <2>2, <2>3 DEF IInv
<1> QED
  BY <1>1, <1>2, <1>3, <1>4, <1>5, <1>6, <1>7, <1>8, <1>9, <1>10, <1>11, <1>12, <1>13, <1>14 DEF OwnerStep

\* A call of the owner.
LEMMA CallKeeps ==
    ASSUME IInv, OwnerCall
    PROVE  IInv'
<1> USE DEF objectVars, ownerVars, RunnerMove, OwnerMove, ThreadTypeOK, Lives, Publishes, Attends
<1>0. ThreadTypeOK /\ Attends /\ \A u \in JdThreads : Lives(u) /\ Publishes(u)
  BY DEF IInv
<1>1. ASSUME NEW call \in Calls, CallPool(call) PROVE IInv'
  <2>1. ThreadTypeOK'
    BY <1>0, <1>1 DEF Results, Calls, CallPool
  <2>2. ASSUME NEW u \in JdThreads PROVE Lives(u)' /\ Publishes(u)'
    BY <1>0, <1>1 DEF CallPool
  <2>3. Attends'
    BY <1>0, <1>1 DEF CallPool
  <2> QED
    BY <2>1, <2>2, <2>3 DEF IInv
<1>2. ASSUME NEW call \in Calls, NEW t \in JdThreads, CallThread(call, t) PROVE IInv'
  <2>1. ThreadTypeOK'
    BY <1>0, <1>2 DEF Results, Calls, CallThread
  <2>2. ASSUME NEW u \in JdThreads PROVE Lives(u)' /\ Publishes(u)'
    BY <1>0, <1>2 DEF CallThread
  <2>3. Attends'
    BY <1>0, <1>2 DEF CallThread
  <2> QED
    BY <2>1, <2>2, <2>3 DEF IInv
<1>3. ASSUME NEW t \in JdThreads, Start(t) PROVE IInv'
  <2>1. ThreadTypeOK'
    BY <1>0, <1>3 DEF Results, Calls, Start
  <2>2. ASSUME NEW u \in JdThreads PROVE Lives(u)' /\ Publishes(u)'
    BY <1>0, <1>3 DEF Start
  <2>3. Attends'
    BY <1>0, <1>3 DEF Start
  <2> QED
    BY <2>1, <2>2, <2>3 DEF IInv
<1>4. ASSUME NEW t \in JdThreads, StartFails(t) PROVE IInv'
  <2>1. ThreadTypeOK'
    BY <1>0, <1>4 DEF Results, Calls, StartFails
  <2>2. ASSUME NEW u \in JdThreads PROVE Lives(u)' /\ Publishes(u)'
    BY <1>0, <1>4 DEF StartFails
  <2>3. Attends'
    BY <1>0, <1>4 DEF StartFails
  <2> QED
    BY <2>1, <2>2, <2>3 DEF IInv
<1> QED
  BY <1>1, <1>2, <1>3, <1>4 DEF OwnerCall

\* The inductive invariant holds in every state.
THEOREM Invariance == ThreadSpec => []IInv
<1>1. ThreadInit => IInv
  BY DEF ThreadInit, IInv, ThreadTypeOK, Lives, Publishes, Attends, Results, Calls
<1>2. IInv /\ ThreadNext => IInv'
  BY RunnerKeeps, OwnerKeeps, CallKeeps DEF ThreadNext
<1>3. IInv /\ UNCHANGED threadVars => IInv'
  BY DEF threadVars, objectVars, ownerVars, IInv, ThreadTypeOK, Lives, Publishes, Attends
<1> QED
  BY <1>1, <1>2, <1>3, PTL DEF ThreadSpec

-----------------------------------------------------------------------------
\* Every state is well typed: m_threadReady never holds two permits.
THEOREM TypeCorrect == ThreadSpec => []ThreadTypeOK
  BY Invariance, PTL DEF IInv

\* m_exited is set only by a thread that has stored what Finalize returned.
THEOREM ExitedIsFinal == ThreadSpec => []ExitedHasFinished
<1>1. IInv => ExitedHasFinished
  BY DEF IInv, Publishes, ExitedHasFinished
<1> QED
  BY <1>1, Invariance, PTL

\* A thread in pending or quit has nothing running: it can be deleted or reset.
THEOREM NothingLeft == ThreadSpec => []NoThreadLeft
<1>1. IInv => NoThreadLeft
  BY DEF IInv, Lives, NoThreadLeft
<1> QED
  BY <1>1, Invariance, PTL

\* Teardown of a thread that quit is given what its Finalize returned.
THEOREM ResultHandedOn == ThreadSpec => []TeardownGetsResult
<1>1. IInv => TeardownGetsResult
  BY DEF IInv, Publishes, TeardownGetsResult
<1> QED
  BY <1>1, Invariance, PTL

\* CreateThread stops no thread that is still in its Run.
THEOREM Grooming == ThreadSpec => GroomsOnlyDead
<1>1. ASSUME IInv, [ThreadNext]_threadVars, doing = "create",
             NEW t \in JdThreads, m_state[t] = "running", m_state'[t] # "running"
      PROVE  runner[t] = "done"
  <2>1. CASE Stop
    <3>1. t = target /\ exited[target]
      BY <1>1, <2>1 DEF Stop, OwnerMove, IInv, ThreadTypeOK, Attends
    <3> QED
      BY <1>1, <3>1 DEF IInv, Publishes
  <2>2. ~ UNCHANGED m_state
    BY <1>1
  <2>3. ASSUME Renew \/ Delete \/ WaitOver \/ Join PROVE FALSE
    <3>1. target \in JdThreads /\ m_state[target] # "running" /\ m_state'[t] = m_state[t]
      BY <1>1, <2>3 DEF IInv, ThreadTypeOK, Attends, Renew, Delete, WaitOver, Join, OwnerMove, Fresh,
         FreshBut, objectVars
    <3> QED
      BY <1>1, <3>1
  <2>4. ASSUME NEW u \in JdThreads, Start(u) \/ StartFails(u) PROVE FALSE
    BY <1>1, <2>4 DEF IInv, ThreadTypeOK, Start, StartFails
  <2>5. CASE ThreadNext
    BY <2>1, <2>2, <2>3, <2>4, <2>5 DEF ThreadNext, RunnerStep, OwnerStep, OwnerCall, Begin,
       RunReturns, Finalize, StoreResult, SetExited, Cancelled, Skip, Visit, NewThread,
       EndVisits, Started, StopNotRunning, DidExit, Teardown, StopReturns, CallPool,
       CallThread, objectVars
  <2> QED
    BY <1>1, <2>2, <2>5 DEF threadVars, objectVars
<1>2. IInv /\ [ThreadNext]_threadVars =>
        (\A t \in JdThreads : doing = "create" /\ m_state[t] = "running" /\ m_state'[t] # "running"
           => runner[t] = "done")
  BY <1>1
<1> QED
  BY <1>2, Invariance, PTL DEF ThreadSpec, GroomsOnlyDead
=============================================================================
