------------------------ MODULE SynchronizationProofs ------------------------
(***************************************************************************)
(* The two ways threads meet without a queue: the bank switch, which has no *)
(* mutex, and the semaphore.                                                *)
(*                                                                          *)
(* The switch is safe for every number of words and of versions: TypeOK,    *)
(* the opposite-bank rule, no torn read, and the refinement of LatestValue, *)
(* all from one inductive invariant.                                        *)
(*                                                                          *)
(* No wake-up of the semaphore is lost, for any number of threads and any   *)
(* i_count, as long as timed waits are one thread's.                        *)
(***************************************************************************)
EXTENDS JdAtomicBankSwitch, JdSemaphore, FiniteSetTheorems, TLAPS

-----------------------------------------------------------------------------
(* JdAtomicBankSwitch                                                       *)

\* The version the reader's bank holds, if it holds a whole one.
heldVersion == bank[readerBank][CHOOSE w \in Words : TRUE]

\* While the writer has a bank there is no signal, so the reader cannot swap.
WriterOwnsItsBank ==
    wpc \in {"fill", "copy", "signal"} =>
        /\ ~ state.signaled
        /\ acquired = state.writeBank

\* A pending exchange was begun on a state that had the signal.
PendingExchanges ==
    /\ wpc = "clear" => wseen.signaled
    /\ rpc = "swap" => rseen.signaled

\* The words already copied are those of the version being released.
CopyProgress ==
    /\ wpc = "copy" =>
        /\ bank[2] = Filled(released + 1)
        /\ \A w \in Words \ toCopy : bank[acquired][w] = released + 1
    /\ wpc = "signal" => bank[acquired] = Filled(released + 1)

\* The reader's bank holds one version, and what was read is part of it.
ReaderBankWhole ==
    /\ bank[readerBank] = Filled(heldVersion)
    /\ rpc = "use" => rbank = readerBank
    /\ \A w \in Words :
        got[w] # NoVersion => rpc = "use" /\ got[w] = heldVersion

IInv ==
    /\ TypeOK
    /\ WriterOwnsItsBank
    /\ PendingExchanges
    /\ CopyProgress
    /\ SignalMeansLatest
    /\ ReaderBankWhole

-----------------------------------------------------------------------------
\* Type correctness of every step, used by all that follows: each variable of
\* the switch, the writer and the reader keeps its range.
LEMMA TypeInvariance == TypeOK /\ [Next]_vars => TypeOK'
<1> SUFFICES ASSUME TypeOK, [Next]_vars PROVE TypeOK'
  OBVIOUS
<1> USE DEF TypeOK, SwitchState, Filled, NothingRead, writerVars, readerVars
<1>1. CASE AcquireWriteBank
  BY <1>1 DEF AcquireWriteBank
<1>2. CASE LoadForWrite
  BY <1>2 DEF LoadForWrite
<1>3. CASE ClearSignal
  <2>1. [signaled |-> FALSE, writeBank |-> wseen.writeBank] \in SwitchState
    OBVIOUS
  <2>2. state' \in SwitchState
    BY <1>3, <2>1 DEF ClearSignal
  <2> QED
    BY <1>3, <2>2 DEF ClearSignal
<1>4. CASE FillStagingBank
  BY <1>4 DEF FillStagingBank
<1>5. CASE ReleaseWrite
  <2>1. state' \in SwitchState
    BY <1>5 DEF ReleaseWrite
  <2> QED
    BY <1>5, <2>1 DEF ReleaseWrite
<1>6. ASSUME NEW w \in Words, CopyWord(w) PROVE TypeOK'
  BY <1>6 DEF CopyWord
<1>7. CASE GetReadBank
  BY <1>7 DEF GetReadBank
<1>8. CASE LoadForRead
  BY <1>8 DEF LoadForRead
<1>9. CASE SwapBanks
  <2>1. [signaled |-> FALSE, writeBank |-> 1 - rseen.writeBank] \in SwitchState
    OBVIOUS
  <2>2. state' \in SwitchState
    BY <1>9, <2>1 DEF SwapBanks
  <2> QED
    BY <1>9, <2>2 DEF SwapBanks
<1>10. CASE ReloadForRead
  BY <1>10 DEF ReloadForRead
<1>11. ASSUME NEW w \in Words, ReadWord(w) PROVE TypeOK'
  BY <1>11 DEF ReadWord
<1>12. CASE UNCHANGED vars
  BY <1>12 DEF vars
<1> QED
  BY <1>1, <1>2, <1>3, <1>4, <1>5, <1>6, <1>7, <1>8, <1>9, <1>10, <1>11, <1>12
     DEF Next, Writer, Reader

\* TypeOK of the specification, for every set of words and bound on versions.
THEOREM TypeCorrect == Spec => []TypeOK
<1>1. Init => TypeOK
  BY DEF Init, TypeOK, SwitchState, Filled, NothingRead
<1> QED
  BY <1>1, TypeInvariance, PTL DEF Spec

-----------------------------------------------------------------------------
\* The banks and their words, in the two forms the steps below need them.
LEMMA FilledWord ==
    ASSUME NEW v, NEW w \in Words
    PROVE  Filled(v)[w] = v
  BY DEF Filled

LEMMA AWord == (CHOOSE w \in Words : TRUE) \in Words
  BY WordsAssumption

LEMMA WholeBank ==
    ASSUME NEW b \in [Words -> Nat], NEW v, \A w \in Words : b[w] = v
    PROVE  b = Filled(v)
  BY DEF Filled

LEMMA InitIInv == Init => IInv
<1> SUFFICES ASSUME Init PROVE IInv
  OBVIOUS
<1>1. TypeOK
  BY DEF Init, TypeOK, SwitchState, Filled, NothingRead
<1>2. bank[readerBank] = Filled(0) /\ heldVersion = 0
  BY AWord, FilledWord DEF Init, readerBank, heldVersion
<1>3. ReaderBankWhole
  BY <1>2 DEF Init, ReaderBankWhole, NothingRead
<1> QED
  BY <1>1, <1>3 DEF Init, IInv, WriterOwnsItsBank, PendingExchanges,
     CopyProgress, SignalMeansLatest

\* A step that leaves m_state, the banks and the reader alone leaves what the
\* reader holds alone.
LEMMA ReaderUndisturbed ==
    ASSUME ReaderBankWhole, UNCHANGED readerVars,
           readerBank' = readerBank, bank'[readerBank] = bank[readerBank]
    PROVE  ReaderBankWhole'
<1>1. heldVersion' = heldVersion
  BY DEF heldVersion
<1> QED
  BY <1>1 DEF ReaderBankWhole, readerVars

LEMMA WriterStep == IInv /\ Writer => IInv'
<1> SUFFICES ASSUME IInv, Writer PROVE IInv'
  OBVIOUS
<1> USE DEF IInv
<1>0. TypeOK'
  BY TypeInvariance DEF Next
<1>1. CASE AcquireWriteBank
  <2>1. ReaderBankWhole'
    BY <1>1, ReaderUndisturbed DEF AcquireWriteBank, readerBank
  <2> QED
    BY <1>0, <1>1, <2>1 DEF AcquireWriteBank, WriterOwnsItsBank, PendingExchanges,
       CopyProgress, SignalMeansLatest, readerVars
<1>2. CASE LoadForWrite
  <2>1. ReaderBankWhole'
    BY <1>2, ReaderUndisturbed DEF LoadForWrite, readerBank
  <2> QED
    BY <1>0, <1>2, <2>1 DEF LoadForWrite, WriterOwnsItsBank, PendingExchanges,
       CopyProgress, SignalMeansLatest, readerVars
<1>3. CASE ClearSignal
  <2>1. state'.writeBank = state.writeBank /\ (state'.signaled => state.signaled)
    BY <1>3 DEF ClearSignal
  <2>2. ReaderBankWhole'
    BY <1>3, <2>1, ReaderUndisturbed DEF ClearSignal, readerBank
  <2> QED
    BY <1>0, <1>3, <2>1, <2>2 DEF ClearSignal, WriterOwnsItsBank, PendingExchanges,
       CopyProgress, SignalMeansLatest, readerVars
<1>4. CASE FillStagingBank
  <2>1. bank'[2] = Filled(released + 1) /\ bank'[0] = bank[0] /\ bank'[1] = bank[1]
    BY <1>4 DEF FillStagingBank, TypeOK
  <2>2. state' = state /\ state.writeBank \in {0, 1} /\ readerBank \in {0, 1}
    BY <1>4 DEF FillStagingBank, TypeOK, SwitchState, readerBank
  <2>3. ReaderBankWhole'
    BY <1>4, <2>1, <2>2, ReaderUndisturbed DEF FillStagingBank, readerBank
  <2>4. CopyProgress'
    BY <1>4, <2>1 DEF FillStagingBank, CopyProgress
  <2>5. SignalMeansLatest'
    BY <1>4, <2>1, <2>2 DEF FillStagingBank, SignalMeansLatest
  <2> QED
    BY <1>0, <1>4, <2>3, <2>4, <2>5
       DEF FillStagingBank, WriterOwnsItsBank, PendingExchanges, readerVars
<1>5. CASE ReleaseWrite
  <2>1. state'.writeBank = state.writeBank
    BY <1>5 DEF ReleaseWrite, TypeOK, SwitchState
  <2>2. ReaderBankWhole'
    BY <1>5, <2>1, ReaderUndisturbed DEF ReleaseWrite, readerBank
  <2>3. SignalMeansLatest'
    BY <1>5, <2>1 DEF ReleaseWrite, SignalMeansLatest, CopyProgress, WriterOwnsItsBank
  <2> QED
    BY <1>0, <1>5, <2>2, <2>3
       DEF ReleaseWrite, WriterOwnsItsBank, PendingExchanges, CopyProgress, readerVars
<1>6. ASSUME NEW w \in Words, CopyWord(w) PROVE IInv'
  <2>1. /\ state' = state /\ ~ state.signaled
        /\ acquired' = acquired /\ acquired = state.writeBank
        /\ released' = released /\ bank[2] = Filled(released + 1)
    BY <1>6 DEF CopyWord, WriterOwnsItsBank, CopyProgress
  <2>2. /\ acquired \in {0, 1} /\ readerBank \in {0, 1} /\ acquired # readerBank
    BY <2>1 DEF TypeOK, SwitchState, readerBank
  <2>3. /\ bank'[2] = bank[2]
        /\ bank'[readerBank] = bank[readerBank]
        /\ bank'[acquired] = [bank[acquired] EXCEPT ![w] = released + 1]
    BY <1>6, <2>1, <2>2, FilledWord DEF CopyWord, TypeOK
  <2>4. \A x \in Words \ toCopy' : bank'[acquired][x] = released + 1
    BY <1>6, <2>2, <2>3 DEF CopyWord, CopyProgress, TypeOK
  <2>5. wpc' = "signal" => bank'[acquired] = Filled(released + 1)
    <3> SUFFICES ASSUME wpc' = "signal" PROVE bank'[acquired] = Filled(released + 1)
      OBVIOUS
    <3>1. toCopy' = {}
      BY <1>6 DEF CopyWord
    <3>2. bank'[acquired] \in [Words -> Nat]
      BY <1>0, <2>2 DEF TypeOK
    <3> QED
      BY <2>4, <3>1, <3>2, WholeBank
  <2>6. CopyProgress'
    BY <2>1, <2>3, <2>4, <2>5 DEF CopyProgress
  <2>7. ReaderBankWhole'
    BY <1>6, <2>1, <2>3, ReaderUndisturbed DEF CopyWord, readerBank
  <2> QED
    BY <1>0, <1>6, <2>1, <2>6, <2>7
       DEF CopyWord, WriterOwnsItsBank, PendingExchanges, SignalMeansLatest, readerVars
<1> QED
  BY <1>1, <1>2, <1>3, <1>4, <1>5, <1>6 DEF Writer

LEMMA ReaderStep == IInv /\ Reader => IInv'
<1> SUFFICES ASSUME IInv, Reader PROVE IInv'
  OBVIOUS
<1> USE DEF IInv
<1>0. TypeOK'
  BY TypeInvariance DEF Next
<1>1. CASE GetReadBank
  <2>1. ReaderBankWhole'
    BY <1>1 DEF GetReadBank, ReaderBankWhole, heldVersion, readerBank, NothingRead
  <2> QED
    BY <1>0, <1>1, <2>1 DEF GetReadBank, WriterOwnsItsBank, PendingExchanges,
       CopyProgress, SignalMeansLatest, writerVars
<1>2. CASE LoadForRead
  <2>1. ReaderBankWhole'
    BY <1>2 DEF LoadForRead, ReaderBankWhole, heldVersion, readerBank, TypeOK
  <2> QED
    BY <1>0, <1>2, <2>1 DEF LoadForRead, WriterOwnsItsBank, PendingExchanges,
       CopyProgress, SignalMeansLatest, writerVars
<1>3. CASE SwapBanks
  <2>1. got' = got /\ rpc # "use" /\ rpc' = "reload" /\ bank' = bank
    BY <1>3 DEF SwapBanks
  <2>2. \A w \in Words : got[w] = NoVersion
    BY <2>1 DEF ReaderBankWhole
  <2>3. bank'[readerBank'] = Filled(heldVersion')
    <3>1. CASE state' = state
      BY <2>1, <3>1 DEF ReaderBankWhole, heldVersion, readerBank
    <3>2. CASE state' # state
      <4>1. readerBank' = state.writeBank /\ state.signaled
        BY <1>3, <3>2 DEF SwapBanks, readerBank, PendingExchanges, TypeOK, SwitchState
      <4>2. bank[state.writeBank] = Filled(released)
        BY <4>1 DEF SignalMeansLatest
      <4>3. heldVersion' = released
        BY <2>1, <4>1, <4>2, AWord, FilledWord DEF heldVersion
      <4> QED
        BY <2>1, <4>1, <4>2, <4>3
    <3> QED
      BY <3>1, <3>2
  <2>4. ReaderBankWhole'
    BY <2>1, <2>2, <2>3 DEF ReaderBankWhole
  <2>5. state' # state => state.signaled /\ ~ state'.signaled
    BY <1>3 DEF SwapBanks, PendingExchanges
  <2> QED
    BY <1>0, <1>3, <2>4, <2>5 DEF SwapBanks, WriterOwnsItsBank, PendingExchanges,
       CopyProgress, SignalMeansLatest, writerVars
<1>4. CASE ReloadForRead
  <2>1. ReaderBankWhole'
    BY <1>4 DEF ReloadForRead, ReaderBankWhole, heldVersion, readerBank, TypeOK
  <2> QED
    BY <1>0, <1>4, <2>1 DEF ReloadForRead, WriterOwnsItsBank, PendingExchanges,
       CopyProgress, SignalMeansLatest, writerVars
<1>5. ASSUME NEW w \in Words, ReadWord(w) PROVE IInv'
  <2>1. bank[rbank][w] = heldVersion
    BY <1>5, FilledWord DEF ReadWord, ReaderBankWhole
  <2>2. ReaderBankWhole'
    BY <1>5, <2>1 DEF ReadWord, ReaderBankWhole, heldVersion, readerBank, TypeOK
  <2> QED
    BY <1>0, <1>5, <2>2 DEF ReadWord, WriterOwnsItsBank, PendingExchanges,
       CopyProgress, SignalMeansLatest, writerVars
<1> QED
  BY <1>1, <1>2, <1>3, <1>4, <1>5 DEF Reader

LEMMA StutterIInv == IInv /\ UNCHANGED vars => IInv'
  BY DEF vars, writerVars, readerVars, IInv, TypeOK, WriterOwnsItsBank,
     PendingExchanges, CopyProgress, SignalMeansLatest, ReaderBankWhole,
     heldVersion, readerBank

\* The inductive invariant holds in every reachable state.
THEOREM Invariance == Spec => []IInv
  BY InitIInv, WriterStep, ReaderStep, StutterIInv, PTL DEF Spec, Next

-----------------------------------------------------------------------------
\* OppositeBanks: the writer is never in the bank the reader is using.
THEOREM Opposite == Spec => []OppositeBanks
<1>1. IInv => OppositeBanks
  BY DEF IInv, TypeOK, SwitchState, WriterOwnsItsBank, ReaderBankWhole,
     OppositeBanks, readerBank
<1> QED
  BY <1>1, Invariance, PTL

\* NoTornRead: the words read between two GetReadBank calls are of one version.
THEOREM Untorn == Spec => []NoTornRead
<1>1. IInv => NoTornRead
  BY DEF IInv, ReaderBankWhole, NoTornRead
<1> QED
  BY <1>1, Invariance, PTL

\* SignalMeansLatest: what the signal offers is complete and the latest.
THEOREM SignalComplete == Spec => []SignalMeansLatest
<1>1. IInv => SignalMeansLatest
  BY DEF IInv
<1> QED
  BY <1>1, Invariance, PTL

\* ReaderBankStable: no step changes the bank in the reader's hands.
THEOREM BankStable == Spec => ReaderBankStable
<1>1. ASSUME IInv, [Next]_vars, rpc = "use", rpc' = "use"
      PROVE  bank'[rbank] = bank[rbank]
  <2>1. rbank = readerBank /\ rbank \in {0, 1}
    BY <1>1 DEF IInv, TypeOK, ReaderBankWhole
  <2>2. ASSUME FillStagingBank PROVE bank'[rbank] = bank[rbank]
    BY <2>1, <2>2, <1>1 DEF FillStagingBank, IInv, TypeOK
  <2>3. ASSUME NEW w \in Words, CopyWord(w) PROVE bank'[rbank] = bank[rbank]
    BY <2>1, <2>3, <1>1
       DEF CopyWord, IInv, TypeOK, SwitchState, WriterOwnsItsBank, readerBank
  <2> QED
    BY <1>1, <2>2, <2>3 DEF Next, Writer, Reader, AcquireWriteBank, LoadForWrite,
       ClearSignal, ReleaseWrite, GetReadBank, LoadForRead, SwapBanks,
       ReloadForRead, ReadWord, vars
<1>2. IInv /\ [Next]_vars
        => [rpc = "use" /\ rpc' = "use" => bank'[rbank] = bank[rbank]]_vars
  BY <1>1
<1> QED
  BY <1>2, Invariance, PTL DEF Spec, ReaderBankStable

-----------------------------------------------------------------------------
\* Steps that change neither m_state, nor a version released, nor the banks'
\* whole versions are stuttering steps of LatestValue.
LEMMA RefinementStutter ==
    ASSUME UNCHANGED <<state, released>>,
           bank'[readerBank] = bank[readerBank]
    PROVE  UNCHANGED Latest!lvVars
  BY DEF Latest!lvVars, readerBank

\* ImplementsLatestValue: the bits and banks behave as the register of
\* LatestValue, whatever the interleaving and the spurious failures.
THEOREM Refinement == Spec => ImplementsLatestValue
<1>1. Init => Latest!LVInit
  BY AWord, FilledWord DEF Init, Latest!LVInit, readerBank
<1>2. ASSUME IInv, IInv', [Next]_vars PROVE [Latest!LVNext]_(Latest!lvVars)
  <2> USE <1>2 DEF IInv
  <2>0. readerBank \in {0, 1} /\ released \in Nat /\ released # NoVersion
    BY NoVersionAssumption DEF TypeOK, SwitchState, readerBank
  <2>1. CASE ClearSignal
    <3>1. CASE state' = state
      BY <2>1, <3>1, RefinementStutter DEF ClearSignal
    <3>2. CASE state' # state
      <4>1. state.signaled /\ ~ state'.signaled /\ readerBank' = readerBank
        BY <2>1, <3>2 DEF ClearSignal, PendingExchanges, readerBank
      <4> QED
        BY <2>0, <2>1, <4>1 DEF ClearSignal, Latest!LVNext, Latest!Withdraw
    <3> QED
      BY <3>1, <3>2
  <2>2. CASE SwapBanks
    <3>1. CASE state' = state
      BY <2>2, <3>1, RefinementStutter DEF SwapBanks, writerVars
    <3>2. CASE state' # state
      <4>1. /\ state.signaled /\ ~ state'.signaled
            /\ readerBank' = state.writeBank
        BY <2>2, <3>2 DEF SwapBanks, PendingExchanges, readerBank, TypeOK, SwitchState
      <4>2. bank[state.writeBank] = Filled(released)
        BY <4>1 DEF SignalMeansLatest
      <4>3. bank'[readerBank'][CHOOSE w \in Words : TRUE] = released
        BY <2>2, <4>1, <4>2, AWord, FilledWord DEF SwapBanks
      <4> QED
        BY <2>0, <2>2, <4>1, <4>3
           DEF SwapBanks, writerVars, Latest!LVNext, Latest!Take
    <3> QED
      BY <3>1, <3>2
  <2>3. CASE ReleaseWrite
    <3>1. state'.signaled /\ readerBank' = readerBank
      BY <2>3 DEF ReleaseWrite, TypeOK, SwitchState, readerBank
    <3> QED
      BY <2>3, <3>1 DEF ReleaseWrite, Latest!LVNext, Latest!Publish
  <2>4. CASE FillStagingBank
    BY <2>0, <2>4, RefinementStutter DEF FillStagingBank, TypeOK
  <2>5. ASSUME NEW w \in Words, CopyWord(w)
        PROVE  UNCHANGED Latest!lvVars
    <3>1. bank'[readerBank] = bank[readerBank]
      BY <2>5 DEF CopyWord, TypeOK, SwitchState, WriterOwnsItsBank, readerBank
    <3> QED
      BY <2>5, <3>1, RefinementStutter DEF CopyWord
  <2>6. ASSUME \/ AcquireWriteBank \/ LoadForWrite \/ GetReadBank \/ LoadForRead
               \/ ReloadForRead \/ (\E w \in Words : ReadWord(w)) \/ UNCHANGED vars
        PROVE  UNCHANGED Latest!lvVars
    <3>1. UNCHANGED <<state, released, bank>>
      BY <2>6 DEF AcquireWriteBank, LoadForWrite, GetReadBank, LoadForRead,
         ReloadForRead, ReadWord, vars, writerVars
    <3> QED
      BY <3>1, RefinementStutter
  <2> QED
    BY <2>1, <2>2, <2>3, <2>4, <2>5, <2>6 DEF Next, Writer, Reader
<1> QED
  BY <1>1, <1>2, Invariance, PTL DEF Spec, ImplementsLatestValue, Latest!LVSpec

\* ReadsGoForward: whatever the writer does and however exchanges fail, the
\* reader is never handed a version older than the one it holds.
THEOREM Forward == Spec => ReadsGoForward
<1> DEFINE Released == released \in Nat /\ heldVersion \in 0..released
<1>1. IInv => heldVersion \in Nat /\ released \in Nat
  BY AWord DEF IInv, TypeOK, SwitchState, heldVersion, readerBank
<1>2. Init => Released
  BY AWord, FilledWord DEF Init, heldVersion, readerBank
<1>3. ASSUME IInv, IInv', Released, [Latest!LVNext]_(Latest!lvVars)
      PROVE  Released' /\ heldVersion' >= heldVersion
  BY <1>1, <1>3, NoVersionAssumption DEF Latest!LVNext, Latest!Publish,
     Latest!Withdraw, Latest!Take, Latest!lvVars, heldVersion
<1>4. IInv /\ IInv' /\ Released /\ [Latest!LVNext]_(Latest!lvVars)
        => Released' /\ [heldVersion' >= heldVersion]_(Latest!lvVars)
  BY <1>3
<1> HIDE DEF Released
<1>5. Spec => [][heldVersion' >= heldVersion]_(Latest!lvVars)
  BY <1>2, <1>4, Invariance, Refinement, PTL
     DEF Spec, ImplementsLatestValue, Latest!LVSpec
<1> QED
  BY <1>5 DEF ReadsGoForward, Latest!NeverBackwards, heldVersion

-----------------------------------------------------------------------------
(* JdSemaphore                                                              *)

\* A thread waits only if it may, and is late only in a timed call.
Roles ==
    \A t \in Threads :
        /\ pc[t] # "idle" => op[t] \in Ops
        /\ pc[t] # "idle" /\ op[t] \in UntimedWaits \cup TimedWaits => t \in waiters
        /\ pc[t] \in {"asleep", "woken", "late"} => t \in waiters
        /\ pc[t] # "idle" /\ op[t] \in TimedWaits => waiters = {t}

SemaphoreInv == SemaphoreTypeOK /\ Roles /\ LockedIsExclusive /\ NoLostWakeup

LEMMA FiniteWoken ==
    /\ IsFiniteSet(Woken) /\ Cardinality(Woken) \in Nat
    /\ IsFiniteSet(Woken') /\ Cardinality(Woken') \in Nat
<1>1. IsFiniteSet(Woken)
  BY ThreadsAssumption, FS_Subset DEF Woken
<1>2. IsFiniteSet(Woken')
  BY ThreadsAssumption, FS_Subset DEF Woken
<1> QED
  BY <1>1, <1>2, FS_CardinalityType

\* SemaphoreTypeOK: every variable keeps its range; the count is never negative.
LEMMA SemaphoreTypeStep == SemaphoreTypeOK /\ [SemaphoreNext]_semaphoreVars => SemaphoreTypeOK'
<1> SUFFICES ASSUME SemaphoreTypeOK, [SemaphoreNext]_semaphoreVars PROVE SemaphoreTypeOK'
  OBVIOUS
<1> USE DEF SemaphoreTypeOK, At, Goto
<1>1. CASE UNCHANGED semaphoreVars
  BY <1>1 DEF semaphoreVars
<1>2. ASSUME NEW t \in Threads, NEW o \in Ops, Call(t, o) PROVE SemaphoreTypeOK'
  BY <1>2, OpsAssumption DEF Call
<1>3. ASSUME NEW t \in Threads, Finish(t) PROVE SemaphoreTypeOK'
  BY <1>3 DEF Finish, NotifyOne, SignalReturn, UnlockMutex, Asleep
<1>4. ASSUME NEW t \in Threads, Contend(t) PROVE SemaphoreTypeOK'
  <2>1. CASE Signal(t)
    BY <2>1 DEF Signal
  <2>2. CASE Take(t)
    BY <2>2 DEF Take, TakeFrom, Holder, Testing
  <2>3. CASE Fail(t) \/ Sleep(t) \/ GiveUp(t)
    BY <2>3 DEF Fail, Sleep, GiveUp
  <2> QED
    BY <1>4, <2>1, <2>2, <2>3 DEF Contend
<1>5. ASSUME NEW t \in Threads, WakeSpuriously(t) \/ TimeUp(t) \/ LockMutex(t)
      PROVE  SemaphoreTypeOK'
  BY <1>5 DEF WakeSpuriously, TimeUp, LockMutex
<1> QED
  BY <1>1, <1>2, <1>3, <1>4, <1>5 DEF SemaphoreNext

\* SemaphoreTypeOK of every behaviour: in particular the count, an unsigned integer in the
\* code, is never taken below zero.
THEOREM SemaphoreTypeCorrect == SemaphoreSpec => []SemaphoreTypeOK
<1>1. SemaphoreInit => SemaphoreTypeOK
  BY WaitersAssumption DEF SemaphoreInit, SemaphoreTypeOK
<1> QED
  BY <1>1, SemaphoreTypeStep, PTL DEF SemaphoreSpec

LEMMA RolesStep ==
    ASSUME SemaphoreTypeOK, Roles, [SemaphoreNext]_semaphoreVars
    PROVE  Roles'
<1> USE DEF SemaphoreTypeOK, Roles, At, Goto
<1>1. CASE UNCHANGED semaphoreVars
  BY <1>1 DEF semaphoreVars
<1>2. ASSUME NEW t \in Threads, NEW o \in Ops, Call(t, o) PROVE Roles'
  BY <1>2 DEF Call
<1>3. ASSUME NEW t \in Threads, Finish(t) PROVE Roles'
  BY <1>3 DEF Finish, NotifyOne, SignalReturn, UnlockMutex, Asleep
<1>4. ASSUME NEW t \in Threads, Contend(t) PROVE Roles'
  <2>1. CASE Signal(t) \/ Fail(t) \/ GiveUp(t)
    BY <2>1 DEF Signal, Fail, GiveUp, Testing
  <2>2. CASE Take(t)
    BY <2>2 DEF Take, TakeFrom, Testing
  <2>3. CASE Sleep(t)
    BY <2>3 DEF Sleep, Testing
  <2> QED
    BY <1>4, <2>1, <2>2, <2>3 DEF Contend
<1>5. ASSUME NEW t \in Threads, WakeSpuriously(t) \/ TimeUp(t) \/ LockMutex(t)
      PROVE  Roles'
  BY <1>5 DEF WakeSpuriously, TimeUp, LockMutex
<1> QED
  BY <1>1, <1>2, <1>3, <1>4, <1>5 DEF SemaphoreNext

LEMMA ExclusiveStep ==
    ASSUME SemaphoreTypeOK, LockedIsExclusive, [SemaphoreNext]_semaphoreVars
    PROVE  LockedIsExclusive'
<1> USE ThreadsAssumption DEF SemaphoreTypeOK, LockedIsExclusive, At, Goto
<1>1. CASE UNCHANGED semaphoreVars
  BY <1>1 DEF semaphoreVars
<1>2. ASSUME NEW t \in Threads, NEW o \in Ops, Call(t, o) PROVE LockedIsExclusive'
  BY <1>2 DEF Call
<1>3. ASSUME NEW t \in Threads, Finish(t) PROVE LockedIsExclusive'
  <2>1. CASE NotifyOne(t)
    BY <2>1 DEF NotifyOne, Asleep
  <2>2. CASE SignalReturn(t) \/ UnlockMutex(t)
    BY <2>2 DEF SignalReturn, UnlockMutex
  <2> QED
    BY <1>3, <2>1, <2>2 DEF Finish
<1>4. ASSUME NEW t \in Threads, Contend(t) PROVE LockedIsExclusive'
  <2>1. CASE Signal(t) \/ Fail(t) \/ GiveUp(t) \/ Sleep(t)
    BY <2>1 DEF Signal, Fail, GiveUp, Sleep, Testing
  <2>2. CASE Take(t)
    BY <2>2 DEF Take, TakeFrom, Holder, Testing
  <2> QED
    BY <1>4, <2>1, <2>2 DEF Contend
<1>5. ASSUME NEW t \in Threads, WakeSpuriously(t) \/ TimeUp(t) \/ LockMutex(t)
      PROVE  LockedIsExclusive'
  BY <1>5 DEF WakeSpuriously, TimeUp, LockMutex
<1> QED
  BY <1>1, <1>2, <1>3, <1>4, <1>5 DEF SemaphoreNext

\* The thread that moves joins or leaves the woken ones, or neither.
LEMMA WokenSteps ==
    ASSUME NEW t \in Threads
    PROVE  /\ Woken' = Woken => Cardinality(Woken') = Cardinality(Woken)
           /\ t \notin Woken /\ Woken' = Woken \cup {t} =>
                Cardinality(Woken') = Cardinality(Woken) + 1
           /\ t \in Woken /\ Woken' = Woken \ {t} =>
                Cardinality(Woken') = Cardinality(Woken) - 1
  BY FiniteWoken, FS_AddElement, FS_RemoveElement

LEMMA WakeupStep ==
    ASSUME SemaphoreInv, [SemaphoreNext]_semaphoreVars
    PROVE  NoLostWakeup'
<1> SUFFICES ASSUME Asleep' # {}
             PROVE  count' <= Cardinality(Woken') + Owed'
  BY DEF NoLostWakeup
<1>0. /\ count \in Nat /\ notices \in [Threads -> Nat] /\ mutex \in Threads \cup {NoThread}
      /\ pc \in [Threads -> {"idle", "lock", "notify", "asleep", "woken", "late", "locked"}]
      /\ Cardinality(Woken) \in Nat /\ Cardinality(Woken') \in Nat
      /\ Asleep # {} => count <= Cardinality(Woken) + Owed
  BY FiniteWoken DEF SemaphoreInv, SemaphoreTypeOK, NoLostWakeup
<1>n. Owed \in Nat
  BY <1>0 DEF Owed
<1> USE DEF At, Goto
<1>1. CASE UNCHANGED semaphoreVars
  BY <1>0, <1>1 DEF semaphoreVars, Asleep, Woken, Owed
<1>2. ASSUME NEW t \in Threads, NEW o \in Ops, Call(t, o)
      PROVE  count' <= Cardinality(Woken') + Owed'
  <2>1. Woken' = Woken /\ Asleep' = Asleep /\ count' = count
    BY <1>0, <1>2 DEF Call, Woken, Asleep
  <2>2. Owed' = Owed
    BY <1>0, <1>2 DEF Call, Owed, SemaphoreInv, LockedIsExclusive
  <2> QED
    BY <1>0, <2>1, <2>2
<1>3. ASSUME NEW t \in Threads, NotifyOne(t)
      PROVE  count' <= Cardinality(Woken') + Owed'
  <2>1. mutex = t /\ mutex' = t /\ t \in Threads /\ t # NoThread
    BY <1>3, ThreadsAssumption DEF NotifyOne, SemaphoreInv, LockedIsExclusive
  <2>2. PICK s \in Asleep : Goto(s, "woken")
    <3>1. Asleep # {}
      BY <1>0, <1>3 DEF NotifyOne, Asleep
    <3> QED
      BY <1>3, <3>1 DEF NotifyOne
  <2>3. s \in Threads /\ s \notin Woken /\ Woken' = Woken \cup {s}
    BY <1>0, <2>2 DEF Asleep, Woken
  <2>4. Cardinality(Woken') = Cardinality(Woken) + 1
    BY <2>3, WokenSteps
  <2>5. Owed = notices[t] /\ Owed' = notices[t] - 1 /\ count' = count
    BY <1>0, <1>3, <2>1, <2>2 DEF NotifyOne, Owed, Asleep
  <2> QED
    BY <1>0, <2>2, <2>4, <2>5
<1>4. ASSUME NEW t \in Threads, SignalReturn(t) \/ UnlockMutex(t)
      PROVE  count' <= Cardinality(Woken') + Owed'
  <2>1. mutex = t /\ mutex' = NoThread /\ t # NoThread
    BY <1>4, ThreadsAssumption DEF SignalReturn, UnlockMutex, SemaphoreInv, LockedIsExclusive
  <2>2. Owed = 0 /\ Owed' = 0 /\ count' = count
    BY <1>0, <1>4, <2>1 DEF SignalReturn, UnlockMutex, Owed
  <2>3. Woken' = Woken /\ Asleep' = Asleep
    BY <1>0, <1>4 DEF SignalReturn, UnlockMutex, Woken, Asleep
  <2> QED
    BY <1>0, <2>2, <2>3
<1>5. ASSUME NEW t \in Threads, Signal(t)
      PROVE  count' <= Cardinality(Woken') + Owed'
  <2>1. Owed = 0 /\ Owed' = notices[t] /\ count' = count + notices[t]
    BY <1>0, <1>5, ThreadsAssumption DEF Signal, Owed
  <2>2. Woken' = Woken /\ Asleep' = Asleep
    BY <1>0, <1>5 DEF Signal, Woken, Asleep
  <2> QED
    BY <1>0, <2>1, <2>2
<1>6. ASSUME NEW t \in Threads, Take(t)
      PROVE  count' <= Cardinality(Woken') + Owed'
  <2>1. Owed = 0 /\ Owed' = 0 /\ count' <= count - 1 /\ count' \in Nat
    BY <1>0, <1>6, ThreadsAssumption DEF Take, TakeFrom, Holder, Testing, Owed
  <2>2. Asleep' = Asleep
    BY <1>0, <1>6 DEF Take, TakeFrom, Testing, Asleep
  <2>3. CASE t \in Woken
    <3>1. Woken' = Woken \ {t}
      BY <1>0, <1>6 DEF Take, TakeFrom, Testing, Woken
    <3> QED
      BY <1>0, <2>1, <2>2, <2>3, <3>1, WokenSteps
  <2>4. CASE t \notin Woken
    <3>1. Woken' = Woken
      BY <1>0, <1>6, <2>4 DEF Take, TakeFrom, Testing, Woken
    <3> QED
      BY <1>0, <2>1, <2>2, <3>1
  <2> QED
    BY <2>3, <2>4
<1>7. ASSUME NEW t \in Threads, Fail(t) \/ Sleep(t)
      PROVE  count' <= Cardinality(Woken') + Owed'
  <2>1. count' = 0 /\ Owed' \in Nat
    BY <1>0, <1>7 DEF Fail, Sleep, Testing, Owed
  <2> QED
    BY <1>0, <2>1
<1>8. ASSUME NEW t \in Threads, GiveUp(t)
      PROVE  count' <= Cardinality(Woken') + Owed'
  <2>1. Woken' = Woken /\ Asleep' = Asleep /\ count' = count /\ Owed' = Owed
    BY <1>0, <1>8 DEF GiveUp, Woken, Asleep, Owed
  <2> QED
    BY <1>0, <2>1
<1>9. ASSUME NEW t \in Threads, WakeSpuriously(t)
      PROVE  count' <= Cardinality(Woken') + Owed'
  <2>1. t \in Asleep /\ t \notin Woken /\ Woken' = Woken \cup {t} /\ count' = count
    BY <1>0, <1>9 DEF WakeSpuriously, Woken, Asleep
  <2>2. Owed' = Owed
    BY <1>0, <1>9 DEF WakeSpuriously, Owed, SemaphoreInv, LockedIsExclusive
  <2>3. Cardinality(Woken') = Cardinality(Woken) + 1
    BY <2>1, WokenSteps
  <2> QED
    BY <1>0, <1>n, <2>1, <2>2, <2>3
<1>10. ASSUME NEW t \in Threads, TimeUp(t)
       PROVE  count' <= Cardinality(Woken') + Owed'
  <2>1. waiters = {t}
    BY <1>10 DEF TimeUp, SemaphoreInv, Roles, At
  \* it was the only one that could sleep, and no longer does
  <2>2. Asleep' = {}
    <3>1. t \in waiters /\ pc'[t] = "late" /\ \A s \in Threads \ {t} : pc'[s] = pc[s]
      BY <1>0, <1>10 DEF TimeUp, SemaphoreInv, Roles
    <3>2. ASSUME NEW s \in Threads, pc'[s] = "asleep" PROVE FALSE
      BY <2>1, <3>1, <3>2 DEF SemaphoreInv, Roles
    <3> QED
      BY <3>2 DEF Asleep
  <2> QED
    BY <2>2
<1>11. ASSUME NEW t \in Threads, LockMutex(t)
       PROVE  count' <= Cardinality(Woken') + Owed'
  <2>1. Woken' = Woken /\ Asleep' = Asleep /\ count' = count /\ Owed = 0 /\ Owed' = 0
    BY <1>0, <1>11, ThreadsAssumption DEF LockMutex, Woken, Asleep, Owed
  <2> QED
    BY <1>0, <2>1
<1> QED
  BY <1>1, <1>2, <1>3, <1>4, <1>5, <1>6, <1>7, <1>8, <1>9, <1>10, <1>11
     DEF SemaphoreNext, Finish, Contend

\* The inductive invariant.
THEOREM SemaphoreInvariance == SemaphoreSpec => []SemaphoreInv
<1>1. SemaphoreInit => SemaphoreInv
  <2> SUFFICES ASSUME SemaphoreInit PROVE SemaphoreInv
    OBVIOUS
  <2>1. Asleep = {}
    BY DEF SemaphoreInit, Asleep, At
  <2> QED
    BY <2>1, ThreadsAssumption, WaitersAssumption
       DEF SemaphoreInit, SemaphoreInv, SemaphoreTypeOK, Roles, LockedIsExclusive, NoLostWakeup
<1>2. SemaphoreInv /\ [SemaphoreNext]_semaphoreVars => SemaphoreInv'
  BY SemaphoreTypeStep, RolesStep, ExclusiveStep, WakeupStep DEF SemaphoreInv
<1> QED
  BY <1>1, <1>2, PTL DEF SemaphoreSpec

\* NoLostWakeup: a permit that no thread is on its way to has its notification
\* still to come, as long as anybody sleeps.
THEOREM Wakeups == SemaphoreSpec => []NoLostWakeup
<1>1. SemaphoreInv => NoLostWakeup
  BY DEF SemaphoreInv
<1> QED
  BY <1>1, SemaphoreInvariance, PTL

\* LockedIsExclusive: who asked to remain locked holds the mutex until it unlocks.
THEOREM Exclusive == SemaphoreSpec => []LockedIsExclusive
<1>1. SemaphoreInv => LockedIsExclusive
  BY DEF SemaphoreInv
<1> QED
  BY <1>1, SemaphoreInvariance, PTL
=============================================================================
