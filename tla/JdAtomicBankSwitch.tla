------------------------- MODULE JdAtomicBankSwitch -------------------------
(***************************************************************************)
(* concurrent/JdAtomicBankSwitch.hpp and .cpp: a mutex-free exchange of the *)
(* latest value between one writer and one reader.  m_state holds a signal  *)
(* bit (0x10: "the banks can be swapped") and the writer's bank (0x01); the *)
(* reader's bank is the other one.  Every load and compare-exchange of      *)
(* m_state is a step of its own, and so is every word copied into or read   *)
(* from a bank, so that a torn value would show.                            *)
(*                                                                          *)
(* A bank is a function from its words to the version written last.  bank   *)
(* [2] is the writer's private staging bank; it is filled in one step.      *)
(* compare_exchange_weak may fail for no reason.                            *)
(***************************************************************************)
EXTENDS Integers

CONSTANTS
    Words,          \* the words of a T, copied one at a time
    MaxVersion,     \* bound: how many times the writer publishes
    NoVersion       \* "nothing read yet" and "nothing on offer"

ASSUME WordsAssumption == Words # {}
ASSUME MaxVersionAssumption == MaxVersion \in Nat
ASSUME NoVersionAssumption == NoVersion \notin Nat

VARIABLES
    state,      \* JdAtomicSwitch::m_state, as [signaled, writeBank]
    bank,       \* m_banks: 0 and 1 are exchanged, 2 is the staging bank
    acquired,   \* the index m_writeAcquiredBank points to
    wpc,        \* where the writer is
    wseen,      \* GetWriteIndex's local copy of m_state
    toCopy,     \* words ReleaseWriteBank has not copied yet
    released,   \* number of completed ReleaseWrite calls
    rpc,        \* where the reader is
    rseen,      \* GetReadIndex's local copy of m_state
    rbank,      \* the index GetReadIndex returned last
    got         \* what the reader has read from that bank since then

writerVars == <<acquired, wpc, wseen, toCopy, released>>
readerVars == <<rpc, rseen, rbank, got>>
vars == <<state, bank, writerVars, readerVars>>

SwitchState == [signaled : BOOLEAN, writeBank : {0, 1}]
Filled(v) == [w \in Words |-> v]
NothingRead == [w \in Words |-> NoVersion]

TypeOK ==
    /\ state \in SwitchState
    /\ bank \in [0..2 -> [Words -> Nat]]
    /\ acquired \in {0, 1}
    /\ wpc \in {"idle", "load", "clear", "fill", "copy", "signal"}
    /\ wseen \in SwitchState
    /\ toCopy \in SUBSET Words
    /\ released \in Nat
    /\ rpc \in {"idle", "load", "swap", "reload", "use"}
    /\ rseen \in SwitchState
    /\ rbank \in {0, 1}
    /\ got \in [Words -> Nat \cup {NoVersion}]

Init ==
    /\ state = [signaled |-> FALSE, writeBank |-> 0]
    /\ bank = [b \in 0..2 |-> Filled(0)]
    /\ acquired = 0
    /\ wpc = "idle"
    /\ wseen = state
    /\ toCopy = {}
    /\ released = 0
    /\ rpc = "idle"
    /\ rseen = state
    /\ rbank = 1
    /\ got = NothingRead

-----------------------------------------------------------------------------
(* The writer: AcquireWriteBank, fill bank [2], ReleaseWriteBank.           *)

AcquireWriteBank ==
    /\ wpc = "idle"
    /\ released < MaxVersion
    /\ wpc' = "load"
    /\ UNCHANGED <<state, bank, acquired, wseen, toCopy, released, readerVars>>

\* GetWriteIndex: with no signal pending the writer's bank is taken as it is.
LoadForWrite ==
    /\ wpc = "load"
    /\ IF state.signaled
       THEN /\ wseen' = state
            /\ wpc' = "clear"
            /\ UNCHANGED acquired
       ELSE /\ acquired' = state.writeBank
            /\ wpc' = "fill"
            /\ UNCHANGED wseen
    /\ UNCHANGED <<state, bank, toCopy, released, readerVars>>

\* Mutant: the signal is cleared by a plain store instead of an exchange.
ClearSignalBlindly ==
    /\ wpc = "clear"
    /\ state' = [signaled |-> FALSE, writeBank |-> wseen.writeBank]
    /\ wpc' = "load"
    /\ UNCHANGED <<bank, acquired, wseen, toCopy, released, readerVars>>

\* The exchange succeeds only on an unchanged m_state, and may fail anyway;
\* either way GetWriteIndex loops.
ClearSignal ==
    /\ wpc = "clear"
    /\ \/ /\ state = wseen
          /\ state' = [signaled |-> FALSE, writeBank |-> wseen.writeBank]
       \/ UNCHANGED state
    /\ wpc' = "load"
    /\ UNCHANGED <<bank, acquired, wseen, toCopy, released, readerVars>>

FillStagingBank ==
    /\ wpc = "fill"
    /\ bank' = [bank EXCEPT ![2] = Filled(released + 1)]
    /\ toCopy' = Words
    /\ wpc' = "copy"
    /\ UNCHANGED <<state, acquired, wseen, released, readerVars>>

\* ReleaseWriteBank's assignment of bank [2] to the acquired bank.
CopyWord(w) ==
    /\ wpc = "copy"
    /\ w \in toCopy
    /\ bank' = [bank EXCEPT ![acquired][w] = bank[2][w]]
    /\ toCopy' = toCopy \ {w}
    /\ wpc' = IF toCopy' = {} THEN "signal" ELSE "copy"
    /\ UNCHANGED <<state, acquired, wseen, released, readerVars>>

\* Mutant: the signal is raised while words are still to be copied.
ReleaseWriteEarly ==
    /\ wpc \in {"copy", "signal"}
    /\ state' = [state EXCEPT !.signaled = TRUE]
    /\ released' = released + 1
    /\ wpc' = "idle"
    /\ UNCHANGED <<bank, acquired, wseen, toCopy, readerVars>>

\* m_state |= 0x10, one atomic read-modify-write.
ReleaseWrite ==
    /\ wpc = "signal"
    /\ state' = [state EXCEPT !.signaled = TRUE]
    /\ released' = released + 1
    /\ wpc' = "idle"
    /\ UNCHANGED <<bank, acquired, wseen, toCopy, readerVars>>

-----------------------------------------------------------------------------
(* The reader: GetReadBank, then it reads the bank until it asks again.     *)

GetReadBank ==
    /\ rpc \in {"idle", "use"}
    /\ rpc' = "load"
    /\ got' = NothingRead
    /\ UNCHANGED <<state, bank, writerVars, rseen, rbank>>

\* Mutant: the reader swaps the banks whether or not it was signalled.
LoadForReadAlwaysSwap ==
    /\ rpc = "load"
    /\ rseen' = state
    /\ rpc' = "swap"
    /\ UNCHANGED <<state, bank, writerVars, rbank, got>>

\* Mutant: the reader tests the wrong bit and never swaps.
LoadForReadNeverSwap ==
    /\ rpc = "load"
    /\ rseen' = state
    /\ rpc' = "reload"
    /\ UNCHANGED <<state, bank, writerVars, rbank, got>>

LoadForRead ==
    /\ rpc = "load"
    /\ rseen' = state
    /\ rpc' = IF state.signaled THEN "swap" ELSE "reload"
    /\ UNCHANGED <<state, bank, writerVars, rbank, got>>

\* Mutant: the swap is a plain store instead of an exchange.
SwapBanksBlindly ==
    /\ rpc = "swap"
    /\ state' = [signaled |-> FALSE, writeBank |-> 1 - rseen.writeBank]
    /\ rpc' = "reload"
    /\ UNCHANGED <<bank, writerVars, rseen, rbank, got>>

\* Clears the signal and swaps the banks at once; not retried when it fails.
SwapBanks ==
    /\ rpc = "swap"
    /\ \/ /\ state = rseen
          /\ state' = [signaled |-> FALSE, writeBank |-> 1 - rseen.writeBank]
       \/ UNCHANGED state
    /\ rpc' = "reload"
    /\ UNCHANGED <<bank, writerVars, rseen, rbank, got>>

ReloadForRead ==
    /\ rpc = "reload"
    /\ rbank' = 1 - state.writeBank
    /\ rpc' = "use"
    /\ UNCHANGED <<state, bank, writerVars, rseen, got>>

ReadWord(w) ==
    /\ rpc = "use"
    /\ got' = [got EXCEPT ![w] = bank[rbank][w]]
    /\ UNCHANGED <<state, bank, writerVars, rpc, rseen, rbank>>

-----------------------------------------------------------------------------
Writer ==
    \/ AcquireWriteBank \/ LoadForWrite \/ ClearSignal
    \/ FillStagingBank \/ ReleaseWrite
    \/ \E w \in Words : CopyWord(w)

Reader ==
    \/ GetReadBank \/ LoadForRead \/ SwapBanks \/ ReloadForRead
    \/ \E w \in Words : ReadWord(w)

Next == Writer \/ Reader

Spec == Init /\ [][Next]_vars

(***************************************************************************)
(* The reader polls and finishes each poll, the writer finishes the update *)
(* it has begun (it may stop between updates), and an exchange that keeps  *)
(* being possible does not fail spuriously for ever.                       *)
(***************************************************************************)
SwapSucceeds == rpc = "swap" /\ SwapBanks /\ state' # state
ClearSucceeds == wpc = "clear" /\ ClearSignal /\ state' # state

CallsGoOn ==
    /\ WF_vars(LoadForRead)
    /\ WF_vars(SwapBanks) /\ WF_vars(ReloadForRead)
    /\ WF_vars(Writer /\ wpc # "idle")
    /\ SF_vars(SwapSucceeds) /\ SF_vars(ClearSucceeds)

FairSpec == Spec /\ WF_vars(GetReadBank) /\ CallsGoOn

-----------------------------------------------------------------------------
(* What must hold.                                                          *)

readerBank == 1 - state.writeBank

\* The reader and the writer look at opposite banks: while the writer has a
\* bank between AcquireWriteBank and the end of ReleaseWriteBank, it is not the
\* one the reader's last GetReadBank returned.
OppositeBanks ==
    wpc \in {"fill", "copy", "signal"} /\ rpc = "use" => acquired # rbank

\* No torn value: whatever the reader has read since GetReadBank belongs to one
\* version, however long it takes and whatever the writer does meanwhile.
NoTornRead ==
    \A w1, w2 \in Words :
        got[w1] # NoVersion /\ got[w2] # NoVersion => got[w1] = got[w2]

\* The bank the reader is using does not change under it.
ReaderBankStable ==
    [][rpc = "use" /\ rpc' = "use" => bank'[rbank] = bank[rbank]]_vars

\* A signalled switch always has the latest complete version on offer, even when
\* the reader's exchange is made against a signal older than the one it clears.
SignalMeansLatest ==
    state.signaled => bank[state.writeBank] = Filled(released)

\* Refinement: the switch is a register that offers its latest version.
Latest == INSTANCE LatestValue WITH
    NoOffer <- NoVersion,
    latest  <- released,
    offer   <- IF state.signaled THEN released ELSE NoVersion,
    held    <- bank[readerBank][CHOOSE w \in Words : TRUE]

ImplementsLatestValue == Latest!LVSpec

\* No GetReadBank gives the reader an older version than the one it had.
ReadsGoForward == Latest!NeverBackwards

\* Once the writer stops, the reader that keeps asking comes to hold the last
\* version released.
LastVersionReachesReader ==
    (released = MaxVersion) ~> (rpc = "use" /\ bank[rbank] = Filled(MaxVersion))
=============================================================================
