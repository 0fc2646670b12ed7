----------------------------- MODULE LatestValue -----------------------------
(***************************************************************************)
(* What JdAtomicBankSwitch promises its two users, without banks or bits:  *)
(* the writer offers a version, the reader takes the version on offer, and *)
(* an offer nobody took may be withdrawn by the writer to be replaced.     *)
(* The reader need not see every version, only whole ones, and never an    *)
(* older one than it already holds.                                        *)
(***************************************************************************)
EXTENDS Naturals

CONSTANT NoOffer    \* not a version

VARIABLES
    latest,     \* the last version the writer has released
    offer,      \* the version the reader would get, or NoOffer
    held        \* the version the reader looks at

lvVars == <<latest, offer, held>>

LVTypeOK ==
    /\ latest \in Nat
    /\ offer \in Nat \cup {NoOffer}
    /\ held \in Nat

LVInit ==
    /\ latest = 0
    /\ offer = NoOffer
    /\ held = 0

Publish ==
    /\ latest' = latest + 1
    /\ offer' = latest + 1
    /\ UNCHANGED held

Withdraw ==
    /\ offer # NoOffer
    /\ offer' = NoOffer
    /\ UNCHANGED <<latest, held>>

Take ==
    /\ offer # NoOffer
    /\ held' = offer
    /\ offer' = NoOffer
    /\ UNCHANGED latest

LVNext == Publish \/ Withdraw \/ Take

LVSpec == LVInit /\ [][LVNext]_lvVars

-----------------------------------------------------------------------------
\* The version held is one that was released, and an offer is news.
HeldIsReleased ==
    /\ held <= latest
    /\ offer # NoOffer => offer = latest /\ held < offer

\* The reader never goes back to an older version.
NeverBackwards == [][held' >= held]_lvVars
=============================================================================
