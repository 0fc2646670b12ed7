----------------------------- MODULE Coroutines -----------------------------
(***************************************************************************)
(* What a set of coroutines promises, without contexts, statuses or stacks: *)
(* exactly one runs; control moves only to a routine that is ready, back to *)
(* whoever resumed the running one, or home; an ended routine never runs    *)
(* again.                                                                   *)
(***************************************************************************)
CONSTANTS Routines, Main, Nobody

VARIABLES
    on,         \* who runs
    resumer,    \* who resumed each routine last
    stage       \* what each routine is: absent, ready or ended

vars == <<on, resumer, stage>>

Init ==
    /\ on = Main
    /\ resumer = [r \in Routines |-> Nobody]
    /\ stage = [r \in Routines |-> "absent"]

Create(r) ==
    /\ stage[r] = "absent"
    /\ stage' = [stage EXCEPT ![r] = "ready"]
    /\ resumer' = [resumer EXCEPT ![r] = Nobody]
    /\ UNCHANGED on

Resume(r) ==
    /\ r # on
    /\ stage[r] = "ready"
    /\ on' = r
    /\ resumer' = [resumer EXCEPT ![r] = on]
    /\ UNCHANGED stage

\* Back to the routine that resumed the running one, which becomes its resumer.
Back ==
    /\ on # Main
    /\ \/ /\ resumer[on] \in Routines
          /\ Resume(resumer[on])
       \/ /\ resumer[on] = Main
          /\ on' = Main
          /\ UNCHANGED <<resumer, stage>>

GoHome ==
    /\ on # Main
    /\ on' = Main
    /\ UNCHANGED <<resumer, stage>>

End ==
    /\ on # Main
    /\ stage' = [stage EXCEPT ![on] = "ended"]
    /\ on' = Main
    /\ UNCHANGED resumer

Remove(r) ==
    /\ r # on
    /\ stage[r] # "absent"
    /\ stage' = [stage EXCEPT ![r] = "absent"]
    /\ UNCHANGED <<on, resumer>>

Next ==
    \/ Back \/ GoHome \/ End
    \/ \E r \in Routines : Create(r) \/ Resume(r) \/ Remove(r)

Spec == Init /\ [][Next]_vars
=============================================================================
