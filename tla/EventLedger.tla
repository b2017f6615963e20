---------------------------- MODULE EventLedger ----------------------------
(***************************************************************************)
(* What the webhook inbox promises while every handler ends within its     *)
(* lease: an event is open until it is settled, one invocation at a time   *)
(* handles it, and only the invocation that handles it settles it.         *)
(***************************************************************************)
CONSTANTS Events, Workers

VARIABLES
    holders,  \* invocations inside each event's handler
    outcome   \* open, processed or dead

vars == <<holders, outcome>>

Init ==
    /\ holders = [e \in Events |-> {}]
    /\ outcome = [e \in Events |-> "open"]

\* An invocation starts handling an event that is open and not being handled.
Take(e, w) ==
    /\ holders[e] = {} /\ outcome[e] = "open"
    /\ holders' = [holders EXCEPT ![e] = {w}]
    /\ UNCHANGED outcome

\* The invocation gives the event back, or vanishes.
Release(e, w) ==
    /\ holders[e] = {w}
    /\ holders' = [holders EXCEPT ![e] = {}]
    /\ UNCHANGED outcome

\* The invocation settles the event for good.
Settle(e, w, result) ==
    /\ holders[e] = {w} /\ outcome[e] = "open"
    /\ holders' = [holders EXCEPT ![e] = {}]
    /\ outcome' = [outcome EXCEPT ![e] = result]

\* Retention forgets a processed event; a later delivery starts over.
Forget(e) ==
    /\ outcome[e] = "processed"
    /\ outcome' = [outcome EXCEPT ![e] = "open"]
    /\ UNCHANGED holders

Next ==
    \E e \in Events :
        \/ \E w \in Workers : Take(e, w) \/ Release(e, w)
        \/ \E w \in Workers, result \in {"processed", "dead"} : Settle(e, w, result)
        \/ Forget(e)

Spec == Init /\ [][Next]_vars
=============================================================================
