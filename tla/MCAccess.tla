------------------------------- MODULE MCAccess -------------------------------
(***************************************************************************)
(* Instances of LicenseMachines and SignIn for TLC: what a customer's      *)
(* devices and what the sessions of the customer are admitted to.  The two *)
(* share no state, so each is explored with the other at rest in its       *)
(* initial state.                                                          *)
(***************************************************************************)
EXTENDS LicenseMachines, SignIn, TLC

VARIABLE part \* the one explored

mcVars == <<machineVars, vars, part>>

MCInit ==
    /\ MachinesInit /\ Init
    /\ part \in {"machines", "sessions"}
    /\ part = "sessions" => seats = 1 \* at rest, any value will do

MCNext ==
    /\ \/ part = "machines" /\ MachinesNext /\ UNCHANGED vars
       \/ part = "sessions" /\ Next /\ UNCHANGED machineVars
    /\ UNCHANGED part

MCSpec == MCInit /\ [][MCNext]_mcVars

\* Validations and Requests are the same slots.
Symmetry == Permutations(Machines) \cup Permutations(Requests)
=============================================================================
