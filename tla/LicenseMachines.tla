--------------------------- MODULE LicenseMachines ---------------------------
(***************************************************************************)
(* One licence and the machines activated under it.  The CLI validates its *)
(* key from many machines at once: a request loads the licence, looks for  *)
(* its machine, touches or registers it and signs a token, one database    *)
(* round trip each.  Meanwhile the owner revokes machines, rotates the key *)
(* or deletes the account, and billing changes the plan.                   *)
(***************************************************************************)
EXTENDS Naturals, FiniteSets

CONSTANTS
    Machines,     \* machine ids
    Validations,  \* slots for concurrent validate-license requests
    MaxSeats,     \* bound on the seat limits billing grants
    MaxRotations, \* bound on key rotations
    NoMachine     \* a request without a machine id

ASSUME MachinesAssumption == IsFiniteSet(Machines) /\ NoMachine \notin Machines
ASSUME SeatsAssumption    == MaxSeats \in Nat \ {0}
ASSUME RotationAssumption == MaxRotations \in Nat

VARIABLES
    key,       \* licenses.license_key, numbered by rotation
    valid,     \* is the licence active and not expired?
    seats,     \* licenses.max_seats
    deleted,   \* has the owner deleted the account?
    active,    \* machines rows with is_active = 1
    inactive,  \* machines rows with is_active = 0
    step,      \* next step of each request
    machine,   \* the machine id a request carries
    loaded,    \* key and seat limit of the licence row a request loaded
    by,        \* the key each machine was last activated with (history)
    outdated,  \* requests whose licence or machine changed since (history)
    tainted,   \* machines activated by an outdated request (history)
    revived,   \* was the licence made valid again after the deletion? (history)
    lowered    \* has the plan ever lost seats? (history)

licence  == <<key, valid, seats, deleted>>
machines == <<active, inactive>>
validations    == <<step, machine, loaded>>
machineHistory == <<by, outdated, tainted, revived, lowered>>
machineVars    == <<licence, machines, validations, machineHistory>>

Idle == [key |-> 0, limit |-> 1]

MachinesInit ==
    /\ key = 0 /\ valid = TRUE /\ deleted = FALSE
    /\ seats \in 1 .. MaxSeats
    /\ active = {} /\ inactive = {}
    /\ step    = [r \in Validations |-> "idle"]
    /\ machine = [r \in Validations |-> NoMachine]
    /\ loaded  = [r \in Validations |-> Idle]
    /\ by      = [m \in Machines |-> 0]
    /\ outdated = {} /\ tainted = {} /\ revived = FALSE /\ lowered = FALSE

Advance(r, from, to) == step[r] = from /\ step' = [step EXCEPT ![r] = to]

\* The request is answered, or gone: what it had loaded goes with it.
Ends(r) ==
    /\ step'     = [step EXCEPT ![r] = "idle"]
    /\ machine'  = [machine EXCEPT ![r] = NoMachine]
    /\ loaded'   = [loaded EXCEPT ![r] = Idle]
    /\ outdated' = outdated \ {r}

(***************************************************************************)
(* validate-license.                                                       *)
(***************************************************************************)

\* SELECT by key: an unknown key, another status or a past expiry ends it, so
\* only a request with the current key of a valid licence goes on.
ValidateLicense(r, m) ==
    /\ valid
    /\ Advance(r, "idle", IF m = NoMachine THEN "sign" ELSE "find")
    /\ machine' = [machine EXCEPT ![r] = m]
    /\ loaded'  = [loaded EXCEPT ![r] = [key |-> key, limit |-> seats]]
    /\ UNCHANGED <<licence, machines, machineHistory>>

FindMachine(r) ==
    /\ Advance(r, "find", IF machine[r] \in active THEN "touch" ELSE "register")
    /\ UNCHANGED <<licence, machines, machine, loaded, machineHistory>>

\* last_seen_at of the row that was found, whatever became of it.
TouchMachine(r) ==
    /\ Advance(r, "touch", "sign")
    /\ UNCHANGED <<licence, machines, machine, loaded, machineHistory>>

\* Mutant of Admits: an off-by-one at the last seat.
AdmitsOneMore(r) ==
    machine[r] \in active \/ Cardinality(active) <= loaded[r].limit

\* The guard of the upsert: an active row, or a seat left under the loaded limit.
Admits(r) ==
    machine[r] \in active \/ Cardinality(active) < loaded[r].limit

Activate(r) ==
    /\ active'   = active \cup {machine[r]}
    /\ inactive' = inactive \ {machine[r]}
    /\ by'       = [by EXCEPT ![machine[r]] = loaded[r].key]
    /\ tainted'  = IF r \in outdated THEN tainted \cup {machine[r]}
                   ELSE tainted \ {machine[r]}

\* Mutant of RegisterMachine: the empty RETURNING is not taken for a refusal.
RegisterUnchecked(r) ==
    /\ Advance(r, "register", "sign")
    /\ IF Admits(r) THEN Activate(r) ELSE UNCHANGED <<machines, by, tainted>>
    /\ UNCHANGED <<licence, machine, loaded, outdated, revived, lowered>>

\* INSERT ... ON CONFLICT DO UPDATE ... RETURNING; no row means no seat.
RegisterMachine(r) ==
    /\ step[r] = "register"
    /\ \/ Admits(r)  /\ Activate(r) /\ Advance(r, "register", "sign")
                     /\ UNCHANGED <<machine, loaded, outdated>>
       \/ ~Admits(r) /\ Ends(r) /\ UNCHANGED <<machines, by, tainted>>
    /\ UNCHANGED <<licence, revived, lowered>>

\* The token is signed and returned, with the machine's row and the usage.
SignToken(r) ==
    /\ step[r] = "sign" /\ Ends(r)
    /\ UNCHANGED <<licence, machines, by, tainted, revived, lowered>>

\* A failed round trip or an evicted invocation.
DropValidation(r) ==
    /\ step[r] # "idle" /\ Ends(r)
    /\ UNCHANGED <<licence, machines, by, tainted, revived, lowered>>

(***************************************************************************)
(* The owner and billing.                                                  *)
(***************************************************************************)
Running == {r \in Validations : step[r] # "idle"}

\* The dashboard's session was checked a round trip earlier, so the owner's
\* requests may still act after a deletion.
RevokeMachine(m) ==
    /\ m \in active \cup inactive
    /\ active'   = active \ {m}
    /\ inactive' = inactive \cup {m}
    /\ outdated' = outdated \cup {r \in Running : machine[r] = m}
    /\ UNCHANGED <<licence, validations, by, tainted, revived, lowered>>

\* Mutant of RegenerateLicense: the key rotates, the machines stay active.
RotateKeyOnly ==
    /\ key < MaxRotations
    /\ key'       = key + 1
    /\ outdated' = outdated \cup Running
    /\ UNCHANGED <<valid, seats, deleted, machines, validations, by, tainted, revived, lowered>>

\* One batch: rotate the key and deactivate every machine.
RegenerateLicense ==
    /\ key < MaxRotations
    /\ key'       = key + 1
    /\ active'    = {}
    /\ inactive'  = inactive \cup active
    /\ outdated' = outdated \cup Running
    /\ UNCHANGED <<valid, seats, deleted, validations, by, tainted, revived, lowered>>

\* The deletion batch drops the machines and ends the licence, under the key it
\* had; a request that was under way may repeat it.
DeleteLicensee ==
    /\ deleted' = TRUE /\ valid' = FALSE /\ revived' = FALSE
    /\ active' = {} /\ inactive' = {}
    /\ outdated' = outdated \cup Running
    /\ UNCHANGED <<key, seats, validations, by, tainted, lowered>>

\* A projection sets the seats of an entitling plan and leaves the others';
\* cancellation and expiry make the licence invalid, renewal valid again, and
\* an administrator's override sets the status alone.  Neither asks whether the
\* owner deleted the account: an override, or a projection that had found the
\* row before, makes the licence valid again, under the key it had.
ChangePlan(n, ok) ==
    /\ ok \/ n = seats
    /\ seats' = n /\ valid' = ok
    /\ revived'  = (revived \/ (deleted /\ ok))
    /\ lowered'  = (lowered \/ n < seats)
    /\ outdated' = outdated \cup Running
    /\ UNCHANGED <<key, deleted, machines, validations, by, tainted>>

MachinesNext ==
    \/ \E r \in Validations :
        \/ \E m \in Machines \cup {NoMachine} : ValidateLicense(r, m)
        \/ FindMachine(r) \/ TouchMachine(r) \/ RegisterMachine(r)
        \/ SignToken(r) \/ DropValidation(r)
    \/ \E m \in Machines : RevokeMachine(m)
    \/ RegenerateLicense \/ DeleteLicensee
    \/ \E n \in 1 .. MaxSeats, ok \in BOOLEAN : ChangePlan(n, ok)

MachinesSpec == MachinesInit /\ [][MachinesNext]_machineVars

-----------------------------------------------------------------------------
(***************************************************************************)
(* Properties.                                                             *)
(***************************************************************************)

\* Types of the licence, its machines, the requests and the history.
MachinesTypeOK ==
    /\ key \in 0 .. MaxRotations /\ seats \in 1 .. MaxSeats
    /\ valid \in BOOLEAN /\ deleted \in BOOLEAN
    /\ revived \in BOOLEAN /\ lowered \in BOOLEAN
    /\ active \subseteq Machines /\ inactive \subseteq Machines \ active
    /\ step    \in [Validations -> {"idle", "find", "touch", "register", "sign"}]
    /\ machine \in [Validations -> Machines \cup {NoMachine}]
    /\ \A r \in Validations :
        step[r] \in {"find", "touch", "register"} => machine[r] \in Machines
    /\ loaded  \in [Validations -> [key : 0 .. MaxRotations, limit : 1 .. MaxSeats]]
    /\ by      \in [Machines -> 0 .. MaxRotations]
    /\ outdated \subseteq Validations /\ tainted \subseteq Machines

\* Concurrent first activations never take more seats than the plan has; only
\* a plan that lost seats leaves more machines active than it now allows.
SeatsHeld == lowered \/ Cardinality(active) <= seats

\* Rotating the key leaves no machine active under the old one, and deleting
\* the account none at all until billing or an administrator makes the licence
\* valid again; except machines a request registers that was already past its
\* key check.
KeyGovernsMachines ==
    \A m \in active \ tainted : by[m] = key /\ (deleted => revived)

\* A token is signed for a machine that holds a seat, unless the owner or
\* billing changed something while the request was under way.
TokenNeedsSeat ==
    \A r \in Validations \ outdated :
        step[r] = "sign" /\ machine[r] # NoMachine => machine[r] \in active

\* What these rest on: a request that nothing overtook holds the licence's
\* current key and limit, and without a downgrade no limit is too large.
LoadedIsCurrent ==
    /\ valid => (deleted => revived)
    /\ \A r \in Running :
        /\ r \notin outdated => /\ loaded[r].key = key /\ loaded[r].limit = seats
                                /\ deleted => revived
                                /\ step[r] = "touch" => machine[r] \in active
        /\ ~lowered => loaded[r].limit <= seats

MachinesInv ==
    MachinesTypeOK /\ SeatsHeld /\ KeyGovernsMachines /\ TokenNeedsSeat /\ LoadedIsCurrent
=============================================================================
