------------------------ MODULE LicenseMachinesProofs ------------------------
(***************************************************************************)
(* Proofs about LicenseMachines for every number of machines, of seats, of *)
(* key rotations and of concurrent requests.                               *)
(***************************************************************************)
EXTENDS LicenseMachines, FiniteSetTheorems, TLAPS

\* One more machine takes at most one more seat, one less frees none it has not.
LEMMA SeatCount ==
    ASSUME NEW S \in SUBSET Machines, NEW m \in Machines
    PROVE  /\ Cardinality(S) \in Nat
           /\ Cardinality(S \cup {m}) \in Nat
           /\ Cardinality(S \cup {m}) <= Cardinality(S) + 1
           /\ m \in S => Cardinality(S \cup {m}) = Cardinality(S)
           /\ Cardinality(S \ {m}) \in Nat
           /\ Cardinality(S \ {m}) <= Cardinality(S)
<1>1. IsFiniteSet(S)
  BY FS_Subset, MachinesAssumption
<1>2. Cardinality(S) \in Nat
  BY <1>1, FS_CardinalityType
<1>3. /\ Cardinality(S \cup {m}) \in Nat
      /\ Cardinality(S \cup {m}) <= Cardinality(S) + 1
      /\ m \in S => Cardinality(S \cup {m}) = Cardinality(S)
  <2>1. CASE m \in S
    <3>1. S \cup {m} = S
      BY <2>1
    <3>2. QED
      BY <1>2, <3>1
  <2>2. CASE m \notin S
    <3>1. Cardinality(S \cup {m}) = Cardinality(S) + 1
      BY <1>1, <2>2, FS_AddElement
    <3>2. QED
      BY <1>2, <2>2, <3>1
  <2>3. QED
    BY <2>1, <2>2
<1>4. /\ Cardinality(S \ {m}) \in Nat
      /\ Cardinality(S \ {m}) <= Cardinality(S)
  <2>1. IsFiniteSet(S \ {m}) /\ S \ {m} \subseteq S
    BY <1>1, FS_Subset
  <2>2. QED
    BY <1>1, <2>1, FS_Subset, FS_CardinalityType
<1>5. QED
  BY <1>2, <1>3, <1>4

\* Every variable keeps its type.
LEMMA TypeStep == MachinesTypeOK /\ [MachinesNext]_machineVars => MachinesTypeOK'
<1> SUFFICES ASSUME MachinesTypeOK, [MachinesNext]_machineVars PROVE MachinesTypeOK'
  OBVIOUS
<1> USE MachinesAssumption, SeatsAssumption, RotationAssumption
<1> USE DEF MachinesTypeOK, licence, machines, validations, machineHistory
<1>1. ASSUME NEW r \in Validations, NEW m \in Machines \cup {NoMachine},
             ValidateLicense(r, m)
      PROVE  MachinesTypeOK'
  BY <1>1 DEF ValidateLicense, Advance
<1>2. ASSUME NEW r \in Validations, FindMachine(r) PROVE MachinesTypeOK'
  BY <1>2 DEF FindMachine, Advance
<1>3. ASSUME NEW r \in Validations, TouchMachine(r) PROVE MachinesTypeOK'
  BY <1>3 DEF TouchMachine, Advance
<1>4. ASSUME NEW r \in Validations, RegisterMachine(r) PROVE MachinesTypeOK'
  <2>1. CASE Ends(r) /\ UNCHANGED <<machines, by, tainted>>
    BY <1>4, <2>1 DEF RegisterMachine, Ends, Idle
  <2>2. CASE Activate(r) /\ Advance(r, "register", "sign")
             /\ UNCHANGED <<machine, loaded, outdated>>
    <3>1. machine[r] \in Machines
      BY <2>2 DEF Advance
    <3>2. /\ active' \subseteq Machines /\ inactive' \subseteq Machines \ active'
          /\ by' \in [Machines -> 0 .. MaxRotations] /\ tainted' \subseteq Machines
      BY <2>2, <3>1 DEF Activate
    <3>3. QED
      BY <1>4, <2>2, <3>2 DEF RegisterMachine, Advance
  <2>3. QED
    BY <1>4, <2>1, <2>2 DEF RegisterMachine
<1>5. ASSUME NEW r \in Validations, SignToken(r) PROVE MachinesTypeOK'
  BY <1>5 DEF SignToken, Ends, Idle
<1>6. ASSUME NEW r \in Validations, DropValidation(r) PROVE MachinesTypeOK'
  BY <1>6 DEF DropValidation, Ends, Idle
<1>7. ASSUME NEW m \in Machines, RevokeMachine(m) PROVE MachinesTypeOK'
  BY <1>7 DEF RevokeMachine, Running
<1>8. ASSUME RegenerateLicense PROVE MachinesTypeOK'
  BY <1>8 DEF RegenerateLicense, Running
<1>9. ASSUME DeleteLicensee PROVE MachinesTypeOK'
  BY <1>9 DEF DeleteLicensee, Running
<1>10. ASSUME NEW n \in 1 .. MaxSeats, NEW ok \in BOOLEAN, ChangePlan(n, ok)
       PROVE  MachinesTypeOK'
  BY <1>10 DEF ChangePlan, Running
<1>11. CASE UNCHANGED machineVars
  BY <1>11 DEF machineVars
<1>12. QED
  BY <1>1, <1>2, <1>3, <1>4, <1>5, <1>6, <1>7, <1>8, <1>9, <1>10, <1>11 DEF MachinesNext

\* The seat limit: registrations are admitted by a limit no larger than the
\* plan's, nothing else adds a machine, and losing seats is recorded.
LEMMA SeatStep == MachinesInv /\ [MachinesNext]_machineVars => SeatsHeld'
<1> SUFFICES ASSUME MachinesInv, [MachinesNext]_machineVars PROVE SeatsHeld'
  OBVIOUS
<1> USE SeatsAssumption
<1> USE DEF MachinesInv, SeatsHeld, MachinesTypeOK, licence, machines, validations, machineHistory
<1>0. Cardinality({}) = 0
  BY FS_EmptySet
<1>1. ASSUME NEW r \in Validations, RegisterMachine(r) PROVE SeatsHeld'
  <2>1. CASE active' = active
    BY <1>1, <2>1 DEF RegisterMachine
  <2>2. CASE Admits(r) /\ Activate(r) /\ step[r] = "register"
    <3>1. machine[r] \in Machines /\ r \in Running
      BY <2>2 DEF Running
    <3>2. lowered \/ loaded[r].limit <= seats
      BY <3>1 DEF LoadedIsCurrent
    <3>3. loaded[r].limit \in Nat /\ seats \in Nat
      OBVIOUS
    <3>4. lowered' = lowered /\ seats' = seats
      BY <1>1 DEF RegisterMachine
    <3>5. Cardinality(active \cup {machine[r]}) <= seats \/ lowered
      <4> DEFINE m == machine[r]
      <4>1. m \in Machines /\ active \in SUBSET Machines
        BY <3>1
      <4>2. /\ Cardinality(active) \in Nat
            /\ Cardinality(active \cup {m}) \in Nat
            /\ Cardinality(active \cup {m}) <= Cardinality(active) + 1
            /\ m \in active => Cardinality(active \cup {m}) = Cardinality(active)
        BY <4>1, SeatCount
      <4>3. m \in active \/ Cardinality(active) < loaded[r].limit
        BY <2>2 DEF Admits
      <4>4. lowered \/ Cardinality(active) <= seats
        OBVIOUS
      <4> HIDE DEF m
      <4>5. Cardinality(active \cup {m}) <= seats \/ lowered
        BY <3>2, <3>3, <4>2, <4>3, <4>4
      <4>6. QED
        BY <4>5 DEF m
    <3>6. QED
      BY <2>2, <3>4, <3>5 DEF Activate
  <2>3. QED
    BY <1>1, <2>1, <2>2 DEF RegisterMachine, Advance
<1>2. ASSUME NEW m \in Machines, RevokeMachine(m) PROVE SeatsHeld'
  <2>1. /\ Cardinality(active \ {m}) <= Cardinality(active)
        /\ Cardinality(active \ {m}) \in Nat /\ Cardinality(active) \in Nat
    BY SeatCount
  <2>2. active' = active \ {m} /\ lowered' = lowered /\ seats' = seats
    BY <1>2 DEF RevokeMachine
  <2>3. QED
    BY <2>1, <2>2
<1>3. CASE RegenerateLicense
  BY <1>0, <1>3 DEF RegenerateLicense
<1>4. CASE DeleteLicensee
  BY <1>0, <1>4 DEF DeleteLicensee
<1>5. ASSUME NEW n \in 1 .. MaxSeats, NEW ok \in BOOLEAN, ChangePlan(n, ok)
      PROVE  SeatsHeld'
  <2>1. Cardinality(active) \in Nat
    BY FS_Subset, FS_CardinalityType, MachinesAssumption
  <2>2. active' = active /\ seats' = n /\ (lowered' <=> lowered \/ n < seats)
    BY <1>5 DEF ChangePlan
  <2>3. QED
    BY <2>1, <2>2
<1>6. CASE UNCHANGED <<active, seats, lowered>>
  BY <1>6
<1>7. QED
  <2>1. ASSUME NEW r \in Validations, NEW m \in Machines \cup {NoMachine},
               ValidateLicense(r, m) \/ FindMachine(r) \/ TouchMachine(r)
                   \/ SignToken(r) \/ DropValidation(r)
        PROVE  UNCHANGED <<active, seats, lowered>>
    BY <2>1 DEF ValidateLicense, FindMachine, TouchMachine, SignToken, DropValidation, Ends
  <2>2. UNCHANGED machineVars => UNCHANGED <<active, seats, lowered>>
    BY DEF machineVars
  <2>3. QED
    BY <1>1, <1>2, <1>3, <1>4, <1>5, <1>6, <2>1, <2>2 DEF MachinesNext

\* What a running request loaded stays current until something overtakes it.
LEMMA LoadedStep == MachinesInv /\ [MachinesNext]_machineVars => LoadedIsCurrent'
<1> SUFFICES ASSUME MachinesInv, [MachinesNext]_machineVars PROVE LoadedIsCurrent'
  OBVIOUS
<1> USE MachinesAssumption, SeatsAssumption, RotationAssumption
<1> USE DEF MachinesInv, LoadedIsCurrent, Running, MachinesTypeOK,
            licence, machines, validations, machineHistory
<1>1. ASSUME NEW r \in Validations, NEW m \in Machines \cup {NoMachine},
             ValidateLicense(r, m)
      PROVE  LoadedIsCurrent'
  BY <1>1 DEF ValidateLicense, Advance
<1>2. ASSUME NEW r \in Validations, FindMachine(r) PROVE LoadedIsCurrent'
  BY <1>2 DEF FindMachine, Advance
<1>3. ASSUME NEW r \in Validations, TouchMachine(r) PROVE LoadedIsCurrent'
  BY <1>3 DEF TouchMachine, Advance
<1>4. ASSUME NEW r \in Validations, RegisterMachine(r) PROVE LoadedIsCurrent'
  BY <1>4 DEF RegisterMachine, Activate, Advance, Ends, Idle
<1>5. ASSUME NEW r \in Validations, SignToken(r) PROVE LoadedIsCurrent'
  BY <1>5 DEF SignToken, Ends, Idle
<1>6. ASSUME NEW r \in Validations, DropValidation(r) PROVE LoadedIsCurrent'
  BY <1>6 DEF DropValidation, Ends, Idle
<1>7. ASSUME NEW m \in Machines, RevokeMachine(m) PROVE LoadedIsCurrent'
  BY <1>7 DEF RevokeMachine
<1>8. CASE RegenerateLicense
  BY <1>8 DEF RegenerateLicense
<1>9. CASE DeleteLicensee
  BY <1>9 DEF DeleteLicensee
<1>10. ASSUME NEW n \in 1 .. MaxSeats, NEW ok \in BOOLEAN, ChangePlan(n, ok)
       PROVE  LoadedIsCurrent'
  BY <1>10 DEF ChangePlan
<1>11. CASE UNCHANGED machineVars
  BY <1>11 DEF machineVars
<1>12. QED
  BY <1>1, <1>2, <1>3, <1>4, <1>5, <1>6, <1>7, <1>8, <1>9, <1>10, <1>11 DEF MachinesNext

\* Machines stay governed by the key, tokens by seats, whatever interleaves.
LEMMA SeatHolderStep ==
    MachinesInv /\ [MachinesNext]_machineVars => KeyGovernsMachines' /\ TokenNeedsSeat'
<1> SUFFICES ASSUME MachinesInv, [MachinesNext]_machineVars
             PROVE  KeyGovernsMachines' /\ TokenNeedsSeat'
  OBVIOUS
<1> USE MachinesAssumption
<1> USE DEF MachinesInv, KeyGovernsMachines, TokenNeedsSeat, LoadedIsCurrent,
            Running, MachinesTypeOK, licence, machines, validations, machineHistory
<1> DEFINE Goal == KeyGovernsMachines /\ TokenNeedsSeat
<1>1. ASSUME NEW r \in Validations, NEW m \in Machines \cup {NoMachine},
             ValidateLicense(r, m)
      PROVE  Goal'
  BY <1>1 DEF ValidateLicense, Advance
<1>2. ASSUME NEW r \in Validations, FindMachine(r) PROVE Goal'
  BY <1>2 DEF FindMachine, Advance
<1>3. ASSUME NEW r \in Validations, TouchMachine(r) PROVE Goal'
  BY <1>3 DEF TouchMachine, Advance
<1>4. ASSUME NEW r \in Validations, RegisterMachine(r) PROVE Goal'
  BY <1>4 DEF RegisterMachine, Activate, Advance, Ends, Idle
<1>5. ASSUME NEW r \in Validations, SignToken(r) PROVE Goal'
  BY <1>5 DEF SignToken, Ends, Idle
<1>6. ASSUME NEW r \in Validations, DropValidation(r) PROVE Goal'
  BY <1>6 DEF DropValidation, Ends, Idle
<1>7. ASSUME NEW m \in Machines, RevokeMachine(m) PROVE Goal'
  BY <1>7 DEF RevokeMachine
<1>8. CASE RegenerateLicense
  BY <1>8 DEF RegenerateLicense
<1>9. CASE DeleteLicensee
  BY <1>9 DEF DeleteLicensee
<1>10. ASSUME NEW n \in 1 .. MaxSeats, NEW ok \in BOOLEAN, ChangePlan(n, ok)
       PROVE  Goal'
  BY <1>10 DEF ChangePlan
<1>11. CASE UNCHANGED machineVars
  BY <1>11 DEF machineVars
<1>12. QED
  BY <1>1, <1>2, <1>3, <1>4, <1>5, <1>6, <1>7, <1>8, <1>9, <1>10, <1>11 DEF MachinesNext

\* The inductive invariant holds in every behaviour.
THEOREM MachinesInvariant == MachinesSpec => []MachinesInv
<1>1. MachinesInit => MachinesInv
  <2> SUFFICES ASSUME MachinesInit PROVE MachinesInv
    OBVIOUS
  <2>1. MachinesTypeOK
    <3>1. Idle \in [key : 0 .. MaxRotations, limit : 1 .. MaxSeats]
      BY SeatsAssumption, RotationAssumption DEF Idle
    <3>2. 0 \in 0 .. MaxRotations
      BY RotationAssumption
    <3>3. QED
      BY <3>1, <3>2 DEF MachinesInit, MachinesTypeOK
  <2>2. SeatsHeld
    BY FS_EmptySet, SeatsAssumption DEF MachinesInit, SeatsHeld
  <2>3. KeyGovernsMachines /\ TokenNeedsSeat /\ LoadedIsCurrent
    BY DEF MachinesInit, KeyGovernsMachines, TokenNeedsSeat, LoadedIsCurrent, Running
  <2>4. QED
    BY <2>1, <2>2, <2>3 DEF MachinesInv
<1>2. MachinesInv /\ [MachinesNext]_machineVars => MachinesInv'
  BY TypeStep, SeatStep, LoadedStep, SeatHolderStep DEF MachinesInv
<1>3. QED
  BY <1>1, <1>2, PTL DEF MachinesSpec

\* However many machines activate at once, a plan that never lost seats is
\* never exceeded.
COROLLARY SeatLimitHolds == MachinesSpec => []SeatsHeld
<1>1. MachinesInv => SeatsHeld
  BY DEF MachinesInv
<1>2. QED
  BY <1>1, MachinesInvariant, PTL

\* A rotated key keeps no machine active, and a deleted account none until its
\* licence is made valid again, save a registration under way.
COROLLARY KeyRotationHolds == MachinesSpec => []KeyGovernsMachines
<1>1. MachinesInv => KeyGovernsMachines
  BY DEF MachinesInv
<1>2. QED
  BY <1>1, MachinesInvariant, PTL

\* A signed token stands for a seat the machine held when the request ended,
\* unless something overtook the request.
COROLLARY TokensNeedSeats == MachinesSpec => []TokenNeedsSeat
<1>1. MachinesInv => TokenNeedsSeat
  BY DEF MachinesInv
<1>2. QED
  BY <1>1, MachinesInvariant, PTL
=============================================================================
