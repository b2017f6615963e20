-------------------------- MODULE OrganizationsProofs --------------------------
(***************************************************************************)
(* Proofs about Organizations for any users, grants, requests and bounds:  *)
(* its types, the single Owner, the single pending invitation of an        *)
(* address, and the seats of those who join.                               *)
(***************************************************************************)
EXTENDS Organizations, FiniteSetTheorems, TLAPS

USE UsersAssumption, GrantsAssumption, InvitedAssumption, BoundAssumption

Outstanding == {"pending", "expired"}

\* The rows of one address that are not answered are one row.
OneOutstanding ==
    \A j, k \in DOMAIN invites :
        /\ invites[j].user = invites[k].user
        /\ invites[j].status \in Outstanding /\ invites[k].status \in Outstanding
        => j = k

\* What a request carries to its write.
Sound(step, j) ==
    /\ step \in {"refresh", "answer", "join"} => j.ref \in DOMAIN invites
    /\ step = "transfer" => j.actor # j.target

JobsSound == \A r \in Requests : Sound(pc[r], job[r])

\* Before the organization exists there is nothing to invite to.
NothingBefore ==
    ~founded => invites = <<>> /\ \A r \in Requests : pc[r] \in {"idle", "found"}

OrganizationInv == TypeOK /\ OneOwner /\ OneOutstanding /\ JobsSound /\ NothingBefore

(***************************************************************************)
(* Sequences of invitations.                                               *)
(***************************************************************************)

\* Setting a status keeps the rows and their number (every UPDATE of
\* auth_invitation).
LEMMA StatusSet ==
    ASSUME invites \in Seq(Invitation), NEW k \in DOMAIN invites,
           NEW st \in {"pending", "expired", "accepted", "rejected", "canceled"},
           invites' = [invites EXCEPT ![k].status = st]
    PROVE  /\ invites' \in Seq(Invitation)
           /\ Len(invites') = Len(invites)
           /\ DOMAIN invites' = DOMAIN invites
  <1>1. DOMAIN invites = 1 .. Len(invites) /\ Len(invites) \in Nat
    OBVIOUS
  <1>2. invites' = [j \in 1 .. Len(invites) |->
                      IF j = k THEN [invites[j] EXCEPT !.status = st] ELSE invites[j]]
    BY <1>1
  <1>3. \A j \in 1 .. Len(invites) : invites[j] \in Invitation
    OBVIOUS
  <1>4. \A j \in 1 .. Len(invites) : invites'[j] \in Invitation
    BY <1>2, <1>3 DEF Invitation
  <1> QED BY <1>1, <1>2, <1>4

\* So does canceling a set of rows.
LEMMA CancelKeeps ==
    ASSUME invites \in Seq(Invitation), NEW S
    PROVE  /\ Cancel(S) \in Seq(Invitation)
           /\ Len(Cancel(S)) = Len(invites)
           /\ DOMAIN Cancel(S) = DOMAIN invites
           /\ \A k \in DOMAIN invites :
                /\ Cancel(S)[k].user = invites[k].user
                /\ Cancel(S)[k].status \in {invites[k].status, "canceled"}
  <1>1. DOMAIN invites = 1 .. Len(invites) /\ Len(invites) \in Nat
    OBVIOUS
  <1>2. \A j \in 1 .. Len(invites) : invites[j] \in Invitation
    OBVIOUS
  <1>3. \A j \in 1 .. Len(invites) :
            /\ Cancel(S)[j] \in Invitation
            /\ Cancel(S)[j].user = invites[j].user
            /\ Cancel(S)[j].status \in {invites[j].status, "canceled"}
    BY <1>1, <1>2 DEF Cancel, Invitation
  <1>4. Cancel(S) = [k \in 1 .. Len(invites) |-> Cancel(S)[k]]
    BY <1>1 DEF Cancel
  <1> QED BY <1>1, <1>3, <1>4

\* So does inviting.
LEMMA AppendKeeps ==
    ASSUME invites \in Seq(Invitation), NEW i \in Invitation
    PROVE  /\ Append(invites, i) \in Seq(Invitation)
           /\ Len(Append(invites, i)) = Len(invites) + 1
           /\ Append(invites, i)[Len(invites) + 1] = i
           /\ \A k \in DOMAIN invites : Append(invites, i)[k] = invites[k]
           /\ DOMAIN Append(invites, i) = DOMAIN invites \cup {Len(invites) + 1}
  <1>1. DOMAIN invites = 1 .. Len(invites) /\ Len(invites) \in Nat
    OBVIOUS
  <1>2. DOMAIN Append(invites, i) = 1 .. Len(invites) + 1
    OBVIOUS
  <1> QED BY <1>1, <1>2

\* Rows that keep their address and do not come back keep OneOutstanding.
LEMMA StillOutstanding ==
    ASSUME OneOutstanding, DOMAIN invites' = DOMAIN invites,
           \A k \in DOMAIN invites :
               /\ invites'[k].user = invites[k].user
               /\ invites'[k].status \in Outstanding => invites[k].status \in Outstanding
    PROVE  OneOutstanding'
  BY DEF OneOutstanding

(***************************************************************************)
(* Requests that start and end.                                            *)
(***************************************************************************)
LEMMA InitInv == Init => OrganizationInv
<1> SUFFICES ASSUME Init PROVE OrganizationInv
  OBVIOUS
<1>1. invites \in Seq(Invitation) /\ Len(invites) = 0 /\ DOMAIN invites = {}
  BY DEF Init
<1>2. NoJob \in Job /\ NoJob.ref = 0
  BY DEF NoJob, Job
<1>3. TypeOK
  <2>1. joined \in [Users -> 0 .. Len(invites)]
    <3>1. 0 \in 0 .. Len(invites)
      BY <1>1
    <3> QED BY <3>1 DEF Init
  <2>2. job \in [Requests -> Job] /\ \A r \in Requests : job[r].ref <= Len(invites)
    BY <1>1, <1>2 DEF Init
  <2> QED BY <1>1, <2>1, <2>2 DEF Init, TypeOK
<1>4. OneOwner /\ NothingBefore
  BY DEF Init, OneOwner, NothingBefore, Members
<1>5. OneOutstanding /\ JobsSound
  BY <1>1 DEF Init, OneOutstanding, JobsSound, Sound
<1> QED BY <1>3, <1>4, <1>5 DEF OrganizationInv

\* A request that only ends.
LEMMA EndKeeps ==
    ASSUME TypeOK, JobsSound, NEW r \in Requests, End(r),
           invites' \in Seq(Invitation), Len(invites') >= Len(invites),
           DOMAIN invites \subseteq DOMAIN invites'
    PROVE  /\ pc' \in [Requests -> {"idle", "found", "transfer", "insert", "refresh",
                                    "role", "remove", "answer", "join"}]
           /\ job' \in [Requests -> Job]
           /\ \A q \in Requests : job'[q].ref <= Len(invites')
           /\ JobsSound'
<1>1. NoJob \in Job /\ NoJob.ref = 0
  BY DEF NoJob, Job
<1>2. Len(invites) \in Nat /\ Len(invites') \in Nat
  BY DEF TypeOK
<1>3. \A q \in Requests : job[q].ref \in Nat
  BY DEF TypeOK, Job
<1>4. \A q \in Requests : pc'[q] = (IF q = r THEN "idle" ELSE pc[q])
                          /\ job'[q] = (IF q = r THEN NoJob ELSE job[q])
  BY DEF End, TypeOK
<1>5. JobsSound'
  BY <1>4 DEF JobsSound, Sound
<1>6. \A q \in Requests : job'[q].ref <= Len(invites')
  BY <1>1, <1>2, <1>3, <1>4 DEF TypeOK
<1> QED BY <1>1, <1>5, <1>6 DEF End, TypeOK

\* A request that starts with sound readings.
LEMMA StartKeeps ==
    ASSUME TypeOK, JobsSound, NEW r \in Requests, NEW started \in Job,
           NEW next \in {"insert", "refresh", "role", "remove", "answer", "transfer"},
           Start(r, next, started), started.ref <= Len(invites), Sound(next, started),
           invites' \in Seq(Invitation), Len(invites') = Len(invites),
           DOMAIN invites' = DOMAIN invites
    PROVE  /\ pc' \in [Requests -> {"idle", "found", "transfer", "insert", "refresh",
                                    "role", "remove", "answer", "join"}]
           /\ job' \in [Requests -> Job]
           /\ \A q \in Requests : job'[q].ref <= Len(invites')
           /\ JobsSound'
<1>1. \A q \in Requests : pc'[q] = (IF q = r THEN next ELSE pc[q])
                          /\ job'[q] = (IF q = r THEN started ELSE job[q])
  BY DEF Start, Goto, TypeOK
<1>2. JobsSound'
  BY <1>1 DEF JobsSound, Sound
<1>3. \A q \in Requests : job'[q].ref <= Len(invites')
  BY <1>1 DEF TypeOK
<1> QED BY <1>2, <1>3 DEF Start, Goto, TypeOK

\* What a request may find, it finds only once the organization exists.
LEMMA MembersExist ==
    ASSUME TypeOK, OneOwner, NEW u \in Users, role[u] # "none"
    PROVE  founded
  BY DEF OneOwner, Members

\* An action of a member that only reads.
LEMMA ReadInv ==
    ASSUME OrganizationInv, founded, NEW r \in Requests, NEW started \in Job,
           NEW next \in {"insert", "refresh", "role", "remove", "answer", "transfer"},
           Start(r, next, started), started.ref <= Len(invites), Sound(next, started),
           UNCHANGED invites
    PROVE  OrganizationInv'
<1>1. /\ pc' \in [Requests -> {"idle", "found", "transfer", "insert", "refresh",
                               "role", "remove", "answer", "join"}]
      /\ job' \in [Requests -> Job]
      /\ \A q \in Requests : job'[q].ref <= Len(invites')
      /\ JobsSound'
  BY StartKeeps DEF OrganizationInv, TypeOK
<1>2. TypeOK'
  BY <1>1 DEF Start, OrganizationInv, TypeOK, people
<1>3. OneOwner' /\ NothingBefore'
  BY DEF Start, OrganizationInv, OneOwner, NothingBefore, Members, Owners, people
<1>4. OneOutstanding'
  BY DEF OrganizationInv, OneOutstanding
<1> QED BY <1>1, <1>2, <1>3, <1>4 DEF OrganizationInv

\* A request that ends with its organization and invitations as they were.
LEMMA EndInv ==
    ASSUME OrganizationInv, NEW r \in Requests, End(r),
           UNCHANGED <<people, seats, active, invites>>
    PROVE  OrganizationInv'
<1>1. /\ pc' \in [Requests -> {"idle", "found", "transfer", "insert", "refresh",
                               "role", "remove", "answer", "join"}]
      /\ job' \in [Requests -> Job]
      /\ \A q \in Requests : job'[q].ref <= Len(invites')
      /\ JobsSound'
  BY EndKeeps DEF OrganizationInv, TypeOK
<1>2. TypeOK'
  BY <1>1 DEF OrganizationInv, TypeOK, people
<1>3. OneOwner' /\ OneOutstanding'
  BY DEF OrganizationInv, OneOwner, OneOutstanding, Members, Owners, people
<1>4. NothingBefore'
  BY DEF End, OrganizationInv, NothingBefore, TypeOK, people
<1> QED BY <1>1, <1>2, <1>3, <1>4 DEF OrganizationInv

\* Invitations that a step answers, cancels, refreshes or lets expire.
LEMMA RowsInv ==
    ASSUME OrganizationInv, founded, UNCHANGED people,
           invites' \in Seq(Invitation), Len(invites') = Len(invites),
           DOMAIN invites' = DOMAIN invites,
           \A k \in DOMAIN invites :
               /\ invites'[k].user = invites[k].user
               /\ invites'[k].status \in Outstanding => invites[k].status \in Outstanding
    PROVE  /\ joined' \in [Users -> 0 .. Len(invites')]
           /\ OneOwner' /\ OneOutstanding' /\ NothingBefore'
<1>1. OneOutstanding'
  BY StillOutstanding DEF OrganizationInv
<1> QED BY <1>1 DEF OrganizationInv, TypeOK, OneOwner, NothingBefore, Members, Owners, people

(***************************************************************************)
(* Every action keeps the invariant.                                       *)
(***************************************************************************)
LEMMA CreateOrganizationInv ==
    ASSUME OrganizationInv, NEW r \in Requests, CreateOrganization(r)
    PROVE  OrganizationInv'
<1>1. \A q \in Requests : pc'[q] = (IF q = r THEN "found" ELSE pc[q]) /\ job'[q] = job[q]
  BY DEF CreateOrganization, Goto, OrganizationInv, TypeOK
<1>2. JobsSound' /\ NothingBefore'
  BY <1>1 DEF CreateOrganization, OrganizationInv, JobsSound, Sound, NothingBefore, people
<1>3. TypeOK'
  BY DEF CreateOrganization, Goto, OrganizationInv, TypeOK, people
<1>4. OneOwner' /\ OneOutstanding'
  BY DEF CreateOrganization, OrganizationInv, OneOwner, OneOutstanding, Members, Owners, people
<1> QED BY <1>2, <1>3, <1>4 DEF OrganizationInv

LEMMA FoundInv ==
    ASSUME OrganizationInv, NEW r \in Requests, Found(r)
    PROVE  OrganizationInv'
<1>1. CASE founded \/ ~(seats > 0)
  BY <1>1, EndInv DEF Found, people
<1>2. CASE ~founded /\ seats > 0
  <2>1. /\ founded' = TRUE /\ UNCHANGED <<seats, invites>> /\ End(r)
        /\ role' = [role EXCEPT ![Founder] = "owner"]
        /\ joined' = [joined EXCEPT ![Founder] = 0]
        /\ active' = active \cup {Founder}
    BY <1>2 DEF Found
  <2>2. /\ pc' \in [Requests -> {"idle", "found", "transfer", "insert", "refresh",
                                 "role", "remove", "answer", "join"}]
        /\ job' \in [Requests -> Job]
        /\ \A q \in Requests : job'[q].ref <= Len(invites')
        /\ JobsSound'
    BY <2>1, EndKeeps DEF OrganizationInv, TypeOK
  <2>3. joined' \in [Users -> 0 .. Len(invites')]
    <3>1. 0 \in 0 .. Len(invites')
      BY <2>1 DEF OrganizationInv, TypeOK
    <3> QED BY <2>1, <3>1 DEF OrganizationInv, TypeOK
  <2>4. TypeOK'
    BY <2>1, <2>2, <2>3 DEF OrganizationInv, TypeOK, Roles
  <2>5. OneOwner'
    <3>1. \A u \in Users : role[u] = "none"
      BY <1>2 DEF OrganizationInv, OneOwner, Members
    <3>2. \A u \in Users : role'[u] = (IF u = Founder THEN "owner" ELSE "none")
      BY <2>1, <3>1 DEF OrganizationInv, TypeOK
    <3>3. Owners' = {Founder}
      BY <3>2 DEF Owners
    <3> QED BY <2>1, <3>3 DEF OneOwner
  <2>6. OneOutstanding' /\ NothingBefore'
    BY <2>1 DEF OrganizationInv, OneOutstanding, NothingBefore
  <2> QED BY <2>2, <2>4, <2>5, <2>6 DEF OrganizationInv
<1> QED BY <1>1, <1>2

LEMMA InviteInv ==
    ASSUME OrganizationInv, NEW r \in Requests, NEW actor \in Users, NEW target \in Users,
           NEW invited \in InvitedRoles, Invite(r, actor, target, invited)
    PROVE  OrganizationInv'
<1> DEFINE started == [NoJob EXCEPT !.target = target, !.role = invited]
<1>1. started \in Job /\ started.ref = 0 /\ Start(r, "insert", started)
  BY DEF Invite, NoJob, Job
<1>2. founded
  BY MembersExist DEF Invite, MayGrow, MayManage, OrganizationInv
<1>3. PICK S : invites' = Cancel(S)
  BY DEF Invite
<1>4. /\ invites' \in Seq(Invitation) /\ Len(invites') = Len(invites)
      /\ DOMAIN invites' = DOMAIN invites
      /\ \A k \in DOMAIN invites :
            /\ invites'[k].user = invites[k].user
            /\ invites'[k].status \in Outstanding => invites[k].status \in Outstanding
  BY <1>3, CancelKeeps DEF OrganizationInv, TypeOK, Outstanding
<1>5. 0 <= Len(invites) /\ Sound("insert", started)
  BY DEF OrganizationInv, TypeOK, Sound
<1>6. /\ pc' \in [Requests -> {"idle", "found", "transfer", "insert", "refresh",
                               "role", "remove", "answer", "join"}]
      /\ job' \in [Requests -> Job]
      /\ \A q \in Requests : job'[q].ref <= Len(invites')
      /\ JobsSound'
  <2> HIDE DEF started
  <2> QED BY <1>1, <1>4, <1>5, StartKeeps DEF OrganizationInv
<1>7. UNCHANGED <<people, seats, active>>
  BY <1>1 DEF Start
<1>8. joined' \in [Users -> 0 .. Len(invites')] /\ OneOwner' /\ OneOutstanding' /\ NothingBefore'
  BY <1>2, <1>4, <1>7, RowsInv
<1>9. TypeOK'
  BY <1>4, <1>6, <1>7, <1>8 DEF OrganizationInv, TypeOK, people
<1> QED BY <1>6, <1>8, <1>9 DEF OrganizationInv

LEMMA ResendInv ==
    ASSUME OrganizationInv, NEW r \in Requests, NEW actor \in Users,
           NEW k \in DOMAIN invites, Resend(r, actor, k)
    PROVE  OrganizationInv'
<1>1. founded
  BY MembersExist DEF Resend, MayGrow, MayManage, OrganizationInv
<1>2. invites[k] \in Invitation /\ k \in Nat /\ k <= Len(invites) /\ 0 <= Len(invites)
  BY DEF OrganizationInv, TypeOK
<1>3. CASE Start(r, "refresh", [NoJob EXCEPT !.ref = k])
  <2> DEFINE started == [NoJob EXCEPT !.ref = k]
  <2>1. started \in Job /\ started.ref = k
    BY <1>2 DEF NoJob, Job
  <2>2. Sound("refresh", started)
    BY <2>1 DEF Sound
  <2> HIDE DEF started
  <2> QED BY <1>1, <1>2, <1>3, <2>1, <2>2, ReadInv DEF Resend, started
<1>4. CASE Start(r, "insert", [NoJob EXCEPT !.target = invites[k].user, !.role = invites[k].role])
  <2> DEFINE started == [NoJob EXCEPT !.target = invites[k].user, !.role = invites[k].role]
  <2>1. started \in Job /\ started.ref = 0
    BY <1>2 DEF NoJob, Job, Invitation
  <2>2. Sound("insert", started)
    BY DEF Sound
  <2> HIDE DEF started
  <2> QED BY <1>1, <1>2, <1>4, <2>1, <2>2, ReadInv DEF Resend, started
<1> QED BY <1>3, <1>4 DEF Resend

LEMMA RevokeInv ==
    ASSUME OrganizationInv, NEW r \in Requests, NEW actor \in Users,
           NEW k \in DOMAIN invites, Revoke(r, actor, k)
    PROVE  OrganizationInv'
<1> DEFINE started == [NoJob EXCEPT !.ref = k, !.answer = "canceled"]
<1>1. founded
  BY MembersExist DEF Revoke, MayManage, OrganizationInv
<1>2. k \in Nat /\ k <= Len(invites)
  BY DEF OrganizationInv, TypeOK
<1>3. started \in Job /\ started.ref = k
  BY <1>2 DEF NoJob, Job
<1>4. Sound("answer", started)
  BY <1>3 DEF Sound
<1>5. Start(r, "answer", started) /\ UNCHANGED invites
  BY DEF Revoke
<1> HIDE DEF started
<1> QED BY <1>1, <1>2, <1>3, <1>4, <1>5, ReadInv

LEMMA RespondInv ==
    ASSUME OrganizationInv, NEW r \in Requests, NEW answer \in {"accepted", "rejected"},
           NEW k \in DOMAIN invites, Respond(r, answer, k)
    PROVE  OrganizationInv'
<1> DEFINE started == [NoJob EXCEPT !.ref = k, !.answer = answer]
<1>1. founded
  BY DEF OrganizationInv, NothingBefore
<1>2. k \in Nat /\ k <= Len(invites)
  BY DEF OrganizationInv, TypeOK
<1>3. started \in Job /\ started.ref = k
  BY <1>2 DEF NoJob, Job
<1>4. Sound("answer", started)
  BY <1>3 DEF Sound
<1>5. Start(r, "answer", started) /\ UNCHANGED invites
  BY DEF Respond
<1> HIDE DEF started
<1> QED BY <1>1, <1>2, <1>3, <1>4, <1>5, ReadInv

\* Role changes, removals and transfers name the member row they read.
LEMMA PickInv ==
    ASSUME OrganizationInv, NEW r \in Requests, NEW actor \in Users, NEW target \in Users,
           NEW newRole \in {"member", "admin"}, NEW next \in {"role", "remove"},
           PickMember(r, next, actor, target, newRole)
    PROVE  OrganizationInv'
<1> DEFINE started == [NoJob EXCEPT !.target = target, !.role = newRole, !.ref = joined[target]]
<1>1. founded
  BY MembersExist DEF PickMember, TargetVisible, OrganizationInv
<1>2. joined[target] \in Nat /\ joined[target] <= Len(invites)
  BY DEF OrganizationInv, TypeOK
<1>3. started \in Job /\ started.ref = joined[target]
  BY <1>2 DEF NoJob, Job
<1>4. Sound(next, started)
  BY DEF Sound
<1>5. Start(r, next, started) /\ UNCHANGED invites
  BY DEF PickMember
<1> HIDE DEF started
<1> QED BY <1>1, <1>2, <1>3, <1>4, <1>5, ReadInv

LEMMA TransferOwnershipInv ==
    ASSUME OrganizationInv, NEW r \in Requests, NEW actor \in Users, NEW target \in Users,
           TransferOwnership(r, actor, target)
    PROVE  OrganizationInv'
<1> DEFINE started == [NoJob EXCEPT !.actor = actor, !.target = target, !.ref = joined[target]]
<1>1. founded
  BY MembersExist DEF TransferOwnership, TargetVisible, OrganizationInv
<1>2. joined[target] \in Nat /\ joined[target] <= Len(invites)
  BY DEF OrganizationInv, TypeOK
<1>3. /\ started \in Job /\ started.ref = joined[target]
      /\ started.actor = actor /\ started.target = target
  BY <1>2 DEF NoJob, Job
<1>4. Sound("transfer", started)
  BY <1>3 DEF Sound, TransferOwnership, MayTransfer
<1>5. Start(r, "transfer", started) /\ UNCHANGED invites
  BY DEF TransferOwnership
<1> HIDE DEF started
<1> QED BY <1>1, <1>2, <1>3, <1>4, <1>5, ReadInv

\* A request that ends by changing roles and member rows only.
LEMMA RolesInv ==
    ASSUME OrganizationInv, founded, NEW r \in Requests, End(r),
           UNCHANGED <<founded, seats, invites>>, active' \subseteq Users,
           role' \in [Users -> Roles \cup {"none"}],
           joined' \in [Users -> 0 .. Len(invites)], OneOwner'
    PROVE  OrganizationInv'
<1>1. /\ pc' \in [Requests -> {"idle", "found", "transfer", "insert", "refresh",
                               "role", "remove", "answer", "join"}]
      /\ job' \in [Requests -> Job]
      /\ \A q \in Requests : job'[q].ref <= Len(invites')
      /\ JobsSound'
  BY EndKeeps DEF OrganizationInv, TypeOK
<1>2. TypeOK'
  BY <1>1 DEF OrganizationInv, TypeOK
<1>3. OneOutstanding' /\ NothingBefore'
  BY DEF OrganizationInv, OneOutstanding, NothingBefore
<1> QED BY <1>1, <1>2, <1>3 DEF OrganizationInv

\* The promotion needs the Owner in place, and the demotion finds one to
\* demote only after it.
LEMMA TransferInv ==
    ASSUME OrganizationInv, NEW r \in Requests, Transfer(r)
    PROVE  OrganizationInv'
<1> DEFINE a == job[r].actor
           t == job[r].target
           promotes == /\ role[t] \in {"admin", "member"} /\ joined[t] = job[r].ref
                       /\ a \in active /\ role[a] = "owner"
<1>1. a \in Users /\ t \in Users /\ a # t
  BY DEF OrganizationInv, TypeOK, JobsSound, Sound, Job, Transfer
<1>2. founded
  BY DEF OrganizationInv, NothingBefore, Transfer
<1>3. role \in [Users -> Roles \cup {"none"}] /\ joined \in [Users -> 0 .. Len(invites)]
  BY DEF OrganizationInv, TypeOK
<1>4. End(r) /\ UNCHANGED <<founded, joined, seats, active, invites>> /\ active' \subseteq Users
  BY DEF Transfer, OrganizationInv, TypeOK
<1>5. PICK o \in Users : Owners = {o}
  BY <1>2 DEF OrganizationInv, OneOwner
<1>6. \A u \in Users : role[u] = "owner" <=> u = o
  BY <1>5 DEF Owners
<1>7. CASE promotes
  <2>1. role' = [[role EXCEPT ![t] = "owner"] EXCEPT ![a] = "admin"]
    BY <1>1, <1>3, <1>7 DEF Transfer, Demoted, Replaces
  <2>2. \A u \in Users : role'[u] = "owner" <=> u = t
    BY <1>1, <1>3, <1>6, <1>7, <2>1
  <2>3. OneOwner'
    BY <1>1, <1>2, <1>4, <2>2 DEF OneOwner, Owners
  <2>4. role' \in [Users -> Roles \cup {"none"}]
    BY <1>3, <2>1 DEF Roles
  <2> QED BY <1>2, <1>3, <1>4, <2>3, <2>4, RolesInv
<1>8. CASE ~promotes
  <2>1. role' = Demoted(r, role)
    BY <1>8 DEF Transfer
  <2>2. role' = role
    BY <1>1, <1>6, <2>1 DEF Demoted, Replaces
  <2>3. UNCHANGED <<people, seats, active, invites>>
    BY <1>4, <2>2 DEF people
  <2> QED BY <1>4, <2>3, EndInv
<1> QED BY <1>7, <1>8

LEMMA SetRoleInv ==
    ASSUME OrganizationInv, NEW r \in Requests, SetRole(r)
    PROVE  OrganizationInv'
<1> DEFINE u == job[r].target
<1>1. u \in Users /\ job[r].role \in {"member", "admin"}
  BY DEF OrganizationInv, TypeOK, Job
<1>2. CASE Row(r) /\ ~LastOwner(u)
  <2>1. founded
    BY <1>1, <1>2, MembersExist DEF Row, OrganizationInv
  <2>2. PICK o \in Users : Owners = {o}
    BY <2>1 DEF OrganizationInv, OneOwner
  <2>3. o # u /\ \A v \in Users : role[v] = "owner" <=> v = o
    BY <1>2, <2>2 DEF LastOwner, Owners
  <2>4. role' = [role EXCEPT ![u] = job[r].role]
    BY <1>2 DEF SetRole
  <2>5. \A v \in Users : role'[v] = "owner" <=> v = o
    BY <1>1, <2>3, <2>4 DEF OrganizationInv, TypeOK
  <2>6. OneOwner'
    BY <2>1, <2>5 DEF SetRole, OneOwner, Owners
  <2>7. role' \in [Users -> Roles \cup {"none"}]
    BY <1>1, <2>4 DEF OrganizationInv, TypeOK, Roles
  <2> QED BY <2>1, <2>6, <2>7, RolesInv DEF SetRole, OrganizationInv, TypeOK
<1>3. CASE ~(Row(r) /\ ~LastOwner(u))
  BY <1>3, EndInv DEF SetRole, people
<1> QED BY <1>2, <1>3

LEMMA RemoveMemberInv ==
    ASSUME OrganizationInv, NEW r \in Requests, RemoveMember(r)
    PROVE  OrganizationInv'
<1> DEFINE u == job[r].target
<1>1. u \in Users
  BY DEF OrganizationInv, TypeOK, Job
<1>2. CASE Row(r) /\ ~LastOwner(u)
  <2>1. founded
    BY <1>1, <1>2, MembersExist DEF Row, OrganizationInv
  <2>2. PICK o \in Users : Owners = {o}
    BY <2>1 DEF OrganizationInv, OneOwner
  <2>3. o # u /\ \A v \in Users : role[v] = "owner" <=> v = o
    BY <1>2, <2>2 DEF LastOwner, Owners
  <2>4. role' = [role EXCEPT ![u] = "none"] /\ joined' = [joined EXCEPT ![u] = 0]
    BY <1>2 DEF RemoveMember
  <2>5. \A v \in Users : role'[v] = "owner" <=> v = o
    BY <1>1, <2>3, <2>4 DEF OrganizationInv, TypeOK
  <2>6. OneOwner'
    BY <2>1, <2>5 DEF RemoveMember, OneOwner, Owners
  <2>7. role' \in [Users -> Roles \cup {"none"}]
    BY <2>4 DEF OrganizationInv, TypeOK
  <2>8. joined' \in [Users -> 0 .. Len(invites)]
    <3>1. 0 \in 0 .. Len(invites)
      BY DEF OrganizationInv, TypeOK
    <3> QED BY <2>4, <3>1 DEF OrganizationInv, TypeOK
  <2> QED BY <2>1, <2>6, <2>7, <2>8, RolesInv DEF RemoveMember, OrganizationInv, TypeOK
<1>3. CASE ~(Row(r) /\ ~LastOwner(u))
  BY <1>3, EndInv DEF RemoveMember, people
<1> QED BY <1>2, <1>3

LEMMA JoinInv ==
    ASSUME OrganizationInv, NEW r \in Requests, Join(r)
    PROVE  OrganizationInv'
<1> DEFINE u == Invitee(r)
           i == invites[job[r].ref]
<1>1. job[r].ref \in DOMAIN invites
  BY DEF OrganizationInv, JobsSound, Sound, Join
<1>2. i \in Invitation /\ job[r].ref \in 0 .. Len(invites)
  BY <1>1 DEF OrganizationInv, TypeOK
<1>3. u \in Users /\ i.role \in {"member", "admin"}
  BY <1>2 DEF Invitee, Invitation
<1>4. CASE role[u] = "none" /\ Cardinality(Members) < seats
  <2>1. founded
    BY DEF Join, OrganizationInv, NothingBefore
  <2>2. PICK o \in Users : Owners = {o}
    BY <2>1 DEF OrganizationInv, OneOwner
  <2>3. \A v \in Users : role[v] = "owner" <=> v = o
    BY <2>2 DEF Owners
  <2>4. /\ role' = [role EXCEPT ![u] = i.role] /\ joined' = [joined EXCEPT ![u] = job[r].ref]
        /\ active' \in {active, active \cup {u}}
    BY <1>4 DEF Join, Joining
  <2>5. \A v \in Users : role'[v] = "owner" <=> v = o
    BY <1>3, <1>4, <2>3, <2>4 DEF OrganizationInv, TypeOK
  <2>6. OneOwner'
    BY <2>1, <2>5 DEF Join, OneOwner, Owners
  <2>7. role' \in [Users -> Roles \cup {"none"}]
    BY <1>3, <2>4 DEF OrganizationInv, TypeOK, Roles
  <2>8. joined' \in [Users -> 0 .. Len(invites)]
    BY <1>2, <2>4 DEF OrganizationInv, TypeOK
  <2>9. active' \subseteq Users
    BY <1>3, <2>4 DEF OrganizationInv, TypeOK
  <2> QED BY <2>1, <2>6, <2>7, <2>8, <2>9, RolesInv DEF Join
<1>5. CASE ~(role[u] = "none" /\ Cardinality(Members) < seats)
  BY <1>5, EndInv DEF Join, people
<1> QED BY <1>4, <1>5

LEMMA InsertInvitationInv ==
    ASSUME OrganizationInv, NEW r \in Requests, InsertInvitation(r)
    PROVE  OrganizationInv'
<1> DEFINE j == job[r]
           i == [user |-> j.target, role |-> j.role, status |-> "pending"]
<1>1. founded
  BY DEF InsertInvitation, OrganizationInv, NothingBefore
<1>2. i \in Invitation
  BY DEF OrganizationInv, TypeOK, Job, Invitation
<1>3. CASE Pending(j.target) = {}
  <2>1. invites' = Append(invites, i) /\ End(r) /\ UNCHANGED <<people, seats, active>>
    BY <1>3 DEF InsertInvitation
  <2>2. /\ invites' \in Seq(Invitation) /\ Len(invites') = Len(invites) + 1
        /\ invites'[Len(invites) + 1] = i
        /\ \A k \in DOMAIN invites : invites'[k] = invites[k]
        /\ DOMAIN invites' = DOMAIN invites \cup {Len(invites) + 1}
    BY <1>2, <2>1, AppendKeeps DEF OrganizationInv, TypeOK
  <2>3. Len(invites) \in Nat /\ Len(invites') >= Len(invites)
    BY <2>2 DEF OrganizationInv, TypeOK
  <2>4. /\ pc' \in [Requests -> {"idle", "found", "transfer", "insert", "refresh",
                                 "role", "remove", "answer", "join"}]
        /\ job' \in [Requests -> Job]
        /\ \A q \in Requests : job'[q].ref <= Len(invites')
        /\ JobsSound'
    BY <2>1, <2>2, <2>3, EndKeeps DEF OrganizationInv
  <2>5. joined' \in [Users -> 0 .. Len(invites')]
    BY <2>1, <2>2, <2>3 DEF OrganizationInv, TypeOK, people
  <2>6. TypeOK'
    BY <2>1, <2>2, <2>4, <2>5 DEF OrganizationInv, TypeOK, people
  <2>7. OneOutstanding'
    <3>1. \A k \in DOMAIN invites : ~(invites[k].user = j.target /\ invites[k].status \in Outstanding)
      BY <1>3 DEF Pending, Outstanding
    <3> QED BY <2>2, <3>1 DEF OrganizationInv, OneOutstanding
  <2>8. OneOwner' /\ NothingBefore'
    BY <1>1, <2>1 DEF OrganizationInv, OneOwner, NothingBefore, Members, Owners, people
  <2> QED BY <2>4, <2>6, <2>7, <2>8 DEF OrganizationInv
<1>4. CASE Pending(j.target) # {}
  BY <1>4, EndInv DEF InsertInvitation, people
<1> QED BY <1>3, <1>4

\* Statements that set the status of one invitation.
LEMMA StatusInv ==
    ASSUME OrganizationInv, founded, NEW k \in DOMAIN invites,
           NEW st \in {"pending", "expired", "accepted", "rejected", "canceled"},
           st \in Outstanding => invites[k].status \in Outstanding,
           invites' = [invites EXCEPT ![k].status = st],
           UNCHANGED <<people, seats, active>>
    PROVE  /\ invites' \in Seq(Invitation) /\ Len(invites') = Len(invites)
           /\ DOMAIN invites' = DOMAIN invites
           /\ joined' \in [Users -> 0 .. Len(invites')]
           /\ OneOwner' /\ OneOutstanding' /\ NothingBefore'
<1>1. /\ invites' \in Seq(Invitation) /\ Len(invites') = Len(invites)
      /\ DOMAIN invites' = DOMAIN invites
  <2>1. invites \in Seq(Invitation)
    BY DEF OrganizationInv, TypeOK
  <2> QED BY <2>1, StatusSet
<1>2. \A n \in DOMAIN invites : invites[n] \in Invitation
  BY DEF OrganizationInv, TypeOK
<1>3. \A n \in DOMAIN invites :
          /\ invites'[n].user = invites[n].user
          /\ invites'[n].status = (IF n = k THEN st ELSE invites[n].status)
  BY <1>2 DEF Invitation
<1>4. \A n \in DOMAIN invites :
          /\ invites'[n].user = invites[n].user
          /\ invites'[n].status \in Outstanding => invites[n].status \in Outstanding
  BY <1>3
<1> QED BY <1>1, <1>4, RowsInv

LEMMA RefreshInvitationInv ==
    ASSUME OrganizationInv, NEW r \in Requests, RefreshInvitation(r)
    PROVE  OrganizationInv'
<1> DEFINE k == job[r].ref
           st == IF invites[k].status = "expired" THEN "pending" ELSE invites[k].status
<1>1. founded
  BY DEF RefreshInvitation, OrganizationInv, NothingBefore
<1>2. k \in DOMAIN invites
  BY DEF RefreshInvitation, OrganizationInv, JobsSound, Sound
<1>3. invites[k] \in Invitation
  BY <1>2 DEF OrganizationInv, TypeOK
<1>4. /\ st \in {"pending", "expired", "accepted", "rejected", "canceled"}
      /\ st \in Outstanding => invites[k].status \in Outstanding
  BY <1>3 DEF Invitation, Outstanding
<1>5. /\ invites' = [invites EXCEPT ![k].status = st]
      /\ End(r) /\ UNCHANGED <<people, seats, active>>
  BY <1>2, <1>3 DEF RefreshInvitation, Invitation
<1>6. /\ invites' \in Seq(Invitation) /\ Len(invites') = Len(invites)
      /\ DOMAIN invites' = DOMAIN invites
      /\ joined' \in [Users -> 0 .. Len(invites')]
      /\ OneOwner' /\ OneOutstanding' /\ NothingBefore'
  <2> HIDE DEF k, st
  <2> QED BY <1>1, <1>2, <1>4, <1>5, StatusInv
<1>7. Len(invites') >= Len(invites)
  BY <1>6 DEF OrganizationInv, TypeOK
<1>8. /\ pc' \in [Requests -> {"idle", "found", "transfer", "insert", "refresh",
                               "role", "remove", "answer", "join"}]
      /\ job' \in [Requests -> Job]
      /\ \A q \in Requests : job'[q].ref <= Len(invites')
      /\ JobsSound'
  BY <1>5, <1>6, <1>7, EndKeeps DEF OrganizationInv
<1>9. TypeOK'
  BY <1>5, <1>6, <1>8 DEF OrganizationInv, TypeOK, people
<1> QED BY <1>6, <1>8, <1>9 DEF OrganizationInv

LEMMA AnswerInvitationInv ==
    ASSUME OrganizationInv, NEW r \in Requests, AnswerInvitation(r)
    PROVE  OrganizationInv'
<1> DEFINE k == job[r].ref
           st == job[r].answer
<1>1. founded
  BY DEF AnswerInvitation, OrganizationInv, NothingBefore
<1>2. k \in DOMAIN invites
  BY DEF AnswerInvitation, OrganizationInv, JobsSound, Sound
<1>3. st \in {"accepted", "rejected", "canceled"} /\ st \notin Outstanding
  BY DEF OrganizationInv, TypeOK, Job, Outstanding
<1>4. invites' = [invites EXCEPT ![k].status = st] /\ UNCHANGED <<people, seats, active>>
  BY DEF AnswerInvitation
<1>5. /\ invites' \in Seq(Invitation) /\ Len(invites') = Len(invites)
      /\ DOMAIN invites' = DOMAIN invites
      /\ joined' \in [Users -> 0 .. Len(invites')]
      /\ OneOwner' /\ OneOutstanding' /\ NothingBefore'
  <2> HIDE DEF k, st
  <2> QED BY <1>1, <1>2, <1>3, <1>4, StatusInv
<1>6. Len(invites') >= Len(invites)
  BY <1>5 DEF OrganizationInv, TypeOK
<1>7. /\ pc' \in [Requests -> {"idle", "found", "transfer", "insert", "refresh",
                               "role", "remove", "answer", "join"}]
      /\ job' \in [Requests -> Job]
      /\ \A q \in Requests : job'[q].ref <= Len(invites')
      /\ JobsSound'
  <2>1. CASE End(r)
    BY <1>5, <1>6, <2>1, EndKeeps DEF OrganizationInv
  <2>2. CASE pc' = [pc EXCEPT ![r] = "join"] /\ UNCHANGED job
    <3>1. \A q \in Requests : pc'[q] = (IF q = r THEN "join" ELSE pc[q]) /\ job'[q] = job[q]
      BY <2>2 DEF OrganizationInv, TypeOK
    <3>2. JobsSound'
      BY <1>2, <1>5, <3>1 DEF OrganizationInv, JobsSound, Sound
    <3> QED BY <1>5, <2>2, <3>2 DEF OrganizationInv, TypeOK
  <2> QED BY <2>1, <2>2 DEF AnswerInvitation
<1>8. TypeOK'
  BY <1>4, <1>5, <1>7 DEF OrganizationInv, TypeOK, people
<1> QED BY <1>5, <1>7, <1>8 DEF OrganizationInv

LEMMA InvitationExpiresInv ==
    ASSUME OrganizationInv, NEW k \in DOMAIN invites, InvitationExpires(k)
    PROVE  OrganizationInv'
<1>1. founded
  BY DEF OrganizationInv, NothingBefore
<1>2. invites' = [invites EXCEPT ![k].status = "expired"] /\ invites[k].status = "pending"
  BY DEF InvitationExpires
<1>3. UNCHANGED <<people, seats, active, pc, job>>
  BY DEF InvitationExpires, requests
<1>4. /\ invites' \in Seq(Invitation) /\ Len(invites') = Len(invites)
      /\ DOMAIN invites' = DOMAIN invites
      /\ joined' \in [Users -> 0 .. Len(invites')]
      /\ OneOwner' /\ OneOutstanding' /\ NothingBefore'
  BY <1>1, <1>2, <1>3, StatusInv DEF Outstanding
<1>5. TypeOK' /\ JobsSound'
  BY <1>3, <1>4 DEF OrganizationInv, TypeOK, JobsSound, Sound, people
<1> QED BY <1>4, <1>5 DEF OrganizationInv

\* The licence and the sessions take no part in the invariant but their types.
LEMMA EnvironmentInv ==
    ASSUME OrganizationInv, seats' \in Grants, active' \subseteq Users,
           UNCHANGED <<people, invites, requests>>
    PROVE  OrganizationInv'
<1>1. UNCHANGED <<founded, role, joined, invites, pc, job>>
  BY DEF people, requests
<1>2. TypeOK' /\ OneOwner'
  BY <1>1 DEF OrganizationInv, TypeOK, OneOwner, Members, Owners
<1>3. OneOutstanding' /\ JobsSound' /\ NothingBefore'
  BY <1>1 DEF OrganizationInv, OneOutstanding, JobsSound, Sound, NothingBefore
<1> QED BY <1>2, <1>3 DEF OrganizationInv

LEMMA NextInv == OrganizationInv /\ [Next]_vars => OrganizationInv'
<1> SUFFICES ASSUME OrganizationInv, [Next]_vars PROVE OrganizationInv'
  OBVIOUS
<1>1. CASE LicenceChanges
  BY <1>1, EnvironmentInv DEF LicenceChanges, OrganizationInv, TypeOK
<1>2. ASSUME NEW k \in DOMAIN invites, InvitationExpires(k) PROVE OrganizationInv'
  BY <1>2, InvitationExpiresInv
<1>3. ASSUME NEW u \in Users, SignIn(u) PROVE OrganizationInv'
  BY <1>3, EnvironmentInv DEF SignIn, OrganizationInv, TypeOK
<1>4. ASSUME NEW r \in Requests, NEW actor \in Users, NEW target \in Users,
             \/ \E invited \in InvitedRoles : Invite(r, actor, target, invited)
             \/ \E newRole \in {"member", "admin"} : ChangeRole(r, actor, target, newRole)
             \/ Remove(r, actor, target) \/ TransferOwnership(r, actor, target)
      PROVE  OrganizationInv'
  <2>1. ASSUME NEW newRole \in {"member", "admin"}, ChangeRole(r, actor, target, newRole)
        PROVE  OrganizationInv'
    BY <2>1, PickInv DEF ChangeRole
  <2>2. CASE Remove(r, actor, target)
    BY <2>2, PickInv DEF Remove
  <2> QED BY <1>4, <2>1, <2>2, InviteInv, TransferOwnershipInv
<1>5. ASSUME NEW r \in Requests, NEW k \in DOMAIN invites,
             \/ \E actor \in Users : Resend(r, actor, k) \/ Revoke(r, actor, k)
             \/ \E answer \in {"accepted", "rejected"} : Respond(r, answer, k)
      PROVE  OrganizationInv'
  BY <1>5, ResendInv, RevokeInv, RespondInv
<1>6. ASSUME NEW r \in Requests,
             \/ CreateOrganization(r) \/ Found(r) \/ Transfer(r)
             \/ InsertInvitation(r) \/ RefreshInvitation(r) \/ AnswerInvitation(r) \/ Join(r)
             \/ SetRole(r) \/ RemoveMember(r) \/ Drop(r)
      PROVE  OrganizationInv'
  <2>1. CASE Drop(r)
    BY <2>1, EndInv DEF Drop
  <2> QED BY <1>6, <2>1, CreateOrganizationInv, FoundInv, TransferInv, InsertInvitationInv,
             RefreshInvitationInv, AnswerInvitationInv, JoinInv, SetRoleInv, RemoveMemberInv
<1>7. CASE UNCHANGED vars
  BY <1>7, EnvironmentInv DEF vars, OrganizationInv, TypeOK
<1> QED BY <1>1, <1>2, <1>3, <1>4, <1>5, <1>6, <1>7 DEF Next

(***************************************************************************)
(* The theorems.                                                           *)
(***************************************************************************)

\* The strengthening that carries the others: one outstanding invitation per
\* address, sound readings, and nothing before the organization exists.
THEOREM OrganizationInvariant == Spec => []OrganizationInv
<1>1. Init => OrganizationInv
  BY InitInv
<1>2. OrganizationInv /\ [Next]_vars => OrganizationInv'
  BY NextInv
<1> QED BY <1>1, <1>2, PTL DEF Spec

\* The tables keep their types and no request names an invitation that does
\* not exist.
THEOREM OrganizationTypes == Spec => []TypeOK
<1>1. OrganizationInv => TypeOK
  BY DEF OrganizationInv
<1> QED BY <1>1, OrganizationInvariant, PTL

\* transferOrganizationOwnership and the triggers of migration 025 leave the
\* organization exactly one Owner.
THEOREM ExactlyOneOwner == Spec => []OneOwner
<1>1. OrganizationInv => OneOwner
  BY DEF OrganizationInv
<1> QED BY <1>1, OrganizationInvariant, PTL

\* The unique index of migration 024 leaves an address one pending invitation.
THEOREM PendingIsUnique == Spec => []OnePendingInvitation
<1>1. OrganizationInv => OnePendingInvitation
  <2> SUFFICES ASSUME OrganizationInv, NEW u \in Users PROVE Cardinality(Pending(u)) <= 1
    BY DEF OnePendingInvitation
  <2>1. \A j, k \in Pending(u) : j = k
    BY DEF OrganizationInv, OneOutstanding, Outstanding, Pending
  <2>2. CASE Pending(u) = {}
    BY <2>2, FS_EmptySet
  <2>3. CASE Pending(u) # {}
    <3>1. PICK k \in Pending(u) : TRUE
      BY <2>3
    <3>2. Pending(u) = {k}
      BY <2>1, <3>1
    <3>3. Cardinality({k}) = 1
      BY FS_Singleton
    <3> QED BY <3>2, <3>3
  <2> QED BY <2>2, <2>3
<1> QED BY <1>1, OrganizationInvariant, PTL

\* Whoever joins, by an invitation or as the founder, takes a seat that is free
\* at that moment (auth_member_paid_seat_guard).
THEOREM SeatsBeforeJoining == Spec => JoinsTakeFreeSeats
<1> DEFINE Joins == \A u \in Users : role[u] = "none" /\ role'[u] # "none" =>
                        Cardinality(Members) < seats
<1>1. OrganizationInv /\ [Next]_vars => [Joins]_vars
  <2> SUFFICES ASSUME OrganizationInv, Next, NEW u \in Users, role[u] = "none", role'[u] # "none"
               PROVE  Cardinality(Members) < seats
    BY DEF Joins
  <2>1. role \in [Users -> Roles \cup {"none"}]
    BY DEF OrganizationInv, TypeOK
  <2>2. role' # role
    OBVIOUS
  <2>3. \E r \in Requests : Found(r) \/ Transfer(r) \/ Join(r) \/ SetRole(r) \/ RemoveMember(r)
    <3>1. ASSUME NEW r \in Requests, NEW next, NEW started, Start(r, next, started)
          PROVE  role' = role
      BY <3>1 DEF Start, people
    <3>2. ASSUME NEW r \in Requests, NEW actor \in Users, NEW target \in Users,
                 \/ \E invited \in InvitedRoles : Invite(r, actor, target, invited)
                 \/ \E newRole \in {"member", "admin"} : ChangeRole(r, actor, target, newRole)
                 \/ Remove(r, actor, target) \/ TransferOwnership(r, actor, target)
          PROVE  role' = role
      BY <3>1, <3>2 DEF Invite, ChangeRole, Remove, PickMember, TransferOwnership
    <3>3. ASSUME NEW r \in Requests, NEW k \in DOMAIN invites,
                 \/ \E actor \in Users : Resend(r, actor, k) \/ Revoke(r, actor, k)
                 \/ \E answer \in {"accepted", "rejected"} : Respond(r, answer, k)
          PROVE  role' = role
      BY <3>1, <3>3 DEF Resend, Revoke, Respond
    <3>4. ASSUME NEW r \in Requests,
                 CreateOrganization(r) \/ InsertInvitation(r) \/ RefreshInvitation(r)
                 \/ AnswerInvitation(r) \/ Drop(r)
          PROVE  role' = role
      BY <3>4 DEF CreateOrganization, InsertInvitation, RefreshInvitation, AnswerInvitation,
             Drop, people
    <3>5. LicenceChanges \/ (\E k \in DOMAIN invites : InvitationExpires(k))
          \/ (\E v \in Users : SignIn(v)) => role' = role
      BY DEF LicenceChanges, InvitationExpires, SignIn, people
    <3> QED BY <2>2, <3>2, <3>3, <3>4, <3>5 DEF Next
  <2>4. ASSUME NEW r \in Requests, Found(r) PROVE Cardinality(Members) < seats
    <3>1. ~founded /\ seats > 0
      BY <2>2, <2>4 DEF Found, people
    <3>2. Members = {} /\ Cardinality({}) = 0
      BY <3>1, FS_EmptySet DEF OrganizationInv, OneOwner
    <3> QED BY <3>1, <3>2
  <2>5. ASSUME NEW r \in Requests, Join(r) PROVE Cardinality(Members) < seats
    BY <2>2, <2>5 DEF Join
  <2>6. ASSUME NEW r \in Requests, Transfer(r) PROVE FALSE
    BY <2>1, <2>6 DEF Transfer, Demoted, Replaces
  <2>7. ASSUME NEW r \in Requests, SetRole(r) PROVE FALSE
    BY <2>1, <2>7 DEF SetRole, Row
  <2>8. ASSUME NEW r \in Requests, RemoveMember(r) PROVE FALSE
    BY <2>1, <2>8 DEF RemoveMember, Row
  <2> QED BY <2>3, <2>4, <2>5, <2>6, <2>7, <2>8
<1>2. OrganizationInv /\ [Next]_vars => [\A u \in Users : role[u] = "none" /\ role'[u] # "none" =>
                        Cardinality(Members) < seats]_vars
  BY <1>1
<1> QED BY <1>2, OrganizationInvariant, PTL DEF Spec, JoinsTakeFreeSeats
=============================================================================
