----------------------------- MODULE Organizations -----------------------------
(***************************************************************************)
(* The organization of one paying account: its members, its invitations,   *)
(* the seats its licence grants, and the sessions of its people.  The      *)
(* site's form actions read what they need, call Better Auth (external),   *)
(* which reads again before it writes, and every write meets the triggers  *)
(* and unique indexes of the schema.  Requests interleave between any two  *)
(* round trips and may vanish there.                                       *)
(***************************************************************************)
EXTENDS Naturals, Sequences, FiniteSets

CONSTANTS
    Users,
    Founder,        \* whose address carries the licence
    Requests,       \* slots for concurrent form actions
    Grants,         \* seats the licence may grant, 0 unless it is active and
                    \* of a team or enterprise tier
    InvitedRoles,   \* roles an invitation may name
    MaxInvitations  \* bound on the invitations ever sent

ASSUME UsersAssumption == Founder \in Users /\ IsFiniteSet(Users)
ASSUME GrantsAssumption == Grants \subseteq Nat
ASSUME InvitedAssumption == InvitedRoles \subseteq {"member", "admin"}
ASSUME BoundAssumption == MaxInvitations \in Nat

VARIABLES
    founded,  \* has the licence an auth_organization?
    role,     \* auth_member.role of each user, "none" without a row
    joined,   \* the invitation the member row came from, 0 for the first
    seats,    \* what the licence grants now
    active,   \* users whose session has its active_organization_id set
    invites,  \* table auth_invitation
    pc, job   \* each request: its next step and what it has read

people   == <<founded, role, joined>>
requests == <<pc, job>>
vars     == <<people, seats, active, invites, requests>>

Roles   == {"member", "admin", "owner"}
Members == {u \in Users : role[u] # "none"}
Owners  == {u \in Users : role[u] = "owner"}

\* "expired" is a pending row whose expires_at has passed.
Invitation == [user : Users, role : {"member", "admin"},
               status : {"pending", "expired", "accepted", "rejected", "canceled"}]

\* What a later step reads: the member or address, the role, the member row or
\* the invitation, the acting Owner, the answer given.
Job == [target : Users, role : {"member", "admin"}, ref : Nat, actor : Users,
        answer : {"accepted", "rejected", "canceled"}]

NoJob == [target |-> Founder, role |-> "member", ref |-> 0, actor |-> Founder,
          answer |-> "accepted"]

Init ==
    /\ founded = FALSE
    /\ role    = [u \in Users |-> "none"]
    /\ joined  = [u \in Users |-> 0]
    /\ seats \in Grants
    /\ active  = {}
    /\ invites = <<>>
    /\ pc  = [r \in Requests |-> "idle"]
    /\ job = [r \in Requests |-> NoJob]

Goto(r, from, to) == pc[r] = from /\ pc' = [pc EXCEPT ![r] = to]

End(r) == pc' = [pc EXCEPT ![r] = "idle"] /\ job' = [job EXCEPT ![r] = NoJob]

Pending(u) == {k \in DOMAIN invites :
                  invites[k].user = u /\ invites[k].status \in {"pending", "expired"}}

MayManage(u) == role[u] \in {"owner", "admin"}

\* organizationAccessStatus and the states without a row.
Standing(u) ==
    IF role[u] = "none" THEN "missing"
    ELSE IF seats > 0 /\ Cardinality(Members) <= seats THEN "active" ELSE "restricted"

(***************************************************************************)
(* bootstrapOrganization.                                                  *)
(***************************************************************************)

\* No membership, and an active team or enterprise licence of this address.
CreateOrganization(r) ==
    /\ role[Founder] = "none" /\ seats > 0
    /\ Goto(r, "idle", "found")
    /\ UNCHANGED <<people, seats, active, invites, job>>

\* One transaction, undone by the unique billing_customer_id or the seat guard.
Found(r) ==
    /\ pc[r] = "found"
    /\ IF ~founded /\ seats > 0
       THEN /\ founded' = TRUE
            /\ role'    = [role EXCEPT ![Founder] = "owner"]
            /\ joined'  = [joined EXCEPT ![Founder] = 0]
            /\ active'  = active \cup {Founder}
       ELSE UNCHANGED <<people, active>>
    /\ End(r)
    /\ UNCHANGED <<seats, invites>>

(***************************************************************************)
(* The form actions up to their write.  The site reads the organization's  *)
(* state and the row named by an address, and Better Auth (external) reads *)
(* them again before it writes; all they hand on is the row's id, which    *)
(* the write names.  The reads are one step here, the write another.       *)
(***************************************************************************)
Start(r, next, started) ==
    /\ Goto(r, "idle", next)
    /\ job' = [job EXCEPT ![r] = started]
    /\ UNCHANGED <<people, seats, active>>

\* requireActiveOrganizationForGrowth and Better Auth's permission.
MayGrow(actor) == Standing(actor) = "active" /\ actor \in active /\ MayManage(actor)

Cancel(set) == [k \in DOMAIN invites |->
                   IF k \in set THEN [invites[k] EXCEPT !.status = "canceled"] ELSE invites[k]]

\* A second invitation first cancels the pending one.  Better Auth may overlook
\* an expired one.
Invite(r, actor, target, invited) ==
    /\ MayGrow(actor) /\ role[target] = "none"
    /\ Start(r, "insert", [NoJob EXCEPT !.target = target, !.role = invited])
    /\ invites' \in {Cancel(Pending(target)),
                     Cancel({k \in Pending(target) : invites[k].status = "pending"})}

\* A resend takes the invitation it finds, or sends another like it.
Resend(r, actor, k) ==
    /\ MayGrow(actor) /\ k \in Pending(invites[k].user)
    /\ \/ Start(r, "refresh", [NoJob EXCEPT !.ref = k])
       \/ /\ invites[k].status = "expired"
          /\ Start(r, "insert", [NoJob EXCEPT !.target = invites[k].user, !.role = invites[k].role])
    /\ UNCHANGED invites

\* A revocation does not ask for an active organization.
Revoke(r, actor, k) ==
    /\ actor \in active /\ MayManage(actor) /\ k \in Pending(invites[k].user)
    /\ Start(r, "answer", [NoJob EXCEPT !.ref = k, !.answer = "canceled"])
    /\ UNCHANGED invites

\* The recipient's cookie names a pending invitation to the address of the
\* account; an acceptance needs a seat (loadOrganizationMembershipLimit).
Respond(r, answer, k) ==
    /\ invites[k].status = "pending"
    /\ answer = "accepted" => Cardinality(Members) < seats
    /\ Start(r, "answer", [NoJob EXCEPT !.ref = k, !.answer = answer])
    /\ UNCHANGED invites

\* findOrganizationMemberTarget: only the session's active organization counts.
TargetVisible(actor, target) ==
    actor \in active /\ role[actor] # "none" /\ role[target] # "none"

PickMember(r, next, actor, target, newRole) ==
    /\ TargetVisible(actor, target) /\ role[target] # "owner" /\ target # actor
    /\ Start(r, next, [NoJob EXCEPT !.target = target, !.role = newRole, !.ref = joined[target]])
    /\ UNCHANGED invites

ChangeRole(r, actor, target, newRole) ==
    MayGrow(actor) /\ PickMember(r, "role", actor, target, newRole)

\* Allowed in a restricted organization too.
Remove(r, actor, target) == MayManage(actor) /\ PickMember(r, "remove", actor, target, "member")

\* A transfer asks for the Owner and for a session of at most fifteen minutes.
MayTransfer(actor) == Standing(actor) = "active" /\ role[actor] = "owner"

TransferOwnership(r, actor, target) ==
    /\ MayTransfer(actor)
    /\ TargetVisible(actor, target) /\ role[target] # "owner"
    /\ Start(r, "transfer", [NoJob EXCEPT !.actor = actor, !.target = target,
                                          !.ref = joined[target]])
    /\ UNCHANGED invites

(***************************************************************************)
(* transferOrganizationOwnership: one batch.                               *)
(***************************************************************************)
Replaces(r, current) == current[job[r].target] = "owner" /\ joined[job[r].target] = job[r].ref

Demoted(r, current) ==
    IF current[job[r].actor] = "owner" /\ Replaces(r, current)
    THEN [current EXCEPT ![job[r].actor] = "admin"]
    ELSE current

\* Mutant of Transfer: the promotion does not look at the current owner.
TransferUnguarded(r) ==
    LET j == job[r] IN
    /\ pc[r] = "transfer"
    /\ role' = Demoted(r, IF role[j.target] \in {"admin", "member"}
                          THEN [role EXCEPT ![j.target] = "owner"] ELSE role)
    /\ End(r)
    /\ UNCHANGED <<founded, joined, seats, active, invites>>

\* PROMOTE_OWNER_QUERY, then DEMOTE_OWNER_QUERY on what it left behind.  The
\* conflict of a batch that changed fewer than two rows is only reported.
Transfer(r) ==
    LET j == job[r]
        promotes == /\ role[j.target] \in {"admin", "member"} /\ joined[j.target] = j.ref
                    /\ j.actor \in active /\ role[j.actor] = "owner"
    IN
    /\ pc[r] = "transfer"
    /\ role' = Demoted(r, IF promotes THEN [role EXCEPT ![j.target] = "owner"] ELSE role)
    /\ End(r)
    /\ UNCHANGED <<founded, joined, seats, active, invites>>

(***************************************************************************)
(* Better Auth (external) writes through the schema.                       *)
(***************************************************************************)
\* Mutant of InsertInvitation: no unique index on the pending ones.
InsertAnyInvitation(r) ==
    LET j == job[r] IN
    /\ pc[r] = "insert" /\ Len(invites) < MaxInvitations
    /\ invites' = Append(invites, [user |-> j.target, role |-> j.role,
                                   status |-> "pending"])
    /\ End(r)
    /\ UNCHANGED <<people, seats, active>>

\* The unique index admits one pending invitation per address.  The mail that
\* follows may fail; the row stays.
InsertInvitation(r) ==
    LET j == job[r] IN
    /\ pc[r] = "insert" /\ Len(invites) < MaxInvitations
    /\ invites' = IF Pending(j.target) = {}
                  THEN Append(invites, [user |-> j.target, role |-> j.role,
                                        status |-> "pending"])
                  ELSE invites
    /\ End(r)
    /\ UNCHANGED <<people, seats, active>>

RefreshInvitation(r) ==
    /\ pc[r] = "refresh"
    /\ invites' = [invites EXCEPT ![job[r].ref].status = IF @ = "expired" THEN "pending" ELSE @]
    /\ End(r)
    /\ UNCHANGED <<people, seats, active>>

Row(r) == role[job[r].target] # "none" /\ joined[job[r].target] = job[r].ref

LastOwner(u) == Owners = {u}

SetRole(r) ==
    LET u == job[r].target IN
    /\ pc[r] = "role"
    /\ role' = IF Row(r) /\ ~LastOwner(u) THEN [role EXCEPT ![u] = job[r].role] ELSE role
    /\ End(r)
    /\ UNCHANGED <<founded, joined, seats, active, invites>>

RemoveMember(r) ==
    LET u == job[r].target IN
    /\ pc[r] = "remove"
    /\ IF Row(r) /\ ~LastOwner(u)
       THEN role' = [role EXCEPT ![u] = "none"] /\ joined' = [joined EXCEPT ![u] = 0]
       ELSE UNCHANGED <<role, joined>>
    /\ End(r)
    /\ UNCHANGED <<founded, seats, active, invites>>

AnswerInvitation(r) ==
    /\ pc[r] = "answer"
    /\ invites' = [invites EXCEPT ![job[r].ref].status = job[r].answer]
    /\ IF job[r].answer = "accepted"
       THEN pc' = [pc EXCEPT ![r] = "join"] /\ UNCHANGED job
       ELSE End(r)
    /\ UNCHANGED <<people, seats, active>>

Invitee(r) == invites[job[r].ref].user

\* The session is updated by a statement that may be lost.
Joining(r) ==
    /\ role'   = [role EXCEPT ![Invitee(r)] = invites[job[r].ref].role]
    /\ joined' = [joined EXCEPT ![Invitee(r)] = job[r].ref]
    /\ active' \in {active, active \cup {Invitee(r)}}

\* Mutant of Join: Better Auth's own check is the only one.
JoinUnguarded(r) ==
    /\ pc[r] = "join"
    /\ IF role[Invitee(r)] = "none" THEN Joining(r) ELSE UNCHANGED <<role, joined, active>>
    /\ End(r)
    /\ UNCHANGED <<founded, seats, invites>>

\* auth_member_paid_seat_guard and UNIQUE (organization_id, user_id).
Join(r) ==
    /\ pc[r] = "join"
    /\ IF role[Invitee(r)] = "none" /\ Cardinality(Members) < seats
       THEN Joining(r) ELSE UNCHANGED <<role, joined, active>>
    /\ End(r)
    /\ UNCHANGED <<founded, seats, invites>>

\* A check that does not hold, an old session, a rate limit, a failed statement
\* or an evicted invocation.
Drop(r) ==
    /\ pc[r] # "idle"
    /\ End(r)
    /\ UNCHANGED <<people, seats, active, invites>>

(***************************************************************************)
(* The licence, the sessions and time.                                     *)
(***************************************************************************)

\* Webhooks and administrators change tier, status and seats.
LicenceChanges ==
    /\ seats' \in Grants \ {seats}
    /\ UNCHANGED <<people, active, invites, requests>>

InvitationExpires(k) ==
    /\ invites[k].status = "pending"
    /\ invites' = [invites EXCEPT ![k].status = "expired"]
    /\ UNCHANGED <<people, seats, active, requests>>

\* The user signs out and in: nothing gives the new session an organization.
SignIn(u) ==
    /\ u \in active
    /\ active' = active \ {u}
    /\ UNCHANGED <<people, seats, invites, requests>>

Next ==
    \/ LicenceChanges
    \/ \E k \in DOMAIN invites : InvitationExpires(k)
    \/ \E u \in Users : SignIn(u)
    \/ \E r \in Requests, actor, target \in Users :
        \/ \E invited \in InvitedRoles : Invite(r, actor, target, invited)
        \/ \E newRole \in {"member", "admin"} : ChangeRole(r, actor, target, newRole)
        \/ Remove(r, actor, target) \/ TransferOwnership(r, actor, target)
    \/ \E r \in Requests, k \in DOMAIN invites :
        \/ \E actor \in Users : Resend(r, actor, k) \/ Revoke(r, actor, k)
        \/ \E answer \in {"accepted", "rejected"} : Respond(r, answer, k)
    \/ \E r \in Requests :
        \/ CreateOrganization(r) \/ Found(r) \/ Transfer(r)
        \/ InsertInvitation(r) \/ RefreshInvitation(r) \/ AnswerInvitation(r) \/ Join(r)
        \/ SetRole(r) \/ RemoveMember(r) \/ Drop(r)

Spec == Init /\ [][Next]_vars

-----------------------------------------------------------------------------
(***************************************************************************)
(* Properties.                                                             *)
(***************************************************************************)

\* Types of the tables and of the requests.
TypeOK ==
    /\ founded \in BOOLEAN
    /\ role \in [Users -> Roles \cup {"none"}]
    /\ joined \in [Users -> 0 .. Len(invites)]
    /\ seats \in Grants
    /\ active \subseteq Users
    /\ invites \in Seq(Invitation)
    /\ pc \in [Requests -> {"idle", "found", "transfer", "insert", "refresh",
                            "role", "remove", "answer", "join"}]
    /\ job \in [Requests -> Job]
    /\ \A r \in Requests : job[r].ref <= Len(invites)

\* An organization has exactly one Owner, whatever transfers, role changes and
\* removals overlap, however stale what they read.
OneOwner == IF founded THEN \E u \in Users : Owners = {u} ELSE Members = {}

\* Nobody joins without a free seat of an active licence at that moment, even
\* when several accept at the last seat while the licence shrinks.
JoinsTakeFreeSeats ==
    [][\A u \in Users : role[u] = "none" /\ role'[u] # "none" =>
            Cardinality(Members) < seats]_vars

\* Concurrent invitations, resends and revocations leave an address with at
\* most one pending invitation.
OnePendingInvitation == \A u \in Users : Cardinality(Pending(u)) <= 1

\* An Owner with a session, new or old, whose organization is active can reach
\* the members a transfer needs: the refusal of an old session says
\* "Sign in again before transferring organization ownership."
SigningInAgainHelps ==
    \A u, v \in Users :
        (MayTransfer(u) /\ v \in Members \ {u}) => TargetVisible(u, v)
=============================================================================
