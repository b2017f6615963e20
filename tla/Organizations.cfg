SPECIFICATION Spec
CONSTANTS
    Users = {u1, u2, u3}
    Founder = u1
    Requests = {r1, r2}
    Grants = {0, 2, 3}
    InvitedRoles = {"member"}
    MaxInvitations = 2
SYMMETRY Symmetry
INVARIANTS OneOwner OnePendingInvitation
PROPERTY JoinsTakeFreeSeats
