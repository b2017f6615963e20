SPECIFICATION MCSpec
CONSTANTS
    NoMachine = NoMachine
    Machines = {m1, m2, m3}
    Validations = {r1, r2}
    MaxSeats = 2
    MaxRotations = 1
    Requests = {r1, r2}
    CodesPerWindow = 2
    MaxSessions = 1
    MaxCodes = 2
    MaxAccounts = 2
    MaxMinted = 3
SYMMETRY Symmetry
INVARIANTS SeatsHeld KeyGovernsMachines TokenNeedsSeat
INVARIANTS SignInInv OneSessionPerCode SessionsCapped RoleChangeRevokes DeletionEndsSessions
