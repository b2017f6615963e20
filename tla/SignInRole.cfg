SPECIFICATION Spec
CONSTANTS
    Requests = {r1}
    CodesPerWindow = 2
    MaxSessions = 1
    MaxCodes = 2
    MaxAccounts = 2
    MaxMinted = 3
SYMMETRY Symmetry
INVARIANT RevokedBeforeReplaced
