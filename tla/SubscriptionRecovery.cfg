SPECIFICATION MCSpec
CONSTANTS
    NoSub = NoSub
    NoRow = NoRow
    NoLicense = NoLicense
    Subs = {s1}
    Rows = {c1}
    Workers = {w1}
    MaxPeriod = 2
    MaxChanges = 3
    MaxDeletions = 0
    InPlay = {"active", "past_due", "canceled", "pro", "team", "other"}
INVARIANTS QuietRowsAreCurrent
