SPECIFICATION MCSpec
CONSTANTS
    NoSub = NoSub
    NoRow = NoRow
    NoLicense = NoLicense
    Subs = {s1, s2}
    Rows = {c1, c2}
    Workers = {w1, w2}
    MaxPeriod = 2
    MaxChanges = 3
    MaxDeletions = 1
    InPlay = {"active", "trialing", "past_due", "canceled", "unpaid", "incomplete", "incomplete_expired", "paused", "pro", "team", "other"}
SYMMETRY Symmetry
INVARIANTS TypeOK EntitlementIsAggregate CancellationSticks ForwardHistoriesConverge UncontestedDeletionIsFinal
