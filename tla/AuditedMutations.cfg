SPECIFICATION CrmSpec
CONSTANTS
    Forms = {f1, f2}
    NoForm = NoForm
    MaxPersons = 2
    MaxNotes = 2
    LastSecond = 1
CHECK_DEADLOCK FALSE
INVARIANT AuditedMutationsHappened
