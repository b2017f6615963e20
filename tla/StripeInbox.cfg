SPECIFICATION Spec
CONSTANTS
    e1 = e1
    e2 = e2
    NoToken = NoToken
    Events <- TwoEvents
    Workers = {w1, w2}
    KindOf <- InvoiceAndCustomer
    MaxAttempts = 2
    HandlersOutliveLease = TRUE
SYMMETRY WorkerSymmetry
INVARIANTS AckedIsSettled OnceUnlessDisturbed InvoiceWaitsForCustomer
PROPERTIES OnlyOwnerRecords SettledIsFinal
