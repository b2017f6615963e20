SPECIFICATION LinkedSpec
CONSTANTS
    e1 = e1
    e2 = e2
    NoToken = NoToken
    Events <- TwoEvents
    Workers = {w1, w2}
    KindOf <- SubscriptionAndOther
    MaxAttempts = 2
    HandlersOutliveLease = FALSE
PROPERTIES ImplementsLedger DeliveriesEnd
CHECK_DEADLOCK FALSE
