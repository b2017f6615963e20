SPECIFICATION Spec
CONSTANTS
    NoToken = NoToken
    Requests = {r1, r2}
    Buyers = {b1, b2}
    Plans = {pro}
    MaxLeads = 2
    MaxClock = 2
SYMMETRY Symmetry
INVARIANTS TypeOK OneLivePromotion AnswersHonoured AnswersRedeemable OneSessionPerOffer
