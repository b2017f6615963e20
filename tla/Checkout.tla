------------------------------- MODULE Checkout -------------------------------
(***************************************************************************)
(* Checkout by the account that owns the address of MarketingOffer.  A     *)
(* request reads the stored Stripe customer, then the offer of the code it *)
(* was given, then asks Stripe for a Checkout Session under an idempotency *)
(* key made of the account, the plan, the code and the day.                *)
(***************************************************************************)
EXTENDS MarketingOffer

CONSTANTS
    Buyers, \* slots for concurrent checkout requests
    Plans   \* billing offers, one price each

ASSUME PlansAssumption == Plans # {}

VARIABLES
    linked,     \* has a webhook stored the account's stripe_customer_id?
    step, cart, \* each checkout: next step; the plan, the code (0: none) and the
                \* customer it read
    sessions    \* the Checkout Sessions of the day (external)

checkoutVars == <<linked, step, cart, sessions>>
vars         == <<offerVars, checkoutVars>>

Cart == [plan : Plans, code : Nat, linked : BOOLEAN]

NoCart == [plan |-> CHOOSE p \in Plans : TRUE, code |-> 0, linked |-> FALSE]

Init ==
    /\ OfferInit
    /\ linked = FALSE
    /\ step = [b \in Buyers |-> "idle"]
    /\ cart = [b \in Buyers |-> NoCart]
    /\ sessions = {}

Leave(b) == /\ step' = [step EXCEPT ![b] = "idle"]
            /\ cart' = [cart EXCEPT ![b] = NoCart]

\* The body is decoded and the stored customer read.
CreateCheckout(b, plan, code) ==
    /\ step[b] = "idle"
    /\ step' = [step EXCEPT ![b] = IF code = 0 THEN "session" ELSE "promotion"]
    /\ cart' = [cart EXCEPT ![b] = [plan |-> plan, code |-> code, linked |-> linked]]
    /\ UNCHANGED <<offerVars, linked, sessions>>

\* The code must be the ready, unexpired offer of this very address.
LookupPromotion(b) ==
    /\ step[b] = "promotion"
    /\ IF row.status = "ready" /\ Live(row) /\ row.lead = cart[b].code
       THEN step' = [step EXCEPT ![b] = "session"] /\ UNCHANGED cart
       ELSE Leave(b)
    /\ UNCHANGED <<offerVars, linked, sessions>>

\* Mutant of Key: the request itself takes the place of the code.
KeyOfRequest(b) == [plan |-> cart[b].plan, code |-> b]

\* checkoutIdentity, for one account and one day.
Key(b) == [plan |-> cart[b].plan, code |-> cart[b].code]

Discountable(b) ==
    cart[b].code = 0 \/ \E p \in promos : p.lead = cart[b].code /\ Live(p)

\* Stripe (external) opens a session, replays the one of a known key if it was
\* made for the same customer, or refuses.  The answer may be lost; the audit
\* entry follows it.
OpenSession(b) ==
    /\ step[b] = "session"
    /\ sessions' \in {sessions} \cup
          IF Discountable(b) /\ \A s \in sessions : s.key # Key(b)
          THEN {sessions \cup {[key |-> Key(b), cart |-> cart[b]]}}
          ELSE {}
    /\ Leave(b)
    /\ UNCHANGED <<offerVars, linked>>

\* Reconciliation stores the Stripe customer.
LinkCustomer ==
    /\ ~linked /\ linked' = TRUE
    /\ UNCHANGED <<offerVars, step, cart, sessions>>

\* The key of a request changes with the UTC date.
NewDay ==
    /\ sessions # {} /\ sessions' = {}
    /\ UNCHANGED <<offerVars, linked, step, cart>>

DropCheckout(b) ==
    /\ step[b] # "idle"
    /\ Leave(b)
    /\ UNCHANGED <<offerVars, linked, sessions>>

Next ==
    \/ OfferNext /\ UNCHANGED checkoutVars
    \/ LinkCustomer \/ NewDay
    \/ \E b \in Buyers :
        \/ \E plan \in Plans, code \in 0 .. leads : CreateCheckout(b, plan, code)
        \/ LookupPromotion(b) \/ OpenSession(b) \/ DropCheckout(b)

Spec == Init /\ [][Next]_vars

-----------------------------------------------------------------------------

\* Types of the offer and of the checkouts.
TypeOK ==
    /\ OfferTypeOK
    /\ linked \in BOOLEAN
    /\ step \in [Buyers -> {"idle", "promotion", "session"}]
    /\ cart \in [Buyers -> Cart]
    /\ \A s \in sessions : s.cart \in Cart

\* Double clicks and retries of a day reuse one Checkout Session per plan and
\* code, even when a webhook links the customer between two of them.
OneSessionPerOffer ==
    \A s, t \in sessions :
        (s.cart.plan = t.cart.plan /\ s.cart.code = t.cart.code) => s = t
=============================================================================
