--------------------------- MODULE MCStripeInbox ---------------------------
(***************************************************************************)
(* Instances of StripeInbox for TLC, one choice of event kinds for each.   *)
(***************************************************************************)
EXTENDS StripeInbox, TLC

CONSTANTS e1, e2

TwoEvents == {e1, e2}

\* An invoice that needs the customer the other event creates.
InvoiceAndCustomer == e1 :> "invoice_paid" @@ e2 :> "customer_created"

WorkerSymmetry == Permutations(Workers)

\* A handler of two round trips that may fail, and one that always ends.
SubscriptionAndOther == e1 :> "subscription" @@ e2 :> "other"

\* Neither of the two kinds reads the customer's row, so the ends of their events
\* are followed for a customer that stays linked: Next without SignUp and
\* DeleteMyData.  Stripe may give up the event whose handler can fail.
LinkedInit == Init /\ customer = "linked"
LinkedNext ==
    \/ \E w \in Workers : WorkerStep(w) \/ Crash(w)
    \/ \E w \in Workers, e \in Events : StoreEvent(w, e)
    \/ \E e \in Events : LeaseExpires(e) \/ CleanupStripeEvents(e)
    \/ GiveUp(e1)
LinkedSpec == LinkedInit /\ [][LinkedNext]_vars /\ Fairness
=============================================================================
