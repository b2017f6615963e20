------------------------- MODULE StripeInboxProofs -------------------------
(***************************************************************************)
(* Proofs about StripeInbox for every set of events and invocations and    *)
(* every attempt limit.                                                    *)
(***************************************************************************)
EXTENDS StripeInbox, TLAPS

\* A handler's commit keeps the types of the two variables it changes.
LEMMA CommitTypes ==
    ASSUME TypeOK, NEW w \in Workers, Commit(w)
    PROVE  /\ wrote' \in [Workers -> BOOLEAN]
           /\ completed' \in [Events -> 0 .. Many]
<1> USE DEF TypeOK, Commit, Many
<1>1. wrote' \in [Workers -> BOOLEAN]
  OBVIOUS
<1>2. completed' \in [Events -> 0 .. Many]
  OBVIOUS
<1>3. QED
  BY <1>1, <1>2

\* Every variable of the inbox keeps its type: among others, the claim's
\* conditional UPDATE never lets attempt_count pass MAX_STRIPE_EVENT_ATTEMPTS.
THEOREM TypeCorrect == Spec => []TypeOK
<1> USE KindAssumption, AttemptsAssumption, LeaseAssumption, TokenAssumption
<1>1. Init => TypeOK
  BY DEF Init, TypeOK, Statuses, Phases, Many
<1>2. TypeOK /\ [Next]_vars => TypeOK'
  <2> SUFFICES ASSUME TypeOK, [Next]_vars PROVE TypeOK'
    OBVIOUS
  <2> USE DEF TypeOK, Statuses, Phases, row, payer, sender, history
  <2>1. ASSUME NEW w \in Workers, ClaimEvent(w) PROVE TypeOK'
    BY <2>1 DEF ClaimEvent, Claimable, Goto
  <2>2. ASSUME NEW w \in Workers, LookupState(w) PROVE TypeOK'
    BY <2>2 DEF LookupState, Goto
  <2>3. ASSUME NEW w \in Workers, IgnoreEvent(w) PROVE TypeOK'
    BY <2>3, CommitTypes DEF IgnoreEvent, Goto
  <2>4. ASSUME NEW w \in Workers, ResolveCustomer(w) PROVE TypeOK'
    BY <2>4 DEF ResolveCustomer, Goto
  <2>5. ASSUME NEW w \in Workers, SelectCustomer(w) PROVE TypeOK'
    BY <2>5, CommitTypes DEF SelectCustomer, Goto
  <2>6. ASSUME NEW w \in Workers, EnsureBillingCustomer(w) PROVE TypeOK'
    BY <2>6 DEF EnsureBillingCustomer, Link, Goto
  <2>7. ASSUME NEW w \in Workers, WriteEffect(w) PROVE TypeOK'
    BY <2>7, CommitTypes DEF WriteEffect, CommitReturns, Goto
  <2>8. ASSUME NEW w \in Workers, InsertCustomer(w) PROVE TypeOK'
    <3>1. CASE customer = "absent"
      <4>1. CommitReturns(w, "resolved") /\ Link /\ UNCHANGED <<row, job, sender>>
        BY <2>8, <3>1 DEF InsertCustomer
      <4>2. QED
        BY <4>1, CommitTypes DEF Link, CommitReturns, Goto
    <3>2. CASE customer # "absent"
      BY <2>8, <3>2 DEF InsertCustomer, Goto
    <3>3. QED
      BY <3>1, <3>2
  <2>9. ASSUME NEW w \in Workers, Throw(w) PROVE TypeOK'
    BY <2>9 DEF Throw
  <2>10. ASSUME NEW w \in Workers, MarkProcessed(w) PROVE TypeOK'
    BY <2>10 DEF MarkProcessed, Goto
  <2>11. ASSUME NEW w \in Workers, RecordFailure(w) PROVE TypeOK'
    BY <2>11 DEF RecordFailure, FailedStatus, Goto
  <2>12. ASSUME NEW w \in Workers, Crash(w) PROVE TypeOK'
    BY <2>12 DEF Crash
  <2>13. ASSUME NEW w \in Workers, NEW e \in Events, StoreEvent(w, e) PROVE TypeOK'
    BY <2>13 DEF StoreEvent, Goto
  <2>14. ASSUME NEW e \in Events, LeaseExpires(e) PROVE TypeOK'
    BY <2>14 DEF LeaseExpires
  <2>15. ASSUME NEW e \in Events, CleanupStripeEvents(e) PROVE TypeOK'
    BY <2>15 DEF CleanupStripeEvents
  <2>16. ASSUME SignUp PROVE TypeOK'
    BY <2>16 DEF SignUp
  <2>17. ASSUME DeleteMyData PROVE TypeOK'
    BY <2>17 DEF DeleteMyData
  <2>18. ASSUME NEW e \in Events, GiveUp(e) PROVE TypeOK'
    BY <2>18 DEF GiveUp
  <2>19. CASE UNCHANGED vars
    BY <2>19 DEF vars
  <2>20. QED
    BY <2>1, <2>2, <2>3, <2>4, <2>5, <2>6, <2>7, <2>8, <2>9, <2>10, <2>11,
       <2>12, <2>13, <2>14, <2>15, <2>16, <2>17, <2>18, <2>19 DEF Next, WorkerStep
<1>3. QED
  BY <1>1, <1>2, PTL DEF Spec

\* The inductive invariant of the inbox: acknowledged and processed events have
\* been handled, an undisturbed event is handled by one invocation at a time
\* and its handler's effect is committed at most once.
THEOREM InboxInvariant == Spec => []InboxInv
<1>1. Init => InboxInv
  <2> SUFFICES ASSUME Init PROVE InboxInv
    OBVIOUS
  <2>1. TypeOK
    BY KindAssumption, AttemptsAssumption DEF Init, TypeOK, Statuses, Phases, Many
  <2>2. QED
    BY <2>1 DEF Init, InboxInv, TypeOK, AckedIsSettled, ProcessedIsCompleted,
       OnceUnlessDisturbed, ExclusiveUnlessDisturbed, CommitsTracked, InHandler
<1>2. InboxInv /\ TypeOK' /\ [Next]_vars => InboxInv'
  <2> SUFFICES ASSUME InboxInv, TypeOK', [Next]_vars PROVE InboxInv'
    OBVIOUS
  <2> USE AttemptsAssumption, TokenAssumption
      DEF InboxInv, TypeOK, AckedIsSettled, ProcessedIsCompleted,
          OnceUnlessDisturbed, ExclusiveUnlessDisturbed, CommitsTracked,
          OwnsClaim, InHandler, Phases, Many, row, payer, sender, history
  <2>1. ASSUME NEW w \in Workers, ClaimEvent(w) PROVE InboxInv'
    BY <2>1 DEF ClaimEvent, Claimable, Goto
  <2>2. ASSUME NEW w \in Workers, LookupState(w) PROVE InboxInv'
    BY <2>2 DEF LookupState, Acknowledged, Goto
  <2>3. ASSUME NEW w \in Workers, IgnoreEvent(w) PROVE InboxInv'
    BY <2>3 DEF IgnoreEvent, Commit, Goto
  <2>4. ASSUME NEW w \in Workers, ResolveCustomer(w) PROVE InboxInv'
    BY <2>4 DEF ResolveCustomer, Goto
  <2>5. ASSUME NEW w \in Workers, SelectCustomer(w) PROVE InboxInv'
    <3>1. CASE customer = "absent"
      BY <2>5, <3>1 DEF SelectCustomer, Goto
    <3>2. CASE customer # "absent"
      BY <2>5, <3>2 DEF SelectCustomer, Commit, Goto
    <3>3. QED
      BY <3>1, <3>2
  <2>6. ASSUME NEW w \in Workers, EnsureBillingCustomer(w) PROVE InboxInv'
    BY <2>6 DEF EnsureBillingCustomer, Link, Goto
  <2>7. ASSUME NEW w \in Workers, WriteEffect(w) PROVE InboxInv'
    BY <2>7 DEF WriteEffect, CommitReturns, Commit, Goto
  <2>8. ASSUME NEW w \in Workers, InsertCustomer(w) PROVE InboxInv'
    BY <2>8 DEF InsertCustomer, Link, CommitReturns, Commit, Goto
  <2>9. ASSUME NEW w \in Workers, Throw(w) PROVE InboxInv'
    BY <2>9 DEF Throw
  <2>10. ASSUME NEW w \in Workers, MarkProcessed(w) PROVE InboxInv'
    BY <2>10 DEF MarkProcessed, Goto
  <2>11. ASSUME NEW w \in Workers, RecordFailure(w) PROVE InboxInv'
    BY <2>11 DEF RecordFailure, FailedStatus, Goto
  <2>12. ASSUME NEW w \in Workers, Crash(w) PROVE InboxInv'
    BY <2>12 DEF Crash
  <2>13. ASSUME NEW w \in Workers, NEW e \in Events, StoreEvent(w, e) PROVE InboxInv'
    BY <2>13 DEF StoreEvent, Goto
  <2>14. ASSUME NEW e \in Events, LeaseExpires(e) PROVE InboxInv'
    BY <2>14 DEF LeaseExpires, Holder
  <2>15. ASSUME NEW e \in Events, CleanupStripeEvents(e) PROVE InboxInv'
    BY <2>15 DEF CleanupStripeEvents
  <2>16. ASSUME SignUp PROVE InboxInv'
    BY <2>16 DEF SignUp
  <2>17. ASSUME DeleteMyData PROVE InboxInv'
    BY <2>17 DEF DeleteMyData
  <2>18. ASSUME NEW e \in Events, GiveUp(e) PROVE InboxInv'
    BY <2>18 DEF GiveUp
  <2>19. CASE UNCHANGED vars
    BY <2>19 DEF vars
  <2>20. QED
    BY <2>1, <2>2, <2>3, <2>4, <2>5, <2>6, <2>7, <2>8, <2>9, <2>10, <2>11,
       <2>12, <2>13, <2>14, <2>15, <2>16, <2>17, <2>18, <2>19 DEF Next, WorkerStep
<1>3. QED
  BY <1>1, <1>2, TypeCorrect, PTL DEF Spec

\* Stripe is told to forget an event only once some handler of it has committed
\* or the event is a dead letter.
COROLLARY AckedSettled == Spec => []AckedIsSettled
BY InboxInvariant, PTL DEF InboxInv

\* However deliveries, retries and failures interleave, the write of an event
\* whose commits kept their records and leases happens at most once.
COROLLARY WrittenOnce == Spec => []OnceUnlessDisturbed
BY InboxInvariant, PTL DEF InboxInv

\* An invoice passes its handler, and its row is marked processed, only after a
\* row was linked to its customer.
InvoicesResolved ==
    /\ customer = "linked" => linked
    /\ \A w \in Workers :
        KindOf[job[w]] \in {"invoice_paid", "payment_failed"} /\ pc[w] \in {"resolved", "done"}
            => linked
    /\ InvoiceWaitsForCustomer

\* An invoice event that overtakes the linking of its customer is not consumed.
THEOREM InvoicesWait == Spec => []InvoiceWaitsForCustomer
<1>1. Init => InvoicesResolved
  BY DEF Init, InvoicesResolved, InvoiceWaitsForCustomer
<1>2. TypeOK /\ InvoicesResolved /\ [Next]_vars => InvoicesResolved'
  <2> SUFFICES ASSUME TypeOK, InvoicesResolved, [Next]_vars PROVE InvoicesResolved'
    OBVIOUS
  <2> USE KindAssumption
      DEF TypeOK, InvoicesResolved, InvoiceWaitsForCustomer, Kinds, row, payer, sender, history
  <2>1. ASSUME NEW w \in Workers, ClaimEvent(w) PROVE InvoicesResolved'
    BY <2>1 DEF ClaimEvent, Goto
  <2>2. ASSUME NEW w \in Workers, LookupState(w) PROVE InvoicesResolved'
    BY <2>2 DEF LookupState, Goto
  <2>3. ASSUME NEW w \in Workers, IgnoreEvent(w) PROVE InvoicesResolved'
    BY <2>3 DEF IgnoreEvent, Goto
  <2>4. ASSUME NEW w \in Workers, ResolveCustomer(w) PROVE InvoicesResolved'
    BY <2>4 DEF ResolveCustomer, Goto
  <2>5. ASSUME NEW w \in Workers, SelectCustomer(w) PROVE InvoicesResolved'
    BY <2>5 DEF SelectCustomer, Goto
  <2>6. ASSUME NEW w \in Workers, EnsureBillingCustomer(w) PROVE InvoicesResolved'
    BY <2>6 DEF EnsureBillingCustomer, Link, Goto
  <2>7. ASSUME NEW w \in Workers, WriteEffect(w) PROVE InvoicesResolved'
    BY <2>7 DEF WriteEffect, CommitReturns, Goto
  <2>8. ASSUME NEW w \in Workers, InsertCustomer(w) PROVE InvoicesResolved'
    BY <2>8 DEF InsertCustomer, Link, CommitReturns, Goto
  <2>9. ASSUME NEW w \in Workers, Throw(w) PROVE InvoicesResolved'
    BY <2>9 DEF Throw
  <2>10. ASSUME NEW w \in Workers, MarkProcessed(w) PROVE InvoicesResolved'
    BY <2>10 DEF MarkProcessed, Goto
  <2>11. ASSUME NEW w \in Workers, RecordFailure(w) PROVE InvoicesResolved'
    BY <2>11 DEF RecordFailure, FailedStatus, Goto
  <2>12. ASSUME NEW w \in Workers, Crash(w) PROVE InvoicesResolved'
    BY <2>12 DEF Crash
  <2>13. ASSUME NEW w \in Workers, NEW e \in Events, StoreEvent(w, e) PROVE InvoicesResolved'
    BY <2>13 DEF StoreEvent, Goto
  <2>14. ASSUME NEW e \in Events, LeaseExpires(e) PROVE InvoicesResolved'
    BY <2>14 DEF LeaseExpires
  <2>15. ASSUME NEW e \in Events, CleanupStripeEvents(e) PROVE InvoicesResolved'
    BY <2>15 DEF CleanupStripeEvents
  <2>16. ASSUME SignUp PROVE InvoicesResolved'
    BY <2>16 DEF SignUp
  <2>17. ASSUME DeleteMyData PROVE InvoicesResolved'
    BY <2>17 DEF DeleteMyData
  <2>18. ASSUME NEW e \in Events, GiveUp(e) PROVE InvoicesResolved'
    BY <2>18 DEF GiveUp
  <2>19. CASE UNCHANGED vars
    BY <2>19 DEF vars
  <2>20. QED
    BY <2>1, <2>2, <2>3, <2>4, <2>5, <2>6, <2>7, <2>8, <2>9, <2>10, <2>11,
       <2>12, <2>13, <2>14, <2>15, <2>16, <2>17, <2>18, <2>19 DEF Next, WorkerStep
<1>3. QED
  BY <1>1, <1>2, TypeCorrect, PTL DEF Spec, InvoicesResolved

\* The outcome of a claim is recorded by the invocation that holds its token.
THEOREM OwnerRecords == Spec => OnlyOwnerRecords
<1>1. TypeOK /\ [Next]_vars =>
        [\A e \in Events :
            status[e] = "processing" /\ status'[e] \notin {"processing", "none"}
              => \E w \in Holder(e) : pc[w] \in {"done", "failing"} /\ pc'[w] = "idle"]_vars
  <2> SUFFICES ASSUME TypeOK, [Next]_vars, NEW x \in Events,
                      status[x] = "processing", status'[x] \notin {"processing", "none"}
               PROVE  \E w \in Holder(x) : pc[w] \in {"done", "failing"} /\ pc'[w] = "idle"
    OBVIOUS
  <2> DEFINE Goal == \E w \in Holder(x) : pc[w] \in {"done", "failing"} /\ pc'[w] = "idle"
  <2> USE DEF TypeOK, row, payer, sender, history
  <2>1. ASSUME NEW w \in Workers, ClaimEvent(w) PROVE Goal
    BY <2>1 DEF ClaimEvent, Claimable, Goto
  <2>2. ASSUME NEW w \in Workers, LookupState(w) PROVE Goal
    BY <2>2 DEF LookupState, Goto
  <2>3. ASSUME NEW w \in Workers, IgnoreEvent(w) PROVE Goal
    BY <2>3 DEF IgnoreEvent, Goto
  <2>4. ASSUME NEW w \in Workers, ResolveCustomer(w) PROVE Goal
    BY <2>4 DEF ResolveCustomer, Goto
  <2>5. ASSUME NEW w \in Workers, SelectCustomer(w) PROVE Goal
    BY <2>5 DEF SelectCustomer, Goto
  <2>6. ASSUME NEW w \in Workers, EnsureBillingCustomer(w) PROVE Goal
    BY <2>6 DEF EnsureBillingCustomer, Link, Goto
  <2>7. ASSUME NEW w \in Workers, WriteEffect(w) PROVE Goal
    BY <2>7 DEF WriteEffect, CommitReturns, Goto
  <2>8. ASSUME NEW w \in Workers, InsertCustomer(w) PROVE Goal
    BY <2>8 DEF InsertCustomer, Link, CommitReturns, Goto
  <2>9. ASSUME NEW w \in Workers, Throw(w) PROVE Goal
    BY <2>9 DEF Throw
  <2>10. ASSUME NEW w \in Workers, MarkProcessed(w) PROVE Goal
    BY <2>10 DEF MarkProcessed, Goto, OwnsClaim, Holder, InHandler
  <2>11. ASSUME NEW w \in Workers, RecordFailure(w) PROVE Goal
    BY <2>11 DEF RecordFailure, Goto, OwnsClaim, Holder, InHandler
  <2>12. ASSUME NEW w \in Workers, Crash(w) PROVE Goal
    BY <2>12 DEF Crash
  <2>13. ASSUME NEW w \in Workers, NEW e \in Events, StoreEvent(w, e) PROVE Goal
    BY <2>13 DEF StoreEvent, Goto
  <2>14. ASSUME NEW e \in Events, LeaseExpires(e) PROVE Goal
    BY <2>14 DEF LeaseExpires
  <2>15. ASSUME NEW e \in Events, CleanupStripeEvents(e) PROVE Goal
    BY <2>15 DEF CleanupStripeEvents
  <2>16. ASSUME SignUp PROVE Goal
    BY <2>16 DEF SignUp
  <2>17. ASSUME DeleteMyData PROVE Goal
    BY <2>17 DEF DeleteMyData
  <2>18. ASSUME NEW e \in Events, GiveUp(e) PROVE Goal
    BY <2>18 DEF GiveUp
  <2>19. CASE UNCHANGED vars
    BY <2>19 DEF vars
  <2>20. QED
    BY <2>1, <2>2, <2>3, <2>4, <2>5, <2>6, <2>7, <2>8, <2>9, <2>10, <2>11,
       <2>12, <2>13, <2>14, <2>15, <2>16, <2>17, <2>18, <2>19 DEF Next, WorkerStep
<1>2. QED
  BY <1>1, TypeCorrect, PTL DEF Spec, OnlyOwnerRecords

\* A processed row changes only when retention removes it, a dead one never.
THEOREM SettledFinal == Spec => SettledIsFinal
<1>1. TypeOK /\ [Next]_vars =>
        [\A e \in Events :
            /\ status[e] = "processed" => status'[e] \in {"processed", "none"}
            /\ status[e] = "dead" => status'[e] = "dead"]_vars
  <2> SUFFICES ASSUME TypeOK, [Next]_vars, NEW x \in Events
               PROVE  /\ status[x] = "processed" => status'[x] \in {"processed", "none"}
                      /\ status[x] = "dead" => status'[x] = "dead"
    OBVIOUS
  <2> DEFINE Goal == /\ status[x] = "processed" => status'[x] \in {"processed", "none"}
                     /\ status[x] = "dead" => status'[x] = "dead"
  <2> USE DEF TypeOK, row, payer, sender, history
  <2>1. ASSUME NEW w \in Workers, ClaimEvent(w) PROVE Goal
    BY <2>1 DEF ClaimEvent, Claimable, Goto
  <2>2. ASSUME NEW w \in Workers, LookupState(w) PROVE Goal
    BY <2>2 DEF LookupState, Goto
  <2>3. ASSUME NEW w \in Workers, IgnoreEvent(w) PROVE Goal
    BY <2>3 DEF IgnoreEvent, Goto
  <2>4. ASSUME NEW w \in Workers, ResolveCustomer(w) PROVE Goal
    BY <2>4 DEF ResolveCustomer, Goto
  <2>5. ASSUME NEW w \in Workers, SelectCustomer(w) PROVE Goal
    BY <2>5 DEF SelectCustomer, Goto
  <2>6. ASSUME NEW w \in Workers, EnsureBillingCustomer(w) PROVE Goal
    BY <2>6 DEF EnsureBillingCustomer, Link, Goto
  <2>7. ASSUME NEW w \in Workers, WriteEffect(w) PROVE Goal
    BY <2>7 DEF WriteEffect, CommitReturns, Goto
  <2>8. ASSUME NEW w \in Workers, InsertCustomer(w) PROVE Goal
    BY <2>8 DEF InsertCustomer, Link, CommitReturns, Goto
  <2>9. ASSUME NEW w \in Workers, Throw(w) PROVE Goal
    BY <2>9 DEF Throw
  <2>10. ASSUME NEW w \in Workers, MarkProcessed(w) PROVE Goal
    BY <2>10 DEF MarkProcessed, Goto, OwnsClaim
  <2>11. ASSUME NEW w \in Workers, RecordFailure(w) PROVE Goal
    BY <2>11 DEF RecordFailure, Goto, OwnsClaim
  <2>12. ASSUME NEW w \in Workers, Crash(w) PROVE Goal
    BY <2>12 DEF Crash
  <2>13. ASSUME NEW w \in Workers, NEW e \in Events, StoreEvent(w, e) PROVE Goal
    BY <2>13 DEF StoreEvent, Goto
  <2>14. ASSUME NEW e \in Events, LeaseExpires(e) PROVE Goal
    BY <2>14 DEF LeaseExpires
  <2>15. ASSUME NEW e \in Events, CleanupStripeEvents(e) PROVE Goal
    BY <2>15 DEF CleanupStripeEvents
  <2>16. ASSUME SignUp PROVE Goal
    BY <2>16 DEF SignUp
  <2>17. ASSUME DeleteMyData PROVE Goal
    BY <2>17 DEF DeleteMyData
  <2>18. ASSUME NEW e \in Events, GiveUp(e) PROVE Goal
    BY <2>18 DEF GiveUp
  <2>19. CASE UNCHANGED vars
    BY <2>19 DEF vars
  <2>20. QED
    BY <2>1, <2>2, <2>3, <2>4, <2>5, <2>6, <2>7, <2>8, <2>9, <2>10, <2>11,
       <2>12, <2>13, <2>14, <2>15, <2>16, <2>17, <2>18, <2>19 DEF Next, WorkerStep
<1>2. QED
  BY <1>1, TypeCorrect, PTL DEF Spec, SettledIsFinal

\* When handlers end within their lease, an invocation inside a handler holds
\* the row's claim and its lease is live.
LeaseInv ==
    \A w \in Workers :
        pc[w] \in InHandler => OwnsClaim(w) /\ lease[job[w]] = "live"

LEMMA LeaseInvariant ==
    ASSUME HandlersOutliveLease = FALSE
    PROVE  Spec => [](TypeOK /\ LeaseInv)
<1>1. Init => LeaseInv
  BY DEF Init, LeaseInv, InHandler
<1>2. TypeOK /\ LeaseInv /\ [Next]_vars => LeaseInv'
  <2> SUFFICES ASSUME TypeOK, LeaseInv, [Next]_vars PROVE LeaseInv'
    OBVIOUS
  <2> USE TokenAssumption DEF TypeOK, LeaseInv, OwnsClaim, InHandler, row, payer, sender, history
  <2>1. ASSUME NEW w \in Workers, ClaimEvent(w) PROVE LeaseInv'
    BY <2>1 DEF ClaimEvent, Claimable, Goto
  <2>2. ASSUME NEW w \in Workers, LookupState(w) PROVE LeaseInv'
    BY <2>2 DEF LookupState, Goto
  <2>3. ASSUME NEW w \in Workers, IgnoreEvent(w) PROVE LeaseInv'
    BY <2>3 DEF IgnoreEvent, Goto
  <2>4. ASSUME NEW w \in Workers, ResolveCustomer(w) PROVE LeaseInv'
    BY <2>4 DEF ResolveCustomer, Goto
  <2>5. ASSUME NEW w \in Workers, SelectCustomer(w) PROVE LeaseInv'
    BY <2>5 DEF SelectCustomer, Goto
  <2>6. ASSUME NEW w \in Workers, EnsureBillingCustomer(w) PROVE LeaseInv'
    BY <2>6 DEF EnsureBillingCustomer, Link, Goto
  <2>7. ASSUME NEW w \in Workers, WriteEffect(w) PROVE LeaseInv'
    BY <2>7 DEF WriteEffect, CommitReturns, Goto
  <2>8. ASSUME NEW w \in Workers, InsertCustomer(w) PROVE LeaseInv'
    BY <2>8 DEF InsertCustomer, Link, CommitReturns, Goto
  <2>9. ASSUME NEW w \in Workers, Throw(w) PROVE LeaseInv'
    BY <2>9 DEF Throw
  <2>10. ASSUME NEW w \in Workers, MarkProcessed(w) PROVE LeaseInv'
    BY <2>10 DEF MarkProcessed, Goto
  <2>11. ASSUME NEW w \in Workers, RecordFailure(w) PROVE LeaseInv'
    BY <2>11 DEF RecordFailure, FailedStatus, Goto
  <2>12. ASSUME NEW w \in Workers, Crash(w) PROVE LeaseInv'
    BY <2>12 DEF Crash
  <2>13. ASSUME NEW w \in Workers, NEW e \in Events, StoreEvent(w, e) PROVE LeaseInv'
    BY <2>13 DEF StoreEvent, Goto
  <2>14. ASSUME NEW e \in Events, LeaseExpires(e) PROVE LeaseInv'
    BY <2>14 DEF LeaseExpires, Holder
  <2>15. ASSUME NEW e \in Events, CleanupStripeEvents(e) PROVE LeaseInv'
    BY <2>15 DEF CleanupStripeEvents
  <2>16. ASSUME SignUp PROVE LeaseInv'
    BY <2>16 DEF SignUp
  <2>17. ASSUME DeleteMyData PROVE LeaseInv'
    BY <2>17 DEF DeleteMyData
  <2>18. ASSUME NEW e \in Events, GiveUp(e) PROVE LeaseInv'
    BY <2>18 DEF GiveUp
  <2>19. CASE UNCHANGED vars
    BY <2>19 DEF vars
  <2>20. QED
    BY <2>1, <2>2, <2>3, <2>4, <2>5, <2>6, <2>7, <2>8, <2>9, <2>10, <2>11,
       <2>12, <2>13, <2>14, <2>15, <2>16, <2>17, <2>18, <2>19 DEF Next, WorkerStep
<1>3. QED
  BY <1>1, <1>2, TypeCorrect, PTL DEF Spec

\* Within the lease, an invocation inside a handler is the only one there.
LEMMA SoleHandler ==
    ASSUME TypeOK, LeaseInv, NEW w \in Workers, pc[w] \in InHandler
    PROVE  Handling(job[w]) = {w}
BY DEF TypeOK, LeaseInv, OwnsClaim, Handling

\* An invocation that ends leaves exactly the handler it was in.
LEMMA LeaveHandler ==
    ASSUME TypeOK, LeaseInv, NEW w \in Workers, pc[w] \in InHandler,
           pc' = [pc EXCEPT ![w] = "idle"], job' = job
    PROVE  \A x \in Events :
              Handling(x)' = IF x = job[w] THEN {} ELSE Handling(x)
<1> TAKE x \in Events
<1>1. ASSUME NEW v \in Workers PROVE v \in Handling(x)' <=> v \in Handling(x) /\ v # w
  BY DEF TypeOK, Handling, InHandler
<1>2. Handling(x)' \subseteq Workers /\ Handling(x) \subseteq Workers
  BY DEF Handling
<1>3. CASE x = job[w]
  BY <1>1, <1>2, <1>3, SoleHandler
<1>4. CASE x # job[w]
  <2>1. w \notin Handling(x)
    BY <1>4 DEF Handling
  <2>2. QED
    BY <1>1, <1>2, <1>4, <2>1
<1>5. QED
  BY <1>3, <1>4

\* Steps that change the handlers and the outcome of one event as an action of
\* the ledger does are steps of the ledger.
LEMMA LedgerTake ==
    ASSUME NEW e \in Events, NEW w \in Workers,
           Handling(e) = {}, Outcome(e) = "open",
           \A x \in Events : Handling(x)' = IF x = e THEN {w} ELSE Handling(x),
           \A x \in Events : Outcome(x)' = Outcome(x)
    PROVE  Ledger!Next
BY DEF Ledger!Next, Ledger!Take

LEMMA LedgerRelease ==
    ASSUME NEW e \in Events, NEW w \in Workers, Handling(e) = {w},
           \A x \in Events : Handling(x)' = IF x = e THEN {} ELSE Handling(x),
           \A x \in Events : Outcome(x)' = Outcome(x)
    PROVE  Ledger!Next
BY DEF Ledger!Next, Ledger!Release

LEMMA LedgerSettle ==
    ASSUME NEW e \in Events, NEW w \in Workers, NEW result \in {"processed", "dead"},
           Handling(e) = {w}, Outcome(e) = "open",
           \A x \in Events : Handling(x)' = IF x = e THEN {} ELSE Handling(x),
           \A x \in Events : Outcome(x)' = IF x = e THEN result ELSE Outcome(x)
    PROVE  Ledger!Next
BY DEF Ledger!Next, Ledger!Settle

LEMMA LedgerForget ==
    ASSUME NEW e \in Events, Outcome(e) = "processed",
           \A x \in Events : Handling(x)' = Handling(x),
           \A x \in Events : Outcome(x)' = IF x = e THEN "open" ELSE Outcome(x)
    PROVE  Ledger!Next
BY DEF Ledger!Next, Ledger!Forget

\* When handlers end within their lease, the inbox is a lock per event: one
\* invocation handles it, and only that one settles it.
THEOREM InboxImplementsLedger ==
    ASSUME HandlersOutliveLease = FALSE
    PROVE  Spec => ImplementsLedger
<1>1. Init => Ledger!Init
  BY DEF Init, Ledger!Init, Handling, InHandler, Outcome
<1>2. TypeOK /\ LeaseInv /\ [Next]_vars => [Ledger!Next]_(Ledger!vars)
  <2> SUFFICES ASSUME TypeOK, LeaseInv, [Next]_vars
               PROVE  Ledger!Next \/ UNCHANGED Ledger!vars
    OBVIOUS
  <2> DEFINE Goal == Ledger!Next \/ UNCHANGED Ledger!vars
  <2> USE TokenAssumption DEF TypeOK, LeaseInv, OwnsClaim, InHandler, row, payer, sender, history
  <2>1. ASSUME NEW w \in Workers, ClaimEvent(w) PROVE Goal
    <3> DEFINE e == job[w]
    <3>1. CASE ~Claimable(e)
      BY <2>1, <3>1 DEF ClaimEvent, Goto, Handling, Outcome, Ledger!vars
    <3>2. CASE Claimable(e)
      <4>1. Handling(e) = {} /\ Outcome(e) = "open"
        BY <3>2 DEF Claimable, Handling, Outcome
      <4>2. \A x \in Events :
              /\ Handling(x)' = IF x = e THEN {w} ELSE Handling(x)
              /\ Outcome(x)' = Outcome(x)
        BY <2>1, <3>2, <4>1 DEF ClaimEvent, Claimable, Goto, Handling, Outcome
      <4>3. QED
        BY <4>1, <4>2, LedgerTake
    <3>3. QED
      BY <3>1, <3>2
  <2>2. ASSUME NEW w \in Workers, LookupState(w) PROVE Goal
    BY <2>2 DEF LookupState, Goto,
       Handling, Outcome, Ledger!vars
  <2>3. ASSUME NEW w \in Workers, IgnoreEvent(w) PROVE Goal
    BY <2>3 DEF IgnoreEvent, Goto,
       Handling, Outcome, Ledger!vars
  <2>4. ASSUME NEW w \in Workers, ResolveCustomer(w) PROVE Goal
    BY <2>4 DEF ResolveCustomer, Goto,
       Handling, Outcome, Ledger!vars
  <2>5. ASSUME NEW w \in Workers, SelectCustomer(w) PROVE Goal
    BY <2>5 DEF SelectCustomer, Goto,
       Handling, Outcome, Ledger!vars
  <2>6. ASSUME NEW w \in Workers, EnsureBillingCustomer(w) PROVE Goal
    BY <2>6 DEF EnsureBillingCustomer, Link, Goto,
       Handling, Outcome, Ledger!vars
  <2>7. ASSUME NEW w \in Workers, WriteEffect(w) PROVE Goal
    BY <2>7 DEF WriteEffect, CommitReturns, Goto,
       Handling, Outcome, Ledger!vars
  <2>8. ASSUME NEW w \in Workers, InsertCustomer(w) PROVE Goal
    BY <2>8 DEF InsertCustomer, Link, CommitReturns, Goto,
       Handling, Outcome, Ledger!vars
  <2>9. ASSUME NEW w \in Workers, Throw(w) PROVE Goal
    BY <2>9 DEF Throw,
       Handling, Outcome, Ledger!vars
  <2>10. ASSUME NEW w \in Workers, MarkProcessed(w) PROVE Goal
    <3> DEFINE e == job[w]
    <3>1. pc[w] \in InHandler /\ pc' = [pc EXCEPT ![w] = "idle"] /\ job' = job
      BY <2>10 DEF MarkProcessed, Goto
    <3>2. \A x \in Events : Handling(x)' = IF x = e THEN {} ELSE Handling(x)
      BY <3>1, LeaveHandler
    <3>3. Handling(e) = {w}
      BY <3>1, SoleHandler
    <3>4. \A x \in Events : Outcome(x)' = IF x = e THEN "processed" ELSE Outcome(x)
      BY <2>10, <3>1 DEF MarkProcessed, Outcome
    <3>5. Outcome(e) = "open"
      BY <3>1 DEF Outcome
    <3>6. QED
      BY <3>2, <3>3, <3>4, <3>5, LedgerSettle
  <2>11. ASSUME NEW w \in Workers, RecordFailure(w) PROVE Goal
    <3> DEFINE e == job[w]
    <3>1. pc[w] \in InHandler /\ pc' = [pc EXCEPT ![w] = "idle"] /\ job' = job
      BY <2>11 DEF RecordFailure, Goto
    <3>2. \A x \in Events : Handling(x)' = IF x = e THEN {} ELSE Handling(x)
      BY <3>1, LeaveHandler
    <3>3. Handling(e) = {w}
      BY <3>1, SoleHandler
    <3>4. CASE FailedStatus(e) = "dead"
      <4>1. \A x \in Events : Outcome(x)' = IF x = e THEN "dead" ELSE Outcome(x)
        BY <2>11, <3>1, <3>4 DEF RecordFailure, Outcome
      <4>2. Outcome(e) = "open"
        BY <3>1 DEF Outcome
      <4>3. QED
        BY <3>2, <3>3, <4>1, <4>2, LedgerSettle
    <3>5. CASE FailedStatus(e) = "failed"
      <4>1. \A x \in Events : Outcome(x)' = Outcome(x)
        BY <2>11, <3>1, <3>5 DEF RecordFailure, Outcome
      <4>2. QED
        BY <3>2, <3>3, <4>1, LedgerRelease
    <3>6. QED
      BY <3>4, <3>5 DEF FailedStatus
  <2>12. ASSUME NEW w \in Workers, Crash(w) PROVE Goal
    <3>1. CASE pc[w] \in InHandler
      <4>1. \A x \in Events : Handling(x)' = IF x = job[w] THEN {} ELSE Handling(x)
        BY <2>12, <3>1, LeaveHandler DEF Crash
      <4>2. Handling(job[w]) = {w}
        BY <3>1, SoleHandler
      <4>3. \A x \in Events : Outcome(x)' = Outcome(x)
        BY <2>12 DEF Crash, Outcome
      <4>4. QED
        BY <4>1, <4>2, <4>3, LedgerRelease
    <3>2. CASE pc[w] \notin InHandler
      BY <2>12, <3>2 DEF Crash, Handling, Outcome, Ledger!vars
    <3>3. QED
      BY <3>1, <3>2
  <2>13. ASSUME NEW w \in Workers, NEW e \in Events, StoreEvent(w, e) PROVE Goal
    BY <2>13 DEF StoreEvent, Goto,
       Handling, Outcome, Ledger!vars
  <2>14. ASSUME NEW e \in Events, LeaseExpires(e) PROVE Goal
    BY <2>14 DEF LeaseExpires, Holder,
       Handling, Outcome, Ledger!vars
  <2>15. ASSUME NEW e \in Events, CleanupStripeEvents(e) PROVE Goal
    <3>1. \A x \in Events :
            /\ Handling(x)' = Handling(x)
            /\ Outcome(x)' = IF x = e THEN "open" ELSE Outcome(x)
      BY <2>15 DEF CleanupStripeEvents, Handling, Outcome
    <3>2. Outcome(e) = "processed"
      BY <2>15 DEF CleanupStripeEvents, Outcome
    <3>3. QED
      BY <3>1, <3>2, LedgerForget
  <2>16. ASSUME SignUp PROVE Goal
    BY <2>16 DEF SignUp,
       Handling, Outcome, Ledger!vars
  <2>17. ASSUME DeleteMyData PROVE Goal
    BY <2>17 DEF DeleteMyData,
       Handling, Outcome, Ledger!vars
  <2>18. ASSUME NEW e \in Events, GiveUp(e) PROVE Goal
    BY <2>18 DEF GiveUp,
       Handling, Outcome, Ledger!vars
  <2>19. CASE UNCHANGED vars
    BY <2>19 DEF vars, Handling, Outcome, Ledger!vars
  <2>20. QED
    BY <2>1, <2>2, <2>3, <2>4, <2>5, <2>6, <2>7, <2>8, <2>9, <2>10, <2>11,
       <2>12, <2>13, <2>14, <2>15, <2>16, <2>17, <2>18, <2>19 DEF Next, WorkerStep
<1>3. QED
  BY <1>1, <1>2, LeaseInvariant, PTL DEF Spec, ImplementsLedger, Ledger!Spec
=============================================================================
