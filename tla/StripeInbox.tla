---------------------------- MODULE StripeInbox ----------------------------
(***************************************************************************)
(* The durable inbox of Stripe webhook events (table stripe_events) and    *)
(* the concurrent worker invocations that claim an event, run its handler  *)
(* and record the outcome.  Each action is one round trip to the database; *)
(* invocations interleave between round trips and may vanish at any of     *)
(* them.  A worker slot stands for one live invocation, so the claim token *)
(* (a fresh UUID per claim) is the slot that drew it.                      *)
(***************************************************************************)
EXTENDS Naturals, FiniteSets

CONSTANTS
    Events,               \* Stripe event ids
    Workers,              \* slots for concurrent webhook invocations
    KindOf,               \* event -> kind of its handler
    MaxAttempts,          \* MAX_STRIPE_EVENT_ATTEMPTS
    HandlersOutliveLease, \* may a handler still run when its lease ends?
    NoToken               \* claim_token IS NULL

Kinds == {"subscription", "invoice_paid", "payment_failed",
          "customer_created", "other"}

ASSUME KindAssumption     == KindOf \in [Events -> Kinds]
ASSUME AttemptsAssumption == MaxAttempts \in Nat \ {0}
ASSUME LeaseAssumption    == HandlersOutliveLease \in BOOLEAN
ASSUME TokenAssumption    == NoToken \notin Workers

VARIABLES
    status,     \* stripe_events.status, "none" when the event has no row
    attempts,   \* stripe_events.attempt_count
    token,      \* stripe_events.claim_token
    lease,      \* processing_started_at: null, within the lease, or past it
    customer,   \* the paying customer's row: absent, bare (email only), linked
    linked,     \* has a row ever been linked to the Stripe customer? (history)
    pc,         \* next step of each invocation
    job,        \* the event an invocation was called for (any, when idle)
    wrote,      \* has the invocation's handler committed its effect?
    acked,      \* events Stripe got a 2xx for
    abandoned,  \* events Stripe no longer delivers
    completed,  \* commits of each event's handler, counted up to Many (history)
    disturbed   \* events whose commit lost its record or lease (history)

row     == <<status, attempts, token, lease>>
payer   == <<customer, linked>>
sender  == <<acked, abandoned>>
history == <<sender, completed, disturbed>>
vars    == <<row, payer, pc, job, wrote, history>>

Many      == 2
Statuses  == {"none", "received", "processing", "processed", "failed", "dead"}
Phases    == {"idle", "stored", "lookup", "running", "resolved", "done", "failing"}
InHandler == {"running", "resolved", "done", "failing"}

Init ==
    /\ status    = [e \in Events |-> "none"]
    /\ attempts  = [e \in Events |-> 0]
    /\ token     = [e \in Events |-> NoToken]
    /\ lease     = [e \in Events |-> "null"]
    /\ customer  \in {"absent", "bare", "linked"}
    /\ linked    = (customer = "linked")
    /\ pc        = [w \in Workers |-> "idle"]
    /\ job       \in [Workers -> Events]
    /\ wrote     = [w \in Workers |-> FALSE]
    /\ acked     = {} /\ abandoned = {}
    /\ completed = [e \in Events |-> 0]
    /\ disturbed = {}

Goto(w, from, to) == pc[w] = from /\ pc' = [pc EXCEPT ![w] = to]

(***************************************************************************)
(* Claiming.                                                               *)
(***************************************************************************)

\* A delivery passes its checks and its row is inserted unless it exists.
StoreEvent(w, e) ==
    /\ e \notin abandoned
    /\ Goto(w, "idle", "stored")
    /\ job' = [job EXCEPT ![w] = e]
    /\ IF status[e] = "none"
       THEN /\ status'   = [status EXCEPT ![e] = "received"]
            /\ attempts' = [attempts EXCEPT ![e] = 0]
            /\ token'    = [token EXCEPT ![e] = NoToken]
            /\ lease'    = [lease EXCEPT ![e] = "null"]
       ELSE UNCHANGED row
    /\ UNCHANGED <<payer, wrote, history>>

\* Mutants of Claimable: no lease, no retry of a failed attempt.
ClaimableWhileLive(e) ==
    attempts[e] < MaxAttempts /\ status[e] \in {"received", "failed", "processing"}
ClaimableUnlessFailed(e) ==
    /\ attempts[e] < MaxAttempts
    /\ \/ status[e] = "received"
       \/ status[e] = "processing" /\ lease[e] = "expired"

Claimable(e) ==
    /\ attempts[e] < MaxAttempts
    /\ \/ status[e] \in {"received", "failed"}
       \/ status[e] = "processing" /\ lease[e] = "expired"

\* The conditional UPDATE ... RETURNING that decides the claim.
ClaimEvent(w) ==
    LET e == job[w] IN
    /\ \/ /\ Claimable(e)
          /\ Goto(w, "stored", "running")
          /\ status'   = [status EXCEPT ![e] = "processing"]
          /\ attempts' = [attempts EXCEPT ![e] = @ + 1]
          /\ token'    = [token EXCEPT ![e] = w]
          /\ lease'    = [lease EXCEPT ![e] = "live"]
       \/ /\ ~Claimable(e)
          /\ Goto(w, "stored", "lookup")
          /\ UNCHANGED row
    /\ UNCHANGED <<payer, job, wrote, history>>

\* Mutant of Acknowledged: a busy event is answered 200 instead of 409.
AcknowledgedWhenBusy(e) == status[e] \in {"processing", "processed", "dead"}

\* Outcomes answered with a 2xx; busy (409) and invalid (500) are not.
Acknowledged(e) == status[e] \in {"processed", "dead"}

\* The SELECT after a claim that matched no row decides the answer.
LookupState(w) ==
    LET e == job[w] IN
    /\ Goto(w, "lookup", "idle")
    /\ acked' = IF Acknowledged(e) THEN acked \cup {e} ELSE acked
    /\ UNCHANGED <<row, payer, job, wrote, abandoned, completed, disturbed>>

(***************************************************************************)
(* The handler of each kind of event: a first round trip that reads or     *)
(* links the customer, then the write.  A write may also be committed and  *)
(* reported to the invocation as an error.                                 *)
(***************************************************************************)
Commit(w) ==
    LET e == job[w] IN
    /\ wrote'     = [wrote EXCEPT ![w] = TRUE]
    /\ completed' = [completed EXCEPT ![e] = IF @ < Many THEN @ + 1 ELSE @]

CommitReturns(w, from) ==
    /\ Commit(w)
    /\ \/ Goto(w, from, "done") /\ UNCHANGED disturbed
       \/ /\ Goto(w, from, "failing")
          /\ disturbed' = disturbed \cup {job[w]}

\* An unhandled type, an invoice of no subscription, a customer.created
\* without an email: nothing to write.
IgnoreEvent(w) ==
    /\ KindOf[job[w]] = "other"
    /\ Goto(w, "running", "done")
    /\ Commit(w)
    /\ UNCHANGED <<row, payer, job, sender, disturbed>>

\* Mutant of ResolveCustomer: an unlinked invoice is consumed.
ConsumeUnlinked(w) ==
    /\ KindOf[job[w]] \in {"invoice_paid", "payment_failed"}
    /\ IF customer = "linked"
       THEN Goto(w, "running", "resolved") /\ UNCHANGED <<wrote, completed>>
       ELSE Goto(w, "running", "done") /\ Commit(w)
    /\ UNCHANGED <<row, payer, job, sender, disturbed>>

\* An invoice whose customer has no linked row must be retried.
ResolveCustomer(w) ==
    /\ KindOf[job[w]] \in {"invoice_paid", "payment_failed"}
    /\ Goto(w, "running", IF customer = "linked" THEN "resolved" ELSE "failing")
    /\ UNCHANGED <<row, payer, job, wrote, history>>

\* customer.created: any existing row ends the handler without linking it.
SelectCustomer(w) ==
    /\ KindOf[job[w]] = "customer_created"
    /\ IF customer = "absent"
       THEN Goto(w, "running", "resolved") /\ UNCHANGED <<wrote, completed>>
       ELSE Goto(w, "running", "done") /\ Commit(w)
    /\ UNCHANGED <<row, payer, job, sender, disturbed>>

Link == customer' = "linked" /\ linked' = TRUE

\* A subscription signal first links the paying customer.
EnsureBillingCustomer(w) ==
    /\ KindOf[job[w]] = "subscription"
    /\ Goto(w, "running", "resolved")
    /\ Link
    /\ UNCHANGED <<row, job, wrote, history>>

\* The invoice upsert, the payment_failed audit row, the projection batch.
WriteEffect(w) ==
    /\ KindOf[job[w]] \in {"invoice_paid", "payment_failed", "subscription"}
    /\ CommitReturns(w, "resolved")
    /\ UNCHANGED <<row, payer, job, sender>>

\* INSERT INTO customers: the unique indexes reject a second row.
InsertCustomer(w) ==
    /\ KindOf[job[w]] = "customer_created"
    /\ IF customer = "absent"
       THEN CommitReturns(w, "resolved") /\ Link
       ELSE /\ Goto(w, "resolved", "failing")
            /\ UNCHANGED <<payer, wrote, completed, disturbed>>
    /\ UNCHANGED <<row, job, sender>>

\* A store or Stripe error, an invalid row, a rejected subscription.
Throw(w) ==
    /\ pc[w] \in {"running", "resolved"} /\ KindOf[job[w]] # "other"
    /\ pc' = [pc EXCEPT ![w] = "failing"]
    /\ UNCHANGED <<row, payer, job, wrote, history>>

(***************************************************************************)
(* Recording the outcome.                                                  *)
(***************************************************************************)
\* Mutants of OwnsClaim: no claim token in the WHERE, and no guard at all.
OwnsAnyClaim(w) == status[job[w]] = "processing"
OwnsAnyRow(w)   == status[job[w]] # "none"

OwnsClaim(w) == status[job[w]] = "processing" /\ token[job[w]] = w

\* The answer is 200 whether or not the guarded UPDATE matched the row.
MarkProcessed(w) ==
    LET e == job[w] IN
    /\ Goto(w, "done", "idle")
    /\ status' = IF OwnsClaim(w) THEN [status EXCEPT ![e] = "processed"] ELSE status
    /\ acked'  = acked \cup {e}
    /\ wrote'  = [wrote EXCEPT ![w] = FALSE]
    /\ UNCHANGED <<attempts, token, lease, payer, job, abandoned, completed, disturbed>>

FailedStatus(e) == IF attempts[e] >= MaxAttempts THEN "dead" ELSE "failed"

RecordFailure(w) ==
    LET e == job[w] IN
    /\ Goto(w, "failing", "idle")
    /\ IF OwnsClaim(w)
       THEN /\ status' = [status EXCEPT ![e] = FailedStatus(e)]
            /\ lease'  = [lease EXCEPT ![e] = "null"]
       ELSE UNCHANGED <<status, lease>>
    /\ wrote' = [wrote EXCEPT ![w] = FALSE]
    /\ UNCHANGED <<attempts, token, payer, job, history>>

(***************************************************************************)
(* The environment: the customer signs up or deletes their data, Stripe    *)
(* stops delivering, invocations vanish, time passes, retention runs.      *)
(***************************************************************************)

\* Stripe gives up an event after three days without a 2xx, which is any number
\* of deliveries to the inbox; one under way goes on.
GiveUp(e) ==
    /\ status[e] # "none" /\ e \notin acked \cup abandoned
    /\ abandoned' = abandoned \cup {e}
    /\ UNCHANGED <<row, payer, pc, job, wrote, acked, completed, disturbed>>

SignUp ==
    /\ customer = "absent" /\ customer' = "bare"
    /\ UNCHANGED <<row, linked, pc, job, wrote, history>>

\* The email and the Stripe id leave the row.
DeleteMyData ==
    /\ customer # "absent" /\ customer' = "absent"
    /\ UNCHANGED <<row, linked, pc, job, wrote, history>>

\* The invocation is evicted, or a round trip outside the try block throws.
Crash(w) ==
    /\ pc[w] # "idle"
    /\ pc'    = [pc EXCEPT ![w] = "idle"]
    /\ wrote' = [wrote EXCEPT ![w] = FALSE]
    /\ disturbed' = IF wrote[w] THEN disturbed \cup {job[w]} ELSE disturbed
    /\ UNCHANGED <<row, payer, job, sender, completed>>

Holder(e) == {w \in Workers : job[w] = e /\ pc[w] \in InHandler /\ token[e] = w}

LeaseExpires(e) ==
    /\ status[e] = "processing" /\ lease[e] = "live"
    /\ HandlersOutliveLease \/ Holder(e) = {}
    /\ lease' = [lease EXCEPT ![e] = "expired"]
    /\ disturbed' = IF Holder(e) = {} THEN disturbed ELSE disturbed \cup {e}
    /\ UNCHANGED <<status, attempts, token, payer, pc, job, wrote,
                   sender, completed>>

\* The nightly job drops processed rows past their 90 days.
CleanupStripeEvents(e) ==
    /\ status[e] = "processed"
    /\ status' = [status EXCEPT ![e] = "none"]
    /\ disturbed' = disturbed \cup {e}
    /\ UNCHANGED <<attempts, token, lease, payer, pc, job, wrote,
                   sender, completed>>

WorkerStep(w) ==
    \/ ClaimEvent(w)            \/ LookupState(w)
    \/ IgnoreEvent(w)           \/ ResolveCustomer(w)  \/ SelectCustomer(w)
    \/ EnsureBillingCustomer(w) \/ WriteEffect(w)      \/ InsertCustomer(w)
    \/ Throw(w)                 \/ MarkProcessed(w)    \/ RecordFailure(w)

Next ==
    \/ \E w \in Workers : WorkerStep(w) \/ Crash(w)
    \/ \E w \in Workers, e \in Events : StoreEvent(w, e)
    \/ \E e \in Events : GiveUp(e) \/ LeaseExpires(e) \/ CleanupStripeEvents(e)
    \/ SignUp \/ DeleteMyData

Spec == Init /\ [][Next]_vars

\* Invocations are run by the platform, leases end with the clock, and Stripe
\* redelivers what was not acknowledged as long as it has not given up.  Crashes
\* may go on for ever, but not hit every delivery of an event at the same round
\* trip before its handler.
Redeliver(e) == e \notin acked /\ \E w \in Workers : StoreEvent(w, e)
Claim(e)     == \E w \in Workers : job[w] = e /\ ClaimEvent(w)
Lookup(e)    == \E w \in Workers : job[w] = e /\ LookupState(w)

Fairness ==
    /\ \A w \in Workers : WF_vars(WorkerStep(w))
    /\ \A e \in Events :
        /\ WF_vars(LeaseExpires(e))
        /\ SF_vars(Redeliver(e)) /\ SF_vars(Claim(e)) /\ SF_vars(Lookup(e))

FairSpec == Spec /\ Fairness

-----------------------------------------------------------------------------
(***************************************************************************)
(* Properties.                                                             *)
(***************************************************************************)

\* Types of the rows, of the invocations and of the history.
TypeOK ==
    /\ status    \in [Events -> Statuses]
    /\ attempts  \in [Events -> 0 .. MaxAttempts]
    /\ token     \in [Events -> Workers \cup {NoToken}]
    /\ lease     \in [Events -> {"null", "live", "expired"}]
    /\ customer  \in {"absent", "bare", "linked"} /\ linked \in BOOLEAN
    /\ pc        \in [Workers -> Phases]
    /\ job       \in [Workers -> Events]
    /\ wrote     \in [Workers -> BOOLEAN]
    /\ acked \in SUBSET Events /\ abandoned \in SUBSET Events
    /\ completed \in [Events -> 0 .. Many]
    /\ disturbed \in SUBSET Events

\* A 2xx tells Stripe to forget the event, so before any invocation answers
\* one, some handler of the event committed, or the event is in the terminal
\* dead-letter state.
AckedIsSettled ==
    \A e \in acked : completed[e] > 0 \/ status[e] = "dead"

\* A row that says processed has its effect in the database: no event is
\* marked done by an invocation whose own handler did not get that far.
ProcessedIsCompleted ==
    \A e \in Events : status[e] = "processed" => completed[e] > 0

\* Redelivery, retries after errors and concurrent deliveries of one event
\* run its handler's write once; a second write needs a commit whose outcome
\* was lost (crash, error after commit, overrun lease) or an expired row.
OnceUnlessDisturbed ==
    \A e \in Events \ disturbed : completed[e] <= 1

\* Two invocations are never inside the handler of one event, and the one that
\* is still holds the row's claim within its lease, unless a lease was overrun
\* or the commit's outcome was lost.
ExclusiveUnlessDisturbed ==
    \A w \in Workers :
        pc[w] \in InHandler /\ job[w] \notin disturbed
            => OwnsClaim(w) /\ lease[job[w]] = "live"

\* An invoice event that arrives before its customer is linked is never
\* consumed: once it is processed some row was linked to the customer.
InvoiceWaitsForCustomer ==
    \A e \in Events :
        status[e] = "processed" /\ KindOf[e] \in {"invoice_paid", "payment_failed"}
            => linked

\* A claim ends only by the invocation that holds its token: the outcome of an
\* owner whose expired lease was reclaimed never overwrites the new owner's.
OnlyOwnerRecords ==
    [][\A e \in Events :
          status[e] = "processing" /\ status'[e] \notin {"processing", "none"}
            => \E w \in Holder(e) : pc[w] \in {"done", "failing"} /\ pc'[w] = "idle"]_vars

\* Processed rows leave that state only by retention, dead rows never do.
SettledIsFinal ==
    [][\A e \in Events :
          /\ status[e] = "processed" => status'[e] \in {"processed", "none"}
          /\ status[e] = "dead" => status'[e] = "dead"]_vars

\* A handler lost on the last permitted attempt: nothing can claim the row.
Exhausted(e) ==
    status[e] = "processing" /\ attempts[e] = MaxAttempts /\ Holder(e) = {}

\* A row that nobody works on and that no lease holds: it waits for a delivery.
AtRest(e) ==
    /\ \A w \in Workers : job[w] = e => pc[w] \notin InHandler
    /\ \/ status[e] \in {"received", "failed", "dead"}
       \/ status[e] = "processing" /\ lease[e] = "expired"

\* However often handlers fail and invocations die, a stored event is acknowledged
\* for good, by its handler or at the limit of attempts; or Stripe gave it up before,
\* and its row comes to rest and is kept, so that the failure can be told
\* (cleanupStripeEvents); or an invocation vanished on the very last attempt.
DeliveriesEnd ==
    \A e \in Events :
        <>[](status[e] # "none" => \/ e \in acked
                                   \/ e \in abandoned /\ AtRest(e)
                                   \/ Exhausted(e))

\* What the guarantees above rest on: a handler past its write has committed
\* it, and a counted commit of an undisturbed event is the one its processed
\* row stands for or the one of the invocation about to record it.
CommitsTracked ==
    /\ \A w \in Workers :
        /\ pc[w] = "done" => wrote[w] /\ completed[job[w]] > 0
        /\ wrote[w] => \/ pc[w] = "done"
                       \/ pc[w] = "failing" /\ job[w] \in disturbed
    /\ \A e \in Events \ disturbed :
        completed[e] > 0 => \/ status[e] = "processed"
                            \/ \E w \in Workers : job[w] = e /\ wrote[w]

InboxInv ==
    /\ TypeOK
    /\ AckedIsSettled
    /\ ProcessedIsCompleted
    /\ OnceUnlessDisturbed
    /\ ExclusiveUnlessDisturbed
    /\ CommitsTracked

-----------------------------------------------------------------------------
(***************************************************************************)
(* While handlers end within their lease, the inbox is a lock per event.   *)
(***************************************************************************)
Handling(e) == {w \in Workers : job[w] = e /\ pc[w] \in InHandler}

Outcome(e) == IF status[e] \in {"processed", "dead"} THEN status[e] ELSE "open"

Ledger == INSTANCE EventLedger WITH
    holders <- [e \in Events |-> Handling(e)],
    outcome <- [e \in Events |-> Outcome(e)]

\* Each event is handled by one invocation at a time, only that invocation
\* settles it, and nothing is handled once settled.
ImplementsLedger == Ledger!Spec
=============================================================================
