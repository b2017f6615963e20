----------------------- MODULE SubscriptionProjection -----------------------
(***************************************************************************)
(* How the subscriptions of one paying Stripe customer become rows, a tier *)
(* and a licence.  A worker (a webhook handler, or one item of the admin   *)
(* sync) takes a snapshot of a subscription from Stripe, finds or links    *)
(* the local customer row, and projects the snapshot in one batch.  Stripe *)
(* moves on between these steps, snapshots arrive in any order, and the    *)
(* customer may sign up or delete their data meanwhile.                    *)
(***************************************************************************)
EXTENDS Naturals, FiniteSets, FiniteSetsExt

CONSTANTS
    Subs,         \* Stripe subscriptions of the payer
    Rows,         \* ids for local customer rows
    Workers,      \* slots for concurrent projections
    MaxPeriod,    \* bound on billing periods
    MaxChanges,   \* bound on changes made at Stripe
    MaxDeletions, \* bound on deletions by the customer
    InPlay,       \* bound on the statuses and prices Stripe reports
    NoSub, NoRow, NoLicense

ASSUME BoundsAssumption ==
    MaxPeriod \in Nat \ {0} /\ MaxChanges \in Nat /\ MaxDeletions \in Nat
ASSUME InPlayAssumption ==
    InPlay \subseteq {"active", "trialing", "past_due", "canceled", "unpaid",
                      "incomplete", "incomplete_expired", "paused",
                      "pro", "team", "other"}
ASSUME WorkersAssumption == IsFiniteSet(Workers)
ASSUME NullAssumption == NoRow \notin Rows /\ NoSub \notin Subs

Statuses == {"active", "trialing", "past_due", "canceled", "unpaid",
             "incomplete", "incomplete_expired", "paused"}
Entitling == {"active", "trialing"}

\* "other" stands for a subscription without exactly one catalog price.
Prices == {"pro", "team", "other"}

Snapshot == [status : Statuses, price : Prices, end : 1 .. MaxPeriod]

StoredRow == [status : Statuses, price : Prices, end : 1 .. MaxPeriod, customer : Rows]

ASSUME NoSubAssumption == NoSub \notin Snapshot \cup StoredRow

VARIABLES
    stripe,    \* each subscription as Stripe has it now
    due,       \* webhook events about each subscription not yet processed
    store,     \* table subscriptions
    rows,      \* existing customer rows
    payer,     \* the row that carries the payer's email
    linked,    \* the row that carries the payer's stripe_customer_id
    deleted,   \* rows whose customer deleted their data
    tier,      \* customers.tier
    license,   \* the licence of each customer row
    phase, sub, snap, target,   \* each worker's progress, input and customer
    signal,    \* does the worker serve a webhook event (or the admin sync)?
    changes, ambiguous, canceledSeen, contested   \* history

worker  == <<phase, sub, snap, target, signal>>
tables  == <<store, tier, license>>
people  == <<rows, payer, linked, deleted>>
history == <<changes, ambiguous, canceledSeen, contested>>
vars    == <<stripe, due, tables, people, worker, history>>

\* The seats of a provisioned licence: 1 from a login, 5 machines from a
\* dashboard link, which no property here tells apart.
FreeSeats == 1

License == [tier : {"free", "pro", "team"}, seats : {FreeSeats, 3, 10},
            status : {"active", "cancelled", "deleted_by_user"},
            expires : 0 .. MaxPeriod]

ASSUME NoLicenseAssumption == NoLicense \notin License

FreeLicense ==
    [tier |-> "free", status |-> "active", seats |-> FreeSeats, expires |-> 0]

\* The payer may have signed up before paying, then with a free licence.
Init ==
    /\ stripe = [s \in Subs |-> NoSub]
    /\ due    = [s \in Subs |-> 0]
    /\ store  = [s \in Subs |-> NoSub]
    /\ payer  \in Rows \cup {NoRow}
    /\ rows   = {payer} \ {NoRow}
    /\ linked = NoRow
    /\ deleted = {}
    /\ tier    = [c \in Rows |-> "free"]
    /\ license = [c \in Rows |-> IF c \in rows THEN FreeLicense ELSE NoLicense]
    /\ phase  = [w \in Workers |-> "idle"]
    /\ sub    = [w \in Workers |-> NoSub]
    /\ snap   = [w \in Workers |-> NoSub]
    /\ target = [w \in Workers |-> NoRow]
    /\ signal = [w \in Workers |-> FALSE]
    /\ changes = 0
    /\ ambiguous = {} /\ canceledSeen = {} /\ contested = {}

(***************************************************************************)
(* Precedence of snapshots.                                                *)
(***************************************************************************)
StatusRank(status) ==
    CASE status = "canceled" -> 3
      [] status \in {"unpaid", "past_due", "incomplete_expired"} -> 2
      [] status \in {"active", "trialing", "incomplete"} -> 1
      [] OTHER -> 0

\* Mutant of Supersedes: the rank of the status is forgotten.
LastOfPeriod(new, old) == new.end >= old.end

\* The condition of the conflicting upsert.
Supersedes(new, old) ==
    \/ new.end > old.end
    \/ new.end = old.end /\ StatusRank(new.status) >= StatusRank(old.status)

StrictlyAfter(new, old) == Supersedes(new, old) /\ ~Supersedes(old, new)

(***************************************************************************)
(* Stripe: the lifecycle of a subscription.                                *)
(***************************************************************************)
Moves ==
    [incomplete |-> {"active", "incomplete_expired"},
     trialing   |-> {"active", "past_due", "paused", "canceled"},
     active     |-> {"active", "past_due", "paused", "canceled"},
     past_due   |-> {"active", "unpaid", "canceled"},
     unpaid     |-> {"active", "canceled"},
     paused     |-> {"active", "canceled"},
     canceled   |-> {}, incomplete_expired |-> {}]

\* Stripe emits an event for the change.
StripeSets(s, new) ==
    /\ changes < MaxChanges
    /\ stripe'  = [stripe EXCEPT ![s] = new]
    /\ due'     = [due EXCEPT ![s] = @ + 1]
    /\ changes' = changes + 1
    /\ UNCHANGED <<tables, people, worker, canceledSeen, contested>>

Subscribe(s) ==
    /\ stripe[s] = NoSub
    /\ \E status \in {"incomplete", "trialing", "active"} \cap InPlay,
          price \in Prices \cap InPlay :
          StripeSets(s, [status |-> status, price |-> price, end |-> 1])
    /\ UNCHANGED ambiguous

\* Renewal, price switch, failed or late payment, pause, cancellation.
ChangeSubscription(s) ==
    /\ stripe[s] # NoSub
    /\ \E new \in Snapshot :
        /\ new # stripe[s] /\ {new.status, new.price} \subseteq InPlay
        /\ new.status \in Moves[stripe[s].status]
        /\ new.end \in {stripe[s].end, stripe[s].end + 1}
        /\ new.price # stripe[s].price => new.status = "active"
        /\ StripeSets(s, new)
        /\ ambiguous' = IF StrictlyAfter(new, stripe[s])
                        THEN ambiguous ELSE ambiguous \cup {s}

(***************************************************************************)
(* A projection, one round trip per action.                                *)
(***************************************************************************)
Serving(s) == {w \in Workers : phase[w] # "idle" /\ sub[w] = s /\ signal[w]}

Start(w, s, isSignal) ==
    /\ phase[w] = "idle" /\ stripe[s] # NoSub
    /\ phase'  = [phase EXCEPT ![w] = "fetched"]
    /\ sub'    = [sub EXCEPT ![w] = s]
    /\ snap'   = [snap EXCEPT ![w] = stripe[s]]
    /\ signal' = [signal EXCEPT ![w] = isSignal]
    /\ UNCHANGED <<stripe, due, tables, people, target, history>>

\* A webhook handler loads the subscription its event names, as it is now.
FetchSubscription(w, s) == Cardinality(Serving(s)) < due[s] /\ Start(w, s, TRUE)

\* The admin sync reads it on a page of Stripe's list.
ListSubscription(w, s) == Start(w, s, FALSE)

EndWorker(w) ==
    /\ phase'  = [phase EXCEPT ![w] = "idle"]
    /\ snap'   = [snap EXCEPT ![w] = NoSub]
    /\ sub'    = [sub EXCEPT ![w] = NoSub]
    /\ target' = [target EXCEPT ![w] = NoRow]
    /\ signal' = [signal EXCEPT ![w] = FALSE]

Aim(w, next, c) ==
    /\ phase'  = [phase EXCEPT ![w] = next]
    /\ target' = [target EXCEPT ![w] = c]
    /\ UNCHANGED <<sub, snap, signal>>

\* Mutant of LookupCustomer: the sync projects although no row was found.
LookupWithoutNullCheck(w) ==
    /\ phase[w] = "fetched"
    /\ IF linked # NoRow \/ ~signal[w]
       THEN Aim(w, "resolved", linked)
       ELSE Aim(w, "unlinked", NoRow)
    /\ UNCHANGED <<stripe, due, tables, people, history>>

\* SELECT by Stripe customer id; a webhook goes on when there is none.
LookupCustomer(w) ==
    /\ phase[w] = "fetched"
    /\ \/ linked # NoRow /\ Aim(w, "resolved", linked)
       \/ linked = NoRow /\ ~signal[w] /\ EndWorker(w)
       \/ linked = NoRow /\ signal[w] /\ Aim(w, "unlinked", NoRow)
    /\ UNCHANGED <<stripe, due, tables, people, history>>

\* Stripe is asked for the payer's email, then SELECT by it.
LookupEmail(w) ==
    /\ phase[w] = "unlinked"
    /\ Aim(w, IF payer # NoRow THEN "found" ELSE "missing", payer)
    /\ UNCHANGED <<stripe, due, tables, people, history>>

\* UPDATE customers SET stripe_customer_id, unique, on the row found by email.
LinkCustomer(w) ==
    /\ phase[w] = "found" /\ linked \in {NoRow, target[w]}
    /\ linked' = target[w]
    /\ Aim(w, "resolved", target[w])
    /\ UNCHANGED <<stripe, due, tables, rows, payer, deleted, history>>

\* INSERT of a row with the payer's email and Stripe id, both unique.
InsertRow(c) ==
    /\ payer = NoRow /\ linked = NoRow /\ c \notin rows
    /\ rows'   = rows \cup {c}
    /\ payer'  = c
    /\ linked' = c

InsertCustomer(w) ==
    /\ phase[w] = "missing"
    /\ \E c \in Rows : InsertRow(c) /\ Aim(w, "resolved", c)
    /\ UNCHANGED <<stripe, due, tables, deleted, history>>

(***************************************************************************)
(* The admin sync of the payer itself: select by either key, then write.   *)
(***************************************************************************)
SyncSelect(w) ==
    /\ phase[w] = "idle"
    /\ \E c \in {linked, payer} :
        /\ c = NoRow => {linked, payer} = {NoRow}
        /\ Aim(w, "syncing", c)
    /\ UNCHANGED <<stripe, due, tables, people, history>>

\* The UPDATE sets both unique keys on the selected row, or one is inserted.
SyncWrite(w) ==
    /\ phase[w] = "syncing"
    /\ \/ target[w] = NoRow /\ \E c \in Rows : InsertRow(c)
       \/ /\ target[w] # NoRow /\ {linked, payer} \subseteq {NoRow, target[w]}
          /\ linked' = target[w] /\ payer' = target[w]
          /\ UNCHANGED rows
    /\ EndWorker(w)
    /\ UNCHANGED <<stripe, due, tables, deleted, history>>

\* An active subscription must have exactly one recognised price.
Projectable(x) == x.status \in Entitling => x.price \in {"pro", "team"}

Owned(st, c) == {s \in Subs : st[s] # NoSub /\ st[s].customer = c}

EntitlingRows(st, c) == {s \in Owned(st, c) : st[s].status \in Entitling}

EffectiveTier(st, c) ==
    LET granted == {st[s].price : s \in EntitlingRows(st, c)} IN
    CASE "team" \in granted -> "team"
      [] "pro"  \in granted /\ "team" \notin granted -> "pro"
      [] OTHER -> "free"

Seats == [pro |-> 3, team |-> 10]

\* The latest period of an entitling row, else of any row, else NULL (0).
Expiry(st, c) ==
    LET ends(S) == {st[s].end : s \in S} IN
    IF EntitlingRows(st, c) # {} THEN Max(ends(EntitlingRows(st, c)))
    ELSE IF Owned(st, c) # {} THEN Max(ends(Owned(st, c)))
    ELSE 0

\* Mutant of ProjectedLicense: a batch that forgets to set the seats of an
\* existing licence.
KeepsSeats(st, c) ==
    LET t == EffectiveTier(st, c)  old == license[c] IN
    CASE t # "free" -> [tier |-> t, status |-> "active", expires |-> Expiry(st, c),
                        seats |-> IF old = NoLicense THEN Seats[t] ELSE old.seats]
      [] t = "free" /\ old # NoLicense ->
            [old EXCEPT !.tier = t, !.status = "cancelled", !.expires = Expiry(st, c)]
      [] OTHER -> NoLicense

\* The licence the batch leaves: updated, inserted when entitled, or none.
ProjectedLicense(st, c) ==
    LET t == EffectiveTier(st, c) IN
    CASE t # "free" ->
            [tier |-> t, status |-> "active", seats |-> Seats[t],
             expires |-> Expiry(st, c)]
      [] t = "free" /\ license[c] # NoLicense ->
            [license[c] EXCEPT !.tier = t, !.status = "cancelled",
                               !.expires = Expiry(st, c)]
      [] OTHER -> NoLicense

Written(s, x, c) ==
    [store EXCEPT ![s] = [status |-> x.status, price |-> x.price, end |-> x.end,
                          customer |-> c]]

\* Mutant of Upsert: only a later period replaces a row.
UpsertLaterPeriod(s, x, c) ==
    IF store[s] = NoSub \/ x.end > store[s].end THEN Written(s, x, c) ELSE store

Upsert(s, x, c) ==
    IF store[s] = NoSub \/ Supersedes(x, store[s]) THEN Written(s, x, c) ELSE store

\* The batch; the event is then marked processed, or its mark is lost.
ApplyProjection(w) ==
    LET s == sub[w]  c == target[w]  st == Upsert(s, snap[w], c) IN
    /\ phase[w] = "resolved" /\ Projectable(snap[w])
    /\ store'   = st
    /\ tier'    = [tier EXCEPT ![c] = EffectiveTier(st, c)]
    /\ license' = [license EXCEPT ![c] = ProjectedLicense(st, c)]
    /\ \/ signal[w] /\ due' = [due EXCEPT ![s] = @ - 1]
       \/ UNCHANGED due
    /\ EndWorker(w)
    /\ canceledSeen' = IF snap[w].status = "canceled"
                       THEN canceledSeen \cup {s} ELSE canceledSeen
    /\ UNCHANGED <<stripe, people, changes, ambiguous, contested>>

\* A rejected subscription, a failed request, a unique index, an eviction.
Drop(w) ==
    /\ phase[w] # "idle"
    /\ EndWorker(w)
    /\ UNCHANGED <<stripe, due, tables, people, history>>

(***************************************************************************)
(* The account: provisioned by a login, ended by a deletion.               *)
(***************************************************************************)

\* A login inserts the row of an unknown email; its licence is a step of its own.
SignUp(c) ==
    /\ payer = NoRow /\ c \notin rows
    /\ rows' = rows \cup {c} /\ payer' = c
    /\ UNCHANGED <<stripe, due, tables, linked, deleted, worker, history>>

\* INSERT ... ON CONFLICT (customer_id) DO NOTHING, for a row read earlier.
ProvisionLicense(c) ==
    /\ c \in rows /\ license[c] = NoLicense
    /\ license'   = [license EXCEPT ![c] = FreeLicense]
    /\ contested' = contested \cup ({c} \cap deleted)
    /\ UNCHANGED <<stripe, due, store, tier, people, worker,
                   changes, ambiguous, canceledSeen>>

EndAccount(c) ==
    /\ c \in rows \ deleted /\ Cardinality(deleted) < MaxDeletions
    /\ deleted' = deleted \cup {c}
    /\ license' = [license EXCEPT ![c] =
                     IF @ = NoLicense THEN @ ELSE [@ EXCEPT !.status = "deleted_by_user"]]
    /\ payer'  = IF payer = c THEN NoRow ELSE payer
    /\ contested' = IF \E w \in Workers : target[w] = c
                    THEN contested \cup {c} ELSE contested
    /\ UNCHANGED <<stripe, due, store, tier, rows, worker,
                   changes, ambiguous, canceledSeen>>

\* Mutant of DeleteMyData: the batch leaves the Stripe customer id in place.
DeleteButKeepLink(c) == EndAccount(c) /\ UNCHANGED linked

\* The deletion batch (its sessions, telemetry and machines are not modelled).
DeleteMyData(c) ==
    EndAccount(c) /\ linked' = IF linked = c THEN NoRow ELSE linked

Next ==
    \/ \E s \in Subs : Subscribe(s) \/ ChangeSubscription(s)
    \/ \E w \in Workers, s \in Subs : FetchSubscription(w, s) \/ ListSubscription(w, s)
    \/ \E w \in Workers :
        \/ LookupCustomer(w) \/ LookupEmail(w)
        \/ LinkCustomer(w) \/ InsertCustomer(w) \/ ApplyProjection(w) \/ Drop(w)
        \/ SyncSelect(w) \/ SyncWrite(w)
    \/ \E c \in Rows : SignUp(c) \/ ProvisionLicense(c) \/ DeleteMyData(c)

Spec == Init /\ [][Next]_vars

-----------------------------------------------------------------------------
(***************************************************************************)
(* Properties.                                                             *)
(***************************************************************************)
\* Types of Stripe's objects, of the tables and of the workers.
TypeOK ==
    /\ stripe  \in [Subs -> Snapshot \cup {NoSub}]
    /\ due     \in [Subs -> Nat]
    /\ store   \in [Subs -> StoredRow \cup {NoSub}]
    /\ rows \subseteq Rows /\ deleted \subseteq rows
    /\ {payer, linked} \subseteq rows \cup {NoRow}
    /\ tier    \in [Rows -> {"free", "pro", "team"}]
    /\ license \in [Rows -> License \cup {NoLicense}]
    /\ phase   \in [Workers -> {"idle", "fetched", "unlinked", "found", "missing", "resolved",
                                "syncing"}]
    /\ sub     \in [Workers -> Subs \cup {NoSub}]
    /\ snap    \in [Workers -> Snapshot \cup {NoSub}]
    /\ target  \in [Workers -> rows \cup {NoRow}]
    /\ signal  \in [Workers -> BOOLEAN]

\* What a customer is granted is the aggregate of the stored rows, whichever
\* snapshot was projected last and whether or not its row was accepted: a late
\* cancellation of one subscription never takes away what another pays for.
EntitlementIsAggregate ==
    \A c \in rows \ deleted :
        contested = {} /\ Owned(store, c) # {} =>
            LET t == EffectiveTier(store, c) IN
            /\ tier[c] = t
            /\ t # "free" => /\ license[c] # NoLicense
                             /\ license[c].seats = Seats[t]
            /\ license[c] # NoLicense =>
                /\ license[c].tier = t
                /\ \/ /\ license[c].status = IF t = "free" THEN "cancelled" ELSE "active"
                      /\ license[c].expires = Expiry(store, c)
                   \/ license[c] = FreeLicense

\* A snapshot taken before a subscription was cancelled never resurrects it:
\* once the cancellation has been projected the row stays cancelled.
CancellationSticks ==
    \A s \in canceledSeen : store[s].status = "canceled"

Quiet(s) == due[s] = 0 /\ \A w \in Workers : sub[w] # s

SameState(x, y) == x.status = y.status /\ x.price = y.price /\ x.end = y.end

Shows(s) == store[s] # NoSub /\ SameState(store[s], stripe[s])

\* Where every change at Stripe moves the subscription forward, the order and
\* the repetition of projections do not matter: with no event outstanding and
\* no projection under way the row shows what Stripe shows.
ForwardHistoriesConverge ==
    \A s \in Subs \ ambiguous : Quiet(s) /\ stripe[s] # NoSub => Shows(s)

\* A deletion no projection was running over is final: the row is not linked
\* to the payer again and its licence is not revived.
UncontestedDeletionIsFinal ==
    \A c \in deleted \ contested :
        /\ linked # c
        /\ license[c] # NoLicense => license[c].status = "deleted_by_user"

\* What convergence rests on.  A snapshot and a row were Stripe's state once:
\* never ahead of it, final when cancelled, and, if every change moved forward,
\* behind it in the order of the upsert.
Before(x, y) ==
    /\ x.end <= y.end
    /\ x.status = "canceled" => y.status = "canceled" /\ x.end = y.end

Forward(x, y) == SameState(x, y) \/ StrictlyAfter(y, x)

Behind(x, s) ==
    /\ stripe[s] # NoSub
    /\ Before(x, stripe[s])
    /\ s \notin ambiguous => Forward(x, stripe[s])

Projecting == {"fetched", "unlinked", "found", "missing", "resolved"}

ProjectionTypes ==
    /\ stripe \in [Subs -> Snapshot \cup {NoSub}]
    /\ store  \in [Subs -> StoredRow \cup {NoSub}]
    /\ due    \in [Subs -> Nat]
    /\ {payer, linked} \subseteq Rows \cup {NoRow}
    /\ phase  \in [Workers -> Projecting \cup {"idle", "syncing"}]
    /\ sub    \in [Workers -> Subs \cup {NoSub}]
    /\ snap   \in [Workers -> Snapshot \cup {NoSub}]
    /\ target \in [Workers -> Rows \cup {NoRow}]
    /\ signal \in [Workers -> BOOLEAN]
    /\ \A w \in Workers :
        /\ phase[w] \in Projecting => sub[w] \in Subs /\ snap[w] \in Snapshot
        /\ phase[w] \notin Projecting => sub[w] = NoSub
        /\ phase[w] \in {"found", "resolved"} => target[w] \in Rows

HistoryOrdered ==
    /\ \A w \in Workers : phase[w] \in Projecting => Behind(snap[w], sub[w])
    /\ \A s \in Subs : store[s] # NoSub => Behind(store[s], s)

\* A row that does not show Stripe's state has an event that no worker with an
\* outdated snapshot is about to use up.
Stale(s) == {w \in Serving(s) : snap[w] # stripe[s]}

PendingCovers ==
    \A s \in Subs :
        /\ Cardinality(Serving(s)) <= due[s]
        /\ s \notin ambiguous /\ stripe[s] # NoSub =>
               Shows(s) \/ Cardinality(Stale(s)) < due[s]

ProjectionInv ==
    /\ ProjectionTypes
    /\ HistoryOrdered
    /\ canceledSeen \subseteq {s \in Subs : store[s] # NoSub}
    /\ CancellationSticks
    /\ PendingCovers

\* stripe-reconciliation.ts:217 says concurrent deliveries converge: with no
\* event outstanding and no projection under way every row is current.
QuietRowsAreCurrent ==
    \A s \in Subs :
        Quiet(s) /\ stripe[s] # NoSub => store[s].status = stripe[s].status
=============================================================================
