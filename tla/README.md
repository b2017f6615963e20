# OMG web platform: TLA+ models, checks and proofs

The repository is a SvelteKit site (`src/site`) and a Cloudflare Worker API
(`src/workers/api`) that share one D1 (SQLite) database. The Worker sells
subscriptions through Stripe, turns them into licences, validates those
licences for a CLI, and lets customers sign in and delete their data. It hands
out an introductory offer, lets paying teams form organizations, and collects
usage and page views from those who allow it. Nothing in the code
takes a lock: every request is an invocation that runs beside others and talks
to the database in round trips. One statement, or one `db.batch`, is atomic;
two consecutive ones are not, and an invocation may disappear between any two.

The models describe this level. One action is one round trip, with the reads,
guards and writes of that statement or batch; interleavings, lost invocations,
retries, redeliveries and Stripe's own progress happen between actions.

## Inventory

| Component | State it keeps | Operations | What makes it correct | Model |
|---|---|---|---|---|
| Stripe webhook inbox (`handlers/billing.ts`) | `stripe_events`: status, attempts, claim token, lease | store, claim, look up, run the handler, record success or failure, retention | an event is never lost or recorded by the wrong invocation, its write happens once, every delivery comes to an end | `StripeInbox`, `EventLedger` |
| Stripe reconciliation (`stripe-reconciliation.ts`, `contracts/stripe.ts`, `contracts/billing-offer.ts`) | `subscriptions`, `customers.tier`, `licenses`, the link of a customer to Stripe | fetch, find or link or insert the customer, project in a batch | any order of snapshots gives what Stripe shows; the grant is the aggregate of all subscriptions | `SubscriptionProjection` |
| Admin Stripe sync (`handlers/billing.ts`) | the same | customers, subscriptions, invoices, page by page | as above | `SubscriptionProjection` (without invoices and paging) |
| Licence validation (`handlers/license.ts`, `handlers/dashboard.ts`) | `licenses`, `machines` | validate and register, revoke, rotate the key | seats are not oversold, a rotated key has no machines | `LicenseMachines` |
| Privacy (`handlers/privacy.ts`) | all tables of a customer | export, delete, telemetry preference | a deletion is final | the deletion, in each component's module |
| OTP sign-in and sessions (`handlers/auth.ts`, `otp.ts`, `session-token.ts`, `api.ts`) | `auth_codes`, `sessions`, rate windows | request, verify, log out | one use per code, newest sessions kept, none after a deletion | `SignIn`; the licence it provisions in `SubscriptionProjection` |
| Site session bridge (`handlers/site-session.ts`) | `sessions`, `customers.admin` | exchange a site session for a Worker token | a role change ends older sessions | `SignIn`, provisioning as above |
| Dashboard link (`handlers/dashboard-link.ts`, `handlers/cli-license.ts`) | `licenses` | provision, read | one licence per customer | only the provisioning |
| Marketing offer (`handlers/marketing-offer.ts`) | leads with a lease and a token | claim a lead, create a promotion code at Stripe, record it, retention | one live code per address, a code told is a code honoured | `MarketingOffer` |
| Checkout and billing portal (`handlers/billing.ts`) | none of its own; Stripe's idempotency keys | create a Checkout Session, open the portal, read a session's status | one session per plan, code and day; only the owner of an offer redeems it | `Checkout` (creation of sessions) |
| Organizations (`src/site/src/lib/server/organization-*`, migrations 024 and 025) | members, invitations, the active organization of a session | found, invite, resend, revoke, accept, reject, change role, remove, transfer | exactly one Owner, paid seats bound those who join, one pending invitation per address | `Organizations` |
| Usage and product analytics (`handlers/license.ts`, `handlers/telemetry.ts`, `telemetry-policy.ts`) | usage rows, telemetry, analytics events, active users, opt-out | ingest, opt out, delete | a repeated report counts once, an opt-out or deletion ends the collection | `Usage` |
| Docs analytics (`handlers/docs-analytics.ts`, `worker.ts`) | raw page views, daily aggregates | ingest, refresh every five minutes, nightly cleanup | a day that is over is complete and stays so | `DocsAnalytics` |
| Site analytics (`lib/site-analytics.svelte.ts`, `server/site-analytics.server.ts`, `handlers/site-analytics.ts`) | the page's queue, daily salts, stored events | queue, flush, retry, hash visitors, rotate salts | no event lost or repeated but where the code says, one identity per visitor and day, silence after a privacy signal | `SiteAnalytics` |
| Retention (`worker.ts`, `retention.ts`) | rows by age | nightly deletes | nothing live is dropped | in the module of each table |
| Site: Better Auth (`auth.server.ts`) | its own tables | organization plugin | what the schema's guards leave possible | external actions of `Organizations` |
| Admin and CRM (`handlers/admin.ts`, `store/crm.ts`, `store/admin-store.ts`, the site's `admin-customer-*`) | notes, tags, the licence's status, `customers.admin`, audit rows | note, tag and licence forms; lists, exports, reports | a form hits the customer it was meant for or none, a deletion and a lost role reach it, what is audited happened | `AdminCrm` (the forms) |
| Admin live page (`routes/admin/live`, `handlers/firehose.ts`) | a timer, a poll, a label | poll, pause, stop | polled while watched, and only then | `AdminLive` (the polling) |
| Account dashboard, organization reports, GitHub proxy, routing, observability, pages | own or none | views, plumbing | | not modelled |

How they meet: a Stripe event enters the inbox, whose handler calls the
reconciliation; the reconciliation writes the licence that validation reads; a
deletion ends the rows all of them work on; logins and the site bridge create
customers and free licences beside the webhook that creates them from Stripe.
A checkout redeems the code a marketing lead was given; the licence's seats bound
an organization; usage is accepted by the licence's key and its owner's opt-out.

Hard behaviours: deliveries repeated and out of order; a handler that dies
between its write and the record of it, or outlives its lease; a subscription
that moves on while an old snapshot of it is being projected; a row selected in
one statement and written by id in another, with a deletion in between; two
machines at the last seat; a key rotated while a validation is under way; one
code submitted twice, or a role changed in one statement and the sessions it
concerns ended in the next; an answer of Stripe that arrives after the claim it
belongs to was taken over, or never; two acceptances at the last seat; a transfer
whose member or Owner changed since they were read; a report that passed its
policy before the opt-out; a cron run that fails at midnight; a batch whose
answer is lost and which is sent again; a form about a customer who is deleted,
and replaced under the same address, before its statement runs.
`PROJECT.json` lists each hazard at its line with the properties that cover it.

## The modules

### StripeInbox (and EventLedger)

State: the columns of `stripe_events` per event (`status`, `attempts`, `token`,
`lease`; `"none"` means no row), the paying customer's row as far as the
handlers look at it (`customer`: absent, with an email only, or linked), and
the progress of each invocation (`pc`, `job`). `lease` abstracts
`processing_started_at` into unset, younger than five minutes, or older. A
worker slot is one live invocation, and its identity stands for the UUID it
drew as claim token: a slot enters a handler only by a claim of its own, which
replaces the event's token, so a reused slot never passes for the invocation it
had before.

| Actions | Code |
|---|---|
| `StoreEvent` | `INSERT OR IGNORE` of a delivery whose signature was accepted |
| `ClaimEvent`, `LookupState` | the conditional `UPDATE ... RETURNING`, and the `SELECT` that explains a failed claim and picks the answer |
| `IgnoreEvent`, `ResolveCustomer`, `SelectCustomer`, `EnsureBillingCustomer`, `WriteEffect`, `InsertCustomer`, `Throw` | the handlers by kind of event, as a first round trip and a write |
| `MarkProcessed`, `RecordFailure` | the guarded updates that record the outcome, and the HTTP answer |
| `GiveUp`, `Crash`, `LeaseExpires`, `CleanupStripeEvents`, `SignUp`, `DeleteMyData` | the environment: Stripe's patience, eviction, time, retention, the customer |

Four history variables name what the properties speak about: `acked` (events
answered with a 2xx), `completed` (commits of a handler's write), `disturbed`
(events for which the once-only promise cannot hold: the write committed and
its outcome was lost, the lease was overrun, or retention forgot the event) and
`linked` (a row was linked to the customer at some time).

`EventLedger` is the promise: an open event is taken by one invocation at a
time, and only that one settles it. `ImplementsLedger` instantiates it with the
invocations inside a handler as holders and the terminal statuses as outcome.

Stripe delivers an event again until it gets a 2xx or has tried for three days
(`GiveUp`, after which the event is in `abandoned`). Three days and the inbox's 20
attempts are unrelated, and deliveries answered 409 claim no attempt, so Stripe may
give up with any number of attempts left: a failing event then ends as `failed`,
neither acknowledged nor dead, and its row is kept for a person to find, as the
comment of `cleanupStripeEvents` has it. `DeliveriesEnd` says that each stored event
comes to one of these ends and stays there.

### SubscriptionProjection

State: each subscription as Stripe has it (`stripe`), the number of webhook
events not yet processed (`due`), the `subscriptions` table (`store`), the
customer rows and which of them carries the payer's email (`payer`) and Stripe
id (`linked`), tier and licence per row, and the progress of each worker. The
module is about one payer; other payers share no row with it, because email and
Stripe id are unique. Periods are numbered, 0 is SQL's `NULL`.

| Actions | Code |
|---|---|
| `Subscribe`, `ChangeSubscription` | Stripe (external): the lifecycle in `Moves`; a period end stays or moves forward |
| `FetchSubscription`, `ListSubscription` | a webhook's retrieve, the admin sync's list |
| `LookupCustomer`, `LookupEmail`, `LinkCustomer`, `InsertCustomer` | `ensureBillingCustomer` (by Stripe id, by the email Stripe has, then the link or a new row) and the sync's select, one round trip each |
| `ApplyProjection` | the batch of `applyStripeSubscriptionProjection`: the upsert with its precedence, the tier, the licence's update and insert |
| `SyncSelect`, `SyncWrite` | the admin sync of a customer |
| `SignUp`, `ProvisionLicense`, `DeleteMyData` | login, licence provisioning, deletion batch |
| `Drop` | a failed request, a rejected subscription, a unique index, an eviction |

`due` counts the events that still have to be processed: a change at Stripe
adds one, an event has at most one worker serving it, and it is used up when
its batch committed and was recorded. This is what `StripeInbox` establishes
for events that do not end as dead letters; dead letters are outside this
module. History: `ambiguous` (subscriptions some change of which did not move
strictly forward in the order of the upsert), `canceledSeen` (a cancellation
was projected), `contested` (rows deleted while a projection or a sync had
already selected them, or provisioned again after a deletion).

### LicenseMachines

State: the licence row (`key` by number of rotations, `valid`, `seats`,
`deleted`), the machine rows by `is_active`, and each validation request with
what it loaded from the licence row. A login of the owner is checked one round
trip before the owner's actions, so they have no guard on the deletion; nor has
`ChangePlan`: the override of the admin page (`admin-store.ts:473`) and the
projection's update go by the customer's id, so either, the projection if it had
found the row before, makes a deleted owner's licence valid again under its key.

| Actions | Code |
|---|---|
| `ValidateLicense`, `FindMachine`, `TouchMachine`, `RegisterMachine`, `SignToken`, `DropValidation` | `validateLicense`, one round trip each; `RegisterMachine` is the upsert with its seat guard and the check of its `RETURNING` |
| `RevokeMachine`, `RegenerateLicense` | the dashboard's handlers; the second is one batch |
| `DeleteLicensee`, `ChangePlan` | the deletion batch; a projection or an admin's override, as seen from here |

History: `by` (key a machine was last activated with), `outdated` (requests
under way when the licence or their machine changed), `tainted` (machines an
outdated request activated), `revived` (the licence was made valid again since
the deletion), `lowered` (the plan has lost seats).

### SignIn

State: for one email address, the codes of `auth_codes` by number (`usable`:
neither used nor expired; `counted`: what the limit of three in ten minutes
counts), the customer rows and which of them carries the address (`account`),
each row's `admin` flag, the `sessions` table, and each request: its row, its
code (0 for the site's bridge), the role it reports, the session it presented.
A session records the row, the code that opened it (0: the bridge) and the
admin flag of its row at that time; the last one is not a column, it is there to
say which sessions are older than a change of role.

| Actions | Code |
|---|---|
| `SendCode`, `CodeAges` | the batch that spends the unused codes and inserts one under the limit; ten minutes pass. The window is compared in whole seconds, so a code may leave it up to a second before it expires |
| `ClaimCode`, `InvalidateCodes`, `FindCustomer`, `InsertCustomer`, `AdoptCustomer`, `InsertAndPrune` | `verifyCode`, one round trip each; the last is one batch |
| `MintSiteSession`, `FindCustomer`, `InsertCustomer`, `AdoptCustomer`, `SyncRole`, `RevokeSessionsOnRoleChange`, `UpsertSiteSession` | `mintSiteSession`, one round trip each |
| `EnsureBillingCustomer` | a payment of an address that has no row |
| `ValidateSession`, then `Logout`, `RevokeSession` or `DeleteMyData` | the bearer token's lookup, then the handler's statement or batch |
| `Drop` | a failed round trip, a refusal, an eviction |

A request that presents a session of a deleted row (`"orphan"`) is still valid:
the row exists, without its address. Sessions never leave the table by age; one
that expired only stops validating, which is a `ValidateSession` not taken. The
address has one site user, so the bridge's derived token is one per row. History:
`logins` (which code opened which session), `overtaken` (requests whose row was
deleted since they read it), `late` (sessions such requests opened), `lost`
(rows whose sessions a vanished request still had to revoke).

### MarketingOffer and Checkout

`MarketingOffer` is one email address: its row in `marketing_offer_leads`, the
requests that claim it (a slot's identity is its claim token), and, external, the
promotion codes and idempotency keys at Stripe. The lead's id determines both
the code and the key, so a lead number stands for them. Thirty-day expiries are
told by the call they come from: `clock` numbers the calls' times, and offers up
to `expired` are over. `Checkout` extends it with the requests that redeem the
code and the Checkout Sessions of the day.

| Actions | Code |
|---|---|
| `InsertLead`, `ReadLead`, `Reclaim`, `CallStripe`, `RecordFailed`, `RecordReady` | `claimOffer`, one round trip each; the reclaim keeps the id of a failed or abandoned lead and draws a new one for an expired offer |
| `StripeCreates`, `StripeRefuses`, `ForgetKey` | Stripe (external): a key replays its result for the same parameters, rejects others, and is forgotten after a day; a code that is live cannot be created twice; the answer may be lost |
| `LeaseEnds`, `Tick`, `Expire`, `CleanupMarketingOfferLeads` | five minutes, time, thirty days, twelve months |
| `CreateCheckout`, `LookupPromotion`, `OpenSession` | `handleCreateCheckout`: customer, offer, the call to Stripe under the daily key |
| `LinkCustomer`, `NewDay` | a webhook stores the Stripe customer; the date in the key changes |

A retry of a lead whose first call reached Stripe computes a new `expires_at`
and sends it under the same key: unless the date is the same, Stripe rejects it
until it forgets the key, and refuses the code itself while the first is live.
The model has this, and the lead then fails until the first code expires.
History: `answers` (codes and dates visitors were told), `forgotten` (leads
retention deleted).

### Organizations

State: for one organization, `role` and `joined` (the invitation a member row
came from) of each user, the `seats` the licence grants (0 unless it is active
and of a team or enterprise tier), the users whose session has its
`active_organization_id`, the invitations in order, and each form action with
what it has read.

| Actions | Code |
|---|---|
| `CreateOrganization`, `Found` | `createOrganizationAction` up to `bootstrapOrganization`, and its transaction |
| `Invite`, `Resend`, `Revoke`, `Respond` | the invitation actions up to the write |
| `ChangeRole`, `Remove`, `TransferOwnership` | the member actions up to the write |
| `InsertInvitation`, `RefreshInvitation`, `AnswerInvitation`, `Join`, `SetRole`, `RemoveMember` | Better Auth's writes (external) through the unique index and the triggers of migrations 024 and 025 |
| `Transfer` | the batch of `transferOrganizationOwnership` |
| `LicenceChanges`, `InvitationExpires`, `SignIn`, `Drop` | the licence, time, a new session, a request that ends early |

The site's reads and Better Auth's own reads are one step before the write:
between them a request only carries an id, which the write names again, so what
matters is the age of that reading. A session too old for a transfer is a `Drop`.
`SignIn` may happen while requests of the same user are under way, from another
browser. Better Auth's acceptance changes the invitation, the member and the
session in three statements; the third may be lost (`Joining`).

### Usage, DocsAnalytics, SiteAnalytics

`Usage` is one licence on one day: its key by number, status, opt-out, machines;
one usage counter per day and machine, the telemetry tables, `analytics_events`
and `analytics_active_users`; and each report with the policy it read.

| Actions | Code |
|---|---|
| `ReadPolicy` | `resolveTelemetryIngestion`, the first round trip of every report |
| `WriteDaily`, `WriteMember` | `reportUsage`: the MAX upsert of the licence, then the batch of the machine |
| `WriteCli`, `WriteEvents`, `WriteUsers` | telemetry batches; the analytics batch and the active users after it |
| `OptOut`, `RegenerateLicense`, `ChangeStatus`, `RegisterMachine`, `DeleteMyData`, `ExpireEvent`, `DropReport` | what happens to the licence and its rows meanwhile; `ChangeStatus` may also revive the licence of a deleted customer |

`DocsAnalytics` has raw views per day, the aggregate of each day, and cron
invocations: `HandleDocsAnalytics` stores a view, `Scheduled` starts a run,
`RefreshToday` and `RefreshYesterday` rebuild one day each, `RunFails` ends a run
anywhere, `CleanupDocsEvents` deletes raw views by age. A day is numbered, and
raw views live `KeptDays` (7 in the code).

`SiteAnalytics` follows events from the page to the table: the queue, its timer
and privacy signal; batches in flight; the endpoint's limit (`Refuse`); the
Worker's steps `HandleTrackEvent`, `InsertSalt`, `SelectSalt`, `StoreEvents`; and
`CleanupSalts`. An answer can be lost on its way back (`AnswerLost`), after which
the page restores a batch the Worker may have stored. The queue is the memory of a
document: `PageExit` is the flush when it is hidden or left, from which it may come
back, and `PageEnds` its end, which takes the queue and leaves the batches under way
to the Worker, with nobody to restore a refused one (`orphaned`, `Unheard`). The
browser's privacy signal may go on and off (`PrivacySignal`); a flush under it clears
the queue. A visitor's identity is the salt it was hashed with. History: `dropped`
(events given up by the queue's limit, the signal or the end of a page), `unsure`,
`identities`.

### AdminCrm

State: the customer rows one email address has had in turn (`persons`, `holder`:
the row that has it now), the licence status of each, the notes (all of one text,
so a form can tell them apart by customer and time only), one tag in the catalogue
and its assignments, the clock in seconds, the acting admin's `role` at the site and
`flag` in the Worker's `customers`, and each submitted form: its step, operation, and
the ids it looked up.

| Actions | Code |
|---|---|
| `Submit` | the forms of the customers page as it was loaded: the address, a note's text and time, a tag's name, never an id |
| `ReadRole`, `MintSession` | `loadAdminServiceSession`: the role from the site's table, then the session bridge, which copies it to `customers.admin` |
| `ResolveCustomer`, `ResolveNote`, `ResolveTag` | the site's lookups; a note must match exactly once, else 409 |
| `ValidateAdmin` | the Worker's own check of session and flag |
| `CreateNote`, `DeleteNote`, `AssignTag`, `RemoveTag`, `CreateTag`, `UpdateUser` | the handlers with their one statement |
| `LogAdminAudit`, `EndForm` | the audit row, written after the statement and best effort; a refusal, failure or eviction |
| `EraseCustomer`, `SignUpAnew`, `ProvisionHolder` | the customer's deletion batch, a later login under the address, its free licence |
| `LoseRole`, `SyncLostRole`, `Tick` | another admin takes the role away; the former admin's next visit tells the Worker; time |

The bridge's statements are one step: what an older reading of the row could add is
a flag that is not set, which the next step refuses like one that was lowered
after. History: `changed` (forms whose statement changed a row), `audited` (forms
with an audit row that reports success), `gone` (rows deleted by their owner),
`bound` and `trusted` (forms that had looked up the customer, or read the role,
when it was deleted, or lost).

### AdminLive

The live page's feed: open or stopped, the tab's visibility, the timer, the poll
under way and the label. `Start`, `Stop`, `Hide`, `Show`, `Refresh` and
`RefreshEnds` are the entry points of `AdminLiveFeed`; all of them end in
`Schedule`. An aborted poll's rejection is a microtask, taken to run before the
browser's next event: while a poll is `"aborted"` nothing else happens. What a poll
reads (the firehose) and how events are merged is left out.

## The runs

| Run | Instance | Checks |
|---|---|---|
| `stripe_inbox` | 2 events (an invoice, the creation of its customer), 2 invocations, 2 attempts, overrun leases, given up or not; 4.3 million states | `AckedIsSettled`, `OnceUnlessDisturbed`, `InvoiceWaitsForCustomer`, `OnlyOwnerRecords`, `SettledIsFinal` |
| `stripe_redelivery` | 2 events (a subscription, which Stripe may give up, and one nothing handles) of a customer who stays linked, 2 invocations, 2 attempts, handlers end within their lease, under `LinkedSpec` (`FairSpec` without the sign-up and deletion steps these events never read); 280 thousand states | `ImplementsLedger`, `DeliveriesEnd` |
| `subscription_projection` | 2 subscriptions, 2 workers, 2 rows, 2 periods, 3 changes, 1 deletion; active, past due and cancelled; and, one projection at a time, every status and price | types, `EntitlementIsAggregate`, `CancellationSticks`, `ForwardHistoriesConverge`, `UncontestedDeletionIsFinal` |
| `subscription_recovery` | 1 subscription, 1 worker | finds `QuietRowsAreCurrent` violated |
| `access` | 3 machines, 2 validations, 2 seats, 1 rotation; and 2 requests, 2 codes, 2 rows, 3 sessions, at most 1 kept by a login; 4.4 million states | `SeatsHeld`, `KeyGovernsMachines`, `TokenNeedsSeat`; `OneSessionPerCode`, `SessionsCapped`, `RoleChangeRevokes`, `DeletionEndsSessions`, `SignInInv` |
| `sign_in_role` | sessions as in `access`, with 1 request | finds `RevokedBeforeReplaced` violated |
| `marketing_offer` | 2 claims, 2 checkouts, 2 lead ids, 2 expiry dates, 1 plan; 3.1 million states | types, `OneLivePromotion`, `AnswersHonoured`, `AnswersRedeemable`, `OneSessionPerOffer` |
| `organizations` | 3 users, 2 form actions, 0, 2 or 3 seats, 2 invitations; 1.1 million states | `OneOwner`, `OnePendingInvitation`, `JoinsTakeFreeSeats` |
| `organization_sign_in` | the same | finds `SigningInAgainHelps` violated |
| `operations` | 2 machines, 2 reports, 2 keys; 2 cron runs over 4 days of which 3 are kept; 2 batches of at most 2 among 3 events, a retry queue of 2, 2 days of salts; the live page; 2 forms, 2 customer rows, 2 notes, 2 seconds; 5.4 million states | types, `CountersConverge`, `CollectionStops`, `DeletionReachesAll`; `PastDaysComplete`, `ViewsNeverShrink`; `EventsAccounted`, `OneIdentityPerDay`, `SignalStopsSending`; `PolledWhileWatched`; `DeletionReachesCrm`, `LostRoleBinds` |
| `usage_deletion` | the same | finds `AnalyticsEventsDeleted` violated |
| `audited_mutations` | the same forms | finds `AuditedMutationsHappened` violated |

Three MC modules add a variable that restricts behaviours, never what a step does.
`MCSubscriptionProjection` has `wide`: all interleavings with the main statuses
and one price, or every status and price with one projection at a time, because
both at once are too many. `MCAccess` and `MCOperations` have `part`: the modules
they put together share no variable, so each is explored with the others at rest.
Where a run does not list the types, they are conjuncts of the inductive invariant
that is proved (`InboxInv`, `MachinesInv`, `OrganizationInv`, `CrmInv`). That the parts of
`operations` behave each by its own specification is a theorem, `WholeIsItsParts`.

Why the bounds are enough to meet the interesting cases: every race here is
between two invocations, over one row. Two attempts give a first failure, a
retry and the limit; two invocations give an overrun owner and the new owner of
its event; one invoice with one `customer.created` gives the order in which the
invoice comes first. Two periods give equal and later period ends, three changes
give a creation, a setback and a recovery, or two subscriptions and the end of
one of them; two rows give a deleted row and its successor. Three machines against two
seats give a full licence and two competitors; one rotation separates two keys.
Two codes give an older and a newer one, and a third request meets the limit of
two; one session kept makes every second login prune; two rows give a deleted
customer and its successor; three sessions give the one pruned or revoked, the
one that replaces it and the site's. The code keeps 5 sessions and sends 3 codes,
and nothing depends on the values.
Two leads of an address give an offer and its renewal, two dates one that is over
and one that is live, two claims an abandoned request and the one that took over.
Three users are an Owner and two people at the last seat, or an Owner, the member a
transfer names and the one another names; two seats or three leave one seat or
none; two invitations give one that is answered and its successor, and invited
roles are restricted to Member, since an Admin arises by `ChangeRole`. Two keys
give events of the old and the new one; four days with three kept give today,
yesterday, a day untouched and one that retention cuts; a retry queue of two
with three events overflows. Two customer rows
give a deleted customer and the next one under the address; two notes in two seconds
give twins the delete form cannot tell apart, and notes it can; two forms give one
under way and one that starts after. `EndpointMax` is 50 in the code, as is the retry
queue, and the batch 20.
`MaxAttempts` is 20 in the code; what depends on it is which end an event comes to
that keeps failing, since Stripe gives up by time: both ends, `dead` and left
`failed`, are explored with 2. Bounds that
only limit the exploration: `MaxPeriod`, `MaxChanges`, `MaxDeletions`,
`InPlay`, `MaxSeats`, `MaxRotations`, `MaxCodes`, `MaxAccounts`, `MaxMinted`,
`MaxLeads`, `MaxClock`, `MaxInvitations`, `MaxCount`, `MaxKeys`, `MaxReports`, `MaxDay`,
`MaxEvents`, `MaxEmitted`, `MaxFailures`, `LastDay`, `MaxPersons`, `MaxNotes`, `LastSecond` and `Many` (commits are counted up
to 2). Symmetry is used in safety runs only. Deadlock is checked except in the runs of
`MCOperations` and `AdminCrm`, which stop when the last day, the reports and the
forms are used up, and in `stripe_redelivery`, where nothing may be left to deliver
once Stripe has given up.

**Fairness** (`stripe_redelivery` only). Weak fairness of each invocation's
next step: the platform runs an invocation until it ends or is evicted. Weak
fairness of `LeaseExpires`: the clock advances. Strong fairness of
`Redeliver`: Stripe redelivers what was not answered with a 2xx, again and
again, but only as long as it has not given up; it may give up at any time, and
`GiveUp` is never obliged to happen. Strong fairness of `Claim` and `Lookup`:
evictions may go on for ever, but they do not hit every delivery of an event at the
same round trip before its handler. No fairness is assumed of the handler's success: `Throw` and `Crash`
may always win, and an event then ends as a dead letter.

## What the runs found

- `QuietRowsAreCurrent`. Within one billing period, the rank of a stored
  `past_due` row rejects the `active` snapshot of a recovered payment, so a
  paying customer stays without the tier until the next period.
  `ForwardHistoriesConverge` states, and the proof shows, that this is the only
  way not to converge: a change at Stripe that does not move the subscription
  strictly forward in the order of the upsert.
- `RevokedBeforeReplaced`. The bridge decides to revoke by comparing the stored
  flag with the reported role, and stores the flag first. If the request fails
  before its second statement, the retry sees no change: it issues the
  replacement beside the sessions opened under the old role, which stay until
  they expire or the role changes again. `RoleChangeRevokes` states what
  remains true.
- `SigningInAgainHelps`. Only founding and accepting set a session's active
  organization, and the queries of a transfer, a role change, a removal, a resend
  and a revocation require it. A new session has none, so the sign-in the
  transfer asks for takes away the organization it needs.
- `AnalyticsEventsDeleted`. The deletion finds analytics events by the current
  key; those recorded under a rotated key stay until retention.
  `DeletionReachesAll` states what remains true.

- `AuditedMutationsHappened`. The handlers that delete a note or remove a tag ignore
  the store's answer that there was none. A form whose row a deletion, or another
  form, took away between lookup and statement is answered and audited as done.

Seen while modelling, part of the models, and not the subject of a run:

- The attempt limit also guards the reclaiming of an expired lease, and only the
  failure path turns a row dead. An invocation lost on the last attempt leaves a
  row that is neither claimable nor dead and is answered 409 from then on;
  `DeliveriesEnd` names exactly this state (`Exhausted`).
- An event whose deliveries Stripe ends before the twentieth attempt stays `failed`
  and is not acknowledged; the code keeps the row and does not retry it itself.
- A batch the Worker refuses after its page is gone is lost, as are events queued
  after the last flush of a page, and events in the queue when a flush meets the
  privacy signal, also if the signal goes off later. `EventsAccounted` names these
  and the cap of the retry queue as the only losses.
- A link or an admin sync that selected its row before a deletion writes the
  Stripe id onto the anonymised row. `UncontestedDeletionIsFinal` states what
  remains true.
- A validation past its key check registers its machine after a rotation
  deactivated all of them. After a deletion, an administrator's override or a
  projection under way makes the licence valid again without a new key, and
  machines are admitted under it as before. `KeyGovernsMachines` states what
  remains true: without such a revival no later validation activates one.
- A login spends every unused code of the address a round trip after its claim,
  also one mailed in between.
- Retention of marketing leads goes by `created_at`, which a reclaim does not
  renew, so a row whose offer was renewed a moment ago can be deleted; the
  address may then claim a second live code. `OneLivePromotion` names the case.
- A checkout repeated after a webhook stored the Stripe customer sends `customer`
  where the first sent `customer_email`, under the same key: Stripe refuses it
  until the day ends.
- Active users of machines that were never registered, once their events have
  expired, are out of a deletion's reach, and achievements are never deleted.
- `incrementDailyMetric` adds; a repeated analytics batch is counted again.
- Two notes of one text written within the same second cannot be deleted from the
  page: the lookup finds two and answers 409.
- A form that resolves its customer after a deletion and a new sign-up reaches the
  new customer of the address: the page's form carries the address only.
- An admin's form under way when the role is lost can raise the Worker's flag again;
  `LostRoleBinds` says that no later form profits. An assignment of a tag, unlike a
  note, survives the deletion of the customer.
- Fifty restored events and one more are a batch above the endpoint's limit: it
  is refused each time, restored without its newest event, and waits for the
  next event, as a restored batch sets no timer.

## What is proved

The theorems hold for all values of the constants that satisfy the modules'
`ASSUME`s. These say that names are distinct from null values (`NoLicense` is no
licence), that sets a count ranges over are finite (workers, machines, users), that
limits the code compares with are positive (attempts, seats, codes, sessions), that
something exists to be sold or counted (a plan, a machine, a positive count), that
retention keeps the three days a rebuild may touch (7 in the code), and that the
bounds of the exploration are natural numbers. The inductive invariants were also
checked by TLC, on the instances of the runs. With these proofs
every invariant and every action property of the passing runs is a theorem. The
listed ones:

**StripeInboxProofs.** `InboxInvariant` proves `InboxInv`, inductive as it
stands. `OnceUnlessDisturbed` is not inductive alone: one must know that a
second invocation cannot be in the handler (`ExclusiveUnlessDisturbed`: whoever
is inside owns the row, with a live lease) and that a commit leaves a trace
until the row is processed (`CommitsTracked`). `AckedSettled` and
`WrittenOnce` follow from it. `InvoicesWait` adds that an invocation of an
invoice that got past its lookup has seen a linked row. `OwnerRecords` and
`SettledFinal` are action properties, proved step by step from the types and
from the guard of the recording updates. `InboxImplementsLedger` proves the
refinement under `HandlersOutliveLease = FALSE`: then an invocation inside a
handler always holds the live claim (`LeaseInvariant`), so at most one is, and
each step takes, releases, settles or forgets an event or changes nothing the
ledger sees.

**SubscriptionProjectionProofs.** `ProjectionInvariant` proves `ProjectionInv`:
no snapshot or row is ahead of Stripe, and, for subscriptions that only moved
forward, every snapshot and row is behind Stripe in the order of the upsert,
which is transitive (`HistoryOrdered`); and a row that does not show
Stripe's state has more events outstanding than workers with outdated snapshots
(`PendingCovers`), so some later projection will read the current state.
`CancellationHolds` and `ForwardConverges` follow. The proof rests on what
`ChangeSubscription` says of Stripe: period ends never move back and a
cancelled subscription stays cancelled.

`AccountInvariant` adds `AccountInv`, about what the projections grant. A stored
subscription belongs to the row with the Stripe id, or to a deleted one
(`OwnerIsLinked`), and so does what a worker resolved (`ResolvedIsLinked`): the
Stripe id leaves a row only by the deletion of its data, and no row gets it back
except from a worker that had already selected it, which `contested` records
(`NobodyReturns`). A batch therefore writes the account of the one customer whose
subscriptions it aggregates, or of a deleted one, and `EntitlementHolds` and
`DeletionFinal` follow. That the later of several period ends is one of them needs
the largest element of a finite set; `LargestOf` finds it without induction: among
the sets "elements above x" one has no strict subset, because strict inclusion of
finite sets is well founded.

**LicenseMachinesProofs.** `MachinesInvariant` proves `MachinesInv`. The seat
limit needs `LoadedIsCurrent`: while no plan lost seats, no request carries a
limit above the current one, so the guard of the upsert, evaluated against the
loaded limit, is at least as strict as against the stored one. That a deletion
leaves no machine active needs that the licence is valid, after one, only if
billing or an administrator made it so; the model lets them do that at any time.
`SeatLimitHolds`, `KeyRotationHolds` and `TokensNeedSeats` follow.

**SignInProofs.** `SignInInvariant` proves `SignInInv` for any requests and
limits. `OneSessionPerCode` rests on `ClaimsTracked`: a code some request
claimed is spent, belongs to that request alone and has no session yet, and a
code that has one can never be claimed again. That holds because `SendCode`
numbers codes upwards and no action makes a code usable again, which is also
`OnlyNewestCode`. `DeletionEndsSessions` needs that a request acting for a row
either acts for the current one or was overtaken; `RoleChangeRevokes` that the
flag of a row changes in `SyncRole` only, which leaves its request about to
revoke. `WindowHeld` is the code limit under concurrent requests.
`SessionsStayCapped` needs no more than that sessions are told apart by their ids
(`CapInv`): of the sessions a login's batch keeps, all others are newer than the
oldest (`OldestOf`, by the argument of `LargestOf`), and the batch counted fewer
than the limit that are. The site's session is added only where there is none.

**OrganizationsProofs.** `OrganizationInvariant` proves `OrganizationInv`, which
adds three facts to the types and to `OneOwner`: the invitations of one address
that are pending, expired or not, are one row (`OneOutstanding`); a request at its
write names an invitation that exists, and a transfer two different people
(`JobsSound`); and before the organization exists there is nothing but requests to
found it (`NothingBefore`). `OneOwner` is kept by `Transfer` because the promotion
needs the acting Owner in place, and because with one Owner the demotion finds a
replacement only if the promotion took place. `ExactlyOneOwner`,
`PendingIsUnique` and `SeatsBeforeJoining` (an action property) follow.

**AdminCrmProofs.** `CrmInvariant` proves `CrmInv`: beside the types and
`DeletionReachesCrm` it says of each form what its step knows (`IdsTracked`): before
the lookup it holds no customer, an id of a deleted customer is held only by forms
that had looked it up before the deletion, and without the role only forms that had
read it are past reading it. `DeletionReaches` and `LossBinds` (an action property)
follow.

**CheckoutProofs** (of `MarketingOffer` and `Checkout`). `CheckoutInvariant` proves
`CheckoutInv`, an argument about time. A request started within the life of every
offer made since (`Timely`: requests end long before thirty days do), and the claim
that turns a lead ready called Stripe after every other claimant of it had started
(`LatestClaim`, `Settled`): whoever claims a lead takes its token, so the others
had claimed it, and started, before. So when a ready offer
has ended nobody is left who claimed its lead, and the lead that replaces it has the
address for itself (`Closed`); within a lead Stripe replays or refuses (`Ledger`).
`OneCodeLive`, `VisitorsToldTheTruth` and `OffersStay` follow; `SessionsShared` adds
that a session is filed under the plan and code of its cart and alone there
(`SessionsKeyed`).

**OperationsProofs** holds one invariant for each part of `MCOperations`.
`FeedPolls`: an aborted poll exists only while nobody watches, and every way back to
watching schedules one. `DocsInvariant`: a run is at most one day old, so what it
rebuilds is at most two days old, and retention keeps those days whole; a rebuild
therefore counts all that was stored (`PastDaysCounted`) and never less than before
(`ViewsOnlyGrow`, an action property). `UsageInvariant`: whoever runs past the end of
collection is marked as overtaken at that moment (`OvertakenKnown`), and while no key
was rotated and no event has expired, an active machine leads back to an event of the
key, by which a deletion finds it (`UsersTraced`, and `CarriedBy` for reports between
their two batches). A report the deletion overtook is exempt, also when the licence
has become valid again. `CountersAreReported` (of what was reported since the last
deletion), `DeletionComplete` and `NoLateCollection` (an action property) follow.
`SiteInvariant` has two halves. An event nobody is unsure of is in at most one place: queued, in one batch, or stored (`OnePlace`); a
batch keeps its events until its answer, and what a flush, a full queue or a page's
end lets go is counted as given up at that moment; with lemmas on splitting a sequence
(`RestoreSplits`, `OneMore`) this gives `EventsNeitherLostNorRepeated`. A salt in use
today or yesterday is the oldest the table has that is not older than its day
(`SaltChosen`, `SaltKept`), whatever is inserted meanwhile, because rotation removes
only older ones and a cold start inserts only where the table has none that is good
for the day; this gives `OneIdentity`. `SignalHonoured` is an action property. `WholeIsItsParts` proves
that a behaviour of `MCOperations` is one of every part, and `OperationsTypes` the
types the run checks.

**Only model-checked**: `DeliveriesEnd`. Liveness, and `ENABLED` with it, is out of
the provers' reach. No recursive definition is proved about: what
the modules fold over sequences is stated by their lengths and elements.

## What is not modelled

- The admin sync's invoice list and pagination: upserts keyed by the invoice.
- Contents: amounts, names, descriptors, and the parsing of Stripe's objects,
  except that an entitling subscription without exactly one catalog price is
  rejected (`Projectable`).
- Two payers, or one person with several emails.
- Rate limiters and Turnstile (platform services that refuse a request before it
  changes anything), mail delivery, and the upgrade of session tokens stored
  before they were hashed. What a code or a token consists of: a guessed one is
  no different from the right one here.
- The composition of the inbox with the projection; `due` stands for it.
- The billing portal and the status of a Checkout Session: single requests to
  Stripe that store nothing here.
- The invoice rows: only paid invoices are written, by an upsert on the invoice,
  so no order matters.
- `analytics_daily`, install pings, docs sessions and achievements: increments and
  upserts nobody reads back before writing.
- `updateNote`: the Worker has the route, but no page calls it. The admin's licence
  form in combination with projections: `AdminCrm` has only the status, and
  `Usage` and `Organizations` see the override as a change of theirs. The admin's
  lists, reports and exports, and the audit log as such.
- Several organizations of one person: the site shows and changes one.
- Read-only reports, the GitHub proxy (a cache in front of read-only
  requests), routing, observability and the pages keep no state a property could
  be about. They are most of the repository's lines.

## Plan

1. (done) The inbox with its ledger, the projection, the licence and machines.
2. (done) Sign-in: codes, customer row, sessions, the site session bridge.
3. (done) Marketing offer and checkout.
4. (done) Organizations, with the licence changing underneath, and their proofs.
5. (done) Usage, docs and site analytics.
6. (done) The admin's forms and the live page, with proofs about the forms.
7. (done) Proofs of every invariant and action property the passing runs check.
8. Inbox and projection composed, with dead letters; abstract specifications of the
   seats of a licence and of the offer of an address, with proofs that
   `LicenseMachines` and `MarketingOffer` implement them.

Order of importance: money and access first (1), then who may sign in (2), then
what is promised to leads and teams (3, 4), then counters (5) and the operator (6).
