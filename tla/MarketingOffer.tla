---------------------------- MODULE MarketingOffer ----------------------------
(***************************************************************************)
(* The introductory offer of one email address: its row in                 *)
(* marketing_offer_leads, the requests that claim the row, ask Stripe for  *)
(* a promotion code and record the answer, and the codes Stripe has        *)
(* issued.  The code and the idempotency key derive from the lead's id, so *)
(* a lead stands for both.                                                 *)
(*                                                                         *)
(* Time is told by the offers: expires_at is thirty days after the call to *)
(* Stripe, so the call made at "clock" expires at "clock", and the expiry  *)
(* dates up to "expired" have passed.                                      *)
(***************************************************************************)
EXTENDS Naturals

CONSTANTS
    Requests,           \* slots for concurrent requests; a slot names its claim token
    NoToken,            \* claim_token NULL
    MaxLeads, MaxClock  \* bounds on the lead ids and on the distinct expiry dates

ASSUME TokenAssumption == NoToken \notin Requests
ASSUME BoundsAssumption == MaxLeads \in Nat /\ MaxClock \in Nat

VARIABLES
    row,       \* the row of the address
    leads,     \* lead ids used so far, numbered
    clock, expired,
    promos,    \* promotion codes Stripe has created (external)
    keys,      \* expires_at Stripe remembers for a lead's idempotency key (external)
    pc, lead, since, at, \* each request: next step, lead, time of its start, of its call
    answers,   \* codes and expiry dates given to visitors (history)
    forgotten  \* leads whose row retention deleted (history)

time     == <<clock, expired>>
stripe   == <<promos, keys>>
requests == <<pc, lead, since, at>>
history  == <<answers, forgotten>>
offerVars == <<row, leads, time, stripe, requests, history>>

NoRow == [status |-> "none", lead |-> 0, token |-> NoToken, expiry |-> 0,
          stale |-> FALSE, born |-> 0]

Offer == [lead : Nat, expiry : Nat]

OfferInit ==
    /\ row = NoRow /\ leads = 0
    /\ clock = 1 /\ expired = 0
    /\ promos = {} /\ keys = [l \in 1 .. MaxLeads |-> 0]
    /\ pc     = [r \in Requests |-> "idle"]
    /\ lead   = [r \in Requests |-> 0]
    /\ since  = [r \in Requests |-> 0]
    /\ at     = [r \in Requests |-> 0]
    /\ answers = {} /\ forgotten = {}

Goto(r, from, to) == pc[r] = from /\ pc' = [pc EXCEPT ![r] = to]

End(r) ==
    /\ pc'     = [pc EXCEPT ![r] = "idle"]
    /\ lead'   = [lead EXCEPT ![r] = 0]
    /\ since'  = [since EXCEPT ![r] = 0]
    /\ at'     = [at EXCEPT ![r] = 0]

Live(offer) == offer.expiry > expired

(***************************************************************************)
(* claimOffer.                                                             *)
(***************************************************************************)
\* Mutant of Creating: a status the table's CHECK does not know.
ClaimedBy(l, r, born) ==
    [status |-> "claimed", lead |-> l, token |-> r, expiry |-> 0,
     stale |-> FALSE, born |-> born]

Creating(l, r, born) ==
    [status |-> "creating", lead |-> l, token |-> r, expiry |-> 0,
     stale |-> FALSE, born |-> born]

\* INSERT ... ON CONFLICT (email) DO NOTHING RETURNING id.
InsertLead(r) ==
    /\ clock > expired
    /\ since' = [since EXCEPT ![r] = clock]
    /\ \/ /\ row.status = "none" /\ leads < MaxLeads
          /\ Goto(r, "idle", "call")
          /\ leads' = leads + 1
          /\ row'   = Creating(leads + 1, r, clock)
          /\ lead'  = [lead EXCEPT ![r] = leads + 1]
       \/ /\ row.status # "none"
          /\ Goto(r, "idle", "read")
          /\ UNCHANGED <<leads, row, lead>>
    /\ UNCHANGED <<time, stripe, at, history>>

\* A ready and unexpired row is the answer; a row deleted meanwhile, an error.
ReadLead(r) ==
    /\ pc[r] = "read"
    /\ \/ /\ row.status = "none"
          /\ End(r) /\ UNCHANGED history
       \/ /\ row.status = "ready" /\ Live(row)
          /\ answers' = answers \cup {[lead |-> row.lead, expiry |-> row.expiry]}
          /\ End(r) /\ UNCHANGED forgotten
       \/ /\ row.status # "none" /\ ~(row.status = "ready" /\ Live(row))
          /\ Goto(r, "read", "reclaim")
          /\ lead' = [lead EXCEPT ![r] = row.lead]
          /\ UNCHANGED <<since, at, history>>
    /\ UNCHANGED <<row, leads, time, stripe>>

Reclaimable(r) ==
    /\ row.lead = lead[r]
    /\ \/ row.status = "failed"
       \/ row.status = "creating" /\ row.stale
       \/ row.status = "ready" /\ ~Live(row)

\* Mutant of Reclaim: every reclaim takes a fresh id, and so a fresh code.
ReclaimFresh(r) ==
    /\ pc[r] = "reclaim" /\ Reclaimable(r) /\ leads < MaxLeads
    /\ Goto(r, "reclaim", "call")
    /\ leads' = leads + 1
    /\ lead'  = [lead EXCEPT ![r] = leads + 1]
    /\ row'   = Creating(leads + 1, r, row.born)
    /\ UNCHANGED <<time, stripe, since, at, history>>

\* The guarded UPDATE: a failed or abandoned lead keeps its id, an expired
\* offer gets a new one.  created_at is never set again.
Reclaim(r) ==
    /\ pc[r] = "reclaim"
    /\ \/ /\ Reclaimable(r)
          /\ \/ row.status = "ready" /\ leads < MaxLeads /\ leads' = leads + 1
                                     /\ lead' = [lead EXCEPT ![r] = leads + 1]
             \/ row.status # "ready" /\ UNCHANGED <<leads, lead>>
          /\ row' = Creating(lead'[r], r, row.born)
          /\ Goto(r, "reclaim", "call")
          /\ UNCHANGED <<since, at>>
       \/ ~Reclaimable(r) /\ End(r) /\ UNCHANGED <<row, leads>>
    /\ UNCHANGED <<time, stripe, history>>

\* expires_at is computed from the time of this attempt.
CallStripe(r) ==
    /\ Goto(r, "call", "stripe")
    /\ at' = [at EXCEPT ![r] = clock]
    /\ UNCHANGED <<row, leads, time, stripe, lead, since, history>>

Requested(r) == [lead |-> lead[r], expiry |-> at[r]]

\* Stripe (external): a known key replays its result for the same parameters
\* and rejects others; a code that is still live cannot be created again.
Creates(r)  == keys[lead[r]] = 0 /\ \A p \in promos : p.lead = lead[r] => ~Live(p)
Replays(r)  == keys[lead[r]] = at[r]

StripeCreates(r) ==
    /\ pc[r] = "stripe"
    /\ \/ /\ Creates(r)
          /\ promos' = promos \cup {Requested(r)}
          /\ keys'   = [keys EXCEPT ![lead[r]] = at[r]]
       \/ Replays(r) /\ UNCHANGED stripe
    /\ pc' \in {[pc EXCEPT ![r] = answer] : answer \in {"ready", "failed"}}
    /\ UNCHANGED <<row, leads, time, lead, since, at, history>>

StripeRefuses(r) ==
    /\ Goto(r, "stripe", "failed")
    /\ UNCHANGED <<row, leads, time, stripe, lead, since, at, history>>

Holds(r) == row.status # "none" /\ row.lead = lead[r] /\ row.token = r

\* Mutant of RecordFailed: WHERE id = ? without the claim token.
RecordFailedByLead(r) ==
    /\ pc[r] = "failed"
    /\ row' = IF row.lead = lead[r]
              THEN [row EXCEPT !.status = "failed", !.token = NoToken] ELSE row
    /\ End(r)
    /\ UNCHANGED <<leads, time, stripe, history>>

RecordFailed(r) ==
    /\ pc[r] = "failed"
    /\ row' = IF Holds(r) THEN [row EXCEPT !.status = "failed", !.token = NoToken] ELSE row
    /\ End(r)
    /\ UNCHANGED <<leads, time, stripe, history>>

\* Mutant of RecordReady: the expiry is computed again when it is stored.
RecordReadyLater(r) ==
    /\ pc[r] = "ready"
    /\ IF Holds(r)
       THEN /\ row' = [row EXCEPT !.status = "ready", !.token = NoToken, !.expiry = clock]
            /\ answers' = answers \cup {[lead |-> lead[r], expiry |-> clock]}
       ELSE UNCHANGED <<row, answers>>
    /\ End(r)
    /\ UNCHANGED <<leads, time, stripe, forgotten>>

\* No row with the claim's token: the visitor gets an error.
RecordReady(r) ==
    /\ pc[r] = "ready"
    /\ IF Holds(r)
       THEN /\ row' = [row EXCEPT !.status = "ready", !.token = NoToken,
                                  !.expiry = at[r]]
            /\ answers' = answers \cup {Requested(r)}
       ELSE UNCHANGED <<row, answers>>
    /\ End(r)
    /\ UNCHANGED <<leads, time, stripe, forgotten>>

\* A failed statement or an evicted invocation.
Drop(r) ==
    /\ pc[r] # "idle"
    /\ End(r)
    /\ UNCHANGED <<row, leads, time, stripe, history>>

(***************************************************************************)
(* Time and retention.                                                     *)
(***************************************************************************)

\* Five minutes after the claim, whether or not its request is still running.
LeaseEnds ==
    /\ row.status = "creating" /\ ~row.stale
    /\ row' = [row EXCEPT !.stale = TRUE]
    /\ UNCHANGED <<leads, time, stripe, requests, history>>

Tick ==
    /\ clock < MaxClock
    /\ clock' = clock + 1
    /\ UNCHANGED <<row, leads, expired, stripe, requests, history>>

\* Stripe forgets a key after a day (external).
ForgetKey(l) ==
    /\ keys[l] # 0
    /\ keys' = [keys EXCEPT ![l] = 0]
    /\ UNCHANGED <<row, leads, time, promos, requests, history>>

\* Thirty days are longer than a lease, a key or a request.
Expire ==
    /\ expired < clock
    /\ \A r \in Requests : pc[r] # "idle" => since[r] > expired + 1
    /\ expired' = expired + 1
    /\ keys' = [l \in 1 .. MaxLeads |-> IF keys[l] > expired + 1 THEN keys[l] ELSE 0]
    /\ UNCHANGED <<row, leads, clock, promos, requests, history>>

\* Twelve months after created_at, longer than the life of the first offer.
CleanupMarketingOfferLeads ==
    /\ row.status # "none" /\ row.born <= expired
    /\ row' = NoRow
    /\ forgotten' = forgotten \cup {row.lead}
    /\ UNCHANGED <<leads, time, stripe, requests, answers>>

OfferNext ==
    \/ LeaseEnds \/ Tick \/ Expire \/ CleanupMarketingOfferLeads
    \/ \E l \in 1 .. MaxLeads : ForgetKey(l)
    \/ \E r \in Requests :
        \/ InsertLead(r) \/ ReadLead(r) \/ Reclaim(r) \/ CallStripe(r)
        \/ StripeCreates(r) \/ StripeRefuses(r)
        \/ RecordFailed(r) \/ RecordReady(r) \/ Drop(r)

-----------------------------------------------------------------------------
(***************************************************************************)
(* Properties.                                                             *)
(***************************************************************************)

\* Types of the row, of Stripe's state and of the requests.
OfferTypeOK ==
    /\ leads \in 0 .. MaxLeads
    /\ clock \in Nat /\ expired \in Nat /\ expired <= clock
    /\ row \in [status : {"none", "creating", "ready", "failed"}, lead : 0 .. leads,
                token : Requests \cup {NoToken}, expiry : Nat, stale : BOOLEAN, born : Nat]
    /\ promos \subseteq Offer /\ answers \subseteq Offer
    /\ keys \in [1 .. MaxLeads -> Nat]
    /\ pc \in [Requests -> {"idle", "read", "reclaim", "call", "stripe", "ready", "failed"}]
    /\ lead \in [Requests -> 0 .. leads]
    /\ since \in [Requests -> Nat] /\ at \in [Requests -> Nat]
    /\ forgotten \subseteq 1 .. leads

\* At most one code of the address is live at Stripe, whatever is retried,
\* reclaimed, lost or late, unless retention deleted the lead of one of them.
\* (Retention goes by the creation of the row, so it can delete a row whose
\* offer was renewed a moment ago.)
OneLivePromotion ==
    \A p, q \in promos :
        (Live(p) /\ Live(q) /\ {p.lead, q.lead} \cap forgotten = {}) => p = q

\* A visitor is told a code that Stripe has created, with the date on which
\* Stripe will end it.
AnswersHonoured == answers \subseteq promos

\* A code somebody was told stays the stored, ready offer until it expires:
\* no late, failing or concurrent request takes it back.  Checkout accepts it
\* as long as the row says so.
AnswersRedeemable ==
    \A a \in answers :
        (Live(a) /\ a.lead \notin forgotten) =>
            row.status = "ready" /\ row.lead = a.lead /\ row.expiry = a.expiry
=============================================================================
