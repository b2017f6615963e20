---------------------------- MODULE CheckoutProofs ----------------------------
(***************************************************************************)
(* Proofs about MarketingOffer and Checkout for any requests, plans and    *)
(* bounds: the types, what visitors are promised about a code, that at     *)
(* most one code is live, and that a day's checkouts share their session.  *)
(*                                                                         *)
(* The argument is about time.  A request is over before an offer made     *)
(* after its start can end, so when a ready offer has ended, no request    *)
(* that claimed its lead is left: every such request started no later than *)
(* the call to Stripe that made the offer, for the claim that made it was  *)
(* the last one.  That is what makes it safe to give the address a new     *)
(* lead, whose code Stripe cannot tell from an unrelated one.              *)
(***************************************************************************)
EXTENDS Checkout, TLAPS

USE TokenAssumption, BoundsAssumption, PlansAssumption

Claims(r) == pc[r] \in {"call", "stripe", "ready", "failed"}
Asked(r)  == pc[r] \in {"stripe", "ready", "failed"}

\* A running request started within the life of every offer made since, and
\* acts for a lead that exists.
Timely(r) ==
    /\ pc[r] # "idle" => expired < since[r] /\ since[r] <= clock
    /\ Claims(r) => lead[r] \in 1 .. leads
    /\ Asked(r) => since[r] <= at[r]
    /\ pc[r] = "ready" => Requested(r) \in promos

\* Stripe replays what it created, and keeps one live code a lead.
Ledger ==
    /\ \A p \in promos : p.lead \in 1 .. leads
    /\ \A l \in 1 .. MaxLeads : keys[l] # 0 => [lead |-> l, expiry |-> keys[l]] \in promos
    /\ \A p, q \in promos : (p.lead = q.lead /\ Live(p) /\ Live(q)) => p = q

\* The row carries the latest lead, and a token only while it is claimed.
Current ==
    /\ row.status = "none" => row.lead = 0
    /\ row.status # "none" => row.lead = leads /\ row.lead # 0 /\ row.lead \notin forgotten
    /\ row.status # "creating" => row.token = NoToken

\* A lead that was replaced has no request and no live code left.
Closed ==
    \A l \in 1 .. leads : (l \notin forgotten /\ l # row.lead) =>
        /\ \A r \in Requests : Claims(r) => lead[r] # l
        /\ \A p \in promos : p.lead = l => ~Live(p)

\* A ready offer was created by Stripe, after every request that has claimed its
\* lead had started, and outlives every other code of the lead.
Settled ==
    row.status = "ready" =>
        /\ [lead |-> row.lead, expiry |-> row.expiry] \in promos
        /\ \A r \in Requests : (Claims(r) /\ lead[r] = row.lead) => since[r] <= row.expiry
        /\ \A p \in promos : p.lead = row.lead => p.expiry <= row.expiry

\* The holder of the claim called Stripe after every other claimant had started.
LatestClaim ==
    \A r, q \in Requests :
        (Holds(r) /\ Asked(r) /\ Claims(q) /\ lead[q] = row.lead) => since[q] <= at[r]

OfferInv ==
    /\ OfferTypeOK
    /\ \A r \in Requests : Timely(r)
    /\ Ledger /\ Current /\ Closed /\ Settled /\ LatestClaim
    /\ AnswersHonoured /\ AnswersRedeemable

\* A session is filed under the plan and the code of its cart, and alone there.
SessionsKeyed ==
    /\ \A s \in sessions : s.key = [plan |-> s.cart.plan, code |-> s.cart.code]
    /\ \A s, t \in sessions : s.key = t.key => s = t

-----------------------------------------------------------------------------

\* At first nothing is claimed and Stripe knows nothing.
LEMMA InitOffer == OfferInit => OfferInv
<1> SUFFICES ASSUME OfferInit PROVE OfferInv
  OBVIOUS
<1> USE DEF OfferInit
<1>1. OfferTypeOK
  BY DEF OfferTypeOK, NoRow
<1>2. \A r \in Requests : Timely(r)
  BY DEF Timely, Claims, Asked
<1>3. Ledger /\ Current
  BY DEF Ledger, Current, NoRow
<1>4. Closed /\ Settled /\ LatestClaim
  BY DEF Closed, Settled, LatestClaim, Holds, NoRow
<1>5. AnswersHonoured /\ AnswersRedeemable
  BY DEF AnswersHonoured, AnswersRedeemable
<1> QED BY <1>1, <1>2, <1>3, <1>4, <1>5 DEF OfferInv

(***************************************************************************)
(* Steps that leave the row, the leads and Stripe alone and put no request *)
(* nearer to its answer.                                                   *)
(***************************************************************************)
Quiet(q) ==
    /\ pc'[q] # "idle" => expired < since'[q] /\ since'[q] <= clock
    /\ Claims(q)' => Claims(q) /\ lead'[q] = lead[q] /\ since'[q] = since[q]
    /\ Asked(q)' => Asked(q) /\ at'[q] = at[q]
    /\ pc'[q] = "ready" => pc[q] = "ready"

\* Such a step keeps everything, if it tells a visitor at most the ready offer.
LEMMA QuietStep ==
    ASSUME OfferInv, OfferTypeOK',
           UNCHANGED <<row, leads, clock, expired, promos, keys, forgotten>>,
           \A q \in Requests : Quiet(q),
           \A a \in answers' : \/ a \in answers
                               \/ row.status = "ready" /\ a = [lead |-> row.lead, expiry |-> row.expiry]
    PROVE  OfferInv'
<1>1. \A r \in Requests : Timely(r)'
  BY DEF OfferInv, Timely, Quiet, Claims, Asked, Requested
<1>2. Ledger' /\ Current'
  BY DEF OfferInv, Ledger, Current, Live
<1>3. Closed' /\ Settled'
  BY DEF OfferInv, Closed, Settled, Quiet, Live
<1>4. LatestClaim'
  BY DEF OfferInv, LatestClaim, Quiet, Holds, Asked, Claims
<1>5. AnswersHonoured'
  BY DEF OfferInv, AnswersHonoured, Settled
<1>6. AnswersRedeemable'
  BY DEF OfferInv, AnswersRedeemable, Live
<1> QED BY <1>1, <1>2, <1>3, <1>4, <1>5, <1>6 DEF OfferInv

\* A request that has ended has forgotten everything.
LEMMA EndsRequest ==
    ASSUME OfferTypeOK, NEW r \in Requests, End(r)
    PROVE  /\ pc' \in [Requests -> {"idle", "read", "reclaim", "call", "stripe", "ready", "failed"}]
           /\ lead' \in [Requests -> 0 .. leads]
           /\ since' \in [Requests -> Nat] /\ at' \in [Requests -> Nat]
           /\ \A q \in Requests :
                /\ pc'[q] = IF q = r THEN "idle" ELSE pc[q]
                /\ q # r => lead'[q] = lead[q] /\ since'[q] = since[q] /\ at'[q] = at[q]
  BY DEF End, OfferTypeOK

\* So ending one is quiet.
LEMMA EndIsQuiet ==
    ASSUME OfferInv, NEW r \in Requests, End(r)
    PROVE  \A q \in Requests : Quiet(q)
<1>1. ASSUME NEW q \in Requests PROVE Quiet(q)
  BY EndsRequest DEF OfferInv, Timely, Quiet, Claims, Asked
<1> QED BY <1>1

\* A request that is lost.
LEMMA DropKeeps == ASSUME OfferInv, NEW r \in Requests, Drop(r) PROVE OfferInv'
<1> USE DEF Drop, time, stripe, history
<1>1. OfferTypeOK'
  BY EndsRequest DEF OfferInv, OfferTypeOK
<1>2. \A q \in Requests : Quiet(q)
  BY EndIsQuiet
<1> QED BY <1>1, <1>2, QuietStep

\* A request that reads the row.
LEMMA ReadLeadKeeps == ASSUME OfferInv, NEW r \in Requests, ReadLead(r) PROVE OfferInv'
<1> USE DEF ReadLead, time, stripe, history
<1>1. CASE row.status = "none" /\ End(r) /\ UNCHANGED history
  <2>1. OfferTypeOK'
    BY <1>1, EndsRequest DEF OfferInv, OfferTypeOK
  <2> QED BY <1>1, <2>1, EndIsQuiet, QuietStep
<1>2. CASE /\ row.status = "ready" /\ Live(row)
           /\ answers' = answers \cup {[lead |-> row.lead, expiry |-> row.expiry]}
           /\ End(r) /\ UNCHANGED forgotten
  <2>1. OfferTypeOK'
    <3>1. row.lead \in Nat /\ row.expiry \in Nat
      BY DEF OfferInv, OfferTypeOK
    <3>2. answers' \subseteq Offer
      BY <1>2, <3>1 DEF OfferInv, OfferTypeOK, Offer
    <3> QED BY <1>2, <3>2, EndsRequest DEF OfferInv, OfferTypeOK
  <2> QED BY <1>2, <2>1, EndIsQuiet, QuietStep
<1>3. CASE /\ row.status # "none" /\ ~(row.status = "ready" /\ Live(row))
           /\ Goto(r, "read", "reclaim")
           /\ lead' = [lead EXCEPT ![r] = row.lead]
           /\ UNCHANGED <<since, at, history>>
  <2>1. OfferTypeOK'
    BY <1>3 DEF OfferInv, OfferTypeOK, Goto
  <2>2. \A q \in Requests :
          /\ pc'[q] = IF q = r THEN "reclaim" ELSE pc[q]
          /\ q # r => lead'[q] = lead[q]
    BY <1>3 DEF OfferInv, OfferTypeOK, Goto
  <2>3. ASSUME NEW q \in Requests PROVE Quiet(q)
    BY <1>3, <2>2 DEF OfferInv, Timely, Quiet, Claims, Asked, Goto
  <2> QED BY <1>3, <2>1, <2>3, QuietStep
<1> QED BY <1>1, <1>2, <1>3

\* A call that Stripe refuses or that fails.
LEMMA StripeRefusesKeeps == ASSUME OfferInv, NEW r \in Requests, StripeRefuses(r) PROVE OfferInv'
<1> USE DEF StripeRefuses, time, stripe, history
<1>1. OfferTypeOK'
  BY DEF OfferInv, OfferTypeOK, Goto
<1>2. pc[r] = "stripe" /\ \A q \in Requests : pc'[q] = IF q = r THEN "failed" ELSE pc[q]
  BY DEF OfferInv, OfferTypeOK, Goto
<1>3. ASSUME NEW q \in Requests PROVE Quiet(q)
  BY <1>2 DEF OfferInv, Timely, Quiet, Claims, Asked
<1> QED BY <1>1, <1>3, QuietStep

(***************************************************************************)
(* Claims, new or again.                                                   *)
(***************************************************************************)

\* A claimed row is a row.
LEMMA CreatingType ==
    ASSUME NEW l \in Nat, NEW r \in Requests, NEW born \in Nat
    PROVE  Creating(l, r, born) \in
             [status : {"none", "creating", "ready", "failed"}, lead : 0 .. l,
              token : Requests \cup {NoToken}, expiry : Nat, stale : BOOLEAN, born : Nat]
  BY DEF Creating

\* A request takes the lead of a failed or abandoned row, or the next lead for an
\* address without a row or with an offer that has ended.
LEMMA ClaimKeeps ==
    ASSUME OfferInv, OfferTypeOK', NEW r \in Requests, NEW born \in Nat,
           row' = Creating(leads', r, born),
           \/ leads' = leads + 1 /\ (row.status = "none" \/ (row.status = "ready" /\ ~Live(row)))
           \/ leads' = leads /\ row.status \in {"failed", "creating"},
           \A q \in Requests :
               IF q = r
               THEN /\ pc'[q] = "call" /\ lead'[q] = leads'
                    /\ expired < since'[q] /\ since'[q] <= clock
               ELSE pc'[q] = pc[q] /\ lead'[q] = lead[q] /\ since'[q] = since[q],
           UNCHANGED <<clock, expired, promos, keys, at, answers, forgotten>>
    PROVE  OfferInv'
<1>1. /\ row'.status = "creating" /\ row'.lead = leads' /\ row'.token = r
      /\ leads \in Nat /\ leads' \in Nat
  BY DEF Creating, OfferInv, OfferTypeOK
<1>2. leads' >= 1 /\ leads' \notin forgotten
  BY DEF OfferInv, OfferTypeOK, Current
<1>3. ASSUME NEW q \in Requests PROVE Timely(q)'
  BY <1>1, <1>2 DEF OfferInv, Timely, Claims, Asked, Requested
<1>4. Ledger' /\ Current'
  BY <1>1, <1>2 DEF OfferInv, Ledger, Current, Live
<1>5. Closed'
  <2>1. CASE leads' = leads /\ row.status \in {"failed", "creating"}
    BY <1>1, <2>1 DEF OfferInv, Closed, Claims, Live, Current
  <2>2. CASE leads' = leads + 1 /\ row.status = "none"
    BY <1>1, <2>2 DEF OfferInv, Closed, Claims, Live, Current
  <2>3. CASE leads' = leads + 1 /\ row.status = "ready" /\ ~Live(row)
    <3>1. row.expiry \in Nat /\ row.expiry <= expired /\ expired \in Nat
      BY <2>3 DEF Live, OfferInv, OfferTypeOK
    <3>2. ASSUME NEW q \in Requests, Claims(q) PROVE lead[q] # row.lead
      <4>1. expired < since[q] /\ since[q] \in Nat
        BY <3>2 DEF OfferInv, OfferTypeOK, Timely, Claims
      <4> QED BY <2>3, <3>1, <3>2, <4>1 DEF OfferInv, Settled
    <3>3. ASSUME NEW p \in promos, p.lead = row.lead PROVE ~Live(p)
      <4>1. p.expiry \in Nat /\ p.expiry <= row.expiry
        BY <2>3, <3>3 DEF OfferInv, OfferTypeOK, Offer, Settled
      <4> QED BY <3>1, <4>1 DEF Live
    <3> QED BY <1>1, <2>3, <3>2, <3>3 DEF OfferInv, Closed, Claims, Live, Current
  <2> QED BY <2>1, <2>2, <2>3
<1>6. Settled' /\ LatestClaim'
  BY <1>1 DEF Settled, LatestClaim, Holds, Asked
<1>7. AnswersHonoured' /\ AnswersRedeemable'
  <2>1. ASSUME NEW a \in answers, Live(a), a.lead \notin forgotten PROVE FALSE
    BY <2>1 DEF OfferInv, AnswersRedeemable, Live
  <2> QED BY <2>1 DEF OfferInv, AnswersHonoured, AnswersRedeemable, Live
<1> QED BY <1>3, <1>4, <1>5, <1>6, <1>7 DEF OfferInv

\* A first request, and one that finds a row.
LEMMA InsertLeadKeeps == ASSUME OfferInv, NEW r \in Requests, InsertLead(r) PROVE OfferInv'
<1> USE DEF InsertLead, time, stripe, history, Goto
<1>1. CASE row.status = "none" /\ leads' = leads + 1
  <2>1. leads < MaxLeads /\ row' = Creating(leads', r, clock)
    BY <1>1
  <2>2. OfferTypeOK'
    <3>1. /\ leads' \in 0 .. MaxLeads /\ leads' \in Nat /\ clock \in Nat
          /\ pc' \in [Requests -> {"idle", "read", "reclaim", "call", "stripe", "ready", "failed"}]
          /\ since' \in [Requests -> Nat]
      BY <1>1, <2>1 DEF OfferInv, OfferTypeOK
    <3>2. row' \in [status : {"none", "creating", "ready", "failed"}, lead : 0 .. leads',
                     token : Requests \cup {NoToken}, expiry : Nat, stale : BOOLEAN, born : Nat]
      BY <2>1, <3>1, CreatingType
    <3>3. leads \in 0 .. MaxLeads /\ lead \in [Requests -> 0 .. leads] /\ forgotten \subseteq 1 .. leads
      BY DEF OfferInv, OfferTypeOK
    <3>4. lead' \in [Requests -> 0 .. leads'] /\ forgotten \subseteq 1 .. leads'
      BY <1>1, <2>1, <3>1, <3>3
    <3> QED BY <1>1, <2>1, <3>1, <3>2, <3>4 DEF OfferInv, OfferTypeOK
  <2>3. \A q \in Requests :
          IF q = r
          THEN /\ pc'[q] = "call" /\ lead'[q] = leads'
               /\ expired < since'[q] /\ since'[q] <= clock
          ELSE pc'[q] = pc[q] /\ lead'[q] = lead[q] /\ since'[q] = since[q]
    BY <1>1 DEF OfferInv, OfferTypeOK
  <2>4. clock \in Nat
    BY DEF OfferInv, OfferTypeOK
  <2> QED BY <1>1, <2>1, <2>2, <2>3, <2>4, ClaimKeeps
<1>2. CASE row.status # "none"
  <2>1. OfferTypeOK'
    BY <1>2 DEF OfferInv, OfferTypeOK
  <2>2. pc[r] = "idle" /\ \A q \in Requests :
          IF q = r THEN pc'[q] = "read" /\ since'[q] = clock
                   ELSE pc'[q] = pc[q] /\ since'[q] = since[q]
    BY <1>2 DEF OfferInv, OfferTypeOK
  <2>3. ASSUME NEW q \in Requests PROVE Quiet(q)
    BY <1>2, <2>2 DEF OfferInv, OfferTypeOK, Timely, Quiet, Claims, Asked
  <2> QED BY <1>2, <2>1, <2>3, QuietStep
<1> QED BY <1>1, <1>2

\* The guarded update, and a request that comes too late for it.
LEMMA ReclaimKeeps == ASSUME OfferInv, NEW r \in Requests, Reclaim(r) PROVE OfferInv'
<1> USE DEF Reclaim, time, stripe, history
<1>1. CASE Reclaimable(r) /\ Goto(r, "reclaim", "call")
  <2>1. /\ pc[r] = "reclaim" /\ pc' = [pc EXCEPT ![r] = "call"] /\ UNCHANGED <<since, at>>
        /\ \/ /\ row.status = "ready" /\ leads < MaxLeads /\ leads' = leads + 1
              /\ lead' = [lead EXCEPT ![r] = leads + 1]
           \/ row.status # "ready" /\ UNCHANGED <<leads, lead>>
        /\ row' = Creating(lead'[r], r, row.born)
    BY <1>1 DEF Goto, Reclaimable, End
  <2>2. row.lead = leads /\ lead[r] = leads
    BY <1>1 DEF Reclaimable, OfferInv, Current
  <2>3. lead'[r] = leads' /\ row' = Creating(leads', r, row.born)
    BY <2>1, <2>2 DEF OfferInv, OfferTypeOK
  <2>4. OfferTypeOK'
    <3>1. /\ leads' \in 0 .. MaxLeads /\ leads' \in Nat /\ row.born \in Nat
          /\ pc' \in [Requests -> {"idle", "read", "reclaim", "call", "stripe", "ready", "failed"}]
      BY <2>1 DEF OfferInv, OfferTypeOK
    <3>2. row' \in [status : {"none", "creating", "ready", "failed"}, lead : 0 .. leads',
                     token : Requests \cup {NoToken}, expiry : Nat, stale : BOOLEAN, born : Nat]
      BY <2>3, <3>1, CreatingType
    <3>3. leads \in 0 .. MaxLeads /\ lead \in [Requests -> 0 .. leads] /\ forgotten \subseteq 1 .. leads
      BY DEF OfferInv, OfferTypeOK
    <3>4. lead' \in [Requests -> 0 .. leads'] /\ forgotten \subseteq 1 .. leads'
      <4>1. CASE leads' = leads + 1 /\ lead' = [lead EXCEPT ![r] = leads + 1]
        BY <3>3, <4>1
      <4>2. CASE leads' = leads /\ lead' = lead
        BY <3>3, <4>2
      <4> QED BY <2>1, <4>1, <4>2
    <3> QED BY <2>1, <3>1, <3>2, <3>4 DEF OfferInv, OfferTypeOK
  <2>5. expired < since[r] /\ since[r] <= clock
    BY <2>1 DEF OfferInv, Timely
  <2>6. \A q \in Requests :
          IF q = r
          THEN /\ pc'[q] = "call" /\ lead'[q] = leads'
               /\ expired < since'[q] /\ since'[q] <= clock
          ELSE pc'[q] = pc[q] /\ lead'[q] = lead[q] /\ since'[q] = since[q]
    BY <2>1, <2>3, <2>5 DEF OfferInv, OfferTypeOK
  <2>7. \/ leads' = leads + 1 /\ (row.status = "none" \/ (row.status = "ready" /\ ~Live(row)))
        \/ leads' = leads /\ row.status \in {"failed", "creating"}
    BY <1>1, <2>1 DEF Reclaimable
  <2>8. row.born \in Nat
    BY DEF OfferInv, OfferTypeOK
  <2> QED BY <2>1, <2>3, <2>4, <2>6, <2>7, <2>8, ClaimKeeps
<1>2. CASE ~Reclaimable(r) /\ End(r) /\ UNCHANGED <<row, leads>>
  <2>1. OfferTypeOK'
    BY <1>2, EndsRequest DEF OfferInv, OfferTypeOK
  <2> QED BY <1>2, <2>1, EndIsQuiet, QuietStep
<1> QED BY <1>1, <1>2

(***************************************************************************)
(* The call and its record.                                                *)
(***************************************************************************)

\* The expiry asked for is no earlier than any start so far.
LEMMA CallStripeKeeps == ASSUME OfferInv, NEW r \in Requests, CallStripe(r) PROVE OfferInv'
<1> USE DEF CallStripe, time, stripe, history, Goto
<1>1. OfferTypeOK'
  BY DEF OfferInv, OfferTypeOK
<1>2. pc[r] = "call" /\ \A q \in Requests :
        IF q = r THEN pc'[q] = "stripe" /\ at'[q] = clock
                 ELSE pc'[q] = pc[q] /\ at'[q] = at[q]
  BY DEF OfferInv, OfferTypeOK
<1>3. ASSUME NEW q \in Requests PROVE Timely(q)'
  <2>1. Timely(q) /\ since'[q] = since[q] /\ lead'[q] = lead[q]
    BY DEF OfferInv
  <2>2. CASE q = r
    BY <1>2, <2>1, <2>2 DEF Timely, Claims, Asked
  <2>3. CASE q # r
    BY <1>2, <2>1, <2>3 DEF Timely, Claims, Asked, Requested
  <2> QED BY <2>2, <2>3
<1>4. Ledger' /\ Current' /\ Closed' /\ Settled'
  BY <1>2 DEF OfferInv, Ledger, Current, Closed, Settled, Live, Claims
<1>5. LatestClaim'
  <2> SUFFICES ASSUME NEW h \in Requests, NEW q \in Requests,
                      Holds(h)', Asked(h)', Claims(q)', lead'[q] = row'.lead
               PROVE  since'[q] <= at'[h]
    BY DEF LatestClaim
  <2>1. Holds(h) /\ Claims(q) /\ lead[q] = row.lead
    BY <1>2 DEF Holds, Claims
  <2>2. CASE h = r
    BY <1>2, <2>1, <2>2 DEF OfferInv, Timely, Claims
  <2>3. CASE h # r
    BY <1>2, <2>1, <2>3 DEF OfferInv, LatestClaim, Asked
  <2> QED BY <2>2, <2>3
<1>6. AnswersHonoured' /\ AnswersRedeemable'
  BY DEF OfferInv, AnswersHonoured, AnswersRedeemable, Live
<1> QED BY <1>1, <1>3, <1>4, <1>5, <1>6 DEF OfferInv

\* Stripe creates a code or replays one: a request for a lead that has been
\* replaced, or whose offer is ready, never creates another.
LEMMA StripeCreatesKeeps == ASSUME OfferInv, NEW r \in Requests, StripeCreates(r) PROVE OfferInv'
<1> USE DEF StripeCreates, time, history
<1>1. /\ pc[r] = "stripe" /\ pc' \in [Requests -> {"idle", "read", "reclaim", "call", "stripe", "ready", "failed"}]
      /\ \A q \in Requests : IF q = r THEN pc'[q] \in {"ready", "failed"} ELSE pc'[q] = pc[q]
  <2>1. PICK answer \in {"ready", "failed"} : pc' = [pc EXCEPT ![r] = answer]
    OBVIOUS
  <2> QED BY <2>1 DEF OfferInv, OfferTypeOK
<1>2. /\ lead[r] \in 1 .. leads /\ lead[r] \in 1 .. MaxLeads /\ at[r] \in Nat /\ at[r] # 0
      /\ expired < since[r] /\ since[r] <= at[r] /\ expired \in Nat /\ since[r] \in Nat
  BY <1>1 DEF OfferInv, OfferTypeOK, Timely, Claims, Asked
<1>3. Requested(r) \in Offer /\ Requested(r).lead = lead[r] /\ Requested(r).expiry = at[r]
  BY <1>2 DEF Requested, Offer
<1>4. /\ Requested(r) \in promos'
      /\ \/ UNCHANGED stripe
         \/ Creates(r) /\ promos' = promos \cup {Requested(r)} /\ keys' = [keys EXCEPT ![lead[r]] = at[r]]
  BY <1>2 DEF stripe, Replays, Requested, OfferInv, Ledger
<1>5. OfferTypeOK'
  BY <1>1, <1>2, <1>3, <1>4 DEF OfferInv, OfferTypeOK, stripe
<1>6. ASSUME NEW q \in Requests PROVE Timely(q)'
  BY <1>1, <1>4 DEF OfferInv, Timely, Claims, Asked, Requested, stripe
<1>7. \A q \in Requests : (Claims(q)' => Claims(q)) /\ (Asked(q)' => Asked(q))
  BY <1>1 DEF Claims, Asked
<1>8. LatestClaim' /\ Current'
  BY <1>7 DEF OfferInv, LatestClaim, Current, Holds
<1>9. AnswersHonoured' /\ AnswersRedeemable'
  BY <1>4 DEF OfferInv, AnswersHonoured, AnswersRedeemable, Live, stripe
<1>10. Ledger' /\ Closed' /\ Settled'
  <2>1. CASE UNCHANGED stripe
    BY <1>7, <2>1 DEF OfferInv, Ledger, Closed, Settled, Live, stripe
  <2>2. CASE Creates(r) /\ promos' = promos \cup {Requested(r)} /\ keys' = [keys EXCEPT ![lead[r]] = at[r]]
    <3>1. \A p \in promos : p.lead = lead[r] => ~Live(p)
      BY <2>2 DEF Creates
    <3>2. \A l \in 1 .. MaxLeads : keys'[l] = IF l = lead[r] THEN at[r] ELSE keys[l]
      BY <1>2, <2>2 DEF OfferInv, OfferTypeOK
    <3>3. Ledger'
      <4>1. \A p \in promos' : p.lead \in 1 .. leads'
        BY <1>2, <1>3, <2>2 DEF OfferInv, Ledger
      <4>2. \A l \in 1 .. MaxLeads : keys'[l] # 0 => [lead |-> l, expiry |-> keys'[l]] \in promos'
        BY <1>4, <2>2, <3>2 DEF OfferInv, Ledger, Requested
      <4>3. \A p, q \in promos' : (p.lead = q.lead /\ Live(p)' /\ Live(q)') => p = q
        BY <1>3, <2>2, <3>1 DEF OfferInv, Ledger, Live
      <4> QED BY <4>1, <4>2, <4>3 DEF Ledger, Live
    <3>4. Closed'
      <4>1. lead[r] \in forgotten \/ lead[r] = row.lead
        BY <1>1, <1>2 DEF OfferInv, Closed, Claims
      <4> QED BY <1>3, <1>7, <2>2, <4>1 DEF OfferInv, Closed, Live
    <3>5. Settled'
      <4>1. CASE row.status = "ready" /\ lead[r] = row.lead
        <5>1. since[r] <= row.expiry /\ ~Live([lead |-> row.lead, expiry |-> row.expiry])
          BY <1>1, <3>1, <4>1 DEF OfferInv, Settled, Claims
        <5>2. row.expiry \in Nat /\ ~(row.expiry > expired)
          BY <5>1 DEF Live, OfferInv, OfferTypeOK
        <5> QED BY <1>2, <5>1, <5>2
      <4>2. CASE row.status = "ready" /\ lead[r] # row.lead
        BY <1>3, <1>7, <2>2, <4>2 DEF OfferInv, Settled
      <4>3. CASE row.status # "ready"
        BY <4>3 DEF Settled
      <4> QED BY <4>1, <4>2, <4>3
    <3> QED BY <3>3, <3>4, <3>5
  <2> QED BY <1>4, <2>1, <2>2
<1> QED BY <1>5, <1>6, <1>8, <1>9, <1>10 DEF OfferInv

\* The holder of the claim gives up.
LEMMA RecordFailedKeeps == ASSUME OfferInv, NEW r \in Requests, RecordFailed(r) PROVE OfferInv'
<1> USE DEF RecordFailed, time, stripe, history
<1>1. CASE ~Holds(r)
  <2>1. row' = row
    BY <1>1
  <2>2. OfferTypeOK'
    BY <2>1, EndsRequest DEF OfferInv, OfferTypeOK
  <2> QED BY <2>1, <2>2, EndIsQuiet, QuietStep
<1>2. CASE Holds(r)
  <2>1. row' = [row EXCEPT !.status = "failed", !.token = NoToken]
    BY <1>2
  <2>2. row'.status = "failed" /\ row'.token = NoToken /\ row'.lead = row.lead
    BY <2>1 DEF OfferInv, OfferTypeOK
  <2>3. OfferTypeOK'
    BY <2>1, EndsRequest DEF OfferInv, OfferTypeOK
  <2>4. row.status = "creating"
    BY <1>2 DEF Holds, OfferInv, Current
  <2>5. \A q \in Requests : Quiet(q)
    BY EndIsQuiet
  <2>6. \A q \in Requests : Timely(q)'
    BY <2>5 DEF OfferInv, Timely, Quiet, Claims, Asked, Requested
  <2>7. Ledger' /\ Current' /\ Closed'
    BY <2>2, <2>4, <2>5 DEF OfferInv, Ledger, Current, Closed, Quiet, Live
  <2>8. Settled' /\ LatestClaim'
    BY <2>2 DEF Settled, LatestClaim, Holds
  <2>9. AnswersHonoured' /\ AnswersRedeemable'
    BY <2>4 DEF OfferInv, AnswersHonoured, AnswersRedeemable, Live
  <2> QED BY <2>3, <2>6, <2>7, <2>8, <2>9 DEF OfferInv
<1> QED BY <1>1, <1>2

\* The holder stores the offer it has made: a new one that outlives every request
\* that has claimed the lead.
LEMMA RecordReadyKeeps == ASSUME OfferInv, NEW r \in Requests, RecordReady(r) PROVE OfferInv'
<1> USE DEF RecordReady, time, stripe, history
<1>1. CASE ~Holds(r)
  <2>1. row' = row /\ answers' = answers
    BY <1>1
  <2>2. OfferTypeOK'
    BY <2>1, EndsRequest DEF OfferInv, OfferTypeOK
  <2> QED BY <2>1, <2>2, EndIsQuiet, QuietStep
<1>2. CASE Holds(r)
  <2>1. /\ row' = [row EXCEPT !.status = "ready", !.token = NoToken, !.expiry = at[r]]
        /\ answers' = answers \cup {Requested(r)}
    BY <1>2
  <2>2. /\ row'.status = "ready" /\ row'.token = NoToken /\ row'.lead = row.lead
        /\ row'.expiry = at[r]
    BY <2>1 DEF OfferInv, OfferTypeOK
  <2>3. /\ Requested(r) \in promos /\ lead[r] = row.lead /\ row.lead \in Nat
        /\ expired < since[r] /\ since[r] <= at[r]
        /\ expired \in Nat /\ since[r] \in Nat /\ at[r] \in Nat
    BY <1>2 DEF OfferInv, OfferTypeOK, Timely, Claims, Asked, Holds
  <2>4. Requested(r) \in Offer /\ Requested(r).lead = row.lead /\ Requested(r).expiry = at[r]
    BY <2>3 DEF Requested, Offer
  <2>5. OfferTypeOK'
    BY <2>1, <2>3, <2>4, EndsRequest DEF OfferInv, OfferTypeOK
  <2>6. row.status = "creating"
    BY <1>2 DEF Holds, OfferInv, Current
  <2>7. \A q \in Requests : Quiet(q)
    BY EndIsQuiet
  <2>8. \A q \in Requests : Timely(q)'
    BY <2>7 DEF OfferInv, Timely, Quiet, Claims, Asked, Requested
  <2>9. Ledger' /\ Current' /\ Closed'
    BY <2>2, <2>6, <2>7 DEF OfferInv, Ledger, Current, Closed, Quiet, Live
  <2>10. Settled'
    <3>1. [lead |-> row'.lead, expiry |-> row'.expiry] \in promos'
      BY <2>2, <2>3 DEF Requested
    <3>2. \A q \in Requests : (Claims(q)' /\ lead'[q] = row'.lead) => since'[q] <= row'.expiry
      BY <1>2, <2>2, <2>7 DEF OfferInv, LatestClaim, Asked, Quiet
    <3>3. ASSUME NEW p \in promos, p.lead = row.lead PROVE p.expiry <= at[r]
      <4>1. Live(Requested(r)) /\ p.expiry \in Nat
        BY <2>3, <2>4 DEF Live, OfferInv, OfferTypeOK, Offer
      <4>2. CASE Live(p)
        BY <2>3, <2>4, <3>3, <4>1, <4>2 DEF OfferInv, Ledger
      <4>3. CASE ~Live(p)
        BY <2>3, <4>1, <4>3 DEF Live
      <4> QED BY <4>2, <4>3
    <3> QED BY <2>2, <3>1, <3>2, <3>3 DEF Settled
  <2>11. LatestClaim'
    BY <2>2 DEF LatestClaim, Holds
  <2>12. AnswersHonoured' /\ AnswersRedeemable'
    BY <2>1, <2>2, <2>3, <2>4, <2>6 DEF OfferInv, AnswersHonoured, AnswersRedeemable, Live
  <2> QED BY <2>5, <2>8, <2>9, <2>10, <2>11, <2>12 DEF OfferInv
<1> QED BY <1>1, <1>2

(***************************************************************************)
(* Time and retention.                                                     *)
(***************************************************************************)

\* A lease that ends, a later date, a key that Stripe forgets.
LEMMA TimeKeeps ==
    ASSUME OfferInv, \/ LeaseEnds \/ Tick
                     \/ \E l \in 1 .. MaxLeads : ForgetKey(l)
    PROVE  OfferInv'
<1> USE DEF time, stripe, requests, history
<1>1. CASE LeaseEnds
  <2>1. /\ row'.status = row.status /\ row'.lead = row.lead /\ row'.token = row.token
        /\ row'.expiry = row.expiry /\ OfferTypeOK'
    BY <1>1 DEF LeaseEnds, OfferInv, OfferTypeOK
  <2>2. \A q \in Requests : Timely(q)'
    BY <1>1 DEF LeaseEnds, OfferInv, Timely, Claims, Asked, Requested
  <2>3. Ledger' /\ Current' /\ Closed' /\ Settled' /\ LatestClaim'
    BY <1>1, <2>1 DEF LeaseEnds, OfferInv, Ledger, Current, Closed, Settled, LatestClaim,
                      Live, Claims, Asked, Holds
  <2>4. AnswersHonoured' /\ AnswersRedeemable'
    BY <1>1, <2>1 DEF LeaseEnds, OfferInv, AnswersHonoured, AnswersRedeemable, Live
  <2> QED BY <2>1, <2>2, <2>3, <2>4 DEF OfferInv
<1>2. CASE Tick
  <2>1. clock \in Nat /\ clock' = clock + 1 /\ OfferTypeOK'
    BY <1>2 DEF Tick, OfferInv, OfferTypeOK
  <2>2. ASSUME NEW q \in Requests PROVE Timely(q)'
    BY <1>2, <2>1 DEF Tick, OfferInv, OfferTypeOK, Timely, Claims, Asked, Requested
  <2>3. Ledger' /\ Current' /\ Closed' /\ Settled' /\ LatestClaim'
    BY <1>2 DEF Tick, OfferInv, Ledger, Current, Closed, Settled, LatestClaim,
                Live, Claims, Asked, Holds
  <2>4. AnswersHonoured' /\ AnswersRedeemable'
    BY <1>2 DEF Tick, OfferInv, AnswersHonoured, AnswersRedeemable, Live
  <2> QED BY <2>1, <2>2, <2>3, <2>4 DEF OfferInv
<1>3. ASSUME NEW l \in 1 .. MaxLeads, ForgetKey(l) PROVE OfferInv'
  <2>1. OfferTypeOK' /\ \A k \in 1 .. MaxLeads : keys'[k] = IF k = l THEN 0 ELSE keys[k]
    BY <1>3 DEF ForgetKey, OfferInv, OfferTypeOK
  <2>2. \A q \in Requests : Timely(q)'
    BY <1>3 DEF ForgetKey, OfferInv, Timely, Claims, Asked, Requested
  <2>3. Ledger' /\ Current' /\ Closed' /\ Settled' /\ LatestClaim'
    BY <1>3, <2>1 DEF ForgetKey, OfferInv, Ledger, Current, Closed, Settled, LatestClaim,
                Live, Claims, Asked, Holds
  <2>4. AnswersHonoured' /\ AnswersRedeemable'
    BY <1>3 DEF ForgetKey, OfferInv, AnswersHonoured, AnswersRedeemable, Live
  <2> QED BY <2>1, <2>2, <2>3, <2>4 DEF OfferInv
<1> QED BY <1>1, <1>2, <1>3

\* Offers end, but none that a running request could still be asking for.
LEMMA ExpireKeeps == ASSUME OfferInv, Expire PROVE OfferInv'
<1> USE DEF Expire, time, stripe, requests, history
<1>1. /\ OfferTypeOK' /\ expired' = expired + 1 /\ expired \in Nat
      /\ \A l \in 1 .. MaxLeads : keys'[l] \in {0, keys[l]}
  BY DEF OfferInv, OfferTypeOK
<1>2. ASSUME NEW q \in Requests PROVE Timely(q)'
  BY <1>1 DEF OfferInv, OfferTypeOK, Timely, Claims, Asked, Requested
<1>3. ASSUME NEW x \in Nat, x > expired' PROVE x > expired
  BY <1>1, <1>3
<1>4. (\A p \in promos \cup answers : Live(p)' => Live(p)) /\ (Live(row)' => Live(row))
  BY <1>1, <1>3 DEF Live, OfferInv, OfferTypeOK, Offer
<1>5. Ledger'
  BY <1>1, <1>4 DEF OfferInv, Ledger
<1>6. Current' /\ Closed' /\ Settled' /\ LatestClaim'
  BY <1>4 DEF OfferInv, Current, Closed, Settled, LatestClaim, Claims, Asked, Holds
<1>7. AnswersHonoured' /\ AnswersRedeemable'
  BY <1>4 DEF OfferInv, AnswersHonoured, AnswersRedeemable
<1> QED BY <1>1, <1>2, <1>5, <1>6, <1>7 DEF OfferInv

\* Retention deletes the row; its lead is forgotten.
LEMMA CleanupKeeps == ASSUME OfferInv, CleanupMarketingOfferLeads PROVE OfferInv'
<1> USE DEF CleanupMarketingOfferLeads, time, stripe, requests, history
<1>1. row'.status = "none" /\ row'.lead = 0 /\ row'.token = NoToken /\ row.lead \in 1 .. leads
  BY DEF NoRow, OfferInv, OfferTypeOK, Current
<1>2. OfferTypeOK'
  <2>1. NoRow \in [status : {"none", "creating", "ready", "failed"}, lead : 0 .. leads,
                   token : Requests \cup {NoToken}, expiry : Nat, stale : BOOLEAN, born : Nat]
    BY DEF NoRow, OfferInv, OfferTypeOK
  <2> QED BY <1>1, <2>1 DEF OfferInv, OfferTypeOK
<1>3. \A q \in Requests : Timely(q)'
  BY DEF OfferInv, Timely, Claims, Asked, Requested
<1>4. Ledger' /\ Current' /\ Settled' /\ LatestClaim'
  BY <1>1 DEF OfferInv, Ledger, Current, Settled, LatestClaim, Live, Holds
<1>5. Closed'
  BY <1>1 DEF OfferInv, Closed, Claims, Live
<1>6. AnswersHonoured' /\ AnswersRedeemable'
  BY DEF OfferInv, AnswersHonoured, AnswersRedeemable, Live
<1> QED BY <1>2, <1>3, <1>4, <1>5, <1>6 DEF OfferInv

-----------------------------------------------------------------------------
(***************************************************************************)
(* Theorems.                                                               *)
(***************************************************************************)

\* A step of the offer keeps its invariant.
LEMMA OfferStep == OfferInv /\ OfferNext => OfferInv'
<1> SUFFICES ASSUME OfferInv, OfferNext PROVE OfferInv'
  OBVIOUS
<1>1. CASE \/ LeaseEnds \/ Tick
           \/ \E l \in 1 .. MaxLeads : ForgetKey(l)
  BY <1>1, TimeKeeps
<1>2. CASE Expire
  BY <1>2, ExpireKeeps
<1>3. CASE CleanupMarketingOfferLeads
  BY <1>3, CleanupKeeps
<1>4. ASSUME NEW r \in Requests,
             \/ InsertLead(r) \/ ReadLead(r) \/ Reclaim(r) \/ CallStripe(r)
             \/ StripeCreates(r) \/ StripeRefuses(r)
             \/ RecordFailed(r) \/ RecordReady(r) \/ Drop(r)
      PROVE  OfferInv'
  BY <1>4, InsertLeadKeeps, ReadLeadKeeps, ReclaimKeeps, CallStripeKeeps, StripeCreatesKeeps,
     StripeRefusesKeeps, RecordFailedKeeps, RecordReadyKeeps, DropKeeps
<1> QED BY <1>1, <1>2, <1>3, <1>4 DEF OfferNext

\* A step of the checkouts leaves it alone.
LEMMA OfferStutter == OfferInv /\ UNCHANGED offerVars => OfferInv'
<1> SUFFICES ASSUME OfferInv, UNCHANGED offerVars PROVE OfferInv'
  OBVIOUS
<1> USE DEF offerVars, time, stripe, requests, history
<1>1. OfferTypeOK'
  BY DEF OfferInv, OfferTypeOK
<1>2. \A q \in Requests : Quiet(q)
  BY DEF OfferInv, Timely, Quiet, Claims, Asked
<1> QED BY <1>1, <1>2, QuietStep

CheckoutInv ==
    /\ OfferInv
    /\ linked \in BOOLEAN
    /\ step \in [Buyers -> {"idle", "promotion", "session"}]
    /\ cart \in [Buyers -> Cart]
    /\ \A s \in sessions : s.cart \in Cart
    /\ SessionsKeyed

\* What the checkouts add, for each of their steps.
LEMMA CheckoutStep ==
    ASSUME CheckoutInv, [Next]_vars
    PROVE  CheckoutInv'
<1> USE DEF CheckoutInv
<1>1. CASE OfferNext /\ UNCHANGED checkoutVars
  BY <1>1, OfferStep DEF checkoutVars, SessionsKeyed
<1>2. CASE UNCHANGED vars
  BY <1>2, OfferStutter DEF vars, checkoutVars, SessionsKeyed
<1>3. CASE LinkCustomer \/ NewDay
  BY <1>3, OfferStutter DEF LinkCustomer, NewDay, SessionsKeyed
<1>4. ASSUME NEW b \in Buyers, Leave(b)
      PROVE  /\ step' \in [Buyers -> {"idle", "promotion", "session"}]
             /\ cart' \in [Buyers -> Cart]
  <2>1. NoCart \in Cart
    BY DEF NoCart, Cart
  <2> QED BY <1>4, <2>1 DEF Leave
<1>5. ASSUME NEW b \in Buyers, NEW plan \in Plans, NEW code \in 0 .. leads,
             CreateCheckout(b, plan, code)
      PROVE  CheckoutInv'
  <2>1. code \in Nat
    BY DEF OfferInv, OfferTypeOK
  <2>2. [plan |-> plan, code |-> code, linked |-> linked] \in Cart
    BY <2>1 DEF Cart
  <2> QED BY <1>5, <2>2, OfferStutter DEF CreateCheckout, SessionsKeyed
<1>6. ASSUME NEW b \in Buyers, LookupPromotion(b) PROVE CheckoutInv'
  BY <1>4, <1>6, OfferStutter DEF LookupPromotion, SessionsKeyed
<1>7. ASSUME NEW b \in Buyers, DropCheckout(b) PROVE CheckoutInv'
  BY <1>4, <1>7, OfferStutter DEF DropCheckout, SessionsKeyed
<1>8. ASSUME NEW b \in Buyers, OpenSession(b) PROVE CheckoutInv'
  <2> DEFINE new == [key |-> Key(b), cart |-> cart[b]]
  <2>1. Leave(b) /\ UNCHANGED <<offerVars, linked>>
    BY <1>8 DEF OpenSession
  <2>2. \/ sessions' = sessions
        \/ (\A s \in sessions : s.key # Key(b)) /\ sessions' = sessions \cup {new}
    BY <1>8 DEF OpenSession
  <2>3. cart[b] \in Cart /\ new.cart = cart[b] /\ new.key = Key(b)
    OBVIOUS
  <2>4. Key(b) = [plan |-> new.cart.plan, code |-> new.cart.code]
    BY <2>3 DEF Key
  <2>5. (\A s \in sessions : s.cart \in Cart)' /\ SessionsKeyed'
    <3> HIDE DEF new
    <3>1. CASE sessions' = sessions
      BY <3>1 DEF SessionsKeyed
    <3>2. CASE (\A s \in sessions : s.key # Key(b)) /\ sessions' = sessions \cup {new}
      BY <2>3, <2>4, <3>2 DEF SessionsKeyed
    <3> QED BY <2>2, <3>1, <3>2
  <2> QED BY <1>4, <2>1, <2>5, OfferStutter
<1> QED BY <1>1, <1>2, <1>3, <1>5, <1>6, <1>7, <1>8 DEF Next

\* The invariant holds at first.
LEMMA InitCheckout == Init => CheckoutInv
<1> SUFFICES ASSUME Init PROVE CheckoutInv
  OBVIOUS
<1>1. NoCart \in Cart
  BY DEF NoCart, Cart
<1> QED BY <1>1, InitOffer DEF Init, CheckoutInv, SessionsKeyed

\* The offer, the requests for it and the checkouts always satisfy the invariant.
THEOREM CheckoutInvariant == Spec => []CheckoutInv
<1>1. CheckoutInv /\ [Next]_vars => CheckoutInv'
  BY CheckoutStep
<1> QED BY <1>1, InitCheckout, PTL DEF Spec

\* Types of the offer and of the checkouts.
THEOREM CheckoutTypes == Spec => []TypeOK
<1>1. CheckoutInv => TypeOK
  BY DEF CheckoutInv, OfferInv, TypeOK
<1> QED BY <1>1, CheckoutInvariant, PTL

\* Two live codes belong to leads that no retention has deleted only if they are
\* the same: a replaced lead has no live code, and a lead never has two.
THEOREM OneCodeLive == Spec => []OneLivePromotion
<1>1. CheckoutInv => OneLivePromotion
  <2> SUFFICES ASSUME OfferInv, NEW p \in promos, NEW q \in promos,
                      Live(p), Live(q), {p.lead, q.lead} \cap forgotten = {}
               PROVE  p = q
    BY DEF CheckoutInv, OneLivePromotion
  <2>1. p.lead = row.lead /\ q.lead = row.lead
    BY DEF OfferInv, Ledger, Closed
  <2> QED BY <2>1 DEF OfferInv, Ledger
<1> QED BY <1>1, CheckoutInvariant, PTL

\* A visitor is told codes that Stripe has, with their dates.
THEOREM VisitorsToldTheTruth == Spec => []AnswersHonoured
<1>1. CheckoutInv => AnswersHonoured
  BY DEF CheckoutInv, OfferInv
<1> QED BY <1>1, CheckoutInvariant, PTL

\* A code somebody was told stays the ready offer until it ends.
THEOREM OffersStay == Spec => []AnswersRedeemable
<1>1. CheckoutInv => AnswersRedeemable
  BY DEF CheckoutInv, OfferInv
<1> QED BY <1>1, CheckoutInvariant, PTL

\* A day has one Checkout Session for a plan and a code.
THEOREM SessionsShared == Spec => []OneSessionPerOffer
<1>1. CheckoutInv => OneSessionPerOffer
  BY DEF CheckoutInv, SessionsKeyed, OneSessionPerOffer
<1> QED BY <1>1, CheckoutInvariant, PTL
=============================================================================
