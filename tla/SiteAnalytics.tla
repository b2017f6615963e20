----------------------------- MODULE SiteAnalytics -----------------------------
(***************************************************************************)
(* The analytics of the marketing site: the queue of events in one         *)
(* visitor's page, the batches it sends, restores and sends again, and the *)
(* worker that stores them under a visitor id derived from the salt of the *)
(* day.  The page is single-threaded: what it does without awaiting is one *)
(* step.  It may end at any time, and its queue with it; the next page of  *)
(* the visitor starts with an empty one.  The site's endpoint in between   *)
(* keeps nothing; it is the bound on a batch and one of the places where a *)
(* batch can fail.                                                         *)
(***************************************************************************)
EXTENDS Naturals, Sequences, FiniteSets, SequencesExt

CONSTANTS
    Batches,       \* slots for batches under way
    MaxBatch,      \* MAX_BATCH_SIZE
    MaxRetryQueue, \* MAX_RETRY_QUEUE_SIZE
    EndpointMax,   \* events the endpoint and the worker accept at once
    MaxEmitted, MaxFailures, LastDay \* bounds on the events, on the requests whose
                                     \* answer is lost, and on the days

\* 20, 50 and 50 in the code.
ASSUME SizesAssumption ==
    /\ MaxBatch \in Nat \ {0} /\ MaxRetryQueue \in Nat /\ EndpointMax \in Nat
    /\ MaxBatch <= EndpointMax /\ MaxRetryQueue <= EndpointMax
ASSUME SiteBounds == MaxEmitted \in Nat /\ MaxFailures \in Nat /\ LastDay \in Nat

VARIABLES
    queue, timer, \* eventQueue (events are numbered) and flushTimer
    signal,       \* does the browser send a privacy signal?
    emitted,      \* events queued so far
    batch,        \* the events of each batch
    waiting,      \* does the page still wait for the answer of the batch?
    orphaned,     \* batches whose page ended while it waited
    step, day, visitor, \* the worker's next step for the batch, the date it read
                        \* and the salt it uses
    date,         \* the UTC date
    salts,        \* analytics_salts
    copies,       \* rows of site_analytics_events of each event
    dropped,      \* events cut off a full queue, cleared under a signal, or
                  \* lost with their page (history)
    unsure,       \* events of batches whose answer was lost (history)
    failures, identities \* lost answers; the salts stored events used, by date (history)

page     == <<queue, timer, signal, emitted, orphaned, dropped>>
worker   == <<step, day, visitor>>
store    == <<date, salts, copies, identities>>
siteVars == <<page, batch, waiting, worker, store, unsure, failures>>

EventIds == 1 .. MaxEmitted
SiteDays == 0 .. LastDay

\* A salt is as good as the moment of its insertion; the number tells apart
\* two salts of one day.
Salt   == [day : SiteDays, number : Nat]
NoSalt == [day |-> 0, number |-> 0]

SiteInit ==
    /\ queue = <<>> /\ timer = FALSE /\ signal = FALSE /\ emitted = 0
    /\ batch   = [b \in Batches |-> <<>>]
    /\ waiting = [b \in Batches |-> FALSE]
    /\ step    = [b \in Batches |-> "none"]
    /\ day     = [b \in Batches |-> 0]
    /\ visitor = [b \in Batches |-> NoSalt]
    /\ date = 0 /\ salts = {} /\ identities = {}
    /\ copies = [e \in EventIds |-> 0]
    /\ orphaned = {} /\ dropped = {} /\ unsure = {} /\ failures = 0

Free(b) == ~waiting[b] /\ step[b] = "none"

(***************************************************************************)
(* The page.                                                               *)
(***************************************************************************)

\* Mutant of Flush: only queueing an event asks for the signal.
FlushUnasked(events) ==
    /\ queue' = <<>> /\ UNCHANGED dropped
    /\ \/ /\ events = <<>>
          /\ UNCHANGED <<batch, waiting, step>>
       \/ \E b \in Batches :
            /\ events # <<>> /\ Free(b)
            /\ batch'   = [batch EXCEPT ![b] = events]
            /\ waiting' = [waiting EXCEPT ![b] = TRUE]
            /\ step'    = [step EXCEPT ![b] = "sent"]

\* flushEvents, for the queue it finds: under a signal it is cleared.
Flush(events) ==
    /\ queue' = <<>>
    /\ dropped' = IF signal THEN dropped \cup ToSet(events) ELSE dropped
    /\ \/ /\ signal \/ events = <<>>
          /\ UNCHANGED <<batch, waiting, step>>
       \/ \E b \in Batches :
            /\ ~signal /\ events # <<>> /\ Free(b)
            /\ batch'   = [batch EXCEPT ![b] = events]
            /\ waiting' = [waiting EXCEPT ![b] = TRUE]
            /\ step'    = [step EXCEPT ![b] = "sent"]

\* queueEvent: a full batch is flushed at once, a timer flushes the others.
QueueEvent ==
    LET events == Append(queue, emitted + 1) IN
    /\ ~signal /\ emitted < MaxEmitted
    /\ emitted' = emitted + 1
    /\ IF Len(events) >= MaxBatch
       THEN Flush(events) /\ UNCHANGED timer
       ELSE /\ queue' = events /\ timer' = TRUE
            /\ UNCHANGED <<batch, waiting, step, dropped>>
    /\ UNCHANGED <<signal, orphaned, day, visitor, store, unsure, failures>>

TimerFires ==
    /\ timer /\ timer' = FALSE
    /\ Flush(queue)
    /\ UNCHANGED <<signal, emitted, orphaned, day, visitor, store, unsure, failures>>

\* Hiding a page, leaving it and navigating flush; what they queue before and
\* after is a QueueEvent.  The page may come back, or end.
PageExit ==
    /\ queue # <<>>
    /\ Flush(queue)
    /\ UNCHANGED <<timer, signal, emitted, orphaned, day, visitor, store, unsure, failures>>

\* The document is gone, after its exit or without one: the module's memory goes
\* with it, and nobody is left to restore the batches under way.
PageEnds ==
    /\ queue' = <<>> /\ timer' = FALSE
    /\ dropped'  = dropped \cup ToSet(queue)
    /\ orphaned' = orphaned \cup {b \in Batches : waiting[b]}
    /\ waiting'  = [b \in Batches |-> FALSE]
    /\ UNCHANGED <<signal, emitted, batch, worker, store, unsure, failures>>

\* The browser's setting changes; flushEvents reads it each time.
PrivacySignal ==
    /\ signal' = ~signal
    /\ UNCHANGED <<queue, timer, emitted, orphaned, dropped, batch, waiting, worker, store, unsure, failures>>

Restored(events) == events \o queue

\* restoreAnalyticsBatch: the failed batch first, the newest events cut off.
Restore(b) ==
    LET events == Restored(batch[b]) IN
    /\ queue'   = SubSeq(events, 1, IF Len(events) < MaxRetryQueue THEN Len(events) ELSE MaxRetryQueue)
    /\ dropped' = dropped \cup {events[k] : k \in MaxRetryQueue + 1 .. Len(events)}

(***************************************************************************)
(* The answer to a batch.                                                  *)
(***************************************************************************)
Forget(b) ==
    /\ batch'   = [batch EXCEPT ![b] = <<>>]
    /\ step'    = [step EXCEPT ![b] = "none"]
    /\ day'     = [day EXCEPT ![b] = 0]
    /\ visitor' = [visitor EXCEPT ![b] = NoSalt]

Accepted(b) == step[b] = "stored"

\* The answer of a batch whose page is gone: nobody restores a refused one.
Unheard(b) ==
    /\ dropped' = IF b \in orphaned /\ ~Accepted(b) THEN dropped \cup ToSet(batch[b]) ELSE dropped
    /\ UNCHANGED queue

\* Mutant of AnswerArrives: a batch is restored whatever the answer.
AlwaysRestore(b) ==
    /\ step[b] \in {"stored", "refused"}
    /\ waiting'  = [waiting EXCEPT ![b] = FALSE]
    /\ orphaned' = orphaned \ {b}
    /\ IF waiting[b] THEN Restore(b) ELSE Unheard(b)
    /\ Forget(b)
    /\ UNCHANGED <<timer, signal, emitted, store, unsure, failures>>

AnswerArrives(b) ==
    /\ step[b] \in {"stored", "refused"}
    /\ waiting'  = [waiting EXCEPT ![b] = FALSE]
    /\ orphaned' = orphaned \ {b}
    /\ IF waiting[b] /\ ~Accepted(b) THEN Restore(b) ELSE Unheard(b)
    /\ Forget(b)
    /\ UNCHANGED <<timer, signal, emitted, store, unsure, failures>>

\* The page sees the connection fail; the worker may go on with the batch.
AnswerLost(b) ==
    /\ waiting[b] /\ failures < MaxFailures
    /\ waiting' = [waiting EXCEPT ![b] = FALSE]
    /\ Restore(b)
    /\ unsure'   = unsure \cup ToSet(batch[b])
    /\ failures' = failures + 1
    /\ UNCHANGED <<timer, signal, emitted, orphaned, batch, worker, store>>

(***************************************************************************)
(* handleTrackEvent.                                                       *)
(***************************************************************************)
Advance(b, from, to) == step[b] = from /\ step' = [step EXCEPT ![b] = to]

\* A larger batch is never accepted; a smaller one may fail too: the network,
\* a rate limit, an invalid event, a failed statement.
Refuse(b) ==
    /\ step[b] \in {"sent", "salt", "select", "store"}
    /\ step' = [step EXCEPT ![b] = "refused"]
    /\ UNCHANGED <<page, batch, waiting, day, visitor, store, unsure, failures>>

\* The clock is read once.
HandleTrackEvent(b) ==
    /\ Len(batch[b]) <= EndpointMax
    /\ Advance(b, "sent", "salt")
    /\ day' = [day EXCEPT ![b] = date]
    /\ UNCHANGED <<page, batch, waiting, visitor, store, unsure, failures>>

Usable(b) == {s \in salts : s.day >= day[b]}

NewSalt(b) == [day |-> day[b], number |-> 1 + Cardinality({s \in salts : s.day = day[b]})]

\* Mutant of InsertSalt: every request makes a salt of its own.
InsertAnySalt(b) ==
    /\ Advance(b, "salt", "store")
    /\ salts'   = salts \cup {NewSalt(b)}
    /\ visitor' = [visitor EXCEPT ![b] = NewSalt(b)]
    /\ UNCHANGED <<page, batch, waiting, day, date, copies, identities, unsure, failures>>

\* One INSERT ... WHERE NOT EXISTS, with the salt it made.
InsertSalt(b) ==
    /\ IF Usable(b) = {}
       THEN /\ Advance(b, "salt", "store")
            /\ salts'   = salts \cup {NewSalt(b)}
            /\ visitor' = [visitor EXCEPT ![b] = NewSalt(b)]
       ELSE Advance(b, "salt", "select") /\ UNCHANGED <<salts, visitor>>
    /\ UNCHANGED <<page, batch, waiting, day, date, copies, identities, unsure, failures>>

\* The oldest one; none is an error (Refuse).
SelectSalt(b) ==
    /\ \E s \in Usable(b) :
        /\ \A t \in Usable(b) : s.day <= t.day
        /\ visitor' = [visitor EXCEPT ![b] = s]
    /\ Advance(b, "select", "store")
    /\ UNCHANGED <<page, batch, waiting, day, store, unsure, failures>>

\* One batch; rows have random ids.
StoreEvents(b) ==
    /\ Advance(b, "store", "stored")
    /\ copies' = [e \in EventIds |-> copies[e] + IF e \in ToSet(batch[b]) THEN 1 ELSE 0]
    /\ identities' = identities \cup {[day |-> day[b], salt |-> visitor[b]]}
    /\ UNCHANGED <<page, batch, waiting, day, visitor, date, salts, unsure, failures>>

(***************************************************************************)
(* Time and retention.                                                     *)
(***************************************************************************)
\* A request is over within the day after its start.
NextDate ==
    /\ date < LastDay
    /\ \A b \in Batches : step[b] \in {"salt", "select", "store"} => day[b] = date
    /\ date' = date + 1
    /\ UNCHANGED <<page, batch, waiting, worker, salts, copies, identities, unsure, failures>>

\* Salts older than forty-eight hours.
Rotated == {s \in salts : s.day + 2 <= date}

CleanupSalts ==
    /\ \E old \in SUBSET Rotated :
        /\ {s \in Rotated : s.day + 2 < date} \subseteq old
        /\ old # {} /\ salts' = salts \ old
    /\ UNCHANGED <<page, batch, waiting, worker, date, copies, identities, unsure, failures>>

SiteNext ==
    \/ QueueEvent \/ TimerFires \/ PageExit \/ PageEnds \/ PrivacySignal \/ NextDate \/ CleanupSalts
    \/ \E b \in Batches :
        \/ HandleTrackEvent(b) \/ InsertSalt(b) \/ SelectSalt(b) \/ StoreEvents(b)
        \/ Refuse(b) \/ AnswerArrives(b) \/ AnswerLost(b)

SiteSpec == SiteInit /\ [][SiteNext]_siteVars

-----------------------------------------------------------------------------
(***************************************************************************)
(* Properties.                                                             *)
(***************************************************************************)

\* Types; the queue never outgrows the retry queue or a batch.
SiteTypeOK ==
    /\ queue \in Seq(EventIds)
    /\ Len(queue) <= MaxRetryQueue \/ Len(queue) < MaxBatch
    /\ timer \in BOOLEAN /\ signal \in BOOLEAN /\ emitted \in 0 .. MaxEmitted
    /\ batch \in [Batches -> Seq(EventIds)]
    /\ \A b \in Batches : Len(batch[b]) <= MaxRetryQueue + 1 \/ Len(batch[b]) <= MaxBatch
    /\ waiting \in [Batches -> BOOLEAN] /\ orphaned \subseteq Batches
    /\ step \in [Batches -> {"none", "sent", "salt", "select", "store", "stored", "refused"}]
    /\ day \in [Batches -> SiteDays] /\ visitor \in [Batches -> Salt] /\ date \in SiteDays
    /\ salts \subseteq Salt /\ identities \subseteq [day : SiteDays, salt : Salt]
    /\ copies \in [EventIds -> Nat] /\ dropped \subseteq EventIds /\ unsure \subseteq EventIds
    /\ failures \in 0 .. MaxFailures

\* Whatever fails, no event vanishes: it is queued, under way or stored, or was
\* cut off a full retry queue, cleared under a privacy signal, or lost with the
\* page that had it queued or would have restored it.
LostOnlyWhereGivenUp ==
    \A e \in 1 .. emitted :
        \/ copies[e] > 0 \/ e \in dropped \cup ToSet(queue)
        \/ \E b \in Batches : e \in ToSet(batch[b]) /\ (waiting[b] \/ b \in orphaned)

\* An event is stored twice only if the answer to one of its batches was lost.
RepeatedOnlyIfUnsure == \A e \in EventIds : copies[e] > 1 => e \in unsure

\* Retries, the signal and the end of a page neither lose nor repeat an event
\* beyond that.
EventsAccounted == LostOnlyWhereGivenUp /\ RepeatedOnlyIfUnsure

\* Cold starts, midnight and the rotation of salts never give a visitor two
\* identities on one day.
OneIdentityPerDay ==
    \A x, y \in identities : x.day = y.day => x.salt = y.salt

\* While the browser sends the signal no batch leaves the page, restored events
\* included.
SignalStopsSending ==
    [][signal => \A b \in Batches : step'[b] = "sent" => step[b] = "sent"]_siteVars
=============================================================================
