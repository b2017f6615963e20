----------------------------- MODULE DocsAnalytics -----------------------------
(***************************************************************************)
(* The page views of the documentation site: raw events, the daily         *)
(* aggregates that the cron rebuilds from them, and the retention that     *)
(* deletes the raw events while the aggregates stay.  The five aggregate   *)
(* tables are rebuilt alike, each a count of the raw events of a day.      *)
(***************************************************************************)
EXTENDS Naturals

CONSTANTS
    Invocations,  \* slots for concurrent runs of the cron
    KeptDays,     \* DOCS_EVENT_RETENTION_DAYS, full days
    MaxDay,       \* bound on the days
    MaxEvents     \* bound on the events of a day

\* Seven days in the code.  Three suffice: a run that crosses midnight rebuilds the
\* second day before, and a cleanup reaches into the day on the edge.
ASSUME KeptAssumption == KeptDays \in Nat /\ KeptDays >= 3
ASSUME DocsBounds == MaxDay \in Nat /\ MaxEvents \in Nat

VARIABLES
    today,     \* the UTC date
    raw,       \* docs_analytics_events of each day, counted
    views,     \* docs_analytics_pageviews_daily of each day
    cron,      \* each run of the cron: its next step, the date it was scheduled
    cleaning,  \* is a daily cleanup under way?
    ingested,  \* events ever stored with the date (history)
    refreshed  \* days for which a run scheduled on the day after has ended (history)

docsVars == <<today, raw, views, cron, cleaning, ingested, refreshed>>

Days == 0 .. MaxDay
Run  == [step : {"idle", "today", "yesterday"}, day : Days]
Idle == [step |-> "idle", day |-> 0]

DocsInit ==
    /\ today = 0
    /\ raw = [d \in Days |-> 0] /\ views = [d \in Days |-> 0]
    /\ ingested = [d \in Days |-> 0]
    /\ cron = [i \in Invocations |-> Idle]
    /\ cleaning = FALSE
    /\ refreshed = {}

\* handleDocsAnalytics: one batch, dated by the database when it is written.  A
\* batch sent again is stored again.
HandleDocsAnalytics ==
    /\ ingested[today] < MaxEvents
    /\ raw'      = [raw EXCEPT ![today] = @ + 1]
    /\ ingested' = [ingested EXCEPT ![today] = @ + 1]
    /\ UNCHANGED <<today, views, cron, cleaning, refreshed>>

\* Every cron refreshes the aggregates; the one of 02:00 also cleans up.
Scheduled(i, daily) ==
    /\ cron[i] = Idle
    /\ cron' = [cron EXCEPT ![i] = [step |-> "today", day |-> today]]
    /\ cleaning' = (cleaning \/ daily)
    /\ UNCHANGED <<today, raw, views, ingested, refreshed>>

\* Mutant of Rebuilt: the counts of the run are added to the rows of the day.
Accumulated(d) == [views EXCEPT ![d] = @ + raw[d]]

\* One transaction: the rows of the day are deleted and made again.
Rebuilt(d) == [views EXCEPT ![d] = raw[d]]

RefreshToday(i) ==
    /\ cron[i].step = "today"
    /\ views' = Rebuilt(cron[i].day)
    /\ cron'  = [cron EXCEPT ![i] = IF cron[i].day = 0 THEN Idle ELSE [@ EXCEPT !.step = "yesterday"]]
    /\ UNCHANGED <<today, raw, cleaning, ingested, refreshed>>

\* Mutant of Before: the run looks back over the whole retention.
LongBefore(d) == IF d > KeptDays THEN d - KeptDays ELSE 0

Before(d) == d - 1

\* Mutant of RefreshYesterday: the day before is taken to be complete.
SkipYesterday(i) ==
    /\ cron[i].step = "yesterday"
    /\ refreshed' = refreshed \cup {cron[i].day - 1}
    /\ cron' = [cron EXCEPT ![i] = Idle]
    /\ UNCHANGED <<today, raw, views, cleaning, ingested>>

RefreshYesterday(i) ==
    /\ cron[i].step = "yesterday"
    /\ views' = Rebuilt(Before(cron[i].day))
    /\ refreshed' = refreshed \cup {Before(cron[i].day)}
    /\ cron' = [cron EXCEPT ![i] = Idle]
    /\ UNCHANGED <<today, raw, cleaning, ingested>>

\* A failed batch ends the run; it is logged, and the next cron starts over.
RunFails(i) ==
    /\ cron[i] # Idle
    /\ cron' = [cron EXCEPT ![i] = Idle]
    /\ UNCHANGED <<today, raw, views, cleaning, ingested, refreshed>>

\* The DELETE of cleanupAnalyticsRetention: whole days before the retention, and
\* the early hours of the day on its edge.
CleanupDocsEvents ==
    /\ cleaning /\ cleaning' = FALSE
    /\ \E left \in 0 .. MaxEvents :
        raw' = [d \in Days |-> IF d + KeptDays < today THEN 0
                               ELSE IF d + KeptDays = today /\ left < raw[d] THEN left
                               ELSE raw[d]]
    /\ UNCHANGED <<today, views, cron, ingested, refreshed>>

CleanupFails ==
    /\ cleaning /\ cleaning' = FALSE
    /\ UNCHANGED <<today, raw, views, cron, ingested, refreshed>>

\* A run of the cron is over within the day that follows its start.
NewDay ==
    /\ today < MaxDay
    /\ \A i \in Invocations : cron[i] # Idle => cron[i].day = today
    /\ today' = today + 1
    /\ UNCHANGED <<raw, views, cron, cleaning, ingested, refreshed>>

DocsNext ==
    \/ HandleDocsAnalytics \/ CleanupDocsEvents \/ CleanupFails \/ NewDay
    \/ \E i \in Invocations :
        \/ \E daily \in BOOLEAN : Scheduled(i, daily)
        \/ RefreshToday(i) \/ RefreshYesterday(i) \/ RunFails(i)

DocsSpec == DocsInit /\ [][DocsNext]_docsVars

-----------------------------------------------------------------------------
(***************************************************************************)
(* Properties.                                                             *)
(***************************************************************************)

\* Types of the tables and of the runs.
DocsTypeOK ==
    /\ today \in Days
    /\ raw \in [Days -> 0 .. MaxEvents] /\ ingested \in [Days -> 0 .. MaxEvents]
    /\ views \in [Days -> 0 .. MaxEvents]
    /\ cron \in [Invocations -> Run]
    /\ cleaning \in BOOLEAN
    /\ refreshed \subseteq Days

\* A day that is over and was refreshed on the next day, once, is counted to
\* the last event before midnight, and stays so when the raw events are gone.
PastDaysComplete == \A d \in refreshed : d < today => views[d] = ingested[d]

\* Overlapping and failing runs, midnight and retention never make a number
\* of the dashboard smaller.
ViewsNeverShrink == [][\A d \in Days : views'[d] >= views[d]]_docsVars
=============================================================================
