--------------------------- MODULE OperationsProofs ---------------------------
(***************************************************************************)
(* Proofs about modules MCOperations explores side by side, each for any   *)
(* values of its constants: the live page (AdminLive), the page views of   *)
(* the documentation (DocsAnalytics), what the command line reports        *)
(* (Usage) and the marketing site's events (SiteAnalytics); at the end,    *)
(* that the run side by side explores each of them.                        *)
(***************************************************************************)
EXTENDS MCOperations, FiniteSetTheorems, SequenceTheorems, TLAPS

(***************************************************************************)
(* AdminLive.  An aborted poll only exists while nobody watches, and the   *)
(* page is still as it was built until its feed opens.                     *)
(***************************************************************************)
LiveInv ==
    /\ feed \in {"unopened", "open", "stopped"} /\ visible \in BOOLEAN
    /\ poll \in {"none", "fetching", "aborted"}
    /\ poll = "aborted" => ~Watched
    /\ feed = "unopened" => poll = "none" /\ label = "current"
    /\ PolledWhileWatched

\* A watched feed always has its next poll under way or due, whatever the tab,
\* the network and the visitor do.
THEOREM FeedPolls == LiveSpec => []PolledWhileWatched
<1> USE DEF LiveInv, PolledWhileWatched, Watched
<1>1. LiveInit => LiveInv
  BY DEF LiveInit
<1>2. LiveInv /\ [LiveNext]_liveVars => LiveInv'
  <2> SUFFICES ASSUME LiveInv, [LiveNext]_liveVars PROVE LiveInv'
    OBVIOUS
  <2>1. CASE Start
    BY <2>1 DEF Start, Schedule
  <2>2. CASE Stop
    BY <2>2 DEF Stop, Abort
  <2>3. CASE Hide
    BY <2>3 DEF Hide, Abort
  <2>4. CASE Show
    BY <2>4 DEF Show, Schedule
  <2>5. CASE Refresh
    BY <2>5 DEF Refresh
  <2>6. CASE RefreshEnds
    BY <2>6 DEF RefreshEnds, Schedule
  <2>7. CASE UNCHANGED liveVars
    BY <2>7 DEF liveVars
  <2> QED BY <2>1, <2>2, <2>3, <2>4, <2>5, <2>6, <2>7 DEF LiveNext
<1>3. LiveInv => PolledWhileWatched
  OBVIOUS
<1> QED BY <1>1, <1>2, <1>3, PTL DEF LiveSpec

-----------------------------------------------------------------------------
(***************************************************************************)
(* DocsAnalytics.  A run rebuilds no day so old that retention can have    *)
(* taken from it, so what it counts is all that was stored with the date.  *)
(***************************************************************************)
DocsInv ==
    /\ DocsTypeOK
    /\ \A d \in Days : views[d] <= ingested[d] /\ raw[d] <= ingested[d]
    /\ \A d \in Days : d + KeptDays > today => raw[d] = ingested[d]
    /\ \A i \in Invocations : cron[i].step # "idle" =>
           cron[i].day <= today /\ today <= cron[i].day + 1
    /\ \A i \in Invocations : cron[i].step = "yesterday" => cron[i].day # 0
    /\ \A d \in refreshed : d < today /\ views[d] = ingested[d]

\* The invariant holds at first.
LEMMA InitDocs == DocsInit => DocsInv
<1> SUFFICES ASSUME DocsInit PROVE DocsInv
  OBVIOUS
<1>1. Idle \in Run /\ Idle.step = "idle"
  BY DocsBounds DEF Idle, Run, Days
<1>2. DocsTypeOK
  <2>1. 0 \in Days /\ 0 \in 0 .. MaxEvents
    BY DocsBounds DEF Days
  <2>2. raw \in [Days -> 0 .. MaxEvents] /\ ingested \in [Days -> 0 .. MaxEvents]
    BY <2>1 DEF DocsInit
  <2>3. views \in [Days -> 0 .. MaxEvents] /\ cron \in [Invocations -> Run]
    BY <1>1, <2>1 DEF DocsInit
  <2> QED BY <2>1, <2>2, <2>3 DEF DocsInit, DocsTypeOK
<1> QED BY <1>1, <1>2, DocsBounds DEF DocsInit, DocsInv, Days

\* A run rebuilds a day completely.
LEMMA RebuildsAll ==
    ASSUME DocsInv, NEW d \in Days, d + 2 >= today, views' = Rebuilt(d)
    PROVE  /\ views' \in [Days -> 0 .. MaxEvents]
           /\ \A e \in Days : views'[e] = IF e = d THEN ingested[e] ELSE views[e]
           /\ \A e \in Days : views'[e] >= views[e]
<1>1. raw[d] = ingested[d]
  BY KeptAssumption, DocsBounds DEF DocsInv, DocsTypeOK, Days
<1>2. \A e \in Days : views[e] \in Nat /\ ingested[e] \in Nat /\ views[e] <= ingested[e]
  BY DocsBounds DEF DocsInv, DocsTypeOK
<1>3. /\ views' \in [Days -> 0 .. MaxEvents]
      /\ \A e \in Days : views'[e] = IF e = d THEN ingested[e] ELSE views[e]
  BY <1>1 DEF DocsInv, DocsTypeOK, Rebuilt
<1> QED BY <1>2, <1>3

\* What the runs of the cron keep of each other.
RunsFollow ==
    /\ cron \in [Invocations -> Run]
    /\ \A i \in Invocations : cron[i].step # "idle" =>
           cron[i].day <= today /\ today <= cron[i].day + 1
    /\ \A i \in Invocations : cron[i].step = "yesterday" => cron[i].day # 0

\* A run that starts, goes on or ends.
LEMMA RunMoves ==
    ASSUME DocsInv, NEW i \in Invocations, NEW run \in Run, cron' = [cron EXCEPT ![i] = run],
           today' = today,
           run.step # "idle" => run.day <= today /\ today <= run.day + 1,
           run.step = "yesterday" => run.day # 0
    PROVE  RunsFollow'
<1>1. /\ cron' \in [Invocations -> Run]
      /\ \A j \in Invocations : cron'[j] = IF j = i THEN run ELSE cron[j]
  BY DEF DocsInv, DocsTypeOK
<1> QED BY <1>1 DEF DocsInv, RunsFollow

\* Events and retention leave the runs alone.
LEMMA RunsStay == ASSUME DocsInv, UNCHANGED <<cron, today>> PROVE RunsFollow'
  BY DEF DocsInv, DocsTypeOK, RunsFollow

\* Every step keeps the invariant, and no count shrinks in it.
LEMMA StepDocs ==
    ASSUME DocsInv, [DocsNext]_docsVars
    PROVE  DocsInv' /\ \A d \in Days : views'[d] >= views[d]
<1>1. today \in Nat /\ MaxDay \in Nat /\ MaxEvents \in Nat /\ KeptDays \in Nat /\ KeptDays >= 3
  BY KeptAssumption, DocsBounds DEF DocsInv, DocsTypeOK, Days
<1>2. \A d \in Days : views[d] \in 0 .. MaxEvents /\ ingested[d] \in 0 .. MaxEvents
                      /\ raw[d] \in 0 .. MaxEvents
  BY DEF DocsInv, DocsTypeOK
<1>3. Idle \in Run /\ Idle.step = "idle"
  BY <1>1 DEF Idle, Run, Days
<1>4. CASE HandleDocsAnalytics
  <2>1. /\ raw' \in [Days -> 0 .. MaxEvents] /\ ingested' \in [Days -> 0 .. MaxEvents]
        /\ \A d \in Days : /\ raw'[d] = IF d = today THEN raw[d] + 1 ELSE raw[d]
                           /\ ingested'[d] = IF d = today THEN ingested[d] + 1 ELSE ingested[d]
    <3>1. today \in Days /\ raw[today] = ingested[today] /\ ingested[today] < MaxEvents
      BY <1>1, <1>4 DEF HandleDocsAnalytics, DocsInv, DocsTypeOK
    <3> QED BY <1>1, <1>2, <1>4, <3>1 DEF HandleDocsAnalytics, DocsInv, DocsTypeOK
  <2>2. RunsFollow'
    BY <1>4, RunsStay DEF HandleDocsAnalytics
  <2>3. DocsTypeOK'
    BY <1>4, <2>1, <2>2 DEF HandleDocsAnalytics, DocsInv, DocsTypeOK, RunsFollow
  <2>4. /\ \A d \in Days : views'[d] <= ingested'[d] /\ raw'[d] <= ingested'[d]
        /\ \A d \in Days : d + KeptDays > today' => raw'[d] = ingested'[d]
    BY <1>2, <1>4, <2>1 DEF HandleDocsAnalytics, DocsInv
  <2>5. \A d \in refreshed' : d < today' /\ views'[d] = ingested'[d]
    BY <1>1, <1>4, <2>1 DEF HandleDocsAnalytics, DocsInv, DocsTypeOK
  <2> QED BY <1>2, <1>4, <2>2, <2>3, <2>4, <2>5 DEF HandleDocsAnalytics, DocsInv, RunsFollow
<1>5. ASSUME NEW i \in Invocations, NEW nightly \in BOOLEAN, Scheduled(i, nightly)
      PROVE  DocsInv' /\ \A d \in Days : views'[d] >= views[d]
  <2> DEFINE run == [step |-> "today", day |-> today]
  <2>1. run \in Run /\ run.step = "today" /\ run.day = today
    BY DEF Run, DocsInv, DocsTypeOK
  <2>2. RunsFollow'
    <3>1. cron' = [cron EXCEPT ![i] = run] /\ today' = today
      BY <1>5 DEF Scheduled
    <3> HIDE DEF run
    <3>2. /\ run.step # "idle" => run.day <= today /\ today <= run.day + 1
          /\ run.step = "yesterday" => run.day # 0
      BY <1>1, <2>1
    <3> QED BY <2>1, <3>1, <3>2, RunMoves
  <2>3. cleaning' \in BOOLEAN
    BY <1>5 DEF Scheduled
  <2> QED BY <1>2, <1>5, <2>2, <2>3 DEF Scheduled, DocsInv, DocsTypeOK, RunsFollow
<1>6. ASSUME NEW i \in Invocations, RefreshToday(i)
      PROVE  DocsInv' /\ \A d \in Days : views'[d] >= views[d]
  <2>1. /\ cron[i].day \in Days /\ cron[i].day <= today /\ today <= cron[i].day + 1
        /\ cron[i].day \in Nat /\ cron[i] \in Run
    BY <1>1, <1>6 DEF RefreshToday, DocsInv, DocsTypeOK, Run, Days
  <2>2. /\ views' \in [Days -> 0 .. MaxEvents]
        /\ \A e \in Days : views'[e] = IF e = cron[i].day THEN ingested[e] ELSE views[e]
        /\ \A e \in Days : views'[e] >= views[e]
    BY <1>1, <1>6, <2>1, RebuildsAll DEF RefreshToday
  <2>3. RunsFollow'
    <3>1. CASE cron[i].day = 0
      BY <1>3, <1>6, <3>1, RunMoves DEF RefreshToday
    <3>2. CASE cron[i].day # 0
      <4> DEFINE next == [cron[i] EXCEPT !.step = "yesterday"]
      <4>1. next \in Run /\ next.step = "yesterday" /\ next.day = cron[i].day
        BY <2>1 DEF Run
      <4>2. cron' = [cron EXCEPT ![i] = next] /\ today' = today
        BY <1>6, <3>2 DEF RefreshToday, DocsInv, DocsTypeOK
      <4> HIDE DEF next
      <4> QED BY <2>1, <3>2, <4>1, <4>2, RunMoves
    <3> QED BY <3>1, <3>2
  <2> QED BY <1>2, <1>6, <2>2, <2>3 DEF RefreshToday, DocsInv, DocsTypeOK, RunsFollow
<1>7. ASSUME NEW i \in Invocations, RefreshYesterday(i)
      PROVE  DocsInv' /\ \A d \in Days : views'[d] >= views[d]
  <2> DEFINE past == Before(cron[i].day)
  <2>1. past \in Days /\ past < today /\ past + 2 >= today
    <3>1. /\ cron[i].day \in Days /\ cron[i].day <= today /\ today <= cron[i].day + 1
          /\ cron[i].day # 0
      BY <1>7 DEF RefreshYesterday, DocsInv, DocsTypeOK, Run
    <3> QED BY <1>1, <3>1 DEF Before, Days
  <2> HIDE DEF past
  <2>2. views' = Rebuilt(past) /\ refreshed' = refreshed \cup {past}
    BY <1>7 DEF RefreshYesterday, past
  <2>3. /\ views' \in [Days -> 0 .. MaxEvents]
        /\ \A e \in Days : views'[e] = IF e = past THEN ingested[e] ELSE views[e]
        /\ \A e \in Days : views'[e] >= views[e]
    BY <2>1, <2>2, RebuildsAll
  <2>4. RunsFollow'
    BY <1>3, <1>7, RunMoves DEF RefreshYesterday
  <2>5. refreshed' \subseteq Days /\ \A d \in refreshed' : d < today' /\ views'[d] = ingested'[d]
    BY <1>7, <2>1, <2>2, <2>3 DEF RefreshYesterday, DocsInv, DocsTypeOK
  <2>6. \A d \in Days : views'[d] <= ingested'[d]
    BY <1>2, <1>7, <2>3 DEF RefreshYesterday, DocsInv
  <2> QED BY <1>7, <2>3, <2>4, <2>5, <2>6 DEF RefreshYesterday, DocsInv, DocsTypeOK, RunsFollow
<1>8. ASSUME NEW i \in Invocations, RunFails(i)
      PROVE  DocsInv' /\ \A d \in Days : views'[d] >= views[d]
  <2>1. RunsFollow'
    BY <1>3, <1>8, RunMoves DEF RunFails
  <2> QED BY <1>2, <1>8, <2>1 DEF RunFails, DocsInv, DocsTypeOK, RunsFollow
<1>9. CASE CleanupDocsEvents
  <2>1. PICK left \in 0 .. MaxEvents :
          raw' = [d \in Days |-> IF d + KeptDays < today THEN 0
                                 ELSE IF d + KeptDays = today /\ left < raw[d] THEN left
                                 ELSE raw[d]]
    BY <1>9 DEF CleanupDocsEvents
  <2>2. /\ raw' \in [Days -> 0 .. MaxEvents]
        /\ \A d \in Days : raw'[d] <= raw[d] /\ (d + KeptDays > today => raw'[d] = raw[d])
    BY <1>1, <1>2, <2>1 DEF Days
  <2>3. RunsFollow'
    BY <1>9, RunsStay DEF CleanupDocsEvents
  <2>4. \A d \in Days : raw'[d] <= ingested[d]
    BY <1>2, <2>2 DEF DocsInv
  <2>5. cleaning' \in BOOLEAN
    BY <1>9 DEF CleanupDocsEvents
  <2> QED BY <1>2, <1>9, <2>2, <2>3, <2>4, <2>5 DEF CleanupDocsEvents, DocsInv, DocsTypeOK, RunsFollow
<1>10. CASE CleanupFails
  <2>1. RunsFollow'
    BY <1>10, RunsStay DEF CleanupFails
  <2>2. cleaning' \in BOOLEAN
    BY <1>10 DEF CleanupFails
  <2> QED BY <1>2, <1>10, <2>1, <2>2 DEF CleanupFails, DocsInv, DocsTypeOK, RunsFollow
<1>11. CASE NewDay
  <2>1. today' = today + 1 /\ today' \in Days
    BY <1>1, <1>11 DEF NewDay, Days
  <2>2. \A i \in Invocations : cron[i].step # "idle" => cron[i].day = today
    BY <1>3, <1>11 DEF NewDay
  <2>3. \A d \in refreshed : d \in Nat
    BY DEF DocsInv, DocsTypeOK, Days
  <2> QED BY <1>1, <1>2, <1>11, <2>1, <2>2, <2>3 DEF NewDay, DocsInv, DocsTypeOK, Days
<1>12. CASE UNCHANGED docsVars
  BY <1>2, <1>12 DEF docsVars, DocsInv, DocsTypeOK
<1> QED BY <1>4, <1>5, <1>6, <1>7, <1>8, <1>9, <1>10, <1>11, <1>12 DEF DocsNext

\* The documentation's tables and the cron's runs always satisfy the invariant.
THEOREM DocsInvariant == DocsSpec => []DocsInv
<1>1. DocsInv /\ [DocsNext]_docsVars => DocsInv'
  BY StepDocs
<1> QED BY <1>1, InitDocs, PTL DEF DocsSpec

\* A day that is over and was refreshed since is counted to the last event.
THEOREM PastDaysCounted == DocsSpec => []PastDaysComplete
<1>1. DocsInv => PastDaysComplete
  BY DEF DocsInv, PastDaysComplete
<1> QED BY <1>1, DocsInvariant, PTL

\* No step makes a number of the dashboard smaller.
THEOREM ViewsOnlyGrow == DocsSpec => ViewsNeverShrink
<1>1. DocsInv /\ [DocsNext]_docsVars => [\A d \in Days : views'[d] >= views[d]]_docsVars
  BY StepDocs
<1> QED BY <1>1, DocsInvariant, PTL DEF DocsSpec, ViewsNeverShrink

-----------------------------------------------------------------------------
(***************************************************************************)
(* Usage.  Who runs past the end of collection is marked as overtaken at   *)
(* that very moment; and as long as no key was rotated, no event has       *)
(* expired and none of those requests has written, every active machine    *)
(* leads back to an event of the key.                                      *)
(***************************************************************************)
Untraced == loose # {}

Traced(m) == \E e \in events : e.key = key /\ e.machine = m

CarriedBy(r) ==
    /\ pc[r] # "idle" => job[r].id # 0 /\ ("rotated" \in loose \/ job[r].key = key)
    /\ pc[r] = "member" =>
           r \in overtaken \/ [machine |-> job[r].machine, count |-> job[r].count] \in reported
    /\ pc[r] = "users" => r \in overtaken \/ Untraced \/ Traced(job[r].machine)

UsersTraced ==
    /\ "rotated" \in loose \/ \A e \in events : e.key = key
    /\ Untraced \/ \A m \in users : Traced(m)

Stopped == status # "active" \/ optOut

OvertakenKnown == Stopped => \A r \in Requests : pc[r] # "idle" => r \in overtaken

UsageInv ==
    /\ UsageTypeOK
    /\ \A r \in Requests : CarriedBy(r)
    /\ UsersTraced /\ OvertakenKnown
    /\ CountersConverge /\ DeletionReachesAll

\* The job of an idle slot is a job.
LEMMA NoJobType == NoJob \in Job
  BY MachinesAssumption, UsageBounds DEF NoJob, Job

\* The invariant holds at first.
LEMMA InitUsage == UsageInit => UsageInv
<1> SUFFICES ASSUME UsageInit PROVE UsageInv
  OBVIOUS
<1> USE DEF UsageInit
<1>1. UsageTypeOK
  <2>1. job \in [Requests -> Job]
    BY NoJobType
  <2>2. 1 \in 1 .. MaxKeys /\ 0 \in 0 .. MaxCount /\ 0 \in 0 .. MaxReports
    BY UsageBounds
  <2> QED BY <2>1, <2>2 DEF UsageTypeOK
<1>2. (\A r \in Requests : CarriedBy(r)) /\ UsersTraced /\ OvertakenKnown
  BY DEF CarriedBy, UsersTraced, OvertakenKnown, Traced
<1>3. CountersConverge /\ DeletionReachesAll
  BY DEF CountersConverge, DeletionReachesAll
<1> QED BY <1>1, <1>2, <1>3 DEF UsageInv

\* A request that goes on, or that has ended.
LEMMA ReportMoves ==
    ASSUME UsageTypeOK, NEW r \in Requests,
           \/ End(r)
           \/ \E from, to \in {"daily", "member", "cli", "events", "users"} :
                  Goto(r, from, to) /\ UNCHANGED overtaken
    PROVE  /\ pc' \in [Requests -> {"idle", "daily", "member", "cli", "events", "users"}]
           /\ job' \in [Requests -> Job] /\ started' = started /\ overtaken' \subseteq Requests
           /\ \A q \in Requests : q # r => /\ pc'[q] = pc[q] /\ job'[q] = job[q]
                                           /\ (q \in overtaken' <=> q \in overtaken)
           /\ pc'[r] # "idle" => pc[r] # "idle" /\ job' = job /\ overtaken' = overtaken
<1>1. CASE End(r)
  BY <1>1, NoJobType DEF End, UsageTypeOK
<1>2. ASSUME NEW from \in {"daily", "member", "cli", "events", "users"},
             NEW to \in {"daily", "member", "cli", "events", "users"},
             Goto(r, from, to), UNCHANGED overtaken
      PROVE  /\ pc' \in [Requests -> {"idle", "daily", "member", "cli", "events", "users"}]
             /\ job' = job /\ started' = started /\ overtaken' = overtaken
             /\ pc[r] # "idle" /\ \A q \in Requests : q # r => pc'[q] = pc[q]
  BY <1>2 DEF Goto, UsageTypeOK
<1> QED BY <1>1, <1>2 DEF UsageTypeOK

\* What a write leaves behind when it was overtaken.
LEMMA WriteMarks ==
    ASSUME UsageTypeOK, NEW r \in Requests, Written(r)
    PROVE  /\ loose \subseteq loose' /\ loose' \subseteq {"rotated", "expired", "overtaken"}
           /\ ("rotated" \in loose' <=> "rotated" \in loose)
           /\ r \in overtaken => "overtaken" \in loose'
  BY DEF Written, UsageTypeOK

(***************************************************************************)
(* A write that changes the tables it names and moves its request: what it *)
(* keeps whatever it writes.                                               *)
(***************************************************************************)
LEMMA WriteKeeps ==
    ASSUME UsageInv, NEW r \in Requests, pc[r] # "idle", Written(r),
           \/ End(r)
           \/ \E from, to \in {"daily", "member", "cli", "events", "users"} :
                  Goto(r, from, to) /\ UNCHANGED overtaken,
           UNCHANGED <<key, status, optOut, machines>>,
           events \subseteq events', reported \subseteq reported',
           CarriedBy(r)'
    PROVE  /\ \A q \in Requests : CarriedBy(q)'
           /\ OvertakenKnown' /\ DeletionReachesAll'
<1>1. UsageTypeOK
  BY DEF UsageInv
<1>2. ASSUME NEW q \in Requests, q # r PROVE CarriedBy(q)'
  <2>1. CarriedBy(q) /\ pc'[q] = pc[q] /\ job'[q] = job[q] /\ (q \in overtaken' <=> q \in overtaken)
    BY <1>1, <1>2, ReportMoves DEF UsageInv
  <2>2. \A m : Traced(m) => Traced(m)'
    BY DEF Traced
  <2>3. ("rotated" \in loose' <=> "rotated" \in loose) /\ (Untraced => Untraced')
    BY <1>1, WriteMarks DEF Untraced
  <2> QED BY <2>1, <2>2, <2>3 DEF CarriedBy
<1>3. OvertakenKnown'
  BY <1>1, ReportMoves DEF UsageInv, OvertakenKnown, Stopped
<1>4. DeletionReachesAll'
  BY <1>1, WriteMarks DEF UsageInv, OvertakenKnown, Stopped, DeletionReachesAll
<1> QED BY <1>2, <1>3, <1>4

\* The counter of the day.
LEMMA WriteDailyKeeps == ASSUME UsageInv, NEW r \in Requests, WriteDaily(r) PROVE UsageInv'
<1> DEFINE report == [machine |-> job[r].machine, count |-> job[r].count]
<1>1. /\ UsageTypeOK /\ pc[r] = "daily" /\ pc' = [pc EXCEPT ![r] = "member"] /\ job' = job
      /\ Goto(r, "daily", "member") /\ Written(r)
      /\ UNCHANGED <<key, status, optOut, machines, member, cli, events, users, started, overtaken>>
      /\ daily' = Larger(daily, job[r].count) /\ reported' = reported \cup {report}
  BY DEF WriteDaily, Goto, UsageInv, license, analytics
<1>2. job[r] \in Job /\ job[r].count \in 1 .. MaxCount /\ report \in Report /\ report.count = job[r].count
  BY <1>1 DEF UsageTypeOK, Job, Report
<1> HIDE DEF report
<1>3. /\ pc' \in [Requests -> {"idle", "daily", "member", "cli", "events", "users"}]
      /\ pc'[r] = "member"
  BY <1>1 DEF UsageTypeOK
<1>4. daily \in 0 .. MaxCount /\ daily' \in 0 .. MaxCount /\ daily' >= daily /\ daily' >= job[r].count
      /\ daily' \in {daily, job[r].count}
  BY <1>1, <1>2, UsageBounds DEF UsageTypeOK, Larger
<1>5. loose' \subseteq {"rotated", "expired", "overtaken"}
  BY <1>1, WriteMarks
<1>6. UsageTypeOK'
  BY <1>1, <1>2, <1>3, <1>4, <1>5 DEF UsageTypeOK
<1>7. CarriedBy(r)'
  BY <1>1, <1>3, WriteMarks DEF UsageInv, CarriedBy, report
<1>8. (\A q \in Requests : CarriedBy(q)') /\ OvertakenKnown' /\ DeletionReachesAll'
  BY <1>1, <1>7, WriteKeeps
<1>9. UsersTraced'
  BY <1>1, WriteMarks DEF UsageInv, UsersTraced, Untraced, Traced
<1>10. CountersConverge'
  <2>1. \A p \in reported' : p.count <= daily'
    BY <1>1, <1>2, <1>4 DEF UsageInv, UsageTypeOK, CountersConverge, Report
  <2>2. daily' # 0 => \E p \in reported' : p.count = daily'
    BY <1>1, <1>2, <1>4 DEF UsageInv, CountersConverge
  <2>3. \A m \in Machines : member'[m] # 0 =>
          [machine |-> m, count |-> member'[m]] \in reported' \/ "overtaken" \in loose'
    BY <1>1, WriteMarks DEF UsageInv, CountersConverge
  <2> QED BY <2>1, <2>2, <2>3 DEF CountersConverge
<1> QED BY <1>6, <1>8, <1>9, <1>10 DEF UsageInv

\* The counter of the machine, which the first statement has reported.
LEMMA WriteMemberKeeps == ASSUME UsageInv, NEW r \in Requests, WriteMember(r) PROVE UsageInv'
<1> DEFINE machine == job[r].machine
           count   == job[r].count
<1>1. /\ UsageTypeOK /\ pc[r] = "member" /\ End(r) /\ Written(r)
      /\ UNCHANGED <<key, status, optOut, machines, daily, cli, events, users, reported>>
      /\ member' = [member EXCEPT ![machine] = Larger(@, count)]
  BY DEF WriteMember, UsageInv, license, analytics
<1>2. machine \in Machines /\ count \in 1 .. MaxCount
  BY DEF UsageInv, UsageTypeOK, Job
<1>3. [machine |-> machine, count |-> count] \in reported \/ "overtaken" \in loose'
  BY <1>1, WriteMarks DEF UsageInv, CarriedBy
<1> HIDE DEF machine, count
<1>4. /\ member' \in [Machines -> 0 .. MaxCount]
      /\ \A m \in Machines : member'[m] = member[m] \/ (m = machine /\ member'[m] = count)
  <2>1. \A m \in Machines : member'[m] = IF m = machine THEN Larger(member[m], count) ELSE member[m]
    BY <1>1, <1>2 DEF UsageTypeOK
  <2>2. \A m \in Machines : Larger(member[m], count) \in {member[m], count}
    BY DEF Larger
  <2>3. count \in 0 .. MaxCount
    BY <1>2
  <2> QED BY <1>1, <1>2, <2>1, <2>2, <2>3 DEF UsageTypeOK
<1>5. /\ pc' \in [Requests -> {"idle", "daily", "member", "cli", "events", "users"}]
      /\ job' \in [Requests -> Job] /\ started' = started /\ overtaken' \subseteq Requests
      /\ loose' \subseteq {"rotated", "expired", "overtaken"} /\ pc'[r] = "idle"
  BY <1>1, ReportMoves, WriteMarks DEF End, UsageTypeOK
<1>6. UsageTypeOK'
  BY <1>1, <1>4, <1>5 DEF UsageTypeOK
<1>7. CarriedBy(r)'
  BY <1>5 DEF CarriedBy
<1>8. (\A q \in Requests : CarriedBy(q)') /\ OvertakenKnown' /\ DeletionReachesAll'
  BY <1>1, <1>7, WriteKeeps
<1>9. UsersTraced'
  BY <1>1, WriteMarks DEF UsageInv, UsersTraced, Untraced, Traced
<1>10. CountersConverge'
  BY <1>1, <1>3, <1>4, WriteMarks DEF UsageInv, CountersConverge
<1> QED BY <1>6, <1>8, <1>9, <1>10 DEF UsageInv

\* The telemetry of the command line.
LEMMA WriteCliKeeps == ASSUME UsageInv, NEW r \in Requests, WriteCli(r) PROVE UsageInv'
<1>1. /\ UsageTypeOK /\ pc[r] = "cli" /\ End(r) /\ Written(r)
      /\ UNCHANGED <<key, status, optOut, machines, daily, member, events, users, reported>>
  BY DEF WriteCli, UsageInv, license, counters, analytics
<1>2. /\ pc' \in [Requests -> {"idle", "daily", "member", "cli", "events", "users"}]
      /\ job' \in [Requests -> Job] /\ started' = started /\ overtaken' \subseteq Requests
      /\ loose' \subseteq {"rotated", "expired", "overtaken"} /\ pc'[r] = "idle"
  BY <1>1, ReportMoves, WriteMarks DEF End, UsageTypeOK
<1>3. cli' \in BOOLEAN
  BY DEF WriteCli
<1>4. UsageTypeOK'
  BY <1>1, <1>2, <1>3 DEF UsageTypeOK
<1>5. CarriedBy(r)'
  BY <1>2 DEF CarriedBy
<1>6. (\A q \in Requests : CarriedBy(q)') /\ OvertakenKnown' /\ DeletionReachesAll'
  BY <1>1, <1>5, WriteKeeps
<1>7. UsersTraced' /\ CountersConverge'
  BY <1>1, WriteMarks DEF UsageInv, UsersTraced, Untraced, Traced, CountersConverge
<1> QED BY <1>4, <1>6, <1>7 DEF UsageInv

\* The events, under the key that was presented.
LEMMA WriteEventsKeeps == ASSUME UsageInv, NEW r \in Requests, WriteEvents(r) PROVE UsageInv'
<1> DEFINE event == [id |-> job[r].id, key |-> job[r].key, machine |-> job[r].machine]
<1>1. /\ UsageTypeOK /\ pc[r] = "events" /\ pc' = [pc EXCEPT ![r] = "users"] /\ job' = job
      /\ Goto(r, "events", "users") /\ Written(r)
      /\ UNCHANGED <<key, status, optOut, machines, daily, member, cli, users, reported, started, overtaken>>
      /\ events' = events \cup {event}
  BY DEF WriteEvents, Goto, UsageInv, license, counters
<1>2. job[r].id # 0 /\ ("rotated" \in loose \/ job[r].key = key)
  BY <1>1 DEF UsageInv, CarriedBy
<1>3. event \in Event /\ event.key = job[r].key /\ event.machine = job[r].machine
  <2>1. job[r] \in Job /\ job[r].id # 0
    BY <1>1 DEF UsageInv, UsageTypeOK, CarriedBy
  <2> QED BY <2>1, UsageBounds DEF Job, Event
<1> HIDE DEF event
<1>4. /\ pc' \in [Requests -> {"idle", "daily", "member", "cli", "events", "users"}]
      /\ pc'[r] = "users" /\ loose' \subseteq {"rotated", "expired", "overtaken"}
  BY <1>1, WriteMarks DEF UsageTypeOK
<1>5. UsageTypeOK'
  BY <1>1, <1>3, <1>4 DEF UsageTypeOK
<1>6. ("rotated" \in loose' <=> "rotated" \in loose) /\ (Untraced => Untraced')
  BY <1>1, WriteMarks DEF Untraced
<1>7. CarriedBy(r)'
  <2>1. "rotated" \in loose \/ Traced(job[r].machine)'
    BY <1>1, <1>2, <1>3 DEF Traced
  <2> QED BY <1>1, <1>2, <1>4, <1>6, <2>1 DEF CarriedBy, Untraced
<1>8. (\A q \in Requests : CarriedBy(q)') /\ OvertakenKnown' /\ DeletionReachesAll'
  BY <1>1, <1>7, WriteKeeps
<1>9. UsersTraced'
  BY <1>1, <1>2, <1>3, <1>6 DEF UsageInv, UsersTraced, Traced
<1>10. CountersConverge'
  BY <1>1, WriteMarks DEF UsageInv, CountersConverge
<1> QED BY <1>5, <1>8, <1>9, <1>10 DEF UsageInv

\* The active machine, after its event.
LEMMA WriteUsersKeeps == ASSUME UsageInv, NEW r \in Requests, WriteUsers(r) PROVE UsageInv'
<1>1. /\ UsageTypeOK /\ pc[r] = "users" /\ End(r) /\ Written(r)
      /\ UNCHANGED <<key, status, optOut, machines, daily, member, cli, events, reported>>
      /\ users' = users \cup {job[r].machine}
  BY DEF WriteUsers, UsageInv, license, counters
<1>2. /\ pc' \in [Requests -> {"idle", "daily", "member", "cli", "events", "users"}]
      /\ job' \in [Requests -> Job] /\ started' = started /\ overtaken' \subseteq Requests
      /\ loose' \subseteq {"rotated", "expired", "overtaken"} /\ pc'[r] = "idle"
  BY <1>1, ReportMoves, WriteMarks DEF End, UsageTypeOK
<1>3. job[r].machine \in Machines
  BY DEF UsageInv, UsageTypeOK, Job
<1>4. UsageTypeOK'
  BY <1>1, <1>2, <1>3 DEF UsageTypeOK
<1>5. CarriedBy(r)'
  BY <1>2 DEF CarriedBy
<1>6. (\A q \in Requests : CarriedBy(q)') /\ OvertakenKnown' /\ DeletionReachesAll'
  BY <1>1, <1>5, WriteKeeps
<1>7. /\ ("rotated" \in loose' <=> "rotated" \in loose) /\ (Untraced => Untraced')
      /\ r \in overtaken => Untraced'
  BY <1>1, WriteMarks DEF Untraced
<1>8. UsersTraced'
  BY <1>1, <1>7 DEF UsageInv, CarriedBy, UsersTraced, Traced
<1>9. CountersConverge'
  BY <1>1, WriteMarks DEF UsageInv, CountersConverge
<1> QED BY <1>4, <1>6, <1>8, <1>9 DEF UsageInv

\* A report that starts, and one that is lost.
LEMMA ReportKeeps ==
    ASSUME UsageInv, NEW r \in Requests,
           \/ DropReport(r)
           \/ \E m \in Machines, count \in 1 .. MaxCount,
                 next \in {"daily", "cli", "events"} : ReadPolicy(r, m, count, next)
    PROVE  UsageInv'
<1>1. UsageTypeOK
  BY DEF UsageInv
<1>2. CASE DropReport(r)
  <2>1. /\ End(r) /\ UNCHANGED <<key, status, optOut, machines, daily, member, cli, events, users>>
        /\ UNCHANGED <<reported, loose>>
    BY <1>2 DEF DropReport, license, tables, counters, analytics
  <2>2. /\ pc' \in [Requests -> {"idle", "daily", "member", "cli", "events", "users"}]
        /\ job' \in [Requests -> Job] /\ started' = started /\ overtaken' \subseteq Requests
        /\ pc'[r] = "idle"
        /\ \A q \in Requests : q # r => /\ pc'[q] = pc[q] /\ job'[q] = job[q]
                                        /\ (q \in overtaken' <=> q \in overtaken)
    BY <1>1, <2>1, ReportMoves DEF End, UsageTypeOK
  <2>3. UsageTypeOK'
    BY <1>1, <2>1, <2>2 DEF UsageTypeOK
  <2>4. \A q \in Requests : CarriedBy(q)'
    BY <2>1, <2>2 DEF UsageInv, CarriedBy, Untraced, Traced
  <2>5. UsersTraced' /\ OvertakenKnown' /\ CountersConverge' /\ DeletionReachesAll'
    BY <2>1, <2>2 DEF UsageInv, UsersTraced, OvertakenKnown, Stopped, CountersConverge,
                      DeletionReachesAll, Untraced, Traced
  <2> QED BY <2>3, <2>4, <2>5 DEF UsageInv
<1>3. ASSUME NEW m \in Machines, NEW count \in 1 .. MaxCount,
             NEW next \in {"daily", "cli", "events"}, ReadPolicy(r, m, count, next)
      PROVE  UsageInv'
  <2> DEFINE new == [id |-> started + 1, machine |-> m, count |-> count, key |-> key]
  <2>1. /\ Allowed /\ started < MaxReports /\ started' = started + 1
        /\ pc' = [pc EXCEPT ![r] = next] /\ job' = [job EXCEPT ![r] = new]
        /\ UNCHANGED <<key, status, optOut, machines, daily, member, cli, events, users>>
        /\ UNCHANGED <<reported, overtaken, loose>>
    BY <1>3 DEF ReadPolicy, license, tables, counters, analytics
  <2>2. started \in 0 .. MaxReports /\ started' \in 0 .. MaxReports /\ key \in 1 .. MaxKeys
    BY <1>1, <2>1, UsageBounds DEF UsageTypeOK
  <2>3. new \in Job /\ new.key = key /\ new.id # 0
    BY <2>1, <2>2, UsageBounds DEF Job
  <2> HIDE DEF new
  <2>4. /\ pc' \in [Requests -> {"idle", "daily", "member", "cli", "events", "users"}]
        /\ job' \in [Requests -> Job]
        /\ \A q \in Requests : /\ pc'[q] = IF q = r THEN next ELSE pc[q]
                               /\ job'[q] = IF q = r THEN new ELSE job[q]
    BY <1>1, <2>1, <2>3 DEF UsageTypeOK
  <2>5. UsageTypeOK'
    BY <1>1, <2>1, <2>2, <2>4 DEF UsageTypeOK
  <2>6. \A q \in Requests : CarriedBy(q)'
    BY <2>1, <2>3, <2>4 DEF UsageInv, CarriedBy, Untraced, Traced
  <2>7. UsersTraced' /\ OvertakenKnown' /\ CountersConverge' /\ DeletionReachesAll'
    BY <2>1 DEF UsageInv, UsersTraced, OvertakenKnown, Stopped, Allowed, CountersConverge,
                DeletionReachesAll, Untraced, Traced
  <2> QED BY <2>5, <2>6, <2>7 DEF UsageInv
<1> QED BY <1>2, <1>3

(***************************************************************************)
(* The customer, the licence and retention.                                *)
(***************************************************************************)

\* Machines, keys and expired events: the histories say which trace is lost.
LEMMA LicenseKeeps ==
    ASSUME UsageInv, \/ RegenerateLicense
                     \/ \E m \in Machines : RegisterMachine(m)
                     \/ \E e \in events : ExpireEvent(e)
    PROVE  UsageInv'
<1> USE DEF license, tables, counters, analytics, requests
<1>1. CASE RegenerateLicense
  <2>1. /\ UNCHANGED <<status, optOut, machines, daily, member, cli, events, users>>
        /\ UNCHANGED <<started, pc, job, reported, overtaken>>
        /\ status = "active" /\ key < MaxKeys /\ key' = key + 1 /\ loose' = loose \cup {"rotated"}
    BY <1>1 DEF RegenerateLicense
  <2>2. UsageTypeOK'
    BY <2>1, UsageBounds DEF UsageInv, UsageTypeOK
  <2>3. (\A q \in Requests : CarriedBy(q)') /\ UsersTraced'
    BY <2>1 DEF UsageInv, CarriedBy, UsersTraced, Untraced
  <2>4. OvertakenKnown' /\ CountersConverge' /\ DeletionReachesAll'
    BY <2>1 DEF UsageInv, OvertakenKnown, Stopped, CountersConverge, DeletionReachesAll
  <2> QED BY <2>2, <2>3, <2>4 DEF UsageInv
<1>2. ASSUME NEW m \in Machines, RegisterMachine(m) PROVE UsageInv'
  <2>1. /\ UNCHANGED <<key, status, optOut, daily, member, cli, events, users>>
        /\ UNCHANGED <<started, pc, job, reported, overtaken, loose>>
        /\ machines' = machines \cup {m}
    BY <1>2 DEF RegisterMachine
  <2>2. UsageTypeOK'
    BY <2>1 DEF UsageInv, UsageTypeOK
  <2>3. (\A q \in Requests : CarriedBy(q)') /\ UsersTraced'
    BY <2>1 DEF UsageInv, CarriedBy, UsersTraced, Untraced, Traced
  <2>4. OvertakenKnown' /\ CountersConverge' /\ DeletionReachesAll'
    BY <2>1 DEF UsageInv, OvertakenKnown, Stopped, CountersConverge, DeletionReachesAll
  <2> QED BY <2>2, <2>3, <2>4 DEF UsageInv
<1>3. ASSUME NEW e \in events, ExpireEvent(e) PROVE UsageInv'
  <2>1. /\ UNCHANGED <<key, status, optOut, machines, daily, member, cli, users>>
        /\ UNCHANGED <<started, pc, job, reported, overtaken>>
        /\ events' = events \ {e} /\ loose' = loose \cup {"expired"}
    BY <1>3 DEF ExpireEvent
  <2>2. UsageTypeOK'
    BY <2>1 DEF UsageInv, UsageTypeOK
  <2>3. (\A q \in Requests : CarriedBy(q)') /\ UsersTraced'
    BY <2>1 DEF UsageInv, CarriedBy, UsersTraced, Untraced
  <2>4. OvertakenKnown' /\ CountersConverge' /\ DeletionReachesAll'
    BY <2>1 DEF UsageInv, OvertakenKnown, Stopped, CountersConverge, DeletionReachesAll
  <2> QED BY <2>2, <2>3, <2>4 DEF UsageInv
<1> QED BY <1>1, <1>2, <1>3

\* The end of collection marks the requests that run past it.
LEMMA CustomerKeeps ==
    ASSUME UsageInv, OptOut \/ ChangeStatus \/ DeleteMyData
    PROVE  UsageInv'
<1> USE DEF license, tables, counters, analytics, requests
<1>1. InFlight \subseteq Requests /\ \A q \in Requests : pc[q] # "idle" => q \in InFlight
  BY DEF InFlight
<1>2. CASE OptOut \/ ChangeStatus
  <2>1. /\ UNCHANGED <<key, machines, daily, member, cli, events, users>>
        /\ UNCHANGED <<started, pc, job, reported, loose>>
    BY <1>2 DEF OptOut, ChangeStatus
  <2>2. /\ optOut' \in BOOLEAN
        /\ status' \in {"active", "suspended"} \/ status' = status
        /\ status' \in {"active", "suspended", "deleted_by_user"}
    <3>1. CASE OptOut
      BY <3>1 DEF OptOut, UsageInv, UsageTypeOK
    <3>2. CASE ChangeStatus
      BY <3>2 DEF ChangeStatus, UsageInv, UsageTypeOK
    <3> QED BY <1>2, <3>1, <3>2
  <2>3. /\ overtaken' = overtaken \/ overtaken' = overtaken \cup InFlight
        /\ overtaken \subseteq overtaken'
        /\ Stopped' => Stopped \/ overtaken' = overtaken \cup InFlight
    <3>1. CASE OptOut
      BY <3>1 DEF OptOut, Stopped
    <3>2. CASE ChangeStatus
      BY <3>2 DEF ChangeStatus, Stopped
    <3> QED BY <1>2, <3>1, <3>2
  <2>4. UsageTypeOK'
    BY <1>1, <2>1, <2>2, <2>3 DEF UsageInv, UsageTypeOK
  <2>5. (\A q \in Requests : CarriedBy(q)') /\ UsersTraced'
    BY <2>1, <2>2, <2>3 DEF UsageInv, CarriedBy, UsersTraced, Untraced, Traced
  <2>6. OvertakenKnown'
    BY <1>1, <2>1, <2>3 DEF UsageInv, OvertakenKnown
  <2>7. CountersConverge' /\ DeletionReachesAll'
    BY <2>1, <2>2 DEF UsageInv, CountersConverge, DeletionReachesAll
  <2> QED BY <2>4, <2>5, <2>6, <2>7 DEF UsageInv
<1>3. CASE DeleteMyData
  <2>1. /\ UNCHANGED <<key, optOut, started, pc, job, loose>> /\ reported' = {}
        /\ status # "deleted_by_user" /\ status' = "deleted_by_user"
        /\ machines' = {} /\ cli' = FALSE /\ daily' = 0 /\ member' = [m \in Machines |-> 0]
        /\ events' = events \ EventsOf(events) /\ users' = users \ Found(events)
        /\ overtaken' = overtaken \cup InFlight
    BY <1>3 DEF DeleteMyData, Deleted
  <2>2. UsageTypeOK'
    <3>1. 0 \in 0 .. MaxCount
      BY UsageBounds
    <3>2. member' \in [Machines -> 0 .. MaxCount] /\ cli' \in BOOLEAN
      BY <2>1, <3>1
    <3> QED BY <1>1, <2>1, <3>1, <3>2 DEF UsageInv, UsageTypeOK
  <2>3. \A q \in Requests : CarriedBy(q)'
    BY <1>1, <2>1 DEF UsageInv, CarriedBy
  <2>4. OvertakenKnown' /\ CountersConverge'
    BY <1>1, <2>1 DEF OvertakenKnown, CountersConverge
  <2>5. loose = {} => events' = {} /\ users' = {}
    <3> SUFFICES ASSUME loose = {} PROVE events' = {} /\ users' = {}
      OBVIOUS
    <3>1. /\ \A e \in events : e.key = key
          /\ \A m \in users : \E e \in events : e.key = key /\ e.machine = m
      BY DEF UsageInv, UsersTraced, Untraced, Traced
    <3> QED BY <2>1, <3>1 DEF EventsOf, Found
  <2>6. UsersTraced' /\ DeletionReachesAll'
    BY <2>1, <2>5 DEF UsageInv, UsersTraced, Untraced, DeletionReachesAll
  <2> QED BY <2>2, <2>3, <2>4, <2>6 DEF UsageInv
<1> QED BY <1>2, <1>3

\* Every step keeps the invariant.
LEMMA StepUsage == UsageInv /\ [UsageNext]_usageVars => UsageInv'
<1> SUFFICES ASSUME UsageInv, [UsageNext]_usageVars PROVE UsageInv'
  OBVIOUS
<1>1. CASE UNCHANGED usageVars
  BY <1>1 DEF usageVars, license, tables, counters, analytics, requests, UsageInv, UsageTypeOK,
     CarriedBy, UsersTraced, OvertakenKnown, Stopped, CountersConverge, DeletionReachesAll,
     Untraced, Traced
<1>2. ASSUME NEW r \in Requests,
             \/ \E m \in Machines, count \in 1 .. MaxCount : ReadPolicy(r, m, count, "daily")
             \/ \E m \in Machines, next \in {"cli", "events"} : ReadPolicy(r, m, 1, next)
      PROVE  UsageInv'
  <2>1. 1 \in 1 .. MaxCount
    BY UsageBounds
  <2> QED BY <1>2, <2>1, ReportKeeps
<1>3. ASSUME NEW r \in Requests, \/ WriteDaily(r) \/ WriteMember(r) \/ WriteCli(r)
                                 \/ WriteEvents(r) \/ WriteUsers(r) \/ DropReport(r)
      PROVE  UsageInv'
  BY <1>3, WriteDailyKeeps, WriteMemberKeeps, WriteCliKeeps, WriteEventsKeeps, WriteUsersKeeps,
     ReportKeeps
<1> QED BY <1>1, <1>2, <1>3, LicenseKeeps, CustomerKeeps DEF UsageNext

\* What the command line reports always satisfies the invariant.
THEOREM UsageInvariant == UsageSpec => []UsageInv
  BY InitUsage, StepUsage, PTL DEF UsageSpec

\* The day's counter is the largest one reported.
THEOREM CountersAreReported == UsageSpec => []CountersConverge
<1>1. UsageInv => CountersConverge
  BY DEF UsageInv
<1> QED BY <1>1, UsageInvariant, PTL

\* A deletion reaches every row that its own tables still lead to.
THEOREM DeletionComplete == UsageSpec => []DeletionReachesAll
<1>1. UsageInv => DeletionReachesAll
  BY DEF UsageInv
<1> QED BY <1>1, UsageInvariant, PTL

\* Only a request that is under way adds to a table.
LEMMA CollectedByRequest ==
    ASSUME UsageInv, UsageNext, Collects
    PROVE  \E r \in Requests : pc[r] # "idle" /\ pc'[r] # pc[r]
<1> USE DEF license, tables, counters, analytics, requests
<1>1. ASSUME RegenerateLicense \/ OptOut \/ ChangeStatus PROVE FALSE
  <2>1. UNCHANGED <<daily, member, cli, events, users>>
    BY <1>1 DEF RegenerateLicense, OptOut, ChangeStatus
  <2> QED BY <2>1 DEF Collects, UsageInv, UsageTypeOK
<1>2. ASSUME DeleteMyData PROVE FALSE
  <2>1. daily' = 0 /\ (\A m \in Machines : member'[m] = 0) /\ ~cli'
        /\ events' \subseteq events /\ users' \subseteq users
    BY <1>2 DEF DeleteMyData, Deleted
  <2> QED BY <2>1 DEF Collects, UsageInv, UsageTypeOK
<1>3. ASSUME NEW m \in Machines, RegisterMachine(m) PROVE FALSE
  <2>1. UNCHANGED <<daily, member, cli, events, users>>
    BY <1>3 DEF RegisterMachine
  <2> QED BY <2>1 DEF Collects, UsageInv, UsageTypeOK
<1>4. ASSUME NEW e \in events, ExpireEvent(e) PROVE FALSE
  <2>1. UNCHANGED <<daily, member, cli, users>> /\ events' \subseteq events
    BY <1>4 DEF ExpireEvent
  <2> QED BY <2>1 DEF Collects, UsageInv, UsageTypeOK
<1>5. ASSUME NEW r \in Requests, NEW m, NEW count, NEW next, ReadPolicy(r, m, count, next)
      PROVE  FALSE
  <2>1. UNCHANGED <<daily, member, cli, events, users>>
    BY <1>5 DEF ReadPolicy
  <2> QED BY <2>1 DEF Collects, UsageInv, UsageTypeOK
<1>6. ASSUME NEW r \in Requests, \/ WriteDaily(r) \/ WriteMember(r) \/ WriteCli(r)
                                 \/ WriteEvents(r) \/ WriteUsers(r) \/ DropReport(r)
      PROVE  pc[r] # "idle" /\ pc'[r] # pc[r]
  <2>1. pc \in [Requests -> {"idle", "daily", "member", "cli", "events", "users"}]
    BY DEF UsageInv, UsageTypeOK
  <2> QED BY <1>6, <2>1 DEF WriteDaily, WriteMember, WriteCli, WriteEvents, WriteUsers, DropReport,
                            Goto, End
<1> QED BY <1>1, <1>2, <1>3, <1>4, <1>5, <1>6 DEF UsageNext

\* After an opt-out, a suspension or a deletion only overtaken requests collect.
THEOREM NoLateCollection == UsageSpec => CollectionStops
<1>1. UsageInv /\ [UsageNext]_usageVars =>
        [((status # "active" \/ optOut) /\ Collects) => \E r \in overtaken : pc'[r] # pc[r]]_usageVars
  BY CollectedByRequest DEF UsageInv, OvertakenKnown, Stopped
<1> QED BY <1>1, UsageInvariant, PTL DEF UsageSpec, CollectionStops

-----------------------------------------------------------------------------
(***************************************************************************)
(* SiteAnalytics: sequences of events, and their types.                    *)
(***************************************************************************)
Steps == {"none", "sent", "salt", "select", "store", "stored", "refused"}

\* The lengths a batch can have: a queue and one event more.
Fits(moved) == Len(moved) <= MaxRetryQueue + 1 \/ Len(moved) <= MaxBatch

\* The events of a sequence.
LEMMA EventsOf1 ==
    ASSUME NEW s \in Seq(EventIds)
    PROVE  /\ Len(s) \in Nat
           /\ \A e : e \in ToSet(s) <=> \E i \in 1 .. Len(s) : s[i] = e
           /\ ToSet(s) \subseteq EventIds
  BY LenProperties, ElementOfSeq DEF ToSet

\* No events.
LEMMA NoEvents == <<>> \in Seq(EventIds) /\ Len(<<>>) = 0 /\ ToSet(<<>>) = {}
<1>1. <<>> \in Seq(EventIds) /\ Len(<<>>) = 0
  BY EmptySeq
<1>2. \A e : e \in ToSet(<<>>) <=> \E i \in 1 .. Len(<<>>) : <<>>[i] = e
  BY <1>1, EventsOf1
<1>3. \A e : e \notin ToSet(<<>>)
  <2>1. \A i : i \notin 1 .. 0
    OBVIOUS
  <2> QED BY <1>1, <1>2, <2>1
<1> QED BY <1>1, <1>3

\* One event more.
LEMMA OneMore ==
    ASSUME NEW s \in Seq(EventIds), NEW e \in EventIds
    PROVE  /\ Append(s, e) \in Seq(EventIds) /\ Append(s, e) # <<>>
           /\ Len(Append(s, e)) = Len(s) + 1
           /\ ToSet(Append(s, e)) = ToSet(s) \cup {e}
<1>1. /\ Append(s, e) \in Seq(EventIds) /\ Append(s, e) # <<>>
      /\ Len(Append(s, e)) = Len(s) + 1
      /\ \A i \in 1 .. Len(s) : Append(s, e)[i] = s[i]
      /\ Append(s, e)[Len(s) + 1] = e
  BY AppendProperties
<1>2. Len(s) \in Nat
  BY EventsOf1
<1>3. \A x : x \in ToSet(Append(s, e)) <=> x \in ToSet(s) \/ x = e
  <2> SUFFICES ASSUME NEW x PROVE x \in ToSet(Append(s, e)) <=> x \in ToSet(s) \/ x = e
    OBVIOUS
  <2>1. x \in ToSet(s) <=> \E i \in 1 .. Len(s) : s[i] = x
    BY EventsOf1
  <2>2. x \in ToSet(Append(s, e)) <=> \E i \in 1 .. Len(s) + 1 : Append(s, e)[i] = x
    BY <1>1, EventsOf1
  <2> QED BY <1>1, <1>2, <2>1, <2>2
<1> QED BY <1>1, <1>3

\* What is restored is queued again or cut off.
LEMMA RestoreSplits ==
    ASSUME SiteTypeOK, NEW b \in Batches, Restore(b)
    PROVE  /\ queue' \in Seq(EventIds) /\ Len(queue') <= MaxRetryQueue
           /\ dropped' \subseteq EventIds /\ dropped \subseteq dropped'
           /\ ToSet(queue') \subseteq ToSet(batch[b]) \cup ToSet(queue)
           /\ ToSet(batch[b]) \cup ToSet(queue) \subseteq ToSet(queue') \cup dropped'
<1> DEFINE restored == Restored(batch[b])
           kept   == IF Len(restored) < MaxRetryQueue THEN Len(restored) ELSE MaxRetryQueue
<1>1. batch[b] \in Seq(EventIds) /\ queue \in Seq(EventIds)
  BY DEF SiteTypeOK
<1>2. /\ restored \in Seq(EventIds) /\ Len(restored) = Len(batch[b]) + Len(queue)
      /\ \A i \in 1 .. Len(batch[b]) + Len(queue) :
             restored[i] = IF i <= Len(batch[b]) THEN batch[b][i] ELSE queue[i - Len(batch[b])]
  BY <1>1, ConcatProperties DEF Restored
<1>3. Len(batch[b]) \in Nat /\ Len(queue) \in Nat /\ Len(restored) \in Nat
  BY <1>1, <1>2, EventsOf1
<1>4. /\ queue' = SubSeq(restored, 1, kept)
      /\ dropped' = dropped \cup {restored[k] : k \in MaxRetryQueue + 1 .. Len(restored)}
  BY DEF Restore
<1>5. \A x : x \in ToSet(restored) <=> x \in ToSet(batch[b]) \cup ToSet(queue)
  <2> SUFFICES ASSUME NEW x PROVE x \in ToSet(restored) <=> x \in ToSet(batch[b]) \/ x \in ToSet(queue)
    OBVIOUS
  <2>1. x \in ToSet(restored) <=> \E i \in 1 .. Len(restored) : restored[i] = x
    BY <1>2, EventsOf1
  <2>2. x \in ToSet(batch[b]) <=> \E i \in 1 .. Len(batch[b]) : batch[b][i] = x
    BY <1>1, EventsOf1
  <2>3. x \in ToSet(queue) <=> \E i \in 1 .. Len(queue) : queue[i] = x
    BY <1>1, EventsOf1
  <2>4. ASSUME x \in ToSet(restored) PROVE x \in ToSet(batch[b]) \/ x \in ToSet(queue)
    <3>1. PICK i \in 1 .. Len(restored) : restored[i] = x
      BY <2>1, <2>4
    <3>2. CASE i <= Len(batch[b])
      BY <1>2, <1>3, <2>2, <3>1, <3>2
    <3>3. CASE i > Len(batch[b])
      <4>1. Len(restored) = Len(batch[b]) + Len(queue)
        BY <1>2
      <4>2. i \in Nat /\ i <= Len(batch[b]) + Len(queue) /\ i - Len(batch[b]) \in 1 .. Len(queue)
        BY <1>3, <3>3, <4>1
      <4>3. queue[i - Len(batch[b])] = x
        BY <1>2, <1>3, <3>1, <3>3, <4>1
      <4> QED BY <2>3, <4>2, <4>3
    <3> QED BY <1>3, <3>2, <3>3
  <2>5. ASSUME x \in ToSet(batch[b]) PROVE x \in ToSet(restored)
    <3>1. PICK i \in 1 .. Len(batch[b]) : batch[b][i] = x
      BY <2>2, <2>5
    <3>2. i \in 1 .. Len(restored) /\ restored[i] = x
      BY <1>2, <1>3, <3>1
    <3> QED BY <2>1, <3>2
  <2>6. ASSUME x \in ToSet(queue) PROVE x \in ToSet(restored)
    <3>1. PICK i \in 1 .. Len(queue) : queue[i] = x
      BY <2>3, <2>6
    <3>2. Len(restored) = Len(batch[b]) + Len(queue)
      BY <1>2
    <3>3. /\ i + Len(batch[b]) \in 1 .. Len(restored) /\ ~(i + Len(batch[b]) <= Len(batch[b]))
          /\ (i + Len(batch[b])) - Len(batch[b]) = i
      BY <1>3, <3>2
    <3>4. restored[i + Len(batch[b])] = x
      BY <1>2, <3>1, <3>2, <3>3
    <3> QED BY <2>1, <3>3, <3>4
  <2> QED BY <2>4, <2>5, <2>6
<1> HIDE DEF restored
<1>6. /\ kept \in Nat /\ kept <= Len(restored) /\ kept <= MaxRetryQueue
      /\ \A k \in 1 .. Len(restored) : k <= kept \/ k \in MaxRetryQueue + 1 .. Len(restored)
  BY <1>3, SizesAssumption
<1> HIDE DEF kept
<1>7. \A k \in 1 .. Len(restored) : restored[k] \in EventIds
  BY <1>2, ElementOfSeq
<1>8. /\ queue' \in Seq(EventIds) /\ Len(queue') = kept
      /\ \A i \in 1 .. kept : queue'[i] = restored[i]
  <2>1. \A i \in 1 .. kept : restored[i] \in EventIds
    BY <1>3, <1>6, <1>7
  <2>2. /\ SubSeq(restored, 1, kept) \in Seq(EventIds)
        /\ Len(SubSeq(restored, 1, kept)) = IF 1 <= kept THEN kept - 1 + 1 ELSE 0
        /\ \A i \in 1 .. kept - 1 + 1 : SubSeq(restored, 1, kept)[i] = restored[1 + i - 1]
    BY <1>6, <2>1, SubSeqProperties
  <2> QED BY <1>4, <1>6, <2>2
<1>9. dropped' \subseteq EventIds /\ dropped \subseteq dropped'
  BY <1>3, <1>4, <1>7, SizesAssumption DEF SiteTypeOK
<1>10. \A x \in ToSet(queue') : x \in ToSet(restored)
  <2> SUFFICES ASSUME NEW x \in ToSet(queue') PROVE x \in ToSet(restored)
    OBVIOUS
  <2>1. PICK i \in 1 .. kept : queue'[i] = x
    BY <1>8, EventsOf1
  <2>2. i \in 1 .. Len(restored) /\ restored[i] = x
    BY <1>3, <1>6, <1>8, <2>1
  <2> QED BY <1>2, <2>2, EventsOf1
<1>11. \A x \in ToSet(restored) : x \in ToSet(queue') \cup dropped'
  <2> SUFFICES ASSUME NEW x \in ToSet(restored) PROVE x \in ToSet(queue') \cup dropped'
    OBVIOUS
  <2>1. PICK i \in 1 .. Len(restored) : restored[i] = x
    BY <1>2, EventsOf1
  <2>2. CASE i <= kept
    <3>1. i \in 1 .. Len(queue') /\ queue'[i] = x
      BY <1>3, <1>6, <1>8, <2>1, <2>2
    <3> QED BY <1>8, <3>1, EventsOf1
  <2>3. CASE i \in MaxRetryQueue + 1 .. Len(restored)
    BY <1>4, <2>1, <2>3
  <2> QED BY <1>6, <2>2, <2>3
<1> QED BY <1>5, <1>6, <1>8, <1>9, <1>10, <1>11

\* A flush sends all of the restored it finds in one free batch, or none.
LEMMA FlushSends ==
    ASSUME SiteTypeOK, NEW moved \in Seq(EventIds), Fits(moved), Flush(moved)
    PROVE  /\ queue' = <<>> /\ batch' \in [Batches -> Seq(EventIds)]
           /\ dropped' = (IF signal THEN dropped \cup ToSet(moved) ELSE dropped)
           /\ dropped' \subseteq EventIds
           /\ \A b \in Batches : Fits(batch'[b])
           /\ waiting' \in [Batches -> BOOLEAN] /\ step' \in [Batches -> Steps]
           /\ \/ (signal \/ moved = <<>>) /\ UNCHANGED <<batch, waiting, step>>
              \/ \E b \in Batches :
                    /\ ~signal /\ Free(b)
                    /\ batch'[b] = moved /\ waiting'[b] /\ step'[b] = "sent"
                    /\ \A c \in Batches : c # b => /\ batch'[c] = batch[c] /\ waiting'[c] = waiting[c]
                                                   /\ step'[c] = step[c]
<1>0. /\ dropped' = (IF signal THEN dropped \cup ToSet(moved) ELSE dropped)
      /\ dropped' \subseteq EventIds
  BY EventsOf1 DEF Flush, SiteTypeOK
<1>1. CASE (signal \/ moved = <<>>) /\ UNCHANGED <<batch, waiting, step>>
  BY <1>0, <1>1 DEF Flush, SiteTypeOK, Fits, Steps
<1>2. ASSUME NEW b \in Batches, ~signal, moved # <<>>, Free(b),
             batch' = [batch EXCEPT ![b] = moved], waiting' = [waiting EXCEPT ![b] = TRUE],
             step' = [step EXCEPT ![b] = "sent"]
      PROVE  /\ batch' \in [Batches -> Seq(EventIds)] /\ \A c \in Batches : Fits(batch'[c])
             /\ waiting' \in [Batches -> BOOLEAN] /\ step' \in [Batches -> Steps]
             /\ batch'[b] = moved /\ waiting'[b] /\ step'[b] = "sent"
             /\ \A c \in Batches : c # b => /\ batch'[c] = batch[c] /\ waiting'[c] = waiting[c]
                                            /\ step'[c] = step[c]
  <2>1. /\ batch' \in [Batches -> Seq(EventIds)]
        /\ \A c \in Batches : batch'[c] = IF c = b THEN moved ELSE batch[c]
    BY <1>2 DEF SiteTypeOK
  <2>2. /\ waiting' \in [Batches -> BOOLEAN]
        /\ \A c \in Batches : waiting'[c] = IF c = b THEN TRUE ELSE waiting[c]
    BY <1>2 DEF SiteTypeOK
  <2>3. /\ step' \in [Batches -> Steps]
        /\ \A c \in Batches : step'[c] = IF c = b THEN "sent" ELSE step[c]
    BY <1>2 DEF SiteTypeOK, Steps
  <2> QED BY <2>1, <2>2, <2>3 DEF SiteTypeOK, Fits
<1> QED BY <1>0, <1>1, <1>2 DEF Flush

\* What a worker's step does to the steps.
LEMMA AdvanceMoves ==
    ASSUME SiteTypeOK, NEW b \in Batches, NEW from, NEW to \in Steps, Advance(b, from, to)
    PROVE  /\ step[b] = from /\ step' \in [Batches -> Steps]
           /\ \A c \in Batches : step'[c] = IF c = b THEN to ELSE step[c]
  BY DEF Advance, SiteTypeOK, Steps

\* What the page does by itself: it queues an event, flushes, or both.
LEMMA PageFlushes ==
    ASSUME SiteTypeOK, QueueEvent \/ TimerFires \/ PageExit
    PROVE  /\ UNCHANGED <<signal, orphaned, day, visitor, store, unsure, failures>>
           /\ timer' \in BOOLEAN /\ emitted' \in 0 .. MaxEmitted /\ emitted <= emitted'
           /\ \E moved \in Seq(EventIds) :
                 /\ Fits(moved)
                 /\ \A e \in EventIds :
                       e \in ToSet(moved) <=> e \in ToSet(queue) \/ e \in emitted + 1 .. emitted'
                 /\ \/ Flush(moved)
                    \/ /\ queue' = moved /\ Len(moved) < MaxBatch
                       /\ UNCHANGED <<batch, waiting, step, dropped>>
<1>1. /\ queue \in Seq(EventIds) /\ Len(queue) \in Nat /\ emitted \in 0 .. MaxEmitted
      /\ Len(queue) <= MaxRetryQueue \/ Len(queue) < MaxBatch
      /\ timer \in BOOLEAN
  BY EventsOf1 DEF SiteTypeOK
<1>2. CASE QueueEvent
  <2> DEFINE moved == Append(queue, emitted + 1)
  <2>1. /\ UNCHANGED <<signal, orphaned, day, visitor, store, unsure, failures>>
        /\ emitted < MaxEmitted /\ emitted' = emitted + 1
        /\ \/ Len(moved) >= MaxBatch /\ Flush(moved) /\ UNCHANGED timer
           \/ /\ ~(Len(moved) >= MaxBatch)
              /\ queue' = moved /\ timer' = TRUE /\ UNCHANGED <<batch, waiting, step, dropped>>
    BY <1>2 DEF QueueEvent
  <2>2. emitted + 1 \in EventIds
    BY <1>1, <2>1, SiteBounds DEF EventIds
  <2>3. /\ moved \in Seq(EventIds) /\ Len(moved) = Len(queue) + 1
        /\ ToSet(moved) = ToSet(queue) \cup {emitted + 1}
    BY <1>1, <2>2, OneMore
  <2> HIDE DEF moved
  <2>4. Fits(moved) /\ (Len(moved) >= MaxBatch \/ Len(moved) < MaxBatch)
    BY <1>1, <2>3, SizesAssumption DEF Fits
  <2>5. emitted' \in 0 .. MaxEmitted /\ emitted <= emitted' /\ emitted + 1 .. emitted' = {emitted + 1}
    BY <1>1, <2>1, SiteBounds
  <2>6. timer' \in BOOLEAN
    BY <1>1, <2>1
  <2> QED BY <2>1, <2>3, <2>4, <2>5, <2>6
<1>3. CASE TimerFires \/ PageExit
  <2>1. /\ UNCHANGED <<signal, emitted, orphaned, day, visitor, store, unsure, failures>>
        /\ Flush(queue)
    BY <1>3 DEF TimerFires, PageExit
  <2>2. timer' \in BOOLEAN
    BY <1>1, <1>3 DEF TimerFires, PageExit
  <2>3. Fits(queue)
    BY <1>1, SizesAssumption DEF Fits
  <2>4. emitted' \in 0 .. MaxEmitted /\ emitted <= emitted' /\ \A e : e \notin emitted + 1 .. emitted'
    BY <1>1, <2>1, SiteBounds
  <2> QED BY <1>1, <2>1, <2>2, <2>3, <2>4
<1> QED BY <1>2, <1>3

\* What an answer does: the batch is forgotten, restored first if it failed.
LEMMA AnswerEffect ==
    ASSUME SiteTypeOK, NEW b \in Batches, AnswerArrives(b)
    PROVE  /\ UNCHANGED <<timer, signal, emitted, store, unsure, failures>>
           /\ step[b] \in {"stored", "refused"}
           /\ batch' \in [Batches -> Seq(EventIds)] /\ waiting' \in [Batches -> BOOLEAN]
           /\ step' \in [Batches -> Steps] /\ day' \in [Batches -> SiteDays]
           /\ visitor' \in [Batches -> Salt]
           /\ batch'[b] = <<>> /\ ~waiting'[b] /\ step'[b] = "none"
           /\ \A c \in Batches \ {b} :
                 /\ batch'[c] = batch[c] /\ waiting'[c] = waiting[c]
                 /\ step'[c] = step[c] /\ day'[c] = day[c] /\ visitor'[c] = visitor[c]
           /\ \/ waiting[b] /\ step[b] = "refused" /\ Restore(b)
              \/ (~waiting[b] \/ step[b] = "stored") /\ Unheard(b)
           /\ orphaned' = orphaned \ {b}
<1>1. 0 \in SiteDays /\ NoSalt \in Salt
  BY SiteBounds DEF SiteDays, Salt, NoSalt
<1>2. /\ UNCHANGED <<timer, signal, emitted, store, unsure, failures>>
      /\ step[b] \in {"stored", "refused"}
      /\ \/ waiting[b] /\ step[b] = "refused" /\ Restore(b)
         \/ (~waiting[b] \/ step[b] = "stored") /\ Unheard(b)
      /\ orphaned' = orphaned \ {b}
  BY DEF AnswerArrives, Accepted
<1>3. /\ batch' \in [Batches -> Seq(EventIds)]
      /\ \A c \in Batches : batch'[c] = IF c = b THEN <<>> ELSE batch[c]
  BY NoEvents DEF AnswerArrives, Forget, SiteTypeOK
<1>4. /\ waiting' \in [Batches -> BOOLEAN]
      /\ \A c \in Batches : waiting'[c] = IF c = b THEN FALSE ELSE waiting[c]
  BY DEF AnswerArrives, SiteTypeOK
<1>5. /\ step' \in [Batches -> Steps]
      /\ \A c \in Batches : step'[c] = IF c = b THEN "none" ELSE step[c]
  BY DEF AnswerArrives, Forget, SiteTypeOK, Steps
<1>6. /\ day' \in [Batches -> SiteDays]
      /\ \A c \in Batches : day'[c] = IF c = b THEN 0 ELSE day[c]
  BY <1>1 DEF AnswerArrives, Forget, SiteTypeOK
<1>7. /\ visitor' \in [Batches -> Salt]
      /\ \A c \in Batches : visitor'[c] = IF c = b THEN NoSalt ELSE visitor[c]
  BY <1>1 DEF AnswerArrives, Forget, SiteTypeOK
<1> QED BY <1>2, <1>3, <1>4, <1>5, <1>6, <1>7

(***************************************************************************)
(* Where the events are.  A batch keeps its events until its answer, so an *)
(* event nobody is unsure of is in one place: queued, in one batch, or     *)
(* stored.                                                                 *)
(***************************************************************************)
Numbered ==
    \A e \in EventIds : e > emitted => /\ copies[e] = 0 /\ e \notin ToSet(queue)
                                       /\ \A b \in Batches : e \notin ToSet(batch[b])

GivenUp ==
    \A b \in Batches : IF waiting[b] \/ b \in orphaned THEN step[b] # "none"
                       ELSE ToSet(batch[b]) \subseteq unsure

StoredWhole ==
    \A b \in Batches : step[b] = "stored" => \A e \in ToSet(batch[b]) : copies[e] > 0

OnePlace ==
    \A e \in EventIds \ unsure :
        /\ copies[e] <= 1
        /\ copies[e] > 0 => /\ e \notin ToSet(queue)
                            /\ \A b \in Batches : e \in ToSet(batch[b]) => step[b] = "stored"
        /\ \A b \in Batches : e \in ToSet(batch[b]) =>
                /\ e \notin ToSet(queue)
                /\ \A c \in Batches \ {b} : e \notin ToSet(batch[c])

EventsInv == Numbered /\ GivenUp /\ StoredWhole /\ OnePlace /\ LostOnlyWhereGivenUp

(***************************************************************************)
(* The salts.  A request that chose a salt, and the events stored today or *)
(* yesterday, use the oldest salt that is good for their day.              *)
(***************************************************************************)
Oldest(s, d) == s \in salts /\ s.day >= d /\ \A t \in salts : t.day >= d => s.day <= t.day

OneSaltPerDay == \A s, t \in salts : s.day = t.day => s = t

ClockRead ==
    \A b \in Batches : step[b] \in {"salt", "select", "store"} => day[b] <= date /\ date <= day[b] + 1

SaltChosen == \A b \in Batches : step[b] = "store" => Oldest(visitor[b], day[b])

SaltKept == \A x \in identities : x.day <= date /\ (date <= x.day + 1 => Oldest(x.salt, x.day))

SaltsInv == OneSaltPerDay /\ ClockRead /\ SaltChosen /\ SaltKept /\ OneIdentityPerDay

\* The invariant.
SiteInv == SiteTypeOK /\ EventsInv /\ SaltsInv

\* Steps that leave the events where they are.
LEMMA EventsStay ==
    ASSUME EventsInv, UNCHANGED <<queue, emitted, orphaned, dropped, batch, waiting, copies, unsure>>,
           \A b \in Batches : /\ step'[b] = "stored" <=> step[b] = "stored"
                              /\ step[b] # "none" => step'[b] # "none"
    PROVE  EventsInv'
<1>1. Numbered' /\ GivenUp'
  BY DEF EventsInv, Numbered, GivenUp
<1>2. StoredWhole' /\ OnePlace'
  BY DEF EventsInv, StoredWhole, OnePlace
<1>3. LostOnlyWhereGivenUp'
  BY DEF EventsInv, LostOnlyWhereGivenUp
<1> QED BY <1>1, <1>2, <1>3 DEF EventsInv

\* Steps that leave the salts and the requests that use one alone.
LEMMA SaltsStay ==
    ASSUME SaltsInv, UNCHANGED <<date, salts, identities>>,
           \A b \in Batches : step'[b] \in {"salt", "select", "store"} =>
               step'[b] = step[b] /\ day'[b] = day[b] /\ visitor'[b] = visitor[b]
    PROVE  SaltsInv'
<1>1. OneSaltPerDay' /\ ClockRead' /\ OneIdentityPerDay'
  BY DEF SaltsInv, OneSaltPerDay, ClockRead, OneIdentityPerDay
<1>2. SaltChosen' /\ SaltKept'
  BY DEF SaltsInv, SaltChosen, SaltKept, Oldest
<1> QED BY <1>1, <1>2 DEF SaltsInv

\* Initially nothing is queued and there is no salt.
LEMMA InitSite == SiteInit => SiteInv
<1> SUFFICES ASSUME SiteInit PROVE SiteInv
  OBVIOUS
<1>1. 0 \in SiteDays /\ NoSalt \in Salt /\ MaxBatch \in Nat \ {0} /\ 0 \in 0 .. MaxEmitted
      /\ 0 \in 0 .. MaxFailures /\ MaxBatch \in Nat
  BY SiteBounds, SizesAssumption DEF SiteDays, Salt, NoSalt
<1>2. SiteTypeOK
  <2>1. /\ queue \in Seq(EventIds) /\ Len(queue) < MaxBatch
        /\ batch \in [Batches -> Seq(EventIds)] /\ \A b \in Batches : Len(batch[b]) <= MaxBatch
    <3>1. queue = <<>> /\ batch = [b \in Batches |-> <<>>]
      BY DEF SiteInit
    <3> QED BY <1>1, <3>1, NoEvents
  <2>2. /\ waiting \in [Batches -> BOOLEAN] /\ step \in [Batches -> Steps]
        /\ day \in [Batches -> SiteDays] /\ visitor \in [Batches -> Salt]
        /\ copies \in [EventIds -> Nat]
    BY <1>1 DEF SiteInit, Steps
  <2> QED BY <1>1, <2>1, <2>2 DEF SiteInit, SiteTypeOK, Steps
<1>3. EventsInv
  <2>1. 1 .. emitted = {}
    BY DEF SiteInit
  <2> QED BY <2>1, NoEvents DEF SiteInit, EventsInv, Numbered, GivenUp, StoredWhole, OnePlace,
                                LostOnlyWhereGivenUp, EventIds
<1>4. SaltsInv
  BY DEF SiteInit, SaltsInv, OneSaltPerDay, ClockRead, SaltChosen, SaltKept, OneIdentityPerDay
<1> QED BY <1>2, <1>3, <1>4 DEF SiteInv

\* The page's own steps move events from the queue to one batch.
LEMMA PageKeeps ==
    ASSUME SiteInv, QueueEvent \/ TimerFires \/ PageExit
    PROVE  SiteInv' /\ (signal => \A b \in Batches : step'[b] = "sent" => step[b] = "sent")
<1> USE DEF store
<1>1. SiteTypeOK /\ EventsInv /\ SaltsInv
  BY DEF SiteInv
<1>2. /\ UNCHANGED <<signal, orphaned, day, visitor, store, unsure, failures>>
      /\ timer' \in BOOLEAN /\ emitted' \in 0 .. MaxEmitted /\ emitted <= emitted'
  BY <1>1, PageFlushes
<1>3. PICK moved \in Seq(EventIds) :
         /\ Fits(moved)
         /\ \A e \in EventIds :
               e \in ToSet(moved) <=> e \in ToSet(queue) \/ e \in emitted + 1 .. emitted'
         /\ \/ Flush(moved)
            \/ /\ queue' = moved /\ Len(moved) < MaxBatch
               /\ UNCHANGED <<batch, waiting, step, dropped>>
  BY <1>1, PageFlushes
<1>4. /\ emitted \in Nat /\ emitted' \in Nat /\ EventIds \subseteq Nat /\ 1 .. emitted' \subseteq EventIds
      /\ \A e \in EventIds : e > emitted' => e > emitted /\ e \notin emitted + 1 .. emitted'
      /\ \A e \in EventIds : e <= emitted' => e <= emitted \/ e \in emitted + 1 .. emitted'
      /\ \A e \in emitted + 1 .. emitted' : e > emitted
      /\ emitted' = emitted \/ emitted + 1 \in EventIds \cap (emitted + 1 .. emitted')
  BY <1>1, <1>2, SiteBounds DEF EventIds, SiteTypeOK
<1>5. \* the events about to leave the queue have not been stored and are in no batch
      /\ \A e \in EventIds : e > emitted' => e \notin ToSet(moved)
      /\ \A e \in ToSet(moved) : e \in EventIds
      /\ \A e \in ToSet(moved) \ unsure : copies[e] <= 0 /\ \A b \in Batches : e \notin ToSet(batch[b])
  <2>1. \A e \in EventIds : e > emitted' => e \notin ToSet(moved)
    BY <1>1, <1>2, <1>3, <1>4 DEF EventsInv, Numbered
  <2>2. \A e \in ToSet(moved) : e \in EventIds
    BY EventsOf1
  <2>3. ASSUME NEW e \in ToSet(moved) \ unsure
        PROVE  copies[e] <= 0 /\ \A b \in Batches : e \notin ToSet(batch[b])
    <3>1. e \in EventIds /\ copies[e] \in Nat
      BY <1>1, <2>2 DEF SiteTypeOK
    <3>2. CASE e \in ToSet(queue)
      BY <1>1, <3>1, <3>2 DEF EventsInv, OnePlace
    <3>3. CASE e \in emitted + 1 .. emitted'
      <4>1. e > emitted
        BY <1>4, <3>3
      <4> QED BY <1>1, <3>1, <4>1 DEF EventsInv, Numbered
    <3> QED BY <1>3, <3>1, <3>2, <3>3
  <2> QED BY <2>1, <2>2, <2>3
<1>6. CASE queue' = moved /\ Len(moved) < MaxBatch /\ UNCHANGED <<batch, waiting, step, dropped>>
  <2>1. SiteTypeOK'
    BY <1>1, <1>2, <1>6 DEF SiteTypeOK
  <2>2. Numbered' /\ GivenUp' /\ StoredWhole'
    BY <1>1, <1>2, <1>4, <1>5, <1>6 DEF EventsInv, Numbered, GivenUp, StoredWhole
  <2>3. OnePlace'
    <3>1. \A e \in EventIds \ unsure : e \in ToSet(moved) =>
             ~(copies[e] > 0) /\ \A b \in Batches : e \notin ToSet(batch[b])
      BY <1>1, <1>5 DEF SiteTypeOK
    <3> QED BY <1>1, <1>2, <1>6, <3>1 DEF EventsInv, OnePlace
  <2>4. LostOnlyWhereGivenUp'
    <3>1. \A e \in EventIds : e \in ToSet(queue) => e \in ToSet(queue')
      BY <1>3, <1>6
    <3>2. \A e \in 1 .. emitted' : e \in ToSet(queue') \/ e \in 1 .. emitted
      BY <1>3, <1>4, <1>6
    <3> QED BY <1>1, <1>2, <1>4, <1>6, <3>1, <3>2 DEF EventsInv, LostOnlyWhereGivenUp
  <2>5. SaltsInv'
    BY <1>1, <1>2, <1>6, SaltsStay
  <2> QED BY <1>6, <2>1, <2>2, <2>3, <2>4, <2>5 DEF SiteInv, EventsInv
<1>7. CASE Flush(moved)
  <2>1. /\ queue' = <<>> /\ batch' \in [Batches -> Seq(EventIds)]
        /\ dropped' = (IF signal THEN dropped \cup ToSet(moved) ELSE dropped)
        /\ dropped' \subseteq EventIds
        /\ \A b \in Batches : Fits(batch'[b])
        /\ waiting' \in [Batches -> BOOLEAN] /\ step' \in [Batches -> Steps]
        /\ \/ (signal \/ moved = <<>>) /\ UNCHANGED <<batch, waiting, step>>
           \/ \E b \in Batches :
                 /\ ~signal /\ Free(b)
                 /\ batch'[b] = moved /\ waiting'[b] /\ step'[b] = "sent"
                 /\ \A c \in Batches : c # b => /\ batch'[c] = batch[c] /\ waiting'[c] = waiting[c]
                                                /\ step'[c] = step[c]
    BY <1>1, <1>3, <1>7, FlushSends
  <2>2. ToSet(queue') = {} /\ queue' \in Seq(EventIds) /\ Len(queue') < MaxBatch
    BY <2>1, NoEvents, SizesAssumption
  <2>3. SiteTypeOK'
    BY <1>1, <1>2, <2>1, <2>2 DEF SiteTypeOK, Fits, Steps
  <2>4. CASE (signal \/ moved = <<>>) /\ UNCHANGED <<batch, waiting, step>>
    <3>1. Numbered' /\ GivenUp' /\ StoredWhole' /\ OnePlace'
      BY <1>1, <1>2, <1>4, <2>2, <2>4 DEF EventsInv, Numbered, GivenUp, StoredWhole, OnePlace
    <3>2. LostOnlyWhereGivenUp'
      <4>1. ASSUME NEW e \in 1 .. emitted', e \in ToSet(moved) PROVE e \in dropped'
        BY <2>1, <2>4, <4>1, NoEvents
      <4>2. ASSUME NEW e \in 1 .. emitted', e \notin ToSet(moved)
            PROVE  \/ copies'[e] > 0 \/ e \in dropped'
                   \/ \E c \in Batches : e \in ToSet(batch'[c]) /\ (waiting'[c] \/ c \in orphaned')
        <5>1. e \in 1 .. emitted /\ e \notin ToSet(queue)
          BY <1>3, <1>4, <4>2
        <5>2. \/ copies[e] > 0 \/ e \in dropped
              \/ \E c \in Batches : e \in ToSet(batch[c]) /\ (waiting[c] \/ c \in orphaned)
          BY <1>1, <5>1 DEF EventsInv, LostOnlyWhereGivenUp
        <5> QED BY <1>2, <2>1, <2>4, <5>2
      <4> QED BY <4>1, <4>2 DEF LostOnlyWhereGivenUp
    <3>3. SaltsInv'
      BY <1>1, <1>2, <2>4, SaltsStay
    <3> QED BY <2>3, <2>4, <3>1, <3>2, <3>3 DEF SiteInv, EventsInv
  <2>5. ASSUME NEW b \in Batches, ~signal, Free(b),
               batch'[b] = moved, waiting'[b], step'[b] = "sent",
               \A c \in Batches : c # b => /\ batch'[c] = batch[c] /\ waiting'[c] = waiting[c]
                                           /\ step'[c] = step[c]
        PROVE  EventsInv' /\ SaltsInv'
    <3>1. Numbered' /\ GivenUp' /\ StoredWhole'
      BY <1>1, <1>2, <1>4, <1>5, <2>2, <2>5 DEF EventsInv, Numbered, GivenUp, StoredWhole
    <3>2. OnePlace'
      <4>1. SUFFICES ASSUME NEW e \in EventIds \ unsure'
                     PROVE  /\ copies'[e] <= 1
                            /\ copies'[e] > 0 =>
                                  \A c \in Batches : e \in ToSet(batch'[c]) => step'[c] = "stored"
                            /\ \A c \in Batches : e \in ToSet(batch'[c]) =>
                                  \A d \in Batches \ {c} : e \notin ToSet(batch'[d])
        BY <2>2 DEF OnePlace
      <4>2. CASE e \in ToSet(moved)
        <5>1. ~(copies[e] > 0) /\ copies[e] <= 1 /\ \A c \in Batches : e \notin ToSet(batch[c])
          BY <1>1, <1>2, <1>5, <4>2 DEF SiteTypeOK
        <5> QED BY <1>2, <2>5, <5>1
      <4>3. CASE e \notin ToSet(moved)
        BY <1>1, <1>2, <2>5, <4>3 DEF EventsInv, OnePlace
      <4> QED BY <4>2, <4>3
    <3>3. LostOnlyWhereGivenUp'
      <4>1. SUFFICES ASSUME NEW e \in 1 .. emitted'
                     PROVE  \/ copies'[e] > 0 \/ e \in dropped'
                            \/ \E c \in Batches : e \in ToSet(batch'[c])
                                                  /\ (waiting'[c] \/ c \in orphaned')
        BY DEF LostOnlyWhereGivenUp
      <4>2. CASE e \in ToSet(moved)
        BY <2>5, <4>2
      <4>3. CASE e \notin ToSet(moved)
        <5>1. e \in 1 .. emitted /\ e \notin ToSet(queue)
          BY <1>3, <1>4, <4>3
        <5>2. \/ copies[e] > 0 \/ e \in dropped
              \/ \E c \in Batches : e \in ToSet(batch[c]) /\ (waiting[c] \/ c \in orphaned)
          BY <1>1, <5>1 DEF EventsInv, LostOnlyWhereGivenUp
        <5>3. ~waiting[b] /\ b \notin orphaned
          BY <1>1, <2>5 DEF EventsInv, GivenUp, Free
        <5> QED BY <1>2, <2>1, <2>5, <5>2, <5>3
      <4> QED BY <4>2, <4>3
    <3>4. SaltsInv'
      BY <1>1, <1>2, <2>5, SaltsStay
    <3> QED BY <3>1, <3>2, <3>3, <3>4 DEF EventsInv
  <2>6. signal => \A b \in Batches : step'[b] = "sent" => step[b] = "sent"
    BY <2>1
  <2> QED BY <2>1, <2>3, <2>4, <2>5, <2>6 DEF SiteInv
<1> QED BY <1>3, <1>6, <1>7

\* An answer empties its batch: the events are stored, queued again, cut off,
\* or were given up before.
LEMMA AnswerKeeps ==
    ASSUME SiteInv, NEW b \in Batches, AnswerArrives(b)
    PROVE  SiteInv' /\ \A c \in Batches : step'[c] = "sent" => step[c] = "sent"
<1> USE DEF store
<1>1. SiteTypeOK /\ EventsInv /\ SaltsInv
  BY DEF SiteInv
<1>2. /\ UNCHANGED <<timer, signal, emitted, store, unsure, failures>>
      /\ step[b] \in {"stored", "refused"}
      /\ batch' \in [Batches -> Seq(EventIds)] /\ waiting' \in [Batches -> BOOLEAN]
      /\ step' \in [Batches -> Steps] /\ day' \in [Batches -> SiteDays]
      /\ visitor' \in [Batches -> Salt]
      /\ batch'[b] = <<>> /\ ~waiting'[b] /\ step'[b] = "none"
      /\ \A c \in Batches \ {b} :
            /\ batch'[c] = batch[c] /\ waiting'[c] = waiting[c]
            /\ step'[c] = step[c] /\ day'[c] = day[c] /\ visitor'[c] = visitor[c]
      /\ \/ waiting[b] /\ step[b] = "refused" /\ Restore(b)
         \/ (~waiting[b] \/ step[b] = "stored") /\ Unheard(b)
      /\ orphaned' = orphaned \ {b}
  BY <1>1, AnswerEffect
<1>3. ToSet(batch'[b]) = {} /\ Fits(batch'[b])
  BY <1>2, NoEvents, SizesAssumption DEF Fits
<1>4. GivenUp' /\ StoredWhole'
  BY <1>1, <1>2, <1>3 DEF EventsInv, GivenUp, StoredWhole
<1>5. SaltsInv'
  BY <1>1, <1>2, SaltsStay
<1>6. \A e \in ToSet(batch[b]) : e \in EventIds
  BY <1>1, EventsOf1 DEF SiteTypeOK
<1>7. emitted \in Nat /\ 1 .. emitted \subseteq EventIds
  BY <1>1, SiteBounds DEF SiteTypeOK, EventIds
<1>8. CASE waiting[b] /\ step[b] = "refused" /\ Restore(b)
  <2>1. /\ queue' \in Seq(EventIds) /\ Len(queue') <= MaxRetryQueue
        /\ dropped' \subseteq EventIds /\ dropped \subseteq dropped'
        /\ ToSet(queue') \subseteq ToSet(batch[b]) \cup ToSet(queue)
        /\ ToSet(batch[b]) \cup ToSet(queue) \subseteq ToSet(queue') \cup dropped'
    BY <1>1, <1>8, RestoreSplits
  <2>2. SiteTypeOK'
    BY <1>1, <1>2, <1>3, <2>1 DEF SiteTypeOK, Fits, Steps
  <2>3. Numbered'
    BY <1>1, <1>2, <1>3, <2>1 DEF EventsInv, Numbered
  <2>4. OnePlace'
    <3>1. SUFFICES ASSUME NEW e \in EventIds \ unsure'
                   PROVE  /\ copies'[e] <= 1
                          /\ copies'[e] > 0 =>
                                /\ e \notin ToSet(queue')
                                /\ \A c \in Batches : e \in ToSet(batch'[c]) => step'[c] = "stored"
                          /\ \A c \in Batches : e \in ToSet(batch'[c]) =>
                                /\ e \notin ToSet(queue')
                                /\ \A d \in Batches \ {c} : e \notin ToSet(batch'[d])
      BY DEF OnePlace
    <3>2. e \in ToSet(batch[b]) => ~(copies[e] > 0) /\ \A c \in Batches \ {b} : e \notin ToSet(batch[c])
      BY <1>1, <1>2, <1>8, <3>1 DEF EventsInv, OnePlace
    <3>3. e \in ToSet(queue') => e \in ToSet(batch[b]) \/ e \in ToSet(queue)
      BY <2>1
    <3> QED BY <1>1, <1>2, <1>3, <3>1, <3>2, <3>3 DEF EventsInv, OnePlace
  <2>5. LostOnlyWhereGivenUp'
    <3>1. SUFFICES ASSUME NEW e \in 1 .. emitted'
                   PROVE  \/ copies'[e] > 0 \/ e \in dropped' \cup ToSet(queue')
                          \/ \E c \in Batches : e \in ToSet(batch'[c]) /\ (waiting'[c] \/ c \in orphaned')
      BY DEF LostOnlyWhereGivenUp
    <3>2. \/ copies[e] > 0 \/ e \in dropped \cup ToSet(queue)
          \/ \E c \in Batches : e \in ToSet(batch[c]) /\ (waiting[c] \/ c \in orphaned)
      BY <1>1, <1>2, <3>1 DEF EventsInv, LostOnlyWhereGivenUp
    <3>3. /\ copies' = copies /\ dropped \subseteq dropped'
          /\ ToSet(queue) \cup ToSet(batch[b]) \subseteq ToSet(queue') \cup dropped'
          /\ \A c \in Batches \ {b} : /\ batch'[c] = batch[c] /\ waiting'[c] = waiting[c]
                                      /\ c \in orphaned => c \in orphaned'
      BY <1>2, <2>1
    <3> QED BY <3>2, <3>3
  <2> QED BY <1>2, <1>4, <1>5, <2>2, <2>3, <2>4, <2>5 DEF SiteInv, EventsInv
<1>9. CASE (~waiting[b] \/ step[b] = "stored") /\ Unheard(b)
  <2>0. /\ queue' = queue /\ dropped \subseteq dropped' /\ dropped' \subseteq EventIds
        /\ b \in orphaned /\ step[b] # "stored" => ToSet(batch[b]) \subseteq dropped'
    BY <1>1, <1>6, <1>9 DEF Unheard, Accepted, SiteTypeOK
  <2>1. SiteTypeOK'
    BY <1>1, <1>2, <1>3, <2>0 DEF SiteTypeOK, Fits, Steps
  <2>2. Numbered' /\ OnePlace'
    BY <1>1, <1>2, <1>3, <2>0 DEF EventsInv, Numbered, OnePlace
  <2>3. LostOnlyWhereGivenUp'
    <3>1. SUFFICES ASSUME NEW e \in 1 .. emitted'
                   PROVE  \/ copies'[e] > 0 \/ e \in dropped' \cup ToSet(queue')
                          \/ \E c \in Batches : e \in ToSet(batch'[c]) /\ (waiting'[c] \/ c \in orphaned')
      BY DEF LostOnlyWhereGivenUp
    <3>2. \/ copies[e] > 0 \/ e \in dropped \cup ToSet(queue)
          \/ \E c \in Batches : e \in ToSet(batch[c]) /\ (waiting[c] \/ c \in orphaned)
      BY <1>1, <1>2, <3>1 DEF EventsInv, LostOnlyWhereGivenUp
    <3>3. e \in ToSet(batch[b]) /\ (waiting[b] \/ b \in orphaned) => copies[e] > 0 \/ e \in dropped'
      BY <1>1, <1>9, <2>0 DEF EventsInv, StoredWhole
    <3>4. /\ copies' = copies
          /\ \A c \in Batches \ {b} : /\ batch'[c] = batch[c] /\ waiting'[c] = waiting[c]
                                      /\ c \in orphaned => c \in orphaned'
      BY <1>2
    <3> QED BY <2>0, <3>2, <3>3, <3>4
  <2> QED BY <1>2, <1>4, <1>5, <2>1, <2>2, <2>3 DEF SiteInv, EventsInv
<1> QED BY <1>2, <1>8, <1>9

\* A lost answer restores the batch, and its events are the unsure ones.
LEMMA LostKeeps ==
    ASSUME SiteInv, NEW b \in Batches, AnswerLost(b)
    PROVE  SiteInv'
<1> USE DEF store, worker
<1>1. SiteTypeOK /\ EventsInv /\ SaltsInv
  BY DEF SiteInv
<1>2. /\ UNCHANGED <<timer, signal, emitted, orphaned, batch, worker, store>>
      /\ waiting[b] /\ failures < MaxFailures /\ failures' = failures + 1 /\ Restore(b)
      /\ unsure' = unsure \cup ToSet(batch[b])
  BY DEF AnswerLost
<1>3. /\ waiting' \in [Batches -> BOOLEAN]
      /\ \A c \in Batches : waiting'[c] = IF c = b THEN FALSE ELSE waiting[c]
  BY <1>1 DEF AnswerLost, SiteTypeOK
<1>4. /\ queue' \in Seq(EventIds) /\ Len(queue') <= MaxRetryQueue
      /\ dropped' \subseteq EventIds /\ dropped \subseteq dropped'
      /\ ToSet(queue') \subseteq ToSet(batch[b]) \cup ToSet(queue)
      /\ ToSet(batch[b]) \cup ToSet(queue) \subseteq ToSet(queue') \cup dropped'
  BY <1>1, <1>2, RestoreSplits
<1>5. ToSet(batch[b]) \subseteq EventIds
  BY <1>1, EventsOf1 DEF SiteTypeOK
<1>6. SiteTypeOK'
  <2>1. failures' \in 0 .. MaxFailures
    BY <1>1, <1>2, SiteBounds DEF SiteTypeOK
  <2>2. /\ batch' \in [Batches -> Seq(EventIds)]
        /\ \A c \in Batches : Len(batch'[c]) <= MaxRetryQueue + 1 \/ Len(batch'[c]) <= MaxBatch
    BY <1>1, <1>2 DEF SiteTypeOK
  <2> QED BY <1>1, <1>2, <1>3, <1>4, <1>5, <2>1, <2>2 DEF SiteTypeOK
<1>7. Numbered' /\ GivenUp' /\ StoredWhole'
  BY <1>1, <1>2, <1>3, <1>4 DEF EventsInv, Numbered, GivenUp, StoredWhole
<1>8. OnePlace'
  BY <1>1, <1>2, <1>4 DEF EventsInv, OnePlace
<1>9. LostOnlyWhereGivenUp'
  <2>1. SUFFICES ASSUME NEW e \in 1 .. emitted'
                 PROVE  \/ copies'[e] > 0 \/ e \in dropped' \cup ToSet(queue')
                        \/ \E c \in Batches : e \in ToSet(batch'[c]) /\ (waiting'[c] \/ c \in orphaned')
    BY DEF LostOnlyWhereGivenUp
  <2>2. \/ copies[e] > 0 \/ e \in dropped \cup ToSet(queue)
        \/ \E c \in Batches : e \in ToSet(batch[c]) /\ (waiting[c] \/ c \in orphaned)
    BY <1>1, <1>2, <2>1 DEF EventsInv, LostOnlyWhereGivenUp
  <2> QED BY <1>2, <1>3, <1>4, <2>2
<1>10. SaltsInv'
  BY <1>1, <1>2, SaltsStay
<1> QED BY <1>6, <1>7, <1>8, <1>9, <1>10 DEF SiteInv, EventsInv

\* Storing a batch adds one row for each of its events and one identity, with
\* the salt any earlier request of the day has used.
LEMMA StoreKeeps ==
    ASSUME SiteInv, NEW b \in Batches, StoreEvents(b)
    PROVE  SiteInv' /\ \A c \in Batches : step'[c] = "sent" => step[c] = "sent"
<1> USE DEF page
<1>1. SiteTypeOK /\ EventsInv /\ SaltsInv
  BY DEF SiteInv
<1>2. /\ step[b] = "store" /\ step' \in [Batches -> Steps]
      /\ \A c \in Batches : step'[c] = IF c = b THEN "stored" ELSE step[c]
  BY <1>1, AdvanceMoves DEF StoreEvents, Steps
<1>3. /\ UNCHANGED <<page, batch, waiting, day, visitor, date, salts, unsure, failures>>
      /\ identities' = identities \cup {[day |-> day[b], salt |-> visitor[b]]}
  BY DEF StoreEvents
<1>4. /\ copies' \in [EventIds -> Nat]
      /\ \A e \in EventIds : copies'[e] = copies[e] + IF e \in ToSet(batch[b]) THEN 1 ELSE 0
  BY <1>1 DEF StoreEvents, SiteTypeOK
<1>5. \A e \in EventIds : copies[e] \in Nat
  BY <1>1 DEF SiteTypeOK
<1>6. \A c \in Batches : ToSet(batch[c]) \subseteq EventIds
  BY <1>1, EventsOf1 DEF SiteTypeOK
<1>7. SiteTypeOK'
  <2>1. [day |-> day[b], salt |-> visitor[b]] \in [day : SiteDays, salt : Salt]
    BY <1>1 DEF SiteTypeOK
  <2>2. identities' \subseteq [day : SiteDays, salt : Salt]
    BY <1>1, <1>3, <2>1 DEF SiteTypeOK
  <2> QED BY <1>1, <1>2, <1>3, <1>4, <2>2 DEF SiteTypeOK, Steps
<1>8. EventsInv'
  <2>1. Numbered' /\ GivenUp'
    BY <1>1, <1>2, <1>3, <1>4 DEF EventsInv, Numbered, GivenUp
  <2>2. StoredWhole'
    <3>1. SUFFICES ASSUME NEW c \in Batches, step'[c] = "stored", NEW e \in ToSet(batch'[c])
                   PROVE  copies'[e] > 0
      BY DEF StoredWhole
    <3>2. e \in EventIds
      BY <1>3, <1>6, <3>1
    <3>3. e \in ToSet(batch[b]) \/ copies[e] > 0
      BY <1>1, <1>2, <1>3, <3>1 DEF EventsInv, StoredWhole
    <3> QED BY <1>4, <1>5, <3>2, <3>3
  <2>3. OnePlace'
    <3>1. SUFFICES ASSUME NEW e \in EventIds \ unsure
                   PROVE  /\ copies'[e] <= 1
                          /\ copies'[e] > 0 =>
                                /\ e \notin ToSet(queue)
                                /\ \A c \in Batches : e \in ToSet(batch[c]) => step'[c] = "stored"
                          /\ \A c \in Batches : e \in ToSet(batch[c]) =>
                                /\ e \notin ToSet(queue)
                                /\ \A d \in Batches \ {c} : e \notin ToSet(batch[d])
      BY <1>3 DEF OnePlace
    <3>2. CASE e \in ToSet(batch[b])
      <4>1. /\ ~(copies[e] > 0) /\ e \notin ToSet(queue)
            /\ \A d \in Batches \ {b} : e \notin ToSet(batch[d])
        BY <1>1, <1>2, <3>1, <3>2 DEF EventsInv, OnePlace
      <4>2. copies'[e] = 1
        BY <1>4, <1>5, <3>1, <3>2, <4>1
      <4> QED BY <1>2, <4>1, <4>2
    <3>3. CASE e \notin ToSet(batch[b])
      <4>1. copies'[e] = copies[e]
        BY <1>4, <1>5, <3>1, <3>3
      <4> QED BY <1>1, <1>2, <3>1, <3>3, <4>1 DEF EventsInv, OnePlace
    <3> QED BY <3>2, <3>3
  <2>4. LostOnlyWhereGivenUp'
    <3>1. 1 .. emitted \subseteq EventIds
      BY <1>1, SiteBounds DEF SiteTypeOK, EventIds
    <3>2. \A e \in 1 .. emitted : copies[e] > 0 => copies'[e] > 0
      BY <1>4, <1>5, <3>1
    <3> QED BY <1>1, <1>3, <3>2 DEF EventsInv, LostOnlyWhereGivenUp
  <2> QED BY <2>1, <2>2, <2>3, <2>4 DEF EventsInv
<1>9. SaltsInv'
  <2>1. /\ day[b] <= date /\ date <= day[b] + 1 /\ Oldest(visitor[b], day[b])
        /\ visitor[b] \in salts
    BY <1>1, <1>2 DEF SaltsInv, ClockRead, SaltChosen, Oldest
  <2>2. OneSaltPerDay' /\ ClockRead'
    BY <1>1, <1>2, <1>3 DEF SaltsInv, OneSaltPerDay, ClockRead
  <2>3. SaltChosen'
    BY <1>1, <1>2, <1>3 DEF SaltsInv, SaltChosen, Oldest
  <2>4. \A x \in identities' : x \in identities \/ (x.day = day[b] /\ x.salt = visitor[b])
    BY <1>3
  <2>5. SaltKept'
    BY <1>1, <1>3, <2>1, <2>4 DEF SaltsInv, SaltKept, Oldest
  <2>6. ASSUME NEW x \in identities, x.day = day[b] PROVE x.salt = visitor[b]
    <3>1. Oldest(x.salt, day[b])
      BY <1>1, <2>1, <2>6 DEF SaltsInv, SaltKept
    <3>2. x.salt \in salts /\ x.salt.day \in SiteDays /\ visitor[b].day \in SiteDays
      BY <1>1, <2>1, <3>1 DEF SiteTypeOK, Salt, Oldest
    <3>3. x.salt.day = visitor[b].day
      BY <2>1, <3>1, <3>2 DEF Oldest, SiteDays
    <3> QED BY <1>1, <2>1, <3>2, <3>3 DEF SaltsInv, OneSaltPerDay
  <2>7. OneIdentityPerDay'
    BY <1>1, <2>4, <2>6 DEF SaltsInv, OneIdentityPerDay
  <2> QED BY <2>2, <2>3, <2>5, <2>7 DEF SaltsInv
<1> QED BY <1>2, <1>7, <1>8, <1>9 DEF SiteInv

\* A request reads the date.
LEMMA TrackKeeps ==
    ASSUME SiteInv, NEW b \in Batches, HandleTrackEvent(b)
    PROVE  SiteInv' /\ \A c \in Batches : step'[c] = "sent" => step[c] = "sent"
<1> USE DEF page, store
<1>1. SiteTypeOK /\ EventsInv /\ SaltsInv
  BY DEF SiteInv
<1>2. /\ step[b] = "sent" /\ step' \in [Batches -> Steps]
      /\ \A c \in Batches : step'[c] = IF c = b THEN "salt" ELSE step[c]
  BY <1>1, AdvanceMoves DEF HandleTrackEvent, Steps
<1>3. UNCHANGED <<page, batch, waiting, visitor, store, unsure, failures>>
  BY DEF HandleTrackEvent
<1>4. /\ day' \in [Batches -> SiteDays]
      /\ \A c \in Batches : day'[c] = IF c = b THEN date ELSE day[c]
  BY <1>1 DEF HandleTrackEvent, SiteTypeOK
<1>5. SiteTypeOK'
  BY <1>1, <1>2, <1>3, <1>4 DEF SiteTypeOK, Steps
<1>6. EventsInv'
  BY <1>1, <1>2, <1>3, EventsStay
<1>7. OneSaltPerDay' /\ OneIdentityPerDay' /\ SaltKept'
  BY <1>1, <1>3 DEF SaltsInv, OneSaltPerDay, OneIdentityPerDay, SaltKept, Oldest
<1>8. ClockRead' /\ SaltChosen'
  <2>1. date <= date /\ date <= date + 1
    BY <1>1 DEF SiteTypeOK, SiteDays
  <2> QED BY <1>1, <1>2, <1>3, <1>4, <2>1 DEF SaltsInv, ClockRead, SaltChosen, Oldest
<1> QED BY <1>2, <1>5, <1>6, <1>7, <1>8 DEF SiteInv, SaltsInv

\* A salt is made when none is good for the day, so it is later than the others.
LEMMA InsertKeeps ==
    ASSUME SiteInv, NEW b \in Batches, InsertSalt(b)
    PROVE  SiteInv' /\ \A c \in Batches : step'[c] = "sent" => step[c] = "sent"
<1> USE DEF page
<1>1. SiteTypeOK /\ EventsInv /\ SaltsInv
  BY DEF SiteInv
<1>2. UNCHANGED <<page, batch, waiting, day, date, copies, identities, unsure, failures>>
  BY DEF InsertSalt
<1>3. ASSUME Usable(b) # {} PROVE SiteInv' /\ \A c \in Batches : step'[c] = "sent" => step[c] = "sent"
  <2>1. Advance(b, "salt", "select") /\ UNCHANGED <<salts, visitor>>
    BY <1>3 DEF InsertSalt
  <2>2. /\ step[b] = "salt" /\ step' \in [Batches -> Steps]
        /\ \A c \in Batches : step'[c] = IF c = b THEN "select" ELSE step[c]
    BY <1>1, <2>1, AdvanceMoves DEF Steps
  <2>3. SiteTypeOK'
    BY <1>1, <1>2, <2>1, <2>2 DEF SiteTypeOK, Steps
  <2>4. EventsInv'
    BY <1>1, <1>2, <2>2, EventsStay
  <2>5. OneSaltPerDay' /\ OneIdentityPerDay' /\ SaltKept'
    BY <1>1, <1>2, <2>1 DEF SaltsInv, OneSaltPerDay, OneIdentityPerDay, SaltKept, Oldest
  <2>6. ClockRead' /\ SaltChosen'
    BY <1>1, <1>2, <2>1, <2>2 DEF SaltsInv, ClockRead, SaltChosen, Oldest
  <2> QED BY <2>2, <2>3, <2>4, <2>5, <2>6 DEF SiteInv, SaltsInv
<1>4. ASSUME Usable(b) = {} PROVE SiteInv' /\ \A c \in Batches : step'[c] = "sent" => step[c] = "sent"
  <2> PICK new : new = NewSalt(b)
    OBVIOUS
  <2>1. /\ Advance(b, "salt", "store") /\ salts' = salts \cup {new}
        /\ visitor' = [visitor EXCEPT ![b] = new]
    BY <1>4 DEF InsertSalt
  <2>2. /\ step[b] = "salt" /\ step' \in [Batches -> Steps]
        /\ \A c \in Batches : step'[c] = IF c = b THEN "store" ELSE step[c]
    BY <1>1, <2>1, AdvanceMoves DEF Steps
  <2>3. day[b] \in Nat /\ \A s \in salts : s.day \in Nat /\ s.day < day[b]
    BY <1>1, <1>4 DEF Usable, SiteTypeOK, Salt, SiteDays
  <2>4. new \in Salt /\ new.day = day[b]
    <3>1. {s \in salts : s.day = day[b]} = {}
      BY <1>1, <2>3 DEF SiteTypeOK, SiteDays
    <3>2. new = [day |-> day[b], number |-> 1 + 0]
      BY <3>1, FS_EmptySet DEF NewSalt
    <3> QED BY <1>1, <3>2 DEF SiteTypeOK, Salt
  <2>5. /\ visitor' \in [Batches -> Salt]
        /\ \A c \in Batches : visitor'[c] = IF c = b THEN new ELSE visitor[c]
    BY <1>1, <2>1, <2>4 DEF SiteTypeOK
  <2>6. SiteTypeOK'
    BY <1>1, <1>2, <2>1, <2>2, <2>4, <2>5 DEF SiteTypeOK, Steps
  <2>7. EventsInv'
    BY <1>1, <1>2, <2>2, EventsStay
  <2>8. OneSaltPerDay' /\ OneIdentityPerDay' /\ ClockRead'
    BY <1>1, <1>2, <2>1, <2>2, <2>3, <2>4 DEF SaltsInv, OneSaltPerDay, OneIdentityPerDay, ClockRead
  <2> DEFINE OldestNow(s, d) ==
               s \in salts' /\ s.day >= d /\ \A t \in salts' : t.day >= d => s.day <= t.day
  <2>9. \A s, d : Oldest(s, d) => OldestNow(s, d)
    BY <2>1, <2>3, <2>4 DEF Oldest
  <2>10. OldestNow(new, day[b])
    BY <2>1, <2>3, <2>4
  <2> HIDE DEF OldestNow
  <2>11. SaltKept'
    <3>1. \A x \in identities : x.day <= date /\ (date <= x.day + 1 => OldestNow(x.salt, x.day))
      BY <1>1, <2>9 DEF SaltsInv, SaltKept
    <3> QED BY <1>2, <3>1 DEF SaltKept, Oldest, OldestNow
  <2>12. SaltChosen'
    <3>1. \A c \in Batches : step'[c] = "store" => OldestNow(visitor'[c], day[c])
      BY <1>1, <2>2, <2>5, <2>9, <2>10 DEF SaltsInv, SaltChosen
    <3> QED BY <1>2, <3>1 DEF SaltChosen, Oldest, OldestNow
  <2> QED BY <2>2, <2>6, <2>7, <2>8, <2>11, <2>12 DEF SiteInv, SaltsInv
<1> QED BY <1>3, <1>4

\* The salt chosen is the oldest good one.
LEMMA SelectKeeps ==
    ASSUME SiteInv, NEW b \in Batches, SelectSalt(b)
    PROVE  SiteInv' /\ \A c \in Batches : step'[c] = "sent" => step[c] = "sent"
<1> USE DEF page, store
<1>1. SiteTypeOK /\ EventsInv /\ SaltsInv
  BY DEF SiteInv
<1>2. /\ UNCHANGED <<page, batch, waiting, day, store, unsure, failures>>
      /\ Advance(b, "select", "store")
  BY DEF SelectSalt
<1>3. /\ step[b] = "select" /\ step' \in [Batches -> Steps]
      /\ \A c \in Batches : step'[c] = IF c = b THEN "store" ELSE step[c]
  BY <1>1, <1>2, AdvanceMoves DEF Steps
<1>4. PICK s \in Usable(b) :
         (\A t \in Usable(b) : s.day <= t.day) /\ visitor' = [visitor EXCEPT ![b] = s]
  BY DEF SelectSalt
<1>5. s \in Salt /\ Oldest(s, day[b])
  BY <1>1, <1>4 DEF Usable, Oldest, SiteTypeOK
<1>6. /\ visitor' \in [Batches -> Salt]
      /\ \A c \in Batches : visitor'[c] = IF c = b THEN s ELSE visitor[c]
  BY <1>1, <1>4, <1>5 DEF SiteTypeOK
<1>7. SiteTypeOK'
  BY <1>1, <1>2, <1>3, <1>6 DEF SiteTypeOK, Steps
<1>8. EventsInv'
  BY <1>1, <1>2, <1>3, EventsStay
<1>9. OneSaltPerDay' /\ OneIdentityPerDay' /\ SaltKept' /\ ClockRead'
  BY <1>1, <1>2, <1>3 DEF SaltsInv, OneSaltPerDay, OneIdentityPerDay, SaltKept, ClockRead, Oldest
<1>10. SaltChosen'
  BY <1>1, <1>2, <1>3, <1>5, <1>6 DEF SaltsInv, SaltChosen, Oldest
<1> QED BY <1>3, <1>7, <1>8, <1>9, <1>10 DEF SiteInv, SaltsInv

\* A refused batch is as it was.
LEMMA RefuseKeeps ==
    ASSUME SiteInv, NEW b \in Batches, Refuse(b)
    PROVE  SiteInv' /\ \A c \in Batches : step'[c] = "sent" => step[c] = "sent"
<1> USE DEF page, store
<1>1. SiteTypeOK /\ EventsInv /\ SaltsInv
  BY DEF SiteInv
<1>2. /\ step[b] # "stored" /\ step' \in [Batches -> Steps]
      /\ \A c \in Batches : step'[c] = IF c = b THEN "refused" ELSE step[c]
      /\ UNCHANGED <<page, batch, waiting, day, visitor, store, unsure, failures>>
  BY <1>1 DEF Refuse, SiteTypeOK, Steps
<1>3. SiteTypeOK'
  BY <1>1, <1>2 DEF SiteTypeOK, Steps
<1> QED BY <1>1, <1>2, <1>3, EventsStay, SaltsStay DEF SiteInv

\* The signal, a new day and the rotation of the salts.
LEMMA DayKeeps ==
    ASSUME SiteInv, PrivacySignal \/ NextDate \/ CleanupSalts
    PROVE  SiteInv' /\ UNCHANGED step
<1> USE DEF page, worker, store
<1>1. SiteTypeOK /\ EventsInv /\ SaltsInv
  BY DEF SiteInv
<1>2. CASE PrivacySignal
  <2>1. UNCHANGED <<queue, timer, emitted, orphaned, dropped, batch, waiting, worker, store, unsure, failures>>
        /\ signal' = ~signal
    BY <1>2 DEF PrivacySignal
  <2>2. SiteTypeOK'
    BY <1>1, <2>1 DEF SiteTypeOK
  <2> QED BY <1>1, <2>1, <2>2, EventsStay, SaltsStay DEF SiteInv
<1>3. CASE NextDate
  <2>1. /\ UNCHANGED <<page, batch, waiting, worker, salts, copies, identities, unsure, failures>>
        /\ date < LastDay /\ date' = date + 1
        /\ \A b \in Batches : step[b] \in {"salt", "select", "store"} => day[b] = date
    BY <1>3 DEF NextDate
  <2>2. date \in Nat /\ date' \in SiteDays /\ \A x \in identities : x.day \in Nat
    BY <1>1, <2>1, SiteBounds DEF SiteTypeOK, SiteDays
  <2>3. SiteTypeOK'
    BY <1>1, <2>1, <2>2 DEF SiteTypeOK
  <2>4. EventsInv'
    BY <1>1, <2>1, EventsStay
  <2>5. OneSaltPerDay' /\ OneIdentityPerDay' /\ SaltChosen'
    BY <1>1, <2>1 DEF SaltsInv, OneSaltPerDay, OneIdentityPerDay, SaltChosen, Oldest
  <2>6. ClockRead' /\ SaltKept'
    BY <1>1, <2>1, <2>2 DEF SaltsInv, ClockRead, SaltKept, Oldest
  <2> QED BY <2>1, <2>3, <2>4, <2>5, <2>6 DEF SiteInv, SaltsInv
<1>4. CASE CleanupSalts
  <2>1. /\ UNCHANGED <<page, batch, waiting, worker, date, copies, identities, unsure, failures>>
        /\ salts' \subseteq salts /\ \A s \in salts : s \in salts' \/ s.day + 2 <= date
    BY <1>4 DEF CleanupSalts, Rotated
  <2>2. SiteTypeOK'
    BY <1>1, <2>1 DEF SiteTypeOK
  <2>3. EventsInv'
    BY <1>1, <2>1, EventsStay
  <2>4. OneSaltPerDay' /\ OneIdentityPerDay' /\ ClockRead'
    BY <1>1, <2>1 DEF SaltsInv, OneSaltPerDay, OneIdentityPerDay, ClockRead
  <2>5. ASSUME NEW s, NEW d \in SiteDays, Oldest(s, d), date <= d + 1 PROVE Oldest(s, d)'
    <3>1. s \in salts /\ s.day \in Nat /\ s.day >= d /\ date \in Nat /\ d \in Nat
      BY <1>1, <2>5 DEF Oldest, SiteTypeOK, Salt, SiteDays
    <3>2. s \in salts'
      BY <2>1, <2>5, <3>1
    <3> QED BY <2>1, <2>5, <3>2 DEF Oldest
  <2>6. SaltChosen'
    BY <1>1, <2>1, <2>5 DEF SaltsInv, ClockRead, SaltChosen, SiteTypeOK
  <2>7. SaltKept'
    <3>1. \A x \in identities : x.day \in SiteDays
      BY <1>1 DEF SiteTypeOK
    <3> QED BY <1>1, <2>1, <2>5, <3>1 DEF SaltsInv, SaltKept
  <2> QED BY <2>1, <2>2, <2>3, <2>4, <2>6, <2>7 DEF SiteInv, SaltsInv
<1> QED BY <1>2, <1>3, <1>4

\* The page ends: what it had queued is lost, what it waited for orphaned.
LEMMA EndKeeps == ASSUME SiteInv, PageEnds PROVE SiteInv' /\ UNCHANGED step
<1> USE DEF worker, store
<1>1. SiteTypeOK /\ EventsInv /\ SaltsInv
  BY DEF SiteInv
<1>2. /\ UNCHANGED <<signal, emitted, batch, worker, store, unsure, failures>>
      /\ queue' = <<>> /\ timer' = FALSE /\ dropped' = dropped \cup ToSet(queue)
      /\ orphaned' = orphaned \cup {b \in Batches : waiting[b]}
      /\ waiting' = [b \in Batches |-> FALSE]
  BY DEF PageEnds
<1>3. /\ queue' \in Seq(EventIds) /\ Len(queue') < MaxBatch /\ ToSet(queue') = {}
      /\ dropped' \subseteq EventIds /\ orphaned' \subseteq Batches
      /\ waiting' \in [Batches -> BOOLEAN]
  BY <1>1, <1>2, NoEvents, EventsOf1, SizesAssumption DEF SiteTypeOK
<1>4. SiteTypeOK'
  BY <1>1, <1>2, <1>3 DEF SiteTypeOK
<1>5. \A b \in Batches : ~waiting'[b] /\ (b \in orphaned' <=> waiting[b] \/ b \in orphaned)
  BY <1>2
<1>6. Numbered' /\ GivenUp' /\ StoredWhole' /\ OnePlace'
  BY <1>1, <1>2, <1>3, <1>5 DEF EventsInv, Numbered, GivenUp, StoredWhole, OnePlace
<1>7. LostOnlyWhereGivenUp'
  BY <1>1, <1>2, <1>5 DEF EventsInv, LostOnlyWhereGivenUp
<1>8. SaltsInv'
  BY <1>1, <1>2, SaltsStay
<1> QED BY <1>2, <1>4, <1>6, <1>7, <1>8 DEF SiteInv, EventsInv

\* Every step keeps the invariant, and sends nothing while the signal is on.
LEMMA StepSite ==
    ASSUME SiteInv, [SiteNext]_siteVars
    PROVE  /\ SiteInv'
           /\ signal => \A b \in Batches : step'[b] = "sent" => step[b] = "sent"
<1>1. CASE UNCHANGED siteVars
  <2>1. UNCHANGED siteVars /\ SiteTypeOK /\ EventsInv /\ SaltsInv
    BY <1>1 DEF SiteInv
  <2>2. SiteTypeOK'
    BY <2>1 DEF siteVars, page, worker, store, SiteTypeOK
  <2> QED BY <2>1, <2>2, EventsStay, SaltsStay DEF siteVars, page, worker, store, SiteInv
<1>2. CASE QueueEvent \/ TimerFires \/ PageExit
  BY <1>2, PageKeeps
<1>3. CASE PrivacySignal \/ NextDate \/ CleanupSalts \/ PageEnds
  BY <1>3, DayKeeps, EndKeeps
<1>4. ASSUME NEW b \in Batches,
             \/ HandleTrackEvent(b) \/ InsertSalt(b) \/ SelectSalt(b) \/ StoreEvents(b)
             \/ Refuse(b) \/ AnswerArrives(b)
      PROVE  SiteInv' /\ \A c \in Batches : step'[c] = "sent" => step[c] = "sent"
  BY <1>4, TrackKeeps, InsertKeeps, SelectKeeps, StoreKeeps, RefuseKeeps, AnswerKeeps
<1>5. ASSUME NEW b \in Batches, AnswerLost(b) PROVE SiteInv' /\ UNCHANGED step
  BY <1>5, LostKeeps DEF AnswerLost, worker
<1> QED BY <1>1, <1>2, <1>3, <1>4, <1>5 DEF SiteNext

\* The site's events, salts and types always satisfy the invariant.
THEOREM SiteInvariant == SiteSpec => []SiteInv
<1>1. SiteInv /\ [SiteNext]_siteVars => SiteInv'
  BY StepSite
<1> QED BY <1>1, InitSite, PTL DEF SiteSpec

\* The types hold, and with them the bound on the queue.
THEOREM SiteTypes == SiteSpec => []SiteTypeOK
<1>1. SiteInv => SiteTypeOK
  BY DEF SiteInv
<1> QED BY <1>1, SiteInvariant, PTL

\* An event vanishes only by the cut of a full retry queue, under a privacy
\* signal or with its page, and is stored twice only if the answer to one of its
\* batches was lost.
THEOREM EventsNeitherLostNorRepeated == SiteSpec => []EventsAccounted
<1>1. SiteInv => EventsAccounted
  <2> SUFFICES ASSUME SiteInv PROVE LostOnlyWhereGivenUp /\ RepeatedOnlyIfUnsure
    BY DEF EventsAccounted
  <2>1. ASSUME NEW e \in EventIds, copies[e] > 1 PROVE e \in unsure
    <3>1. copies[e] \in Nat /\ ~(copies[e] <= 1)
      BY <2>1 DEF SiteInv, SiteTypeOK
    <3> QED BY <3>1 DEF SiteInv, EventsInv, OnePlace
  <2> QED BY <2>1 DEF SiteInv, EventsInv, RepeatedOnlyIfUnsure
<1> QED BY <1>1, SiteInvariant, PTL

\* Cold starts, midnight and the rotation never give a day two salts.
THEOREM OneIdentity == SiteSpec => []OneIdentityPerDay
<1>1. SiteInv => OneIdentityPerDay
  BY DEF SiteInv, SaltsInv
<1> QED BY <1>1, SiteInvariant, PTL

\* While the browser sends the privacy signal no batch leaves the page.
THEOREM SignalHonoured == SiteSpec => SignalStopsSending
<1>1. SiteInv /\ [SiteNext]_siteVars =>
        [signal => \A b \in Batches : step'[b] = "sent" => step[b] = "sent"]_siteVars
  BY StepSite
<1> QED BY <1>1, SiteInvariant, PTL DEF SiteSpec, SignalStopsSending

-----------------------------------------------------------------------------
(***************************************************************************)
(* MCOperations: every part behaves by its own specification, so what is   *)
(* proved of a part holds of the whole.                                    *)
(***************************************************************************)
\* The run that explores the parts side by side explores each of them.
THEOREM WholeIsItsParts ==
    MCSpec => UsageSpec /\ DocsSpec /\ SiteSpec /\ LiveSpec /\ CrmSpec
<1>1. MCInit => UsageInit /\ DocsInit /\ SiteInit /\ LiveInit /\ CrmInit
  BY DEF MCInit
<1>2. [MCNext]_mcVars => [UsageNext]_usageVars /\ [DocsNext]_docsVars /\ [SiteNext]_siteVars
                         /\ [LiveNext]_liveVars /\ [CrmNext]_crmVars
  BY DEF MCNext, mcVars
<1> QED BY <1>1, <1>2, PTL DEF MCSpec, UsageSpec, DocsSpec, SiteSpec, LiveSpec, CrmSpec

\* What the command line, the documentation and the site count stays in range,
\* and no queue outgrows its bound.
THEOREM OperationsTypes == MCSpec => []TypeOK
<1>1. UsageInv /\ DocsInv /\ SiteInv => TypeOK
  BY DEF UsageInv, DocsInv, SiteInv, TypeOK
<1> QED BY <1>1, WholeIsItsParts, UsageInvariant, DocsInvariant, SiteInvariant, PTL
=============================================================================
