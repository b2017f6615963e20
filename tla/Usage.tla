-------------------------------- MODULE Usage --------------------------------
(***************************************************************************)
(* What the command line reports about one licence, on one day: usage      *)
(* counters, telemetry events and product analytics.  Every report first   *)
(* reads the telemetry policy and writes one or two round trips later,     *)
(* when the customer may have opted out, rotated the key or deleted        *)
(* their data.                                                             *)
(*                                                                         *)
(* A report carries one counter and an analytics batch one event; the      *)
(* other counters and events of a batch are written like it, beside it.    *)
(***************************************************************************)
EXTENDS Naturals

CONSTANTS
    Machines,
    Requests,  \* slots for concurrent requests
    MaxCount,  \* the counters a machine reports are 1 .. MaxCount
    MaxKeys,   \* bound on the licence keys ever issued
    MaxReports \* bound on the requests that pass the policy

ASSUME MachinesAssumption == Machines # {}
ASSUME UsageBounds == MaxCount \in Nat \ {0} /\ MaxKeys \in Nat \ {0} /\ MaxReports \in Nat

VARIABLES
    key,        \* licenses.license_key, numbered
    status,     \* licenses.status
    optOut,     \* customers.telemetry_opt_out
    machines,   \* machine_id of the rows in machines, active or not
    daily,      \* usage_daily.commands_run, 0 without a row
    member,     \* usage_member_daily.commands_run of each machine
    cli,        \* are there rows in the four tables of CLI telemetry?
    events,     \* analytics_events
    users,      \* analytics_active_users
    started,    \* requests that have passed the policy
    pc, job,    \* each request: its next step, what it carries and has read
    reported,   \* counters whose first statement committed since the last
                \* deletion (history)
    overtaken,  \* requests past their policy when collection ended (history)
    loose       \* what put rows out of a deletion's reach (history)

license   == <<key, status, optOut, machines>>
counters  == <<daily, member>>
analytics == <<events, users>>
tables    == <<counters, cli, analytics>>
requests  == <<started, pc, job>>
usageVars == <<license, tables, requests, reported, overtaken, loose>>

Event  == [id : 1 .. MaxReports, key : 1 .. MaxKeys, machine : Machines]
Report == [machine : Machines, count : 1 .. MaxCount]
Job    == [id : 0 .. MaxReports, machine : Machines, count : 1 .. MaxCount, key : 1 .. MaxKeys]

NoJob == [id |-> 0, machine |-> CHOOSE m \in Machines : TRUE, count |-> 1, key |-> 1]

UsageInit ==
    /\ key = 1 /\ status = "active" /\ optOut = FALSE
    /\ machines = {} /\ cli = FALSE /\ events = {} /\ users = {} /\ started = 0
    /\ daily = 0 /\ member = [m \in Machines |-> 0]
    /\ pc  = [r \in Requests |-> "idle"]
    /\ job = [r \in Requests |-> NoJob]
    /\ reported = {} /\ overtaken = {} /\ loose = {}

Goto(r, from, to) == pc[r] = from /\ pc' = [pc EXCEPT ![r] = to] /\ UNCHANGED <<started, job>>

End(r) == /\ pc'        = [pc EXCEPT ![r] = "idle"]
          /\ job'       = [job EXCEPT ![r] = NoJob]
          /\ overtaken' = overtaken \ {r}
          /\ UNCHANGED started

Larger(a, b) == IF a > b THEN a ELSE b

InFlight == {r \in Requests : pc[r] # "idle"}

\* A write of an overtaken request cannot be reached by the deletion before it.
Written(r) == loose' = loose \cup {"overtaken" : x \in {r} \cap overtaken}

(***************************************************************************)
(* resolveTelemetryIngestion, and the three families of reports.           *)
(***************************************************************************)
\* Mutant of Allowed: the licence is looked up, the preference is not.
AllowedByLicense == status = "active"

Allowed == status = "active" /\ ~optOut

\* The key presented is the current one; the report says where to go next:
\* reportUsage, handleCliEvent and handleCliBatch, ingestAnalytics.
ReadPolicy(r, m, count, next) ==
    /\ pc[r] = "idle" /\ Allowed /\ started < MaxReports
    /\ started' = started + 1
    /\ pc'  = [pc EXCEPT ![r] = next]
    /\ job' = [job EXCEPT ![r] = [id |-> started + 1, machine |-> m, count |-> count, key |-> key]]
    /\ UNCHANGED <<license, tables, reported, overtaken, loose>>

\* Mutant of WriteDaily: the latest report wins.
OverwriteDaily(r) ==
    /\ Goto(r, "daily", "member")
    /\ daily' = job[r].count
    /\ reported' = reported \cup {[machine |-> job[r].machine, count |-> job[r].count]}
    /\ Written(r)
    /\ UNCHANGED <<license, member, cli, analytics, overtaken>>

WriteDaily(r) ==
    /\ Goto(r, "daily", "member")
    /\ daily' = Larger(daily, job[r].count)
    /\ reported' = reported \cup {[machine |-> job[r].machine, count |-> job[r].count]}
    /\ Written(r)
    /\ UNCHANGED <<license, member, cli, analytics, overtaken>>

\* reportMachineUsage: one batch.
WriteMember(r) ==
    /\ pc[r] = "member"
    /\ member' = [member EXCEPT ![job[r].machine] = Larger(@, job[r].count)]
    /\ End(r) /\ Written(r)
    /\ UNCHANGED <<license, daily, cli, analytics, reported>>

WriteCli(r) ==
    /\ pc[r] = "cli"
    /\ cli' = TRUE
    /\ End(r) /\ Written(r)
    /\ UNCHANGED <<license, counters, analytics, reported>>

\* One batch: the rows, with random ids, and the increments of analytics_daily.
\* A batch sent again is another request, stored and counted again.
WriteEvents(r) ==
    /\ Goto(r, "events", "users")
    /\ events' = events \cup {[id |-> job[r].id, key |-> job[r].key,
                               machine |-> job[r].machine]}
    /\ Written(r)
    /\ UNCHANGED <<license, counters, cli, users, reported, overtaken>>

WriteUsers(r) ==
    /\ pc[r] = "users"
    /\ users' = users \cup {job[r].machine}
    /\ End(r) /\ Written(r)
    /\ UNCHANGED <<license, counters, cli, events, reported>>

\* A failed statement or an evicted invocation.
DropReport(r) ==
    /\ pc[r] # "idle"
    /\ End(r)
    /\ UNCHANGED <<license, tables, reported, loose>>

(***************************************************************************)
(* The customer, the licence and retention.                                *)
(***************************************************************************)

\* validate-license (module LicenseMachines).
RegisterMachine(m) ==
    /\ status = "active"
    /\ machines' = machines \cup {m}
    /\ UNCHANGED <<key, status, optOut, tables, requests, reported, overtaken, loose>>

\* handleRegenerateLicense: the machine rows stay, inactive.
RegenerateLicense ==
    /\ status = "active" /\ key < MaxKeys
    /\ key' = key + 1
    /\ loose' = loose \cup {"rotated"}
    /\ UNCHANGED <<status, optOut, machines, tables, requests, reported, overtaken>>

\* handleOptOut, both ways.
OptOut ==
    /\ status # "deleted_by_user"
    /\ optOut' = ~optOut
    /\ overtaken' = IF optOut' THEN overtaken \cup InFlight ELSE overtaken
    /\ UNCHANGED <<key, status, machines, tables, requests, reported, loose>>

\* Projections and administrators, who may make the licence of a deleted
\* customer active again: the update goes by the customer's id alone.
ChangeStatus ==
    /\ status' \in {"active", "suspended"} \ {status}
    /\ overtaken' = IF status = "active" THEN overtaken \cup InFlight ELSE overtaken
    /\ UNCHANGED <<key, optOut, machines, tables, requests, reported, loose>>

EventsOf(rows) == {e \in rows : e.key = key}

\* The machines a deletion finds, given the events left when it looks.
Found(rows) == machines \cup {e.machine : e \in EventsOf(rows)}

Deleted ==
    /\ status # "deleted_by_user" /\ status' = "deleted_by_user"
    /\ machines' = {} /\ cli' = FALSE
    /\ daily' = 0 /\ member' = [m \in Machines |-> 0]
    /\ events' = events \ EventsOf(events)
    /\ overtaken' = overtaken \cup InFlight /\ reported' = {}
    /\ UNCHANGED <<key, optOut, requests, loose>>

\* Mutant of DeleteMyData: the events go before the active machines are looked
\* up by them.
DeleteEventsFirst == Deleted /\ users' = users \ Found(events')

\* The deletion batch, for these tables: analytics_active_users by the machines
\* and events still there, then the events of the current key, then the rest.
DeleteMyData == Deleted /\ users' = users \ Found(events)

\* cleanupAnalyticsRetention: events after ninety days, active machines after
\* a year.
ExpireEvent(e) ==
    /\ events' = events \ {e}
    /\ loose' = loose \cup {"expired"}
    /\ UNCHANGED <<license, counters, cli, users, requests, reported, overtaken>>

UsageNext ==
    \/ RegenerateLicense \/ OptOut \/ ChangeStatus \/ DeleteMyData
    \/ \E m \in Machines : RegisterMachine(m)
    \/ \E e \in events : ExpireEvent(e)
    \/ \E r \in Requests :
        \/ \E m \in Machines, count \in 1 .. MaxCount : ReadPolicy(r, m, count, "daily")
        \/ \E m \in Machines, next \in {"cli", "events"} : ReadPolicy(r, m, 1, next)
        \/ WriteDaily(r) \/ WriteMember(r) \/ WriteCli(r)
        \/ WriteEvents(r) \/ WriteUsers(r) \/ DropReport(r)

UsageSpec == UsageInit /\ [][UsageNext]_usageVars

-----------------------------------------------------------------------------
(***************************************************************************)
(* Properties.                                                             *)
(***************************************************************************)

\* Types of the tables and of the requests.
UsageTypeOK ==
    /\ key \in 1 .. MaxKeys
    /\ status \in {"active", "suspended", "deleted_by_user"}
    /\ optOut \in BOOLEAN
    /\ cli \in BOOLEAN /\ machines \subseteq Machines /\ users \subseteq Machines
    /\ daily \in 0 .. MaxCount /\ member \in [Machines -> 0 .. MaxCount]
    /\ events \subseteq Event /\ started \in 0 .. MaxReports
    /\ pc \in [Requests -> {"idle", "daily", "member", "cli", "events", "users"}]
    /\ job \in [Requests -> Job]
    /\ reported \subseteq Report
    /\ overtaken \subseteq Requests
    /\ loose \subseteq {"rotated", "expired", "overtaken"}

\* Reports may be repeated, lost half way or overtake each other: the counter
\* of the day is the largest one reported since the last deletion, and each
\* machine's is one of those, unless an overtaken request wrote only that.
CountersConverge ==
    /\ \A p \in reported : p.count <= daily
    /\ daily # 0 => \E p \in reported : p.count = daily
    /\ \A m \in Machines :
        member[m] # 0 => [machine |-> m, count |-> member[m]] \in reported \/ "overtaken" \in loose

\* A step that adds to a table.
Collects ==
    \/ daily' > daily \/ \E m \in Machines : member'[m] > member[m]
    \/ cli' /\ ~cli
    \/ ~(events' \subseteq events) \/ ~(users' \subseteq users)

\* After an opt-out, a suspension or a deletion nothing more is collected,
\* except by a request whose policy was read before.
CollectionStops ==
    [][((status # "active" \/ optOut) /\ Collects) => \E r \in overtaken : pc'[r] # pc[r]]_usageVars

\* A deletion reaches every row, unless the key was rotated, an event that led
\* to an active machine has expired, or a request wrote after it.
DeletionReachesAll ==
    (status = "deleted_by_user" /\ loose = {}) =>
        /\ events = {} /\ users = {} /\ ~cli
        /\ daily = 0 /\ \A m \in Machines : member[m] = 0

\* handleDeleteMyData "Deletes: Telemetry events (command_event, session,
\* performance_metric, feature_usage, analytics_events)", also those stored
\* under an earlier key.
AnalyticsEventsDeleted ==
    (status = "deleted_by_user" /\ "overtaken" \notin loose) => events = {}
=============================================================================
