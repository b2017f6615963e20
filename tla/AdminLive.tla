------------------------------- MODULE AdminLive -------------------------------
(***************************************************************************)
(* The live page of the admin: one feed that polls the newest events every *)
(* five seconds while its tab can be seen.  Its timer, the poll under way  *)
(* and the browser's visibility events all lead through one schedule.      *)
(* What an aborted poll still does, it does before the browser's next      *)
(* event: nothing else happens while a poll is "aborted".                  *)
(***************************************************************************)
VARIABLES
    feed,      \* "unopened", "open", or "stopped" for good
    visible,   \* document.visibilityState
    feedTimer, \* #timer: none, due at once, or in five seconds
    poll,      \* the request under way
    label      \* state, as the page shows it

liveVars == <<feed, visible, feedTimer, poll, label>>

LiveInit ==
    /\ feed = "unopened" /\ visible \in BOOLEAN
    /\ feedTimer = "none" /\ poll = "none" /\ label = "current"

\* Mutant of Schedule: a poll that ends schedules the next one in any case.
ScheduleAnyway(delay) == feedTimer' = delay

\* The old timer is cleared; a stopped or hidden feed gets no new one.
Schedule(delay) ==
    feedTimer' = IF feed' = "open" /\ visible' THEN delay ELSE "none"

Abort == poll' = IF poll = "fetching" THEN "aborted" ELSE poll

Start ==
    /\ feed = "unopened" /\ feed' = "open"
    /\ UNCHANGED <<visible, poll, label>>
    /\ Schedule("later")

Stop ==
    /\ feed = "open" /\ poll # "aborted"
    /\ feed' = "stopped" /\ feedTimer' = "none"
    /\ Abort
    /\ UNCHANGED <<visible, label>>

\* onVisibilityChange, while the feed listens.
Hide ==
    /\ visible /\ visible' = FALSE /\ poll # "aborted"
    /\ IF feed = "open" THEN label' = "paused" /\ feedTimer' = "none" /\ Abort
       ELSE UNCHANGED <<label, feedTimer, poll>>
    /\ UNCHANGED feed

Show ==
    /\ ~visible /\ visible' = TRUE /\ poll # "aborted"
    /\ UNCHANGED <<feed, poll>>
    /\ IF feed = "open" THEN label' = "current" /\ Schedule("now")
       ELSE UNCHANGED <<label, feedTimer>>

Refresh ==
    /\ feedTimer # "none" /\ poll # "aborted"
    /\ feedTimer' = "none" /\ poll' = "fetching" /\ label' = "refreshing"
    /\ UNCHANGED <<feed, visible>>

\* An answer that can be used, any other one, or none; then the next poll.
RefreshEnds ==
    /\ poll # "none" /\ poll' = "none"
    /\ IF poll = "aborted" THEN UNCHANGED label ELSE label' \in {"current", "unavailable"}
    /\ UNCHANGED <<feed, visible>>
    /\ Schedule("later")

LiveNext == Start \/ Stop \/ Hide \/ Show \/ Refresh \/ RefreshEnds

LiveSpec == LiveInit /\ [][LiveNext]_liveVars

-----------------------------------------------------------------------------
(***************************************************************************)
(* Properties.                                                             *)
(***************************************************************************)
Watched == feed = "open" /\ visible

\* However hiding, showing, failures and leaving the page interleave with a
\* poll: a watched feed always has its next poll under way or due, never two,
\* an unwatched one has none, and the label tells a poll from a pause.
PolledWhileWatched ==
    /\ Watched => /\ (feedTimer = "none") # (poll = "none")
                  /\ (label = "refreshing") <=> (poll = "fetching")
                  /\ label # "paused"
    /\ ~Watched => feedTimer = "none" /\ poll # "fetching"
=============================================================================
