----------------------------- MODULE DailyInsights -----------------------------
(***************************************************************************)
(* Profile views and their daily counters (internal/insights).  A view is  *)
(* recorded by a goroutine in three database round trips: the check for a  *)
(* view from the same address within 30 minutes, the insert of the event,  *)
(* the increment of today's counter.  A goroutine of each new process      *)
(* recounts the last 90 days from the events and overwrites the counters   *)
(* in one transaction, while views are recorded.                           *)
(*                                                                         *)
(* Profiles share no row, so the module is about the views of one.         *)
(***************************************************************************)
EXTENDS Integers, FiniteSets

CONSTANTS
    Views,      \* calls of RecordProfileView
    IPs,        \* client addresses
    NoIP,       \* no address found: the view is recorded unchecked
    Window,     \* the deduplication window (30 minutes)
    DayLen,     \* length of a day
    Lookback,   \* of the backfill (90 days, from the time of day it starts at)
    MaxTime,    \* bound on the clock
    DbMayFail   \* whether a statement may return an error

ASSUME ViewsAssumption == IsFiniteSet(Views)
ASSUME NoIPAssumption == NoIP \notin IPs
ASSUME WindowAssumption == Window \in Nat
ASSUME DayLenAssumption == DayLen \in Nat \ {0}
ASSUME LookbackAssumption == Lookback \in Nat
ASSUME MaxTimeAssumption == MaxTime \in Nat
ASSUME DbMayFailAssumption == DbMayFail \in BOOLEAN

VARIABLES
    ipOf,       \* ipOf[v]: the address view v came from
    pc,         \* where the goroutine of view v is
    events,     \* profile_views table
    viewedAt,   \* viewed_at of each row
    views,      \* views[d]: daily_insights.profile_views (0 if there is no row)
    backfill,   \* the backfill of this process
    from,       \* where its range begins
    counted,    \* the events in its range
    now,
    seen,       \* history: seen[v] = the events v's duplicate check looked at
    exact,      \* history: days to which nothing happened that the counter may
                \*   disagree with the events for
    touched     \* history: days with views recorded since the backfill started

dbVars == <<events, viewedAt, views>>
backfillVars == <<backfill, from, counted>>
vars == <<ipOf, pc, events, viewedAt, views, backfill, from, counted, now, seen,
          exact, touched>>

Day(t) == t \div DayLen
Days == 0..Day(MaxTime)
DayOf(v) == Day(viewedAt[v])
Today == Day(now)

\* Events whose increment is still to come, and the others.
Awaiting == {v \in events : pc[v] = "increment"}
Settled == events \ Awaiting
On(d, E) == {v \in E : DayOf(v) = d}

Touched(D) == IF backfill = "running" THEN touched \cup D ELSE {}

TypeOK ==
    /\ ipOf \in [Views -> IPs \cup {NoIP}]
    /\ pc \in [Views -> {"check", "insert", "increment", "done", "lost"}]
    /\ events \in SUBSET Views
    /\ viewedAt \in [Views -> 0..MaxTime]
    /\ views \in [Days -> Nat]
    /\ backfill \in {"due", "running", "over"}
    /\ from \in Int
    /\ counted \in SUBSET events
    /\ now \in 0..MaxTime
    /\ seen \in [Views -> SUBSET Views]
    /\ exact \in SUBSET Days
    /\ touched \in SUBSET Days

Init ==
    /\ ipOf \in [Views -> IPs \cup {NoIP}]
    /\ pc = [v \in Views |-> "check"]
    /\ events = {}
    /\ viewedAt = [v \in Views |-> 0]
    /\ views = [d \in Days |-> 0]
    /\ backfill = "due"
    /\ from = 0
    /\ counted = {}
    /\ now = 0
    /\ seen = [v \in Views |-> {}]
    /\ exact = Days
    /\ touched = {}

Goto(v, before, after) == pc[v] = before /\ pc' = [pc EXCEPT ![v] = after]

-----------------------------------------------------------------------------
(* RecordProfileView *)

\* Faulty variant: the age comparison the wrong way round.
IsDuplicateOlder(v) ==
    \E e \in events : ipOf[e] = ipOf[v] /\ viewedAt[e] <= now - Window

IsDuplicate(v) ==
    \E e \in events : ipOf[e] = ipOf[v] /\ viewedAt[e] > now - Window

\* Without an address, or if the check fails, the view is recorded.
CheckDuplicate(v) ==
    /\ \/ /\ ipOf[v] # NoIP /\ IsDuplicate(v)
          /\ Goto(v, "check", "done")
          /\ UNCHANGED seen
       \/ /\ ipOf[v] # NoIP /\ ~IsDuplicate(v)
          /\ Goto(v, "check", "insert")
          /\ seen' = [seen EXCEPT ![v] = events]
       \/ /\ ipOf[v] = NoIP \/ DbMayFail
          /\ Goto(v, "check", "insert")
          /\ UNCHANGED seen
    /\ UNCHANGED <<ipOf, dbVars, backfillVars, now, exact, touched>>

\* A failed insert is logged, and the counter is incremented all the same.
InsertEvent(v) ==
    /\ Goto(v, "insert", "increment")
    /\ \/ /\ events' = events \cup {v}
          /\ viewedAt' = [viewedAt EXCEPT ![v] = now]
          /\ touched' = Touched({Today})
       \/ /\ DbMayFail
          /\ UNCHANGED <<events, viewedAt, touched>>
    /\ UNCHANGED <<ipOf, views, backfillVars, now, seen, exact>>

\* Days that increment v no longer lets agree: the event was not stored, or
\* it was stored on another day, before midnight.
Miscounted(v) ==
    IF v \notin events THEN {Today}
    ELSE IF DayOf(v) # Today THEN {DayOf(v), Today} ELSE {}

\* INSERT ... ON CONFLICT DO UPDATE SET profile_views = profile_views + 1, for
\* CURRENT_DATE.
Increment(v) ==
    /\ Goto(v, "increment", "done")
    /\ views' = [views EXCEPT ![Today] = @ + 1]
    /\ touched' = Touched({Today})
    /\ exact' = exact \ Miscounted(v)
    /\ UNCHANGED <<ipOf, events, viewedAt, backfillVars, now, seen>>

IncrementFails(v) ==
    /\ DbMayFail
    /\ Goto(v, "increment", "done")
    /\ exact' = IF v \in events THEN exact \ {DayOf(v)} ELSE exact
    /\ UNCHANGED <<ipOf, dbVars, backfillVars, now, seen, touched>>

-----------------------------------------------------------------------------
(* BackfillDailyInsights *)

\* Faulty variant: views whose insert failed are counted.
StartBackfillFromCalls ==
    /\ backfill = "due"
    /\ backfill' = "running"
    /\ from' = now - Lookback
    /\ counted' = {v \in Views : pc[v] \in {"increment", "done"} /\ viewedAt[v] >= now - Lookback}
    /\ touched' = {DayOf(v) : v \in Awaiting}
    /\ UNCHANGED <<ipOf, pc, dbVars, now, seen, exact>>

\* The range ends now: the events in it are those there are.
StartBackfill ==
    /\ backfill = "due"
    /\ backfill' = "running"
    /\ from' = now - Lookback
    /\ counted' = {e \in events : viewedAt[e] >= now - Lookback}
    /\ touched' = {DayOf(v) : v \in Awaiting}
    /\ UNCHANGED <<ipOf, pc, dbVars, now, seen, exact>>

\* The days in the range as a whole, up to the present.
Whole == {d \in Days : from <= d * DayLen}
Recounted == {DayOf(e) : e \in counted}

\* Faulty variant: the recount is added to the counter.
WriteBackfillAdding ==
    /\ backfill = "running"
    /\ backfill' = "over"
    /\ views' = [d \in Days |-> views[d] + Cardinality(On(d, counted))]
    /\ exact' = (exact \ Recounted) \cup ((Recounted \cap Whole) \ touched)
    /\ from' = 0
    /\ counted' = {}
    /\ touched' = {}
    /\ UNCHANGED <<ipOf, pc, events, viewedAt, now, seen>>

\* The transaction commits: each day with an event in the range is overwritten.
WriteBackfill ==
    /\ backfill = "running"
    /\ backfill' = "over"
    /\ views' = [d \in Days |-> IF d \in Recounted THEN Cardinality(On(d, counted))
                                                  ELSE views[d]]
    /\ exact' = (exact \ Recounted) \cup ((Recounted \cap Whole) \ touched)
    /\ from' = 0
    /\ counted' = {}
    /\ touched' = {}
    /\ UNCHANGED <<ipOf, pc, events, viewedAt, now, seen>>

\* One of its two statements or the commit fails, and all is rolled back.
BackfillFails ==
    /\ DbMayFail
    /\ backfill = "running"
    /\ backfill' = "over"
    /\ from' = 0
    /\ counted' = {}
    /\ touched' = {}
    /\ UNCHANGED <<ipOf, pc, dbVars, now, seen, exact>>

-----------------------------------------------------------------------------
Tick ==
    /\ now < MaxTime
    /\ now' = now + 1
    /\ UNCHANGED <<ipOf, pc, dbVars, backfillVars, seen, exact, touched>>

\* The process ends and is restarted: goroutines are gone and a backfill is due.
Restart ==
    /\ pc' = [v \in Views |-> IF pc[v] \in {"insert", "increment"} THEN "lost" ELSE pc[v]]
    /\ backfill' = "due"
    /\ exact' = exact \ {DayOf(v) : v \in Awaiting}
    /\ from' = 0
    /\ counted' = {}
    /\ touched' = {}
    /\ UNCHANGED <<ipOf, dbVars, now, seen>>

RecordProfileView(v) ==
    CheckDuplicate(v) \/ InsertEvent(v) \/ Increment(v) \/ IncrementFails(v)

Next ==
    \/ \E v \in Views : RecordProfileView(v)
    \/ StartBackfill \/ WriteBackfill \/ BackfillFails
    \/ Tick
    \/ Restart

Spec == Init /\ [][Next]_vars

-----------------------------------------------------------------------------
(* Properties *)

\* Two views from one address inside the window are both counted only if they
\* were recorded at the same time, or a check failed: the later one's check did
\* not see the earlier event.
RepeatViewsOverlapped ==
    \A a, b \in events :
        /\ a # b
        /\ ipOf[a] = ipOf[b] /\ ipOf[a] # NoIP
        /\ viewedAt[a] <= viewedAt[b]
        /\ viewedAt[b] < viewedAt[a] + Window
        => a \notin seen[b]

\* The counter of a day is the number of its events less those whose increment
\* is still to come.  A day loses this by a failed statement, a view that spans
\* midnight, a crash between insert and increment, and a backfill that meets
\* views of the day or has but a part of it in its range; and a backfill that
\* has the whole day and meets no view gives it back.
CountersExact ==
    \A d \in exact : views[d] = Cardinality(On(d, Settled))

\* What the comment in main says of the backfill: "idempotent".  So where the
\* counter of a day is right already, and no view comes in between, recounting
\* the events does not change it.
BackfillIdempotent ==
    [][backfill = "running" /\ backfill' = "over"
         => \A d \in exact \ touched : views'[d] = views[d]]_vars
=============================================================================
