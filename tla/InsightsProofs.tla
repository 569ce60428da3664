----------------------------- MODULE InsightsProofs -----------------------------
(***************************************************************************)
(* Proofs about DailyInsights and InsightsReport for any finite set of     *)
(* views, any addresses, followers, window, length of the day, lookback,   *)
(* clock, and period of whole days.                                        *)
(***************************************************************************)
EXTENDS InsightsReport, FiniteSetTheorems, TLAPS

USE NoIPAssumption, WindowAssumption, DayLenAssumption, LookbackAssumption,
    MaxTimeAssumption, DbMayFailAssumption

-----------------------------------------------------------------------------
\* The day of a moment begins at or before it, and is one of Days.
LEMMA DayOfMoment ==
    ASSUME NEW t \in 0..MaxTime
    PROVE  Day(t) \in Days /\ Day(t) * DayLen <= t
<1>1. /\ Day(t) \in Int /\ Day(MaxTime) \in Int
      /\ DayLen * Day(t) <= t /\ t < DayLen * (Day(t) + 1)
      /\ DayLen * Day(MaxTime) <= MaxTime /\ MaxTime < DayLen * (Day(MaxTime) + 1)
  BY DEF Day
<1>2. 0 <= Day(t)
  BY <1>1
<1>3. Day(t) <= Day(MaxTime)
  BY <1>1
<1>4. QED
  BY <1>1, <1>2, <1>3 DEF Days

\* The events of a day are finitely many.
LEMMA DayFinite ==
    ASSUME NEW d, NEW E \in SUBSET Views
    PROVE  IsFiniteSet(On(d, E)) /\ Cardinality(On(d, E)) \in Nat
BY ViewsAssumption, FS_Subset, FS_CardinalityType DEF On

-----------------------------------------------------------------------------
\* Type correctness of the profile views and their counters.
THEOREM TypeCorrect == Spec => []TypeOK
<1>1. Init => TypeOK
  BY DayOfMoment DEF Init, TypeOK
<1>2. TypeOK /\ [Next]_vars => TypeOK'
  <2> SUFFICES ASSUME TypeOK, [Next]_vars PROVE TypeOK'
    OBVIOUS
  <2> USE DEF TypeOK, Goto, dbVars, backfillVars
  <2>1. Today \in Days /\ \A v \in Views : DayOf(v) \in Days
    BY DayOfMoment DEF Today, DayOf
  <2>2. Awaiting \subseteq Views
    BY DEF Awaiting
  <2>3. ASSUME NEW v \in Views, CheckDuplicate(v) PROVE TypeOK'
    BY <2>3 DEF CheckDuplicate
  <2>4. ASSUME NEW v \in Views, InsertEvent(v) PROVE TypeOK'
    BY <2>1, <2>4 DEF InsertEvent, Touched
  <2>5. ASSUME NEW v \in Views, Increment(v) PROVE TypeOK'
    BY <2>1, <2>5 DEF Increment, Touched
  <2>6. ASSUME NEW v \in Views, IncrementFails(v) PROVE TypeOK'
    BY <2>6 DEF IncrementFails
  <2>7. CASE StartBackfill
    BY <2>1, <2>2, <2>7 DEF StartBackfill
  <2>8. CASE WriteBackfill
    <3>1. \A d \in Days : Cardinality(On(d, counted)) \in Nat
      BY DayFinite
    <3>2. Recounted \subseteq Days
      BY <2>1 DEF Recounted
    <3>3. QED
      BY <2>8, <3>1, <3>2 DEF WriteBackfill
  <2>9. CASE BackfillFails
    BY <2>9 DEF BackfillFails
  <2>10. CASE Tick
    BY <2>10 DEF Tick
  <2>11. CASE Restart
    BY <2>11 DEF Restart
  <2>12. CASE UNCHANGED vars
    BY <2>12 DEF vars
  <2>13. QED
    BY <2>3, <2>4, <2>5, <2>6, <2>7, <2>8, <2>9, <2>10, <2>11, <2>12
       DEF Next, RecordProfileView
<1>3. QED
  BY <1>1, <1>2, PTL DEF Spec

-----------------------------------------------------------------------------
(* Duplicate views *)

\* An event is stored between its check and its increment, now or earlier.
StoredLater == \A v \in Views : pc[v] \in {"check", "insert"} => v \notin events
StoredInPast == \A e \in events : viewedAt[e] <= now

\* Checks look at stored events, and before its check a view has seen none.
SeenStored ==
    \A v \in Views : seen[v] \subseteq events /\ (pc[v] = "check" => seen[v] = {})

\* A successful check saw no event of its address inside the window, and time
\* only moves on until the insert.
CheckedClear ==
    \A v \in Views : pc[v] = "insert" =>
        \A e \in seen[v] : ipOf[e] = ipOf[v] => viewedAt[e] + Window <= now

InsertedClear ==
    \A b \in events : \A a \in seen[b] :
        ipOf[a] = ipOf[b] => viewedAt[a] + Window <= viewedAt[b]

ViewInv == StoredLater /\ StoredInPast /\ SeenStored /\ CheckedClear /\ InsertedClear

\* ViewInv is preserved by every step.
LEMMA ViewInductive == TypeOK /\ ViewInv /\ [Next]_vars => ViewInv'
<1> SUFFICES ASSUME TypeOK, ViewInv, [Next]_vars PROVE ViewInv'
  OBVIOUS
<1> USE DEF TypeOK, ViewInv, StoredLater, StoredInPast, SeenStored, CheckedClear,
            InsertedClear, Goto, dbVars, backfillVars
<1>1. ASSUME NEW v \in Views, CheckDuplicate(v) PROVE ViewInv'
  <2>1. UNCHANGED <<ipOf, events, viewedAt, now>> /\ v \notin events
    BY <1>1 DEF CheckDuplicate
  <2>2. CASE /\ ~IsDuplicate(v) /\ Goto(v, "check", "insert")
             /\ seen' = [seen EXCEPT ![v] = events]
    <3>1. CheckedClear'
      BY <2>1, <2>2 DEF IsDuplicate
    <3>2. QED
      BY <2>1, <2>2, <3>1
  <2>3. CASE pc' \in {[pc EXCEPT ![v] = "done"], [pc EXCEPT ![v] = "insert"]}
             /\ pc[v] = "check" /\ UNCHANGED seen
    BY <2>1, <2>3
  <2>4. QED
    BY <1>1, <2>2, <2>3 DEF CheckDuplicate
<1>2. ASSUME NEW v \in Views, InsertEvent(v) PROVE ViewInv'
  <2>1. UNCHANGED <<ipOf, seen, now>> /\ v \notin events /\ Goto(v, "insert", "increment")
    BY <1>2 DEF InsertEvent
  <2>2. CASE events' = events \cup {v} /\ viewedAt' = [viewedAt EXCEPT ![v] = now]
    <3>1. \A w \in Views : v \notin seen[w]
      BY <2>1
    <3>2. viewedAt'[v] = now /\ \A e \in events : viewedAt'[e] = viewedAt[e]
      BY <2>1, <2>2
    <3>3. CheckedClear'
      BY <2>1, <2>2, <3>1, <3>2
    <3>4. InsertedClear'
      BY <2>1, <2>2, <3>1, <3>2
    <3>5. QED
      BY <2>1, <2>2, <3>2, <3>3, <3>4
  <2>3. CASE UNCHANGED <<events, viewedAt>>
    BY <2>1, <2>3
  <2>4. QED
    BY <1>2, <2>2, <2>3 DEF InsertEvent
<1>3. ASSUME NEW v \in Views, Increment(v) \/ IncrementFails(v) PROVE ViewInv'
  BY <1>3 DEF Increment, IncrementFails
<1>4. CASE StartBackfill \/ WriteBackfill \/ BackfillFails
  BY <1>4 DEF StartBackfill, WriteBackfill, BackfillFails
<1>5. CASE Tick
  BY <1>5 DEF Tick
<1>6. CASE Restart
  BY <1>6 DEF Restart
<1>7. CASE UNCHANGED vars
  BY <1>7 DEF vars
<1>8. QED
  BY <1>1, <1>2, <1>3, <1>4, <1>5, <1>6, <1>7 DEF Next, RecordProfileView

\* Safety: two views of one address inside the window are both counted only
\* if the later one's check did not see the earlier event.
THEOREM RepeatsOnlyByOverlap == Spec => []RepeatViewsOverlapped
<1>1. Init => ViewInv
  BY DEF Init, ViewInv, StoredLater, StoredInPast, SeenStored, CheckedClear, InsertedClear
<1>2. TypeOK /\ ViewInv => RepeatViewsOverlapped
  BY DEF TypeOK, ViewInv, InsertedClear, RepeatViewsOverlapped
<1>3. QED
  BY <1>1, <1>2, TypeCorrect, ViewInductive, PTL DEF Spec

-----------------------------------------------------------------------------
(* Counters *)

\* While a backfill runs, every view whose increment is still to come is of a
\* touched day; on the other days that the range has as a whole, the backfill
\* has counted just the settled events.
BackfillInv ==
    backfill = "running" =>
        /\ \A v \in Awaiting : DayOf(v) \in touched
        /\ \A d \in Whole \ touched : On(d, counted) = On(d, Settled)

\* A step that leaves the stored events, their days and which of them await
\* their increment alone leaves the settled events of each day alone.
LEMMA SettledUnchanged ==
    ASSUME UNCHANGED <<events, viewedAt>>, Awaiting' = Awaiting
    PROVE  /\ Settled' = Settled
           /\ \A d : On(d, Settled)' = On(d, Settled)
BY DEF Settled, On, DayOf, Day

\* BackfillInv is preserved by every step.
LEMMA BackfillInductive ==
    TypeOK /\ StoredLater /\ BackfillInv /\ [Next]_vars => BackfillInv'
<1> SUFFICES ASSUME TypeOK, StoredLater, BackfillInv, [Next]_vars PROVE BackfillInv'
  OBVIOUS
<1> USE DEF TypeOK, StoredLater, Goto, dbVars, backfillVars
<1>a. \A v \in Awaiting : DayOf(v) \in Days
  BY DayOfMoment DEF Awaiting, DayOf
<1>1. ASSUME NEW v \in Views, CheckDuplicate(v) PROVE BackfillInv'
  <2>1. UNCHANGED <<events, viewedAt, backfillVars, touched>> /\ Awaiting' = Awaiting
    BY <1>1 DEF CheckDuplicate, Awaiting
  <2>2. QED
    BY <2>1, SettledUnchanged DEF BackfillInv, On, DayOf, Day, Whole, Days
<1>2. ASSUME NEW v \in Views, InsertEvent(v) PROVE BackfillInv'
  <2> SUFFICES ASSUME backfill = "running"
               PROVE  BackfillInv'
    BY <1>2 DEF InsertEvent, BackfillInv
  <2>1. UNCHANGED <<backfillVars, now>> /\ v \notin events /\ Goto(v, "insert", "increment")
    BY <1>2 DEF InsertEvent
  <2>2. Whole' = Whole
    BY <2>1 DEF Whole, Days, Day
  <2>3. CASE /\ events' = events \cup {v} /\ viewedAt' = [viewedAt EXCEPT ![v] = now]
             /\ touched' = touched \cup {Today}
    <3>1. Awaiting' = Awaiting \cup {v} /\ Settled' = Settled
      BY <2>1, <2>3 DEF Awaiting, Settled
    <3>2. DayOf(v)' = Today /\ \A w \in events : DayOf(w)' = DayOf(w)
      BY <2>1, <2>3 DEF DayOf, Today, Day
    <3>3. \A d : On(d, Settled)' = On(d, Settled)
      BY <3>1, <3>2 DEF On, Settled
    <3>4. \A d : On(d, counted)' = On(d, counted)
      BY <2>1, <3>2 DEF On
    <3>5. \A w \in Awaiting' : DayOf(w)' \in touched'
      BY <2>3, <3>1, <3>2 DEF BackfillInv, Awaiting
    <3>6. QED
      BY <2>2, <2>3, <3>3, <3>4, <3>5 DEF BackfillInv
  <2>4. CASE UNCHANGED <<events, viewedAt, touched>>
    BY <2>1, <2>2, <2>4 DEF BackfillInv, Awaiting, Settled, On, DayOf, Day
  <2>5. QED
    BY <1>2, <2>3, <2>4 DEF InsertEvent, Touched
<1>3. ASSUME NEW v \in Views, Increment(v) \/ IncrementFails(v) PROVE BackfillInv'
  <2> SUFFICES ASSUME backfill = "running"
               PROVE  BackfillInv'
    BY <1>3 DEF Increment, IncrementFails, BackfillInv
  <2>1. /\ UNCHANGED <<events, viewedAt, backfillVars>> /\ Goto(v, "increment", "done")
        /\ touched \subseteq touched'
    BY <1>3 DEF Increment, IncrementFails, Touched
  <2>2. Awaiting' = Awaiting \ {v}
    BY <2>1 DEF Awaiting
  <2>3. \A d \in Days \ touched : On(d, Settled)' = On(d, Settled)
    BY <2>1, <2>2 DEF On, Settled, BackfillInv, Awaiting, DayOf, Day
  <2>4. (\A d : On(d, counted)' = On(d, counted)) /\ Whole' = Whole
    BY <2>1 DEF On, DayOf, Day, Whole, Days
  <2>5. \A w \in Awaiting' : DayOf(w)' \in touched'
    BY <2>1, <2>2 DEF BackfillInv, DayOf, Day
  <2>6. QED
    BY <2>1, <2>3, <2>4, <2>5 DEF BackfillInv, Whole
<1>4. CASE StartBackfill
  <2>1. UNCHANGED <<pc, events, viewedAt, now>> /\ Awaiting' = Awaiting
    BY <1>4 DEF StartBackfill, Awaiting
  <2>2. \A w \in Awaiting' : DayOf(w)' \in touched'
    BY <1>4, <2>1 DEF StartBackfill, DayOf, Day
  <2>3. ASSUME NEW d \in Days, from' <= d * DayLen, d \notin touched'
        PROVE  On(d, counted)' = On(d, Settled)'
    <3>1. ASSUME NEW e \in events, DayOf(e) = d PROVE e \in counted' /\ e \notin Awaiting
      <4>1. d * DayLen <= viewedAt[e]
        BY <3>1, DayOfMoment DEF DayOf
      <4>2. from' \in Int /\ d * DayLen \in Int /\ viewedAt[e] \in Int
        BY <1>4 DEF StartBackfill, Days, Day
      <4>3. viewedAt[e] >= now - Lookback
        BY <1>4, <2>3, <4>1, <4>2 DEF StartBackfill
      <4>4. QED
        BY <1>4, <2>3, <3>1, <4>3 DEF StartBackfill
    <3>2. counted' \subseteq events
      BY <1>4 DEF StartBackfill
    <3>3. QED
      BY <2>1, <3>1, <3>2 DEF On, Settled, DayOf, Day
  <2>4. QED
    BY <2>2, <2>3 DEF BackfillInv, Whole, Days, Day
<1>5. CASE WriteBackfill \/ BackfillFails \/ Restart
  BY <1>5 DEF WriteBackfill, BackfillFails, Restart, BackfillInv
<1>6. CASE Tick \/ UNCHANGED vars
  BY <1>6 DEF Tick, vars, BackfillInv, Awaiting, Settled, On, DayOf, Day, Whole, Days
<1>7. QED
  BY <1>1, <1>2, <1>3, <1>4, <1>5, <1>6 DEF Next, RecordProfileView

\* CountersExact is preserved by every step.
LEMMA CountersInductive ==
    TypeOK /\ StoredLater /\ BackfillInv /\ CountersExact /\ [Next]_vars
        => CountersExact'
<1> SUFFICES ASSUME TypeOK, StoredLater, BackfillInv, CountersExact, [Next]_vars
             PROVE  CountersExact'
  OBVIOUS
<1> USE DEF TypeOK, StoredLater, CountersExact, Goto, dbVars, backfillVars
<1>1. ASSUME NEW v \in Views, CheckDuplicate(v) PROVE CountersExact'
  <2>1. UNCHANGED <<events, viewedAt, views, exact>> /\ Awaiting' = Awaiting
    BY <1>1 DEF CheckDuplicate, Awaiting
  <2>2. QED
    BY <2>1, SettledUnchanged
<1>2. ASSUME NEW v \in Views, InsertEvent(v) PROVE CountersExact'
  <2>1. UNCHANGED <<views, exact>> /\ v \notin events /\ Goto(v, "insert", "increment")
    BY <1>2 DEF InsertEvent
  <2>2. CASE events' = events \cup {v} /\ viewedAt' = [viewedAt EXCEPT ![v] = now]
    <3>1. Settled' = Settled /\ v \notin Settled
      BY <2>1, <2>2 DEF Awaiting, Settled
    <3>2. \A d : On(d, Settled)' = On(d, Settled)
      BY <2>2, <3>1 DEF On, Settled, DayOf, Day
    <3>3. QED
      BY <2>1, <3>2
  <2>3. CASE UNCHANGED <<events, viewedAt>>
    <3>1. Awaiting' = Awaiting
      BY <2>1, <2>3 DEF Awaiting
    <3>2. QED
      BY <2>1, <2>3, <3>1, SettledUnchanged
  <2>4. QED
    BY <1>2, <2>2, <2>3 DEF InsertEvent
<1>3. ASSUME NEW v \in Views, Increment(v) PROVE CountersExact'
  <2>1. /\ UNCHANGED <<events, viewedAt, now>> /\ Goto(v, "increment", "done")
        /\ views' = [views EXCEPT ![Today] = @ + 1]
        /\ exact' = exact \ Miscounted(v)
    BY <1>3 DEF Increment
  <2>2. Today \in Days
    BY DayOfMoment DEF Today
  <2>3. CASE v \notin events
    <3>1. Awaiting' = Awaiting
      BY <2>1, <2>3 DEF Awaiting
    <3>2. QED
      BY <2>1, <2>2, <2>3, <3>1, SettledUnchanged DEF Miscounted
  <2>4. CASE v \in events
    <3>1. Settled' = Settled \cup {v} /\ v \notin Settled
      BY <2>1, <2>4 DEF Awaiting, Settled
    <3>2. \A d : d # DayOf(v) => On(d, Settled)' = On(d, Settled)
      BY <2>1, <3>1 DEF On, DayOf, Day
    <3>3. \A d : d = DayOf(v) => /\ On(d, Settled)' = On(d, Settled) \cup {v}
                                 /\ v \notin On(d, Settled)
      BY <2>1, <3>1 DEF On, DayOf, Day
    <3>4. ASSUME NEW d \in exact' PROVE views'[d] = Cardinality(On(d, Settled))'
      <4>1. CASE d # Today
        <5>1. d # DayOf(v)
          BY <2>1, <2>4, <3>4, <4>1 DEF Miscounted
        <5>2. QED
          BY <2>1, <2>2, <3>2, <4>1, <5>1
      <4>2. CASE d = Today
        <5>1. DayOf(v) = d
          BY <2>1, <2>4, <3>4, <4>2 DEF Miscounted
        <5>2. Settled \subseteq Views
          BY DEF Settled
        <5>3. Cardinality(On(d, Settled) \cup {v}) = Cardinality(On(d, Settled)) + 1
          BY <3>3, <5>1, <5>2, DayFinite, FS_AddElement
        <5>4. views'[d] = views[d] + 1
          BY <2>1, <2>2, <4>2
        <5>5. QED
          BY <2>1, <3>3, <3>4, <5>1, <5>3, <5>4
      <4>3. QED
        BY <4>1, <4>2
    <3>5. QED
      BY <3>4
  <2>5. QED
    BY <2>3, <2>4
<1>4. ASSUME NEW v \in Views, IncrementFails(v) PROVE CountersExact'
  <2>1. UNCHANGED <<events, viewedAt, views>> /\ Goto(v, "increment", "done")
    BY <1>4 DEF IncrementFails
  <2>2. Awaiting' = Awaiting \ {v}
    BY <2>1 DEF Awaiting
  <2>3. \A d \in exact' : On(d, Settled)' = On(d, Settled)
    BY <1>4, <2>1, <2>2 DEF IncrementFails, Settled, On, DayOf, Day
  <2>4. exact' \subseteq exact
    BY <1>4 DEF IncrementFails
  <2>5. QED
    BY <2>1, <2>3, <2>4
<1>5. CASE WriteBackfill
  <2>1. UNCHANGED <<events, viewedAt>> /\ Awaiting' = Awaiting
    BY <1>5 DEF WriteBackfill, Awaiting
  <2>2. ASSUME NEW d \in exact' PROVE views'[d] = Cardinality(On(d, Settled))
    <3>1. CASE d \in Recounted
      <4>1. d \in Whole \ touched /\ d \in Days
        BY <1>5, <2>2, <3>1 DEF WriteBackfill, Whole
      <4>2. On(d, counted) = On(d, Settled)
        BY <1>5, <4>1 DEF WriteBackfill, BackfillInv
      <4>3. QED
        BY <1>5, <3>1, <4>1, <4>2 DEF WriteBackfill
    <3>2. CASE d \notin Recounted
      BY <1>5, <2>2, <3>2 DEF WriteBackfill
    <3>3. QED
      BY <3>1, <3>2
  <2>3. QED
    BY <2>1, <2>2, SettledUnchanged
<1>6. CASE StartBackfill \/ BackfillFails \/ Tick \/ UNCHANGED vars
  <2>1. UNCHANGED <<events, viewedAt, views, exact>> /\ Awaiting' = Awaiting
    BY <1>6 DEF StartBackfill, BackfillFails, Tick, vars, Awaiting
  <2>2. QED
    BY <2>1, SettledUnchanged
<1>7. CASE Restart
  <2>1. UNCHANGED <<events, viewedAt, views>> /\ exact' = exact \ {DayOf(v) : v \in Awaiting}
    BY <1>7 DEF Restart
  <2>2. Settled' = events
    BY <1>7, <2>1 DEF Restart, Awaiting, Settled
  <2>3. \A d \in exact' : On(d, Settled)' = On(d, Settled)
    BY <2>1, <2>2 DEF On, Settled, DayOf, Day
  <2>4. QED
    BY <2>1, <2>3
<1>8. QED
  BY <1>1, <1>2, <1>3, <1>4, <1>5, <1>6, <1>7 DEF Next, RecordProfileView

\* Safety: a day's counter is the number of its events less those still to be
\* counted, unless a named failure, crash, midnight or partial backfill has come
\* in between.
THEOREM CountersStayExact == Spec => []CountersExact
<1>1. Init => ViewInv /\ BackfillInv
  BY DEF Init, ViewInv, StoredLater, StoredInPast, SeenStored, CheckedClear,
         InsertedClear, BackfillInv
<1>2. Init => CountersExact
  <2> SUFFICES ASSUME Init PROVE CountersExact
    OBVIOUS
  <2>1. \A d : On(d, Settled) = {}
    BY DEF Init, On, Settled
  <2>2. QED
    BY <2>1, FS_EmptySet DEF Init, CountersExact
<1>3. ViewInv => StoredLater
  BY DEF ViewInv
<1>4. QED
  BY <1>1, <1>2, <1>3, TypeCorrect, ViewInductive, BackfillInductive,
     CountersInductive, PTL DEF Spec

-----------------------------------------------------------------------------
(* The report *)

\* A step of the whole is a step of DailyInsights or leaves it alone.
LEMMA ReportStep == [ReportNext]_<<vars, reportVars>> => [Next]_vars
BY DEF ReportNext, GetOverview, Begin, BuildMetric, MetricFails, TimeSeries,
       TimeSeriesFails, TimeSeriesFromRawEvents, RawEventsFail, BuildBreakdown,
       BreakdownFails, AddBreakdown, Follow, Unfollow, DailyStep,
       RestartDuringReport, Next

\* Refinement: with the report, its followers and its restarts, the recording of
\* views, the backfill and the counters are those of DailyInsights.
THEOREM ReportKeepsViews == ReportSpec => Spec
<1>1. ReportInit => Init
  BY DEF ReportInit
<1>2. QED
  BY <1>1, ReportStep, PTL DEF ReportSpec, Spec

\* What the steps of recording, counting and the clock do, as far as a report can
\* tell: stored events stay, and new ones are stored at the present time.
EventsGrow ==
    /\ now <= now'
    /\ events \subseteq events'
    /\ \A e \in events : viewedAt'[e] = viewedAt[e]
    /\ \A e \in events' \ events : viewedAt'[e] = now

LEMMA EventsOnlyGrow == TypeOK /\ StoredLater /\ [Next]_vars => EventsGrow
<1> SUFFICES ASSUME TypeOK, StoredLater, [Next]_vars PROVE EventsGrow
  OBVIOUS
<1> USE DEF TypeOK, EventsGrow, dbVars
<1>1. ASSUME NEW v \in Views, InsertEvent(v) PROVE EventsGrow
  BY <1>1 DEF InsertEvent, StoredLater, Goto
<1>2. ASSUME NEW v \in Views, CheckDuplicate(v) PROVE EventsGrow
  BY <1>2 DEF CheckDuplicate
<1>3. ASSUME NEW v \in Views, Increment(v) \/ IncrementFails(v) PROVE EventsGrow
  BY <1>3 DEF Increment, IncrementFails
<1>4. CASE StartBackfill \/ WriteBackfill \/ BackfillFails \/ Restart
  BY <1>4 DEF StartBackfill, WriteBackfill, BackfillFails, Restart
<1>5. CASE Tick
  BY <1>5 DEF Tick
<1>6. CASE UNCHANGED vars
  BY <1>6 DEF vars
<1>7. QED
  BY <1>1, <1>2, <1>3, <1>4, <1>5, <1>6 DEF Next, RecordProfileView

\* ReportTypeOK by its parts.
RequestTypes ==
    /\ followedAt \in [Followers -> 0..MaxTime \cup {Never}]
    /\ known \in [1..Breakdowns -> SUBSET Views]
    /\ asOf \in 0..now
    /\ fresh \in SUBSET Days
StatementTypes ==
    rpc \in Readings \cup {"off", "due", "chart", "raw", "breakdown", "done", "lost"}
MetricTypes == metric \in [Metrics -> [Periods -> SUBSET (events \cup Followers)]]
ChartTypes == chart \in [DOMAIN chart -> Nat]
Entries == [ok : BOOLEAN, views : SUBSET events]
BreakdownTypes == breakdown \in Seq(Entries) /\ Len(breakdown) <= Breakdowns

\* What has been written when the report is at a statement.
MetricStages ==
    /\ rpc \in {"off", "due", "current views"} => metric["views"] = Zero
    /\ rpc \in {"off", "due", "current views", "previous views", "current followers"}
          => metric["followers"] = Zero
    /\ rpc = "previous views" => metric["views"]["previous"] = {}
    /\ rpc = "previous followers" => metric["followers"]["previous"] = {}
ChartStages == rpc \notin {"breakdown", "done", "lost"} => fresh = {}
BreakdownStages ==
    /\ rpc \notin {"breakdown", "done", "lost"} => breakdown = <<>>
    /\ rpc = "breakdown" => Len(breakdown) < Breakdowns

Parts == /\ TypeOK /\ RequestTypes /\ StatementTypes /\ MetricTypes /\ ChartTypes
         /\ BreakdownTypes /\ MetricStages /\ ChartStages /\ BreakdownStages

LEMMA PartsMake == Parts => ReportTypeOK
BY DEF Parts, RequestTypes, StatementTypes, MetricTypes, ChartTypes, BreakdownTypes,
       Entries, ReportTypeOK

\* Sequences of a larger set, and longer ones.
LEMMA LargerSeq ==
    ASSUME NEW S, NEW T, S \subseteq T, NEW q \in Seq(S) PROVE q \in Seq(T) /\ Len(q) \in Nat
OBVIOUS

LEMMA LongerSeq ==
    ASSUME NEW S, NEW q \in Seq(S), NEW e \in S
    PROVE  /\ Append(q, e) \in Seq(S) /\ Len(Append(q, e)) = Len(q) + 1
           /\ DOMAIN Append(q, e) = 1..(Len(q) + 1) /\ DOMAIN q = 1..Len(q)
           /\ \A i \in 1..Len(q) : Append(q, e)[i] = q[i]
           /\ Append(q, e)[Len(q) + 1] = e
OBVIOUS

\* The names of the four counts.
LEMMA ReadingIs ==
    /\ Reading["views"]["current"] = "current views"
    /\ Reading["views"]["previous"] = "previous views"
    /\ Reading["followers"]["current"] = "current followers"
    /\ Reading["followers"]["previous"] = "previous followers"
    /\ Readings = {"current views", "previous views", "current followers", "previous followers"}
<1>1. /\ Reading["views"]["current"] = "current views"
      /\ Reading["views"]["previous"] = "previous views"
      /\ Reading["followers"]["current"] = "current followers"
      /\ Reading["followers"]["previous"] = "previous followers"
  BY DEF Reading
<1>2. Readings = {Reading["views"]["current"], Reading["views"]["previous"],
                  Reading["followers"]["current"], Reading["followers"]["previous"]}
  BY DEF Readings, Metrics, Periods
<1>3. QED
  BY <1>1, <1>2

\* The steps that leave alone what the report has noted so far.
Beside ==
    \/ \E f \in Followers : Follow(f) \/ Unfollow(f)
    \/ DailyStep /\ UNCHANGED reportVars
    \/ RestartDuringReport
    \/ UNCHANGED <<vars, reportVars>>

\* They follow or unfollow at the present time, and may end the report.
BesideDoes ==
    /\ UNCHANGED <<known, asOf, metric, chart, breakdown, fresh>>
    /\ rpc' \in {rpc, "lost"}
    /\ followedAt' \in [Followers -> 0..MaxTime \cup {Never}]
    /\ \A f \in Followers : followedAt'[f] \in {followedAt[f], now, Never}

LEMMA BesideSteps == TypeOK /\ RequestTypes /\ Beside => BesideDoes
<1> SUFFICES ASSUME TypeOK, RequestTypes, Beside PROVE BesideDoes
  OBVIOUS
<1> USE DEF RequestTypes, TypeOK, BesideDoes
<1>1. ASSUME NEW f \in Followers, Follow(f) \/ Unfollow(f) PROVE BesideDoes
  BY <1>1 DEF Follow, Unfollow, overviewVars
<1>2. CASE DailyStep /\ UNCHANGED reportVars
  BY <1>2 DEF reportVars
<1>3. CASE RestartDuringReport
  BY <1>3 DEF RestartDuringReport, overviewVars
<1>4. CASE UNCHANGED <<vars, reportVars>>
  BY <1>4 DEF reportVars
<1>5. QED
  BY <1>1, <1>2, <1>3, <1>4 DEF Beside

\* A part keeps its type while what it is about stays and the events grow.
LEMMA TypesFrame ==
    ASSUME EventsGrow, TypeOK, TypeOK', Parts
    PROVE  /\ UNCHANGED <<followedAt, known, asOf, fresh>> => RequestTypes'
           /\ UNCHANGED metric => MetricTypes'
           /\ UNCHANGED chart => ChartTypes'
           /\ UNCHANGED breakdown => BreakdownTypes'
           /\ asOf \in 0..now'
<1> USE DEF Parts
<1>1. asOf \in 0..now'
  BY DEF RequestTypes, EventsGrow, TypeOK
<1>2. UNCHANGED <<followedAt, known, asOf, fresh>> => RequestTypes'
  BY <1>1 DEF RequestTypes, Days, Day
<1>3. UNCHANGED metric => MetricTypes'
  BY DEF MetricTypes, EventsGrow
<1>4. UNCHANGED chart => ChartTypes'
  BY DEF ChartTypes
<1>5. ASSUME UNCHANGED breakdown PROVE BreakdownTypes'
  <2>1. Entries \subseteq Entries'
    BY DEF Entries, EventsGrow
  <2>2. QED
    BY <1>5, <2>1, LargerSeq DEF BreakdownTypes
<1>6. QED
  BY <1>1, <1>2, <1>3, <1>4, <1>5

LEMMA Unchanged ==
    ASSUME UNCHANGED vars
    PROVE  UNCHANGED <<ipOf, pc, events, viewedAt, views, backfill, now, exact>>
BY DEF vars

\* The parts are preserved by every step.
LEMMA PartsInductive ==
    Parts /\ TypeOK' /\ EventsGrow /\ [ReportNext]_<<vars, reportVars>> => Parts'
<1> SUFFICES ASSUME Parts, TypeOK', EventsGrow, [ReportNext]_<<vars, reportVars>>
             PROVE  Parts'
  OBVIOUS
<1>a. TypeOK /\ RequestTypes /\ StatementTypes /\ MetricTypes /\ ChartTypes
      /\ BreakdownTypes /\ MetricStages /\ ChartStages /\ BreakdownStages
  BY DEF Parts
<1>b. /\ UNCHANGED <<followedAt, known, asOf, fresh>> => RequestTypes'
      /\ UNCHANGED metric => MetricTypes'
      /\ UNCHANGED chart => ChartTypes'
      /\ UNCHANGED breakdown => BreakdownTypes'
      /\ asOf \in 0..now'
  BY <1>a, TypesFrame
<1>c. Breakdowns \in Nat \ {0} /\ now \in 0..MaxTime
  BY <1>a, BreakdownsAssumption DEF TypeOK
<1>1. CASE Beside
  <2>1. BesideDoes
    BY <1>1, <1>a, BesideSteps
  <2>2. RequestTypes'
    BY <1>a, <1>b, <2>1 DEF BesideDoes, RequestTypes, Days, Day
  <2>3. StatementTypes'
    BY ReadingIs, <1>a, <2>1 DEF BesideDoes, StatementTypes
  <2>4. MetricTypes' /\ ChartTypes' /\ BreakdownTypes'
    BY <1>b, <2>1 DEF BesideDoes
  <2>5. MetricStages'
    BY <1>a, <2>1 DEF BesideDoes, MetricStages, Zero
  <2>6. ChartStages' /\ BreakdownStages'
    BY <1>a, <2>1 DEF BesideDoes, ChartStages, BreakdownStages
  <2>7. QED
    BY <2>2, <2>3, <2>4, <2>5, <2>6 DEF Parts
<1>2. CASE Begin
  <2>1. /\ rpc = "due" /\ rpc' = "current views" /\ asOf' = now /\ now' = now
        /\ UNCHANGED <<followedAt, known, metric, chart, breakdown, fresh>>
    BY ReadingIs, <1>2, Unchanged DEF Begin
  <2>2. RequestTypes'
    <3>1. asOf' \in 0..now'
      <4>1. asOf' = now' /\ now' = now
        BY <2>1
      <4>2. now \in Nat
        BY <1>c
      <4>3. QED
        BY <4>1, <4>2
    <3>2. QED
      BY <1>a, <2>1, <3>1 DEF RequestTypes
  <2>3. StatementTypes'
    BY ReadingIs, <2>1 DEF StatementTypes
  <2>4. MetricTypes' /\ ChartTypes' /\ BreakdownTypes'
    BY <1>b, <2>1
  <2>5. MetricStages'
    BY ReadingIs, <1>a, <2>1 DEF MetricStages, Zero
  <2>6. ChartStages' /\ BreakdownStages'
    BY <1>a, <2>1 DEF ChartStages, BreakdownStages
  <2>7. QED
    BY <2>2, <2>3, <2>4, <2>5, <2>6 DEF Parts
<1>3. ASSUME NEW m \in Metrics, NEW p \in Periods, BuildMetric(m, p) \/ MetricFails(m, p)
      PROVE  Parts'
  <2>1. /\ UNCHANGED <<followedAt, known, asOf, chart, breakdown, fresh, events>>
        /\ rpc = Reading[m][p]
    BY <1>3, Unchanged DEF BuildMetric, MetricFails
  <2>2. rpc' \in {"previous views", "current followers", "previous followers", "chart"}
    BY ReadingIs, <1>3 DEF BuildMetric, MetricFails, Then, Metrics, Periods
  <2>3. CountBetween(m, p) \in SUBSET (events \cup Followers)
    BY DEF CountBetween, CountProfileViewsBetween, GetNewFollowersBetween
  <2>4. MetricTypes'
    <3>1. CASE metric' = [metric EXCEPT ![m][p] = CountBetween(m, p)]
      BY <1>a, <2>1, <2>3, <3>1 DEF MetricTypes
    <3>2. CASE metric' = [metric EXCEPT ![m] = Zero]
      BY <1>a, <2>1, <3>2 DEF MetricTypes, Zero
    <3>3. QED
      BY <1>3, <3>1, <3>2 DEF BuildMetric, MetricFails
  <2>5. MetricStages'
    <3>1. CASE m = "views"
      BY ReadingIs, <1>3, <1>a, <3>1
         DEF BuildMetric, MetricFails, Then, MetricStages, MetricTypes, Zero, Metrics, Periods
    <3>2. CASE m = "followers"
      BY ReadingIs, <1>3, <1>a, <3>2
         DEF BuildMetric, MetricFails, Then, MetricStages, MetricTypes, Zero, Metrics, Periods
    <3>3. QED
      BY <3>1, <3>2 DEF Metrics
  <2>6. ChartStages' /\ BreakdownStages'
    <3>1. rpc \notin {"breakdown", "done", "lost"}
      BY ReadingIs, <2>1 DEF Metrics, Periods
    <3>2. QED
      BY <1>a, <2>1, <2>2, <3>1 DEF ChartStages, BreakdownStages
  <2>7. QED
    BY ReadingIs, <1>b, <2>1, <2>2, <2>4, <2>5, <2>6 DEF Parts, StatementTypes
<1>4. CASE TimeSeries \/ TimeSeriesFails \/ TimeSeriesFromRawEvents \/ RawEventsFail
  <2>1. /\ rpc \in {"chart", "raw"} /\ rpc' \in {"raw", "breakdown"}
        /\ UNCHANGED <<followedAt, known, asOf, metric, breakdown, events, now>>
    BY <1>4, Unchanged
       DEF TimeSeries, TimeSeriesFails, TimeSeriesFromRawEvents, RawEventsFail, overviewVars
  <2>2. RequestTypes'
    <3>1. fresh' \in SUBSET Days
      BY <1>4, <1>a DEF TimeSeries, TimeSeriesFails, TimeSeriesFromRawEvents,
         RawEventsFail, overviewVars, RequestTypes, TypeOK
    <3>2. QED
      BY <1>a, <1>b, <2>1, <3>1 DEF RequestTypes, Days, Day
  <2>3. ChartTypes'
    <3>1. \A d \in ChartDays : Cardinality(On(d, GetDailyProfileViews)) \in Nat
      BY <1>a, DayFinite DEF GetDailyProfileViews, TypeOK
    <3>2. CASE TimeSeries
      <4>1. chart' \in [ChartDays -> Nat]
        BY <1>a, <3>2 DEF TimeSeries, GetDailyInsights, TypeOK
      <4>2. QED
        BY <4>1 DEF ChartTypes
    <3>3. CASE TimeSeriesFromRawEvents
      <4>1. chart' \in [ChartDays -> Nat]
        BY <3>1, <3>3 DEF TimeSeriesFromRawEvents
      <4>2. QED
        BY <4>1 DEF ChartTypes
    <3>4. CASE RawEventsFail
      <4>1. chart' \in [ChartDays -> Nat]
        BY <3>4 DEF RawEventsFail
      <4>2. QED
        BY <4>1 DEF ChartTypes
    <3>5. CASE TimeSeriesFails
      BY <1>b, <3>5 DEF TimeSeriesFails, overviewVars
    <3>6. QED
      BY <1>4, <3>2, <3>3, <3>4, <3>5
  <2>4. MetricTypes' /\ BreakdownTypes' /\ StatementTypes'
    BY ReadingIs, <1>b, <2>1 DEF StatementTypes
  <2>5. MetricStages'
    BY <2>1 DEF MetricStages
  <2>6. BreakdownStages'
    BY <1>a, <1>c, <2>1 DEF BreakdownStages
  <2>7. ChartStages'
    BY <1>4, <1>a, <2>1 DEF ChartStages, TimeSeries, TimeSeriesFails, TimeSeriesFromRawEvents,
       RawEventsFail, overviewVars
  <2>8. QED
    BY <2>2, <2>3, <2>4, <2>5, <2>6, <2>7 DEF Parts
<1>5. CASE BuildBreakdown \/ BreakdownFails
  <2>1. PICK ok \in BOOLEAN, E \in SUBSET events : AddBreakdown(ok, E)
    BY <1>5 DEF BuildBreakdown, BreakdownFails, GetCounts
  <2>2. /\ rpc = "breakdown" /\ rpc' \in {"breakdown", "done"}
        /\ UNCHANGED <<followedAt, known, asOf, metric, chart, fresh, events>>
    BY <2>1, Unchanged DEF AddBreakdown
  <2>3. [ok |-> ok, views |-> E] \in Entries /\ Entries' = Entries
    BY <2>2 DEF Entries
  <2>4. breakdown' = Append(breakdown, [ok |-> ok, views |-> E])
    BY <2>1 DEF AddBreakdown
  <2>5. /\ breakdown' \in Seq(Entries)
        /\ Len(breakdown') = Len(breakdown) + 1 /\ Len(breakdown) \in Nat
    BY <1>a, <2>3, <2>4, LongerSeq, LargerSeq DEF BreakdownTypes
  <2>6. Len(breakdown) < Breakdowns
    BY <1>a, <2>2 DEF BreakdownStages
  <2>7. BreakdownTypes'
    BY <1>c, <2>3, <2>5, <2>6 DEF BreakdownTypes
  <2>8. BreakdownStages'
    <3>1. rpc' = IF Len(breakdown') = Breakdowns THEN "done" ELSE "breakdown"
      BY <2>1 DEF AddBreakdown
    <3>2. QED
      BY <1>c, <2>5, <2>6, <3>1 DEF BreakdownStages
  <2>9. QED
    BY ReadingIs, <1>b, <2>2, <2>7, <2>8 DEF Parts, StatementTypes, MetricStages, ChartStages
<1>6. QED
  BY <1>1, <1>2, <1>3, <1>4, <1>5 DEF ReportNext, GetOverview, Beside

\* They hold at the start.
LEMMA PartsStart == ReportInit => Parts
<1> SUFFICES ASSUME ReportInit PROVE Parts
  OBVIOUS
<1>1. TypeOK /\ events = {} /\ now = 0
  BY DayOfMoment DEF ReportInit, Init, TypeOK
<1>2. /\ followedAt = [f \in Followers |-> Never]
      /\ known \in [1..Breakdowns -> SUBSET Views]
      /\ rpc \in {"off", "due"}
      /\ asOf = 0 /\ fresh = {}
      /\ metric = [m \in Metrics |-> Zero]
  BY DEF ReportInit, NoReport
<1>3. RequestTypes
  BY <1>1, <1>2 DEF RequestTypes
<1>4. StatementTypes /\ ChartStages
  BY ReadingIs, <1>2 DEF StatementTypes, ChartStages
<1>5. MetricTypes
  BY <1>2 DEF MetricTypes, Zero
<1>6. MetricStages
  BY <1>2 DEF MetricStages, Metrics
<1>7. ChartTypes
  BY DEF ReportInit, NoReport, ChartTypes
<1>8. BreakdownTypes /\ BreakdownStages
  BY <1>2, BreakdownsAssumption DEF ReportInit, NoReport, BreakdownTypes, BreakdownStages
<1>9. QED
  BY <1>1, <1>3, <1>4, <1>5, <1>6, <1>7, <1>8 DEF Parts

\* What is known of the events holds beside the report.
LEMMA EventsInvariant == ReportSpec => [](TypeOK /\ ViewInv)
<1>1. Init => ViewInv
  BY DEF Init, ViewInv, StoredLater, StoredInPast, SeenStored, CheckedClear, InsertedClear
<1>2. QED
  BY <1>1, ReportKeepsViews, TypeCorrect, ViewInductive, PTL DEF Spec

LEMMA PartsInvariant == ReportSpec => []Parts
<1>1. TypeOK /\ ViewInv => StoredLater
  BY DEF ViewInv
<1>2. QED
  BY <1>1, EventsInvariant, ReportStep, PartsStart, EventsOnlyGrow, PartsInductive, PTL
     DEF ReportSpec

\* Type correctness of the report and all that it reads.
THEOREM ReportTypeCorrect == ReportSpec => []ReportTypeOK
BY PartsInvariant, PartsMake, PTL

-----------------------------------------------------------------------------
(* What the report counts *)

\* The boundaries of the periods are numbers, and the earlier one ends where the
\* later one starts, which ends no later than now.
LEMMA Boundaries ==
    ASSUME TypeOK, RequestTypes
    PROVE  /\ \A p \in Periods : Start(p) \in Int /\ End(p) \in Int
           /\ Start("current") = End("previous")
           /\ End("current") = asOf /\ End("previous") <= asOf
           /\ asOf \in Nat /\ now \in Nat /\ asOf <= now
<1>1. asOf \in Nat /\ now \in Nat /\ asOf <= now /\ Period \in Nat
  BY PeriodAssumption DEF TypeOK, RequestTypes
<1>2. QED
  BY <1>1 DEF Start, End, Periods

\* Once the report has noted the time, the views of its periods are all there; of
\* the followers, some may leave, and who follows now is new.
CountsShrink ==
    \A p \in Periods :
        /\ CountBetween("views", p)' = CountBetween("views", p)
        /\ CountBetween("followers", p)' \subseteq CountBetween("followers", p)

LEMMA CountsOnlyShrink ==
    ASSUME TypeOK, TypeOK', RequestTypes, RequestTypes', EventsGrow, UNCHANGED asOf,
           \A f \in Followers : followedAt'[f] \in {followedAt[f], now, Never}
    PROVE  CountsShrink
<1>a. \A p \in Periods : Start(p)' = Start(p) /\ End(p)' = End(p)
  BY DEF Start, End
<1>b. \A p \in Periods : Start(p) \in Int /\ End(p) \in Int /\ End(p) <= now /\ now \in Nat
  BY Boundaries DEF Periods
<1>1. ASSUME NEW p \in Periods PROVE CountBetween("views", p)' = CountBetween("views", p)
  <2>1. \A e \in events' \ events : ~CountedIf(viewedAt'[e], p)
    BY <1>b DEF EventsGrow, CountedIf
  <2>2. \A e \in events : viewedAt'[e] = viewedAt[e]
    BY DEF EventsGrow
  <2>3. \A t : CountedIf(t, p)' = CountedIf(t, p)
    BY <1>a DEF CountedIf
  <2>4. CountProfileViewsBetween(p)' = CountProfileViewsBetween(p)
    BY <1>a, <2>1, <2>2 DEF CountProfileViewsBetween, CountedIf, EventsGrow
  <2>5. QED
    BY <2>4 DEF CountBetween
<1>2. ASSUME NEW p \in Periods
      PROVE  CountBetween("followers", p)' \subseteq CountBetween("followers", p)
  <2>1. ~CountedIf(now, p)
    BY <1>b DEF CountedIf
  <2>2. GetNewFollowersBetween(p)' \subseteq GetNewFollowersBetween(p)
    BY <1>a, <2>1 DEF GetNewFollowersBetween, CountedIf
  <2>3. QED
    BY <2>2 DEF CountBetween
<1>3. QED
  BY <1>1, <1>2 DEF CountsShrink

\* A metric counts what a later report would count, and maybe some who have left.
AllCounted(m) ==
    \/ metric[m] = Zero
    \/ \A p \in Periods : CountBetween(m, p) \subseteq metric[m][p]

\* What of the metrics the statements so far have read stays so while the rest is
\* read: a follower counted for one period does not turn up in the other.
MetricInv ==
    /\ \A p \in Periods : metric["views"][p] \in {{}, CountBetween("views", p)}
    /\ rpc = "previous views" =>
          CountBetween("views", "current") \subseteq metric["views"]["current"]
    /\ rpc = "previous followers" =>
          CountBetween("followers", "current") \subseteq metric["followers"]["current"]
    /\ rpc \in {"current followers", "previous followers", "chart", "raw", "breakdown",
               "done"} => AllCounted("views")
    /\ rpc \in {"chart", "raw", "breakdown", "done"} => AllCounted("followers")
    /\ \A m \in Metrics :
          /\ metric[m]["current"] \cap metric[m]["previous"] = {}
          /\ metric[m]["current"] \cap CountBetween(m, "previous") = {}

\* Nothing is counted for both periods at once.
LEMMA PeriodsApart ==
    ASSUME TypeOK, RequestTypes, NEW m \in Metrics
    PROVE  CountBetween(m, "current") \cap CountBetween(m, "previous") = {}
<1>1. /\ Start("current") \in Int /\ Start("current") = End("previous")
  BY Boundaries DEF Periods
<1>2. \A t \in Int : ~(CountedIf(t, "current") /\ CountedIf(t, "previous"))
  BY <1>1 DEF CountedIf
<1>3. \A e \in events : viewedAt[e] \in Int
  BY DEF TypeOK
<1>4. \A f \in Followers : followedAt[f] # Never => followedAt[f] \in Int
  BY DEF RequestTypes
<1>5. CountProfileViewsBetween("current") \cap CountProfileViewsBetween("previous") = {}
  BY <1>2, <1>3 DEF CountProfileViewsBetween
<1>6. GetNewFollowersBetween("current") \cap GetNewFollowersBetween("previous") = {}
  BY <1>2, <1>4 DEF GetNewFollowersBetween
<1>7. QED
  BY <1>5, <1>6 DEF CountBetween, Metrics

\* MetricInv is preserved by every step.
LEMMA MetricInductive ==
    /\ Parts /\ Parts' /\ EventsGrow /\ MetricInv /\ [ReportNext]_<<vars, reportVars>>
    => MetricInv'
<1> SUFFICES ASSUME Parts, Parts', EventsGrow, MetricInv,
                    [ReportNext]_<<vars, reportVars>>
             PROVE  MetricInv'
  OBVIOUS
<1>a. /\ TypeOK /\ RequestTypes /\ MetricTypes /\ MetricStages /\ StatementTypes
      /\ TypeOK' /\ RequestTypes'
  BY DEF Parts
<1>1. ASSUME CountsShrink, UNCHANGED metric,
             \/ rpc' \in {rpc, "lost"}
             \/ rpc \in {"chart", "raw", "breakdown"} /\ rpc' \in {"raw", "breakdown", "done"}
      PROVE  MetricInv'
  <2>1. \A m \in Metrics, p \in Periods : CountBetween(m, p)' \subseteq CountBetween(m, p)
    BY <1>1 DEF CountsShrink, Metrics
  <2>2. \A m \in Metrics : AllCounted(m) => AllCounted(m)'
    BY <1>1, <2>1 DEF AllCounted, Zero
  <2>3. \A p \in Periods : CountBetween("views", p)' = CountBetween("views", p)
    BY <1>1 DEF CountsShrink
  <2>4. \A m \in Metrics : metric[m]["current"] \cap CountBetween(m, "previous")' = {}
    BY <2>1 DEF MetricInv, Periods
  <2>5. /\ \A p \in Periods : metric["views"][p] \in {{}, CountBetween("views", p)'}
        /\ \A m \in Metrics : metric[m]["current"] \cap metric[m]["previous"] = {}
    BY <2>3 DEF MetricInv
  <2>6. rpc' = "previous views" =>
            CountBetween("views", "current")' \subseteq metric["views"]["current"]
    BY <1>1, <2>3 DEF MetricInv, Periods
  <2>7. rpc' = "previous followers" =>
            CountBetween("followers", "current")' \subseteq metric["followers"]["current"]
    BY <1>1, <2>1 DEF MetricInv, Periods, Metrics
  <2>8. /\ rpc' \in {"current followers", "previous followers", "chart", "raw", "breakdown",
                     "done"} => AllCounted("views")'
        /\ rpc' \in {"chart", "raw", "breakdown", "done"} => AllCounted("followers")'
    BY <1>1, <2>2 DEF MetricInv, Metrics
  <2>9. QED
    BY <1>1, <2>4, <2>5, <2>6, <2>7, <2>8 DEF MetricInv
<1>2. CASE Beside
  <2>1. BesideDoes
    BY <1>2, <1>a, BesideSteps
  <2>2. CountsShrink
    BY <1>a, <2>1, CountsOnlyShrink DEF BesideDoes
  <2>3. QED
    BY <1>1, <2>1, <2>2 DEF BesideDoes
<1>3. CASE Begin
  <2>1. rpc = "due" /\ rpc' = "current views" /\ UNCHANGED metric
    BY <1>3, ReadingIs DEF Begin
  <2>2. \A m \in Metrics : metric[m] = Zero
    BY <1>a, <2>1 DEF MetricStages, Metrics
  <2>3. /\ \A m \in Metrics : metric'[m]["current"] = {} /\ metric'[m]["previous"] = {}
        /\ \A p \in Periods : metric'["views"][p] = {}
    BY <2>1, <2>2 DEF Zero, Periods, Metrics
  <2>4. QED
    BY <2>1, <2>3 DEF MetricInv
<1>b. ASSUME UNCHANGED vars, UNCHANGED <<followedAt, asOf>>
      PROVE  /\ CountsShrink
             /\ \A m \in Metrics, p \in Periods : CountBetween(m, p)' = CountBetween(m, p)
  BY <1>b DEF vars, CountsShrink, CountBetween, CountProfileViewsBetween,
     GetNewFollowersBetween, CountedIf, Start, End
<1>4. ASSUME NEW m \in Metrics, NEW p \in Periods, BuildMetric(m, p)
      PROVE  MetricInv'
  <2>1. \A n \in Metrics, q \in Periods : CountBetween(n, q)' = CountBetween(n, q)
    BY <1>4, <1>b DEF BuildMetric
  <2>2. /\ metric'[m][p] = CountBetween(m, p)
        /\ \A n \in Metrics, q \in Periods :
              n # m \/ q # p => metric'[n][q] = metric[n][q]
        /\ \A n \in Metrics : n # m => metric'[n] = metric[n]
    BY <1>4, <1>a DEF BuildMetric, MetricTypes
  <2>3. \A n \in Metrics : n # m => (AllCounted(n) => AllCounted(n)')
    BY <2>1, <2>2 DEF AllCounted, Zero
  <2>4. CASE p = "current"
    <3>1. rpc = Reading[m]["current"] /\ rpc' = Reading[m]["previous"]
      BY <1>4, <2>4 DEF BuildMetric, Then
    <3>2. metric[m]["previous"] = {}
      BY <1>a, <3>1, ReadingIs DEF MetricStages, Metrics, Zero, Periods
    <3>3. \A n \in Metrics : /\ metric'[n]["current"] \cap metric'[n]["previous"] = {}
                             /\ metric'[n]["current"] \cap CountBetween(n, "previous")' = {}
      BY <1>a, <2>1, <2>2, <2>4, <3>2, PeriodsApart DEF MetricInv, Metrics, Periods
    <3>4. \A q \in Periods : metric'["views"][q] \in {{}, CountBetween("views", q)'}
      BY <2>1, <2>2 DEF MetricInv, Metrics
    <3>5. CASE m = "views"
      BY <2>1, <2>2, <2>4, <3>1, <3>3, <3>4, <3>5, ReadingIs DEF MetricInv, Metrics, Periods
    <3>6. CASE m = "followers"
      BY <2>1, <2>2, <2>3, <2>4, <3>1, <3>3, <3>4, <3>6, ReadingIs
         DEF MetricInv, Metrics, Periods
    <3>7. QED
      BY <3>5, <3>6 DEF Metrics
  <2>5. CASE p = "previous"
    <3>1. rpc = Reading[m]["previous"]
      BY <1>4, <2>5 DEF BuildMetric
    <3>2. CountBetween(m, "current") \subseteq metric[m]["current"]
      BY <3>1, ReadingIs DEF MetricInv, Metrics
    <3>3. AllCounted(m)'
      BY <2>1, <2>2, <2>5, <3>2 DEF AllCounted, Periods
    <3>4. \A n \in Metrics : /\ metric'[n]["current"] \cap metric'[n]["previous"] = {}
                             /\ metric'[n]["current"] \cap CountBetween(n, "previous")' = {}
      BY <2>1, <2>2, <2>5 DEF MetricInv, Metrics, Periods
    <3>5. \A q \in Periods : metric'["views"][q] \in {{}, CountBetween("views", q)'}
      BY <2>1, <2>2 DEF MetricInv, Metrics
    <3>6. CASE m = "views"
      <4>1. rpc' = "current followers"
        BY <1>4, <2>5, <3>6, ReadingIs DEF BuildMetric, Then
      <4>2. QED
        BY <3>3, <3>4, <3>5, <3>6, <4>1 DEF MetricInv
    <3>7. CASE m = "followers"
      <4>1. rpc' = "chart" /\ rpc = "previous followers"
        BY <1>4, <2>5, <3>7, ReadingIs DEF BuildMetric, Then
      <4>2. AllCounted("views")'
        BY <2>3, <3>7, <4>1 DEF MetricInv, Metrics
      <4>3. QED
        BY <3>3, <3>4, <3>5, <3>7, <4>1, <4>2 DEF MetricInv
    <3>8. QED
      BY <3>6, <3>7 DEF Metrics
  <2>6. QED
    BY <2>4, <2>5 DEF Periods
<1>5. ASSUME NEW m \in Metrics, NEW p \in Periods, MetricFails(m, p)
      PROVE  MetricInv'
  <2>1. \A n \in Metrics, q \in Periods : CountBetween(n, q)' = CountBetween(n, q)
    BY <1>5, <1>b DEF MetricFails
  <2>2. /\ metric'[m] = Zero
        /\ \A n \in Metrics : n # m => metric'[n] = metric[n]
    BY <1>5, <1>a DEF MetricFails, MetricTypes
  <2>3. \A n \in Metrics : n # m => (AllCounted(n) => AllCounted(n)')
    BY <2>1, <2>2 DEF AllCounted, Zero
  <2>4. AllCounted(m)'
    BY <2>2 DEF AllCounted, Zero
  <2>5. \A q \in Periods : metric'[m][q] = {}
    BY <2>2 DEF Zero
  <2>6. \A n \in Metrics : /\ metric'[n]["current"] \cap metric'[n]["previous"] = {}
                           /\ metric'[n]["current"] \cap CountBetween(n, "previous")' = {}
    BY <2>1, <2>2, <2>5 DEF MetricInv, Periods
  <2>7. \A q \in Periods : metric'["views"][q] \in {{}, CountBetween("views", q)'}
    BY <2>1, <2>2, <2>5 DEF MetricInv, Metrics
  <2>8. CASE m = "views"
    <3>1. rpc' = "current followers"
      BY <1>5, <2>8, ReadingIs DEF MetricFails, Then
    <3>2. QED
      BY <2>4, <2>6, <2>7, <2>8, <3>1 DEF MetricInv
  <2>9. CASE m = "followers"
    <3>1. rpc' = "chart" /\ rpc \in {"current followers", "previous followers"}
      BY <1>5, <2>9, ReadingIs DEF MetricFails, Then, Periods
    <3>2. AllCounted("views")'
      BY <2>3, <2>9, <3>1 DEF MetricInv, Metrics
    <3>3. QED
      BY <2>4, <2>6, <2>7, <2>9, <3>1, <3>2 DEF MetricInv
  <2>10. QED
    BY <2>8, <2>9 DEF Metrics
<1>6. CASE TimeSeries \/ TimeSeriesFails \/ TimeSeriesFromRawEvents \/ RawEventsFail
  <2>1. /\ rpc \in {"chart", "raw"} /\ rpc' \in {"raw", "breakdown"}
        /\ UNCHANGED vars /\ UNCHANGED <<followedAt, asOf>> /\ UNCHANGED metric
    BY <1>6 DEF TimeSeries, TimeSeriesFails, TimeSeriesFromRawEvents, RawEventsFail, overviewVars
  <2>2. QED
    BY <1>1, <1>b, <2>1
<1>7. CASE BuildBreakdown \/ BreakdownFails
  <2>1. /\ rpc = "breakdown" /\ rpc' \in {"breakdown", "done"}
        /\ UNCHANGED vars /\ UNCHANGED <<followedAt, asOf>> /\ UNCHANGED metric
    BY <1>7 DEF BuildBreakdown, BreakdownFails, AddBreakdown
  <2>2. QED
    BY <1>1, <1>b, <2>1
<1>8. QED
  BY <1>2, <1>3, <1>4, <1>5, <1>6, <1>7 DEF ReportNext, GetOverview, Beside

\* It holds at the start, as nothing has been counted.
LEMMA MetricStart == ReportInit => MetricInv
<1> SUFFICES ASSUME ReportInit PROVE MetricInv
  OBVIOUS
<1>1. rpc \in {"off", "due"} /\ metric = [m \in Metrics |-> Zero]
  BY DEF ReportInit, NoReport
<1>2. \A m \in Metrics, p \in Periods : metric[m][p] = {}
  BY <1>1 DEF Zero
<1>3. QED
  BY <1>1, <1>2 DEF MetricInv, Metrics, Periods

LEMMA MetricInvariant == ReportSpec => [](Parts /\ MetricInv)
<1>1. TypeOK /\ ViewInv => StoredLater
  BY DEF ViewInv
<1>2. Parts => TypeOK
  BY DEF Parts
<1>3. QED
  BY <1>1, <1>2, EventsInvariant, PartsInvariant, ReportStep, EventsOnlyGrow, MetricStart,
     MetricInductive, PTL DEF ReportSpec

\* Safety: the report says of its periods what would be said of them at any later
\* time, though events and followers change between its statements.
THEOREM MetricsAreRepeatable == ReportSpec => []MetricRepeatable
<1>1. Parts /\ MetricInv => MetricRepeatable
  BY DEF MetricInv, MetricRepeatable, AllCounted, Counted, Metrics, Periods
<1>2. QED
  BY <1>1, MetricInvariant, PTL

-----------------------------------------------------------------------------
(* Chart and breakdowns *)

\* A day of a moment, as the bounds that its hours lie in.
LEMMA DayBounds ==
    ASSUME NEW t \in Int
    PROVE  Day(t) \in Int /\ DayLen * Day(t) <= t /\ t < DayLen * Day(t) + DayLen
BY DEF Day

\* Days come in the order of their moments.
LEMMA DaysInOrder ==
    ASSUME NEW s \in Int, NEW t \in Int, s <= t PROVE Day(s) <= Day(t)
<1>1. /\ Day(s) \in Int /\ DayLen * Day(s) <= s
      /\ Day(t) \in Int /\ t < DayLen * (Day(t) + 1)
  <2>1. Day(t) \in Int /\ t < DayLen * Day(t) + DayLen
    BY DayBounds
  <2>2. QED
    BY <2>1, DayBounds
<1>2. SUFFICES ASSUME Day(t) < Day(s) PROVE FALSE
  BY <1>1
<1>3. DayLen * (Day(t) + 1) <= DayLen * Day(s)
  BY <1>1, <1>2
<1>4. QED
  BY <1>1, <1>3

\* The chart has a place for each day of the current period, and the statement
\* that reads the counters reads those.
LEMMA ChartReaches ==
    ASSUME TypeOK, RequestTypes, NEW e \in CountProfileViewsBetween("current")
    PROVE  /\ DayOf(e) \in ChartDays /\ DayOf(e) \in GetDailyInsights
           /\ e \in GetDailyProfileViews
<1>1. /\ e \in events /\ viewedAt[e] \in 0..MaxTime
      /\ Start("current") <= viewedAt[e] /\ viewedAt[e] < asOf
      /\ Start("current") = asOf - Period /\ asOf \in Nat /\ Period \in Nat
  BY PeriodAssumption DEF CountProfileViewsBetween, CountedIf, TypeOK, RequestTypes, Start, End
<1>2. DayOf(e) \in Days
  BY <1>1, DayOfMoment DEF DayOf
<1>3. Day(Start("current")) <= DayOf(e) /\ DayOf(e) <= Day(asOf)
  BY <1>1, DaysInOrder DEF DayOf
<1>4. /\ Day(asOf) \in Int /\ Day(Start("current")) \in Int /\ DayOf(e) \in Int
      /\ Period \div DayLen \in Int
  BY <1>1 DEF DayOf, Day
<1>5. Day(asOf) = Day(Start("current")) + Period \div DayLen
  <2>1. Period = DayLen * (Period \div DayLen)
    BY PeriodAssumption
  <2>2. /\ DayLen * Day(asOf) <= asOf /\ asOf < DayLen * (Day(asOf) + 1)
        /\ DayLen * Day(Start("current")) <= asOf - Period
        /\ asOf - Period < DayLen * (Day(Start("current")) + 1)
    BY <1>1, <1>4, DayBounds
  <2> DEFINE a == Day(asOf)
             b == Day(Start("current"))
             k == Period \div DayLen
  <2>3. /\ DayLen * a <= asOf /\ asOf < DayLen * (a + 1)
        /\ DayLen * (b + k) <= asOf /\ asOf < DayLen * (b + k + 1)
        /\ a \in Int /\ b \in Int /\ k \in Int
    <3>1. a \in Int /\ b \in Int /\ k \in Int /\ DayLen \in Int
      BY <1>4
    <3>2. /\ DayLen * (b + k) = DayLen * b + DayLen * k
          /\ DayLen * (b + k + 1) = DayLen * (b + 1) + DayLen * k
      BY <3>1
    <3>3. DayLen * k = Period
      BY <2>1
    <3>4. /\ DayLen * a <= asOf /\ asOf < DayLen * (a + 1)
          /\ DayLen * b <= asOf - Period /\ asOf - Period < DayLen * (b + 1)
      BY <2>2
    <3> HIDE DEF a, b, k
    <3>5. DayLen * a \in Int /\ DayLen * b \in Int /\ DayLen * (b + 1) \in Int
      BY <3>1
    <3>6. QED
      BY <1>1, <3>1, <3>2, <3>3, <3>4, <3>5
  <2> HIDE DEF a, b, k
  <2>4. ~(a < b + k)
    <3>1. SUFFICES ASSUME a + 1 <= b + k PROVE FALSE
      BY <2>3
    <3>2. DayLen * (a + 1) <= DayLen * (b + k)
      BY <2>3, <3>1
    <3>3. QED
      BY <1>1, <2>3, <3>2
  <2>5. ~(b + k < a)
    <3>1. SUFFICES ASSUME b + k + 1 <= a PROVE FALSE
      BY <2>3
    <3>2. DayLen * (b + k + 1) <= DayLen * a
      BY <2>3, <3>1
    <3>3. QED
      BY <1>1, <2>3, <3>2
  <2>6. a = b + k
    BY <2>3, <2>4, <2>5
  <2>7. QED
    BY <2>6 DEF a, b, k
<1>6. DayOf(e) \in ChartDays
  BY <1>3, <1>4, <1>5 DEF ChartDays
<1>7. QED
  BY <1>1, <1>2, <1>3, <1>6 DEF GetDailyInsights, GetDailyProfileViews

\* A part of the events has no more of a day than all of them.
LEMMA FewerOnDay ==
    ASSUME NEW d, NEW E \in SUBSET Views, NEW C \in SUBSET E
    PROVE  Cardinality(On(d, C)) <= Cardinality(On(d, E))
<1>1. On(d, C) \subseteq On(d, E)
  BY DEF On
<1>2. QED
  BY <1>1, DayFinite, FS_Subset

Shown == metric["views"]["current"]

\* The chart, when it has been drawn.
ChartHolds ==
    rpc \in {"breakdown", "done"} =>
        \A e \in Shown :
            /\ DayOf(e) \in DOMAIN chart
            /\ DayOf(e) \in fresh => chart[DayOf(e)] >= Cardinality(On(DayOf(e), Shown))

\* The breakdowns made so far.
BreakdownsHold ==
    \A b \in DOMAIN breakdown :
        breakdown[b].ok => Shown \cap known[b] \subseteq breakdown[b].views

\* What is shown is views of the current period.
LEMMA ShownInPeriod ==
    ASSUME Parts, MetricInv
    PROVE  /\ Shown \subseteq CountProfileViewsBetween("current")
           /\ Shown \subseteq events /\ events \subseteq Views
BY DEF Parts, MetricInv, Periods, CountBetween, CountProfileViewsBetween, Shown, TypeOK

\* Both are preserved by every step.
LEMMA ReportInductive ==
    /\ Parts /\ EventsGrow /\ MetricInv /\ CountersExact
    /\ ChartHolds /\ BreakdownsHold /\ [ReportNext]_<<vars, reportVars>>
    => ChartHolds' /\ BreakdownsHold'
<1> SUFFICES ASSUME Parts, EventsGrow, MetricInv, CountersExact, ChartHolds, BreakdownsHold,
                    [ReportNext]_<<vars, reportVars>>
             PROVE  ChartHolds' /\ BreakdownsHold'
  OBVIOUS
<1>a. /\ TypeOK /\ RequestTypes /\ ChartStages /\ BreakdownStages /\ BreakdownTypes
  BY DEF Parts
<1>b. /\ Shown \subseteq CountProfileViewsBetween("current")
      /\ Shown \subseteq events /\ events \subseteq Views
  BY ShownInPeriod
<1>1. ASSUME UNCHANGED <<known, metric, breakdown>> PROVE BreakdownsHold'
  BY <1>1 DEF BreakdownsHold, Shown
<1>2. ASSUME UNCHANGED <<metric, chart, fresh>>, rpc \in {"breakdown", "done"} \/ rpc' = "lost"
      PROVE  ChartHolds'
  <2>1. SUFFICES ASSUME rpc' # "lost" PROVE ChartHolds'
    BY DEF ChartHolds
  <2>2. Shown' = Shown
    BY <1>2 DEF Shown
  <2>3. \A e \in Shown : DayOf(e)' = DayOf(e)
    BY <1>b DEF EventsGrow, DayOf, Day
  <2>4. \A d : On(d, Shown)' = On(d, Shown)
    BY <2>2, <2>3 DEF On
  <2>5. QED
    BY <1>2, <2>1, <2>2, <2>3, <2>4 DEF ChartHolds
<1>3. CASE Beside
  <2>1. BesideDoes
    BY <1>3, <1>a, BesideSteps
  <2>2. CASE rpc' \in {"breakdown", "done"}
    BY <1>1, <1>2, <2>1, <2>2 DEF BesideDoes
  <2>3. CASE rpc' \notin {"breakdown", "done"}
    BY <1>1, <2>1, <2>3 DEF BesideDoes, ChartHolds
  <2>4. QED
    BY <2>2, <2>3
<1>4. CASE Begin
  <2>1. rpc' = "current views" /\ UNCHANGED <<known, metric, breakdown>>
    BY <1>4, ReadingIs DEF Begin
  <2>2. QED
    BY <1>1, <2>1 DEF ChartHolds
<1>5. ASSUME NEW m \in Metrics, NEW p \in Periods, BuildMetric(m, p) \/ MetricFails(m, p)
      PROVE  ChartHolds' /\ BreakdownsHold'
  <2>1. /\ rpc = Reading[m][p] /\ UNCHANGED breakdown
        /\ rpc' \in {"previous views", "current followers", "previous followers", "chart"}
    BY <1>5, ReadingIs DEF BuildMetric, MetricFails, Then, Metrics, Periods
  <2>2. breakdown = <<>>
    BY <1>a, <2>1, ReadingIs DEF BreakdownStages, Metrics, Periods
  <2>3. DOMAIN breakdown' = {}
    <3>1. breakdown' = <<>>
      BY <2>1, <2>2
    <3>2. QED
      BY <3>1
  <2>4. QED
    BY <2>1, <2>3 DEF ChartHolds, BreakdownsHold
<1>c. ASSUME UNCHANGED vars, UNCHANGED metric
      PROVE  /\ Shown' = Shown
             /\ \A e : DayOf(e)' = DayOf(e)
             /\ \A d : On(d, Shown)' = On(d, Shown)
  BY <1>c DEF vars, Shown, On, DayOf, Day
<1>6. CASE TimeSeries
  <2>1. /\ UNCHANGED vars /\ UNCHANGED metric /\ UNCHANGED <<known, metric, breakdown>>
        /\ chart' = [d \in ChartDays |-> IF d \in GetDailyInsights THEN views[d] ELSE 0]
        /\ fresh' = {d \in exact : On(d, Awaiting) = {}}
    BY <1>6 DEF TimeSeries
  <2>2. ASSUME NEW e \in Shown, DayOf(e) \in fresh'
        PROVE  chart'[DayOf(e)] >= Cardinality(On(DayOf(e), Shown))
    <3>1. DayOf(e) \in ChartDays /\ DayOf(e) \in GetDailyInsights
      BY <1>a, <1>b, ChartReaches
    <3>2. DayOf(e) \in exact /\ On(DayOf(e), Awaiting) = {}
      BY <2>1, <2>2
    <3>3. chart'[DayOf(e)] = views[DayOf(e)]
      BY <2>1, <3>1
    <3>4. views[DayOf(e)] = Cardinality(On(DayOf(e), Settled))
      BY <3>2 DEF CountersExact
    <3>5. On(DayOf(e), Settled) = On(DayOf(e), events)
      BY <3>2 DEF On, Settled, Awaiting
    <3>6. /\ Cardinality(On(DayOf(e), Shown)) <= Cardinality(On(DayOf(e), events))
          /\ Cardinality(On(DayOf(e), Shown)) \in Nat
          /\ Cardinality(On(DayOf(e), events)) \in Nat
      BY <1>b, FewerOnDay, DayFinite
    <3>7. QED
      BY <3>3, <3>4, <3>5, <3>6
  <2>3. \A e \in Shown : DayOf(e) \in DOMAIN chart'
    BY <1>a, <1>b, <2>1, ChartReaches
  <2>4. QED
    BY <1>1, <1>c, <2>1, <2>2, <2>3 DEF ChartHolds
<1>7. CASE TimeSeriesFails
  BY <1>1, <1>7 DEF TimeSeriesFails, ChartHolds, overviewVars
<1>8. CASE TimeSeriesFromRawEvents
  <2>1. /\ UNCHANGED vars /\ UNCHANGED metric /\ UNCHANGED <<known, metric, breakdown>>
        /\ chart' = [d \in ChartDays |-> Cardinality(On(d, GetDailyProfileViews))]
    BY <1>8 DEF TimeSeriesFromRawEvents
  <2>2. Shown \subseteq GetDailyProfileViews /\ GetDailyProfileViews \subseteq Views
    BY <1>a, <1>b, ChartReaches DEF GetDailyProfileViews
  <2>3. ASSUME NEW e \in Shown
        PROVE  /\ DayOf(e) \in DOMAIN chart'
               /\ chart'[DayOf(e)] >= Cardinality(On(DayOf(e), Shown))
    <3>1. DayOf(e) \in ChartDays
      BY <1>a, <1>b, ChartReaches
    <3>2. chart'[DayOf(e)] = Cardinality(On(DayOf(e), GetDailyProfileViews))
      BY <2>1, <3>1
    <3>3. /\ Cardinality(On(DayOf(e), Shown))
                <= Cardinality(On(DayOf(e), GetDailyProfileViews))
          /\ Cardinality(On(DayOf(e), Shown)) \in Nat
          /\ Cardinality(On(DayOf(e), GetDailyProfileViews)) \in Nat
      BY <1>b, <2>2, FewerOnDay, DayFinite
    <3>4. QED
      BY <2>1, <3>1, <3>2, <3>3
  <2>4. QED
    BY <1>1, <1>c, <2>1, <2>3 DEF ChartHolds
<1>9. CASE RawEventsFail
  <2>1. /\ UNCHANGED vars /\ UNCHANGED metric /\ UNCHANGED <<known, metric, breakdown>>
        /\ chart' = [d \in ChartDays |-> 0] /\ fresh' = fresh /\ rpc = "raw"
    BY <1>9 DEF RawEventsFail
  <2>2. fresh' = {}
    BY <1>a, <2>1 DEF ChartStages
  <2>3. \A e \in Shown : DayOf(e) \in DOMAIN chart'
    BY <1>a, <1>b, <2>1, ChartReaches
  <2>4. QED
    BY <1>1, <1>c, <2>1, <2>2, <2>3 DEF ChartHolds
<1>10. CASE BuildBreakdown \/ BreakdownFails
  <2>1. PICK ok \in BOOLEAN, E \in SUBSET events :
            /\ AddBreakdown(ok, E)
            /\ ok => E = GetCounts(Len(breakdown) + 1)
    BY <1>10 DEF BuildBreakdown, BreakdownFails, GetCounts
  <2>2. /\ rpc = "breakdown" /\ UNCHANGED <<known, metric, chart, fresh>>
        /\ breakdown' = Append(breakdown, [ok |-> ok, views |-> E])
    BY <2>1 DEF AddBreakdown
  <2>3. ChartHolds'
    BY <1>2, <2>2
  <2>4. [ok |-> ok, views |-> E] \in Entries
    BY DEF Entries
  <2>5. /\ DOMAIN breakdown' = 1..(Len(breakdown) + 1) /\ DOMAIN breakdown = 1..Len(breakdown)
        /\ \A i \in 1..Len(breakdown) : breakdown'[i] = breakdown[i]
        /\ breakdown'[Len(breakdown) + 1] = [ok |-> ok, views |-> E]
        /\ Len(breakdown) \in Nat
    BY <1>a, <2>2, <2>4, LongerSeq, LargerSeq DEF BreakdownTypes
  <2>6. Shown \cap known[Len(breakdown) + 1] \subseteq GetCounts(Len(breakdown) + 1)
    BY <1>b DEF GetCounts, CountProfileViewsBetween, CountedIf
  <2>7. ASSUME NEW b \in DOMAIN breakdown', breakdown'[b].ok
        PROVE  Shown \cap known[b] \subseteq breakdown'[b].views
    <3>1. CASE b \in 1..Len(breakdown)
      BY <2>5, <2>7, <3>1 DEF BreakdownsHold
    <3>2. CASE b = Len(breakdown) + 1
      <4>1. breakdown'[b].ok = ok /\ breakdown'[b].views = E
        BY <2>5, <3>2
      <4>2. E = GetCounts(Len(breakdown) + 1)
        BY <2>1, <2>7, <4>1
      <4>3. QED
        BY <2>6, <3>2, <4>1, <4>2
    <3>3. QED
      BY <2>5, <3>1, <3>2
  <2>8. BreakdownsHold'
    BY <2>2, <2>7 DEF BreakdownsHold, Shown
  <2>9. QED
    BY <2>3, <2>8
<1>11. QED
  BY <1>3, <1>4, <1>5, <1>6, <1>7, <1>8, <1>9, <1>10 DEF ReportNext, GetOverview, Beside

\* Safety: a view of the metric is on the chart, on its own day unless the day's
\* counter was wrong or late, and in every breakdown that did not fail.
THEOREM ReportsAreConsistent == ReportSpec => []ReportConsistent
<1>1. ReportInit => ChartHolds /\ BreakdownsHold
  <2> SUFFICES ASSUME ReportInit PROVE ChartHolds /\ BreakdownsHold
    OBVIOUS
  <2>1. rpc \in {"off", "due"} /\ DOMAIN breakdown = {}
    BY DEF ReportInit, NoReport
  <2>2. QED
    BY <2>1 DEF ChartHolds, BreakdownsHold
<1>2. ChartHolds /\ BreakdownsHold => ReportConsistent
  BY DEF ChartHolds, BreakdownsHold, ReportConsistent, Shown, Counted
<1>3. ReportSpec => []CountersExact
  BY ReportKeepsViews, CountersStayExact, PTL
<1>4. TypeOK /\ ViewInv => StoredLater
  BY DEF ViewInv
<1>5. QED
  BY <1>1, <1>2, <1>3, <1>4, EventsInvariant, MetricInvariant, ReportStep, EventsOnlyGrow,
     ReportInductive, PTL DEF ReportSpec
=============================================================================
