---------------------------- MODULE InsightsReport ----------------------------
(***************************************************************************)
(* GetOverview, which reports on a profile's last period and the one       *)
(* before: how many views and new followers, a chart of views per day, and *)
(* what browsers, systems, devices and referrers the views came from.  It  *)
(* notes the time and then runs up to ten statements, each of which may    *)
(* fail by itself, while views are recorded, the backfill rewrites the     *)
(* counters and followers come and go (DailyInsights is part of the        *)
(* module).                                                                *)
(*                                                                         *)
(* What a statement counts is kept as the set of things counted; how a     *)
(* breakdown is sorted, cut to ten items and turned into percentages is    *)
(* left out.                                                               *)
(***************************************************************************)
EXTENDS DailyInsights, Sequences

CONSTANTS
    Followers,  \* who may follow the user
    Never,      \* followedAt of those who do not
    Period,     \* 7, 30 or 90 days
    Breakdowns  \* how many there are (browsers, systems, devices, referrers)

ASSUME NeverAssumption == Never \notin Int
ASSUME PeriodAssumption == Period \in Nat \ {0} /\ Period % DayLen = 0
ASSUME BreakdownsAssumption == Breakdowns \in Nat \ {0}

VARIABLES
    followedAt, \* follows table: created_at of each follower's row
    known,      \* known[b]: the views of which is known what breakdown b counts
    rpc,        \* the statement the report is at; "off" if nobody asks for one
    asOf,       \* the time it noted
    metric,     \* metric[m][p]: what was counted for metric m, period p
    chart,      \* chart[d]: views on day d
    breakdown,  \* breakdown[b]: whether it succeeded and the views it counted
    fresh       \* history: days whose counters, when the chart was read, stood
                \*   for all of the day's events

reportVars == <<followedAt, known, rpc, asOf, metric, chart, breakdown, fresh>>
overviewVars == <<asOf, metric, chart, breakdown, fresh>>

Metrics == {"views", "followers"}
Periods == {"current", "previous"}
Reading ==
    [views     |-> [current |-> "current views", previous |-> "previous views"],
     followers |-> [current |-> "current followers", previous |-> "previous followers"]]
Readings == {Reading[m][p] : m \in Metrics, p \in Periods}
Zero == [p \in Periods |-> {}]

ReportTypeOK ==
    /\ TypeOK
    /\ followedAt \in [Followers -> 0..MaxTime \cup {Never}]
    /\ known \in [1..Breakdowns -> SUBSET Views]
    /\ rpc \in Readings \cup {"off", "due", "chart", "raw", "breakdown", "done", "lost"}
    /\ asOf \in 0..now
    /\ metric \in [Metrics -> [Periods -> SUBSET (events \cup Followers)]]
    /\ chart \in [DOMAIN chart -> Nat]
    /\ breakdown \in Seq([ok : BOOLEAN, views : SUBSET events])
    /\ Len(breakdown) <= Breakdowns
    /\ fresh \in SUBSET Days

NoReport ==
    /\ asOf = 0
    /\ metric = [m \in Metrics |-> Zero]
    /\ chart = <<>>
    /\ breakdown = <<>>
    /\ fresh = {}

ReportInit ==
    /\ Init
    /\ followedAt = [f \in Followers |-> Never]
    /\ known \in [1..Breakdowns -> SUBSET Views]
    /\ rpc \in {"off", "due"}
    /\ NoReport

-----------------------------------------------------------------------------
(* Followers *)

Follow(f) ==
    /\ followedAt[f] = Never
    /\ followedAt' = [followedAt EXCEPT ![f] = now]
    /\ UNCHANGED <<vars, known, rpc, overviewVars>>

Unfollow(f) ==
    /\ followedAt[f] # Never
    /\ followedAt' = [followedAt EXCEPT ![f] = Never]
    /\ UNCHANGED <<vars, known, rpc, overviewVars>>

-----------------------------------------------------------------------------
(* GetOverview *)

Begin ==
    /\ rpc = "due"
    /\ rpc' = Reading["views"]["current"]
    /\ asOf' = now
    /\ UNCHANGED <<vars, followedAt, known, metric, chart, breakdown, fresh>>

Start(p) == IF p = "current" THEN asOf - Period ELSE asOf - 2 * Period
End(p) == IF p = "current" THEN asOf ELSE asOf - Period

\* Faulty variant: periods that share their boundary.
CountedIfInclusive(t, p) == Start(p) <= t /\ t <= End(p)
CountedIf(t, p) == Start(p) <= t /\ t < End(p)

CountProfileViewsBetween(p) == {e \in events : CountedIf(viewedAt[e], p)}
GetNewFollowersBetween(p) ==
    {f \in Followers : followedAt[f] # Never /\ CountedIf(followedAt[f], p)}
CountBetween(m, p) ==
    IF m = "views" THEN CountProfileViewsBetween(p) ELSE GetNewFollowersBetween(p)

Then(m, p) == IF p = "current" THEN Reading[m]["previous"]
              ELSE IF m = "views" THEN Reading["followers"]["current"] ELSE "chart"

BuildMetric(m, p) ==
    /\ rpc = Reading[m][p]
    /\ rpc' = Then(m, p)
    /\ metric' = [metric EXCEPT ![m][p] = CountBetween(m, p)]
    /\ UNCHANGED <<vars, followedAt, known, asOf, chart, breakdown, fresh>>

\* A metric of which a count fails is all zero.
MetricFails(m, p) ==
    /\ DbMayFail
    /\ rpc = Reading[m][p]
    /\ rpc' = Then(m, "previous")
    /\ metric' = [metric EXCEPT ![m] = Zero]
    /\ UNCHANGED <<vars, followedAt, known, asOf, chart, breakdown, fresh>>

\* Faulty variant: as many days as the period has.
ChartDaysTooFew == Day(Start("current"))..(Day(Start("current")) + Period \div DayLen - 1)

\* The period touches one more.
ChartDays == Day(Start("current"))..(Day(Start("current")) + Period \div DayLen)

\* The rows of the counters' table from the first date to the last.
GetDailyInsights == {d \in Days : Day(Start("current")) <= d /\ d <= Day(asOf)}

TimeSeries ==
    /\ rpc = "chart"
    /\ rpc' = "breakdown"
    /\ chart' = [d \in ChartDays |-> IF d \in GetDailyInsights THEN views[d] ELSE 0]
    /\ fresh' = {d \in exact : On(d, Awaiting) = {}}
    /\ UNCHANGED <<vars, followedAt, known, asOf, metric, breakdown>>

TimeSeriesFails ==
    /\ DbMayFail /\ rpc = "chart"
    /\ rpc' = "raw"
    /\ UNCHANGED <<vars, followedAt, known, overviewVars>>

\* The events of the period, those at its end included.
GetDailyProfileViews == {e \in events : Start("current") <= viewedAt[e] /\ viewedAt[e] <= asOf}

\* The fallback counts the events themselves.
TimeSeriesFromRawEvents ==
    /\ rpc = "raw"
    /\ rpc' = "breakdown"
    /\ chart' = [d \in ChartDays |-> Cardinality(On(d, GetDailyProfileViews))]
    /\ fresh' = Days
    /\ UNCHANGED <<vars, followedAt, known, asOf, metric, breakdown>>

\* If that fails too the chart is flat.
RawEventsFail ==
    /\ DbMayFail /\ rpc = "raw"
    /\ rpc' = "breakdown"
    /\ chart' = [d \in ChartDays |-> 0]
    /\ UNCHANGED <<vars, followedAt, known, asOf, metric, breakdown, fresh>>

AddBreakdown(ok, views_) ==
    /\ rpc = "breakdown"
    /\ breakdown' = Append(breakdown, [ok |-> ok, views |-> views_])
    /\ rpc' = IF Len(breakdown') = Breakdowns THEN "done" ELSE "breakdown"
    /\ UNCHANGED <<vars, followedAt, known, asOf, metric, chart, fresh>>

\* Here the period has no end.
GetCounts(b) == {e \in events \cap known[b] : Start("current") <= viewedAt[e]}

BuildBreakdown == AddBreakdown(TRUE, GetCounts(Len(breakdown) + 1))

BreakdownFails == DbMayFail /\ AddBreakdown(FALSE, {})

-----------------------------------------------------------------------------
(* With the recording of views *)

\* The process of the report ends.
RestartDuringReport ==
    /\ Restart
    /\ rpc' = IF rpc \in {"off", "done"} THEN rpc ELSE "lost"
    /\ UNCHANGED <<followedAt, known, overviewVars>>

GetOverview ==
    \/ Begin
    \/ \E m \in Metrics, p \in Periods : BuildMetric(m, p) \/ MetricFails(m, p)
    \/ TimeSeries \/ TimeSeriesFails \/ TimeSeriesFromRawEvents \/ RawEventsFail
    \/ BuildBreakdown \/ BreakdownFails

DailyStep ==
    \/ \E v \in Views : RecordProfileView(v)
    \/ StartBackfill \/ WriteBackfill \/ BackfillFails
    \/ Tick

ReportNext ==
    \/ GetOverview
    \/ \E f \in Followers : Follow(f) \/ Unfollow(f)
    \/ DailyStep /\ UNCHANGED reportVars
    \/ RestartDuringReport

ReportSpec == ReportInit /\ [][ReportNext]_<<vars, reportVars>>

-----------------------------------------------------------------------------
(* Properties *)

Counted(m, p) == metric[m][p]

\* The report says of its two periods what would be said of them at any later
\* time, though its statements run one after the other while views and followers
\* come in: a metric of views counts exactly the views of its period, a metric of
\* followers those who have followed since then and maybe some who have left, and
\* nothing is counted for both periods.
MetricRepeatable ==
    /\ \A p \in Periods : Counted("views", p) \in {{}, CountBetween("views", p)}
    /\ rpc \in {"chart", "raw", "breakdown", "done"} =>
          \A m \in Metrics :
              \/ metric[m] = Zero
              \/ \A p \in Periods : CountBetween(m, p) \subseteq Counted(m, p)
    /\ \A m \in Metrics : Counted(m, "current") \cap Counted(m, "previous") = {}

\* Every view of the metric is on the chart, on its own day, whichever of the two
\* sources the chart was drawn from, except on days whose counters were wrong or
\* late; and it is in every breakdown that did not fail, if anything is known of it.
ReportConsistent ==
    LET current == Counted("views", "current")
    IN  /\ rpc \in {"breakdown", "done"} =>
              \A e \in current :
                  /\ DayOf(e) \in DOMAIN chart
                  /\ DayOf(e) \in fresh =>
                        chart[DayOf(e)] >= Cardinality(On(DayOf(e), current))
        /\ \A b \in DOMAIN breakdown :
              breakdown[b].ok => current \cap known[b] \subseteq breakdown[b].views
=============================================================================
