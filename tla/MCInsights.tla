------------------------------ MODULE MCInsights ------------------------------
(***************************************************************************)
(* InsightsReport from two sorts of initial states: views, counters and    *)
(* backfills while nobody asks for a report; and a report beside views     *)
(* whose duplicate check is over, in a process whose backfill is over.     *)
(***************************************************************************)
EXTENDS InsightsReport

CONSTANTS v1, ReportBy

RecordingAtWork ==
    /\ Init
    /\ followedAt = [f \in Followers |-> Never] /\ known = [b \in 1..Breakdowns |-> {}]
    /\ rpc = "off" /\ NoReport

ReportAtWork ==
    /\ ipOf = [v \in Views |-> NoIP]
    /\ pc = [v \in Views |-> "insert"]
    /\ events = {} /\ viewedAt = [v \in Views |-> 0] /\ views = [d \in Days |-> 0]
    /\ backfill = "over" /\ from = 0 /\ counted = {} /\ now = 0
    /\ seen = [v \in Views |-> {}] /\ exact = Days /\ touched = {}
    /\ followedAt = [f \in Followers |-> Never] /\ known = [b \in 1..Breakdowns |-> IF b = 1 THEN Views ELSE {v1}]
    /\ rpc = "due" /\ NoReport

MCInit == RecordingAtWork \/ ReportAtWork
MCSpec == MCInit /\ [][ReportNext]_<<vars, reportVars>>

\* Constraint: each sort of behaviour keeps to itself, and ends with the report,
\* which is not asked for very late.
Apart ==
    /\ rpc = "off" => \A f \in Followers : followedAt[f] = Never
    /\ rpc # "off" => now <= ReportBy
    /\ rpc \notin {"lost", "done"}
=============================================================================
