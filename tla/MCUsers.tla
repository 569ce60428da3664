------------------------------- MODULE MCUsers -------------------------------
(***************************************************************************)
(* UserDirectory from tables with something in them.  The behaviours are   *)
(* of four sorts, by their initial states, in each of which what does not  *)
(* matter to it is at rest: the settings, two updates of names, a walk     *)
(* beside changes of its list, a walk beside changes of Owner's settings.  *)
(***************************************************************************)
EXTENDS UserDirectory

CONSTANTS u1, u2, u3, n1, n2, n3, r1

\* Rows made before the first change, the newest first.
OldRows(q) == [x \in {q[i] : i \in 1..Len(q)} |-> 1 - (CHOOSE i \in 1..Len(q) : q[i] = x)]

Edges == {<<<<u3, u1>>, <<u2, u1>>>>, <<<<u1, u2>>, <<u3, u2>>, <<u2, u1>>>>}

\* The third user has yet to choose a name.
SomeTables(rows, edges) ==
    /\ joined = OldRows(rows)
    /\ name = [u \in Users |-> CASE u = u1 -> n1 [] u = u2 -> n2 [] OTHER -> None]
    /\ follows \in {OldRows(q) : q \in edges}
    /\ arrived = [kind \in Arriving |-> 2]

SettingsOver ==
    /\ exists = FALSE /\ on = {} /\ asked = DefaultOn
    /\ turnOn = [w \in Updates |-> {}] /\ turnOff = turnOn
    /\ pc = [r \in Updates \cup Gets |-> "failed"]
    /\ draft = turnOn /\ behind = turnOn
    /\ byOwner = {} /\ vpc = [v \in Views |-> "failed"]
    /\ overlapped = {} /\ excused = {}

\* One update hides the profile and the other shows it.
SettingsHideAndShow ==
    /\ exists = FALSE /\ on = {} /\ asked = DefaultOn
    /\ \E w \in Updates : turnOn = [x \in Updates |-> IF x = w THEN {Public} ELSE {}]
    /\ turnOff = [w \in Updates |-> {Public} \ turnOn[w]]
    /\ pc = [r \in Updates \cup Gets |-> IF r \in Updates THEN "new" ELSE "failed"]
    /\ draft = [w \in Updates |-> {}] /\ behind = draft
    /\ byOwner = {} /\ vpc = [v \in Views |-> "failed"]
    /\ overlapped = {} /\ excused = {}

NoWalk == wpc = "failed" /\ walk = Idle
Histories == /\ since = [r \in Requests |-> {}]
             /\ stable = {} /\ got = {} /\ again = {} /\ shifts = {} /\ gap = {}
NoUpdate == /\ put = [r \in Requests |-> [user |-> Owner, name |-> None]]
            /\ upc = [r \in Requests |-> "error"]

SettingsAtWork ==
    /\ Init
    /\ TablesEmpty /\ changes = MaxChanges /\ NoWalk /\ NoUpdate /\ Histories

NamesAtWork ==
    /\ SettingsOver
    /\ SomeTables(<<u2, u1>>, {<<>>}) /\ changes = 0 /\ NoWalk /\ Histories
    /\ put \in [Requests -> [user : Users, name : Names \cup {None}]]
    /\ upc = [r \in Requests |-> "new"]

ListsAtWork ==
    /\ SettingsOver
    /\ SomeTables(<<u3, u2, u1>>, Edges) /\ changes = 0
    /\ wpc = "idle" /\ walk = Idle /\ Histories
    /\ put \in [Requests -> {[user |-> u1, name |-> n3], [user |-> u3, name |-> n3]}]
    /\ upc = [r \in Requests |-> IF r = r1 THEN "write" ELSE "error"]
    /\ \A r \in Requests : put[r] = put[r1]

PrivacyAtWork ==
    /\ SettingsHideAndShow
    /\ SomeTables(<<u3, u2, u1>>, Edges) /\ changes = MaxChanges
    /\ wpc = "idle" /\ walk = Idle /\ NoUpdate /\ Histories

MCInit == SettingsAtWork \/ NamesAtWork \/ ListsAtWork \/ PrivacyAtWork
MCSpec == MCInit /\ [][DirectoryNext]_<<vars, directoryVars>>

\* Constraint: a walk begins in the tables given, who asks is left open and the
\* settings change only where it matters, and tables at rest are asked for what does
\* not fit and from other offsets than the first.
UsefulWalks ==
    /\ wpc = "idle" => changes \in {0, MaxChanges}
    /\ walk.kind \in Arriving \cup {"search"} => walk.viewer = None
    /\ \/ wpc \in {"idle", "failed"}
       \/ walk.kind \in ByName /\ Fits(walk.rawLimit) /\ Fits(walk.rawOffset)
       \/ \A w \in Updates : pc[w] = "failed"
    /\ changes < MaxChanges => Fits(walk.rawLimit) /\ walk.rawOffset = 0
=============================================================================
