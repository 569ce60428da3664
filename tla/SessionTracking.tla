--------------------------- MODULE SessionTracking ---------------------------
(***************************************************************************)
(* Session tracking (internal/session): the middleware calls RecordSession *)
(* on every authenticated request.  An in-memory map remembers when a      *)
(* session was last handed to a background upsert, and requests inside TTL *)
(* of that skip the database.  The map is set before the upsert runs and   *)
(* is not corrected when it fails.  The map and the upserts under way are  *)
(* lost when the process restarts; the user_sessions table is not.         *)
(***************************************************************************)
EXTENDS Integers

CONSTANTS
    Users,       \* user ids
    Sessions,    \* session ids of the tokens
    TTL,         \* dedupTTL (5 minutes)
    Timeout,     \* of the background upsert (5 seconds)
    StaleAfter,  \* idle time after which the start-up cleanup deletes (30 days)
    MaxTime,     \* bound on the clock
    DbMayFail    \* whether a statement may fail but for a foreign key

ASSUME TTLAssumption == TTL \in Nat
\* An upsert has ended before its session's entry expires.
ASSUME TimeoutAssumption == Timeout \in Nat /\ Timeout < TTL
ASSUME StaleAfterAssumption == StaleAfter \in Nat
ASSUME MaxTimeAssumption == MaxTime \in Nat
ASSUME DbMayFailAssumption == DbMayFail \in BOOLEAN

\* The key "userID:sessionID" of the map, UNIQUE(user_id, session_id) of the
\* table.
Keys == Users \X Sessions
UserOf(k) == k[1]

VARIABLES
    registered,  \* users table
    cached,      \* the keys in the seen map
    seenAt,      \* seenAt[k]: the time the map holds for k
    pending,     \* upserts under way: <<key, when it was launched>>
    staleDue,    \* whether this process has its stale-session cleanup to do
    stored,      \* the keys in the user_sessions table
    lastActive,  \* last_active_at of the rows
    now,
    lastRequest, \* history: lastRequest[k] = the last request of session k
    rowFrom,     \* history: launch of the upsert that last wrote the row of k
    deletedAt,   \* history: when the user last deleted the row of k (0: never)
    fresh        \* history: keys whose last launched upsert wrote the row, and
                 \*   whose row has not been deleted since

memVars == <<cached, seenAt, pending, staleDue>>
tableVars == <<registered, stored, lastActive>>
histVars == <<lastRequest, rowFrom, deletedAt, fresh>>
vars == <<registered, cached, seenAt, pending, staleDue, stored, lastActive,
          now, lastRequest, rowFrom, deletedAt, fresh>>

TypeOK ==
    /\ registered \in SUBSET Users
    /\ cached \in SUBSET Keys
    /\ seenAt \in [Keys -> Nat]
    /\ pending \in SUBSET (Keys \X Nat)
    /\ staleDue \in BOOLEAN
    /\ stored \in SUBSET Keys
    /\ lastActive \in [Keys -> Nat]
    /\ now \in Nat
    /\ lastRequest \in [Keys -> Nat]
    /\ rowFrom \in [Keys -> Nat]
    /\ deletedAt \in [Keys -> Nat]
    /\ fresh \in SUBSET stored

Init ==
    /\ registered \in SUBSET Users
    /\ cached = {}
    /\ seenAt = [k \in Keys |-> 0]
    /\ pending = {}
    /\ staleDue = TRUE
    /\ stored = {}
    /\ lastActive = [k \in Keys |-> 0]
    /\ now = 1
    /\ lastRequest = [k \in Keys |-> 0]
    /\ rowFrom = [k \in Keys |-> 0]
    /\ deletedAt = [k \in Keys |-> 0]
    /\ fresh = {}

-----------------------------------------------------------------------------
(* Requests *)

\* Any authenticated request passes the middleware, which calls RecordSession.
SeenRecently(k) == k \in cached /\ now - seenAt[k] < TTL

\* Faulty variant: a skipped request renews the entry.
RecordSkippedRenewing(k) ==
    /\ SeenRecently(k)
    /\ seenAt' = [seenAt EXCEPT ![k] = now]
    /\ lastRequest' = [lastRequest EXCEPT ![k] = now]
    /\ UNCHANGED <<cached, pending, staleDue, tableVars, now, rowFrom, deletedAt, fresh>>

RecordSkipped(k) ==
    /\ SeenRecently(k)
    /\ lastRequest' = [lastRequest EXCEPT ![k] = now]
    /\ UNCHANGED <<memVars, tableVars, now, rowFrom, deletedAt, fresh>>

\* Otherwise the map is set and the upsert is launched.
RecordLaunched(k) ==
    /\ ~SeenRecently(k)
    /\ lastRequest' = [lastRequest EXCEPT ![k] = now]
    /\ cached' = cached \cup {k}
    /\ seenAt' = [seenAt EXCEPT ![k] = now]
    /\ pending' = pending \cup {<<k, now>>}
    /\ fresh' = fresh \ {k}
    /\ UNCHANGED <<staleDue, tableVars, now, rowFrom, deletedAt>>

\* GET /api/me creates the user's row.
GetOrCreateMe(u) ==
    /\ u \notin registered
    /\ registered' = registered \cup {u}
    /\ UNCHANGED <<memVars, stored, lastActive, now, histVars>>

-----------------------------------------------------------------------------
(* The background upsert *)

\* INSERT ... ON CONFLICT DO UPDATE, which needs the users row.
UpsertSession(p) ==
    /\ p \in pending
    /\ UserOf(p[1]) \in registered
    /\ pending' = pending \ {p}
    /\ stored' = stored \cup {p[1]}
    /\ lastActive' = [lastActive EXCEPT ![p[1]] = now]
    /\ rowFrom' = [rowFrom EXCEPT ![p[1]] = p[2]]
    /\ fresh' = fresh \cup {p[1]}
    /\ UNCHANGED <<registered, cached, seenAt, staleDue, now, lastRequest, deletedAt>>

\* Faulty variant: the entry is backdated so that it has expired.
UpsertFailsBackdating(p) ==
    /\ p \in pending
    /\ pending' = pending \ {p}
    /\ seenAt' = [seenAt EXCEPT ![p[1]] = now - TTL]
    /\ UNCHANGED <<cached, staleDue, tableVars, now, histVars>>

\* The error is logged; the map keeps its entry.
UpsertFails(p) ==
    /\ p \in pending
    /\ UserOf(p[1]) \notin registered \/ DbMayFail
    /\ pending' = pending \ {p}
    /\ UNCHANGED <<cached, seenAt, staleDue, tableVars, now, histVars>>

-----------------------------------------------------------------------------
(* Deletions and clean-ups *)

\* DELETE /api/sessions/{id}, of one of the caller's rows.
DeleteSession(k) ==
    /\ k \in stored
    /\ stored' = stored \ {k}
    /\ deletedAt' = [deletedAt EXCEPT ![k] = now]
    /\ fresh' = fresh \ {k}
    /\ UNCHANGED <<memVars, registered, lastActive, now, lastRequest, rowFrom>>

OthersOf(k) == {j \in stored : UserOf(j) = UserOf(k) /\ j # k}

\* DELETE /api/sessions, called from session k.
DeleteOtherSessions(k) ==
    /\ OthersOf(k) # {}
    /\ stored' = stored \ OthersOf(k)
    /\ deletedAt' = [j \in Keys |-> IF j \in OthersOf(k) THEN now ELSE deletedAt[j]]
    /\ fresh' = fresh \ OthersOf(k)
    /\ UNCHANGED <<memVars, registered, lastActive, now, lastRequest, rowFrom>>

\* Faulty variant: the interval is too short.
StaleTooSoon == {k \in stored : now - lastActive[k] > StaleAfter - TTL}

Stale == {k \in stored : now - lastActive[k] > StaleAfter}

\* Once per process, in a goroutine of main.
CleanupStaleSessions ==
    /\ staleDue
    /\ staleDue' = FALSE
    /\ stored' = stored \ Stale
    /\ fresh' = fresh \ Stale
    /\ UNCHANGED <<registered, cached, seenAt, pending, lastActive, now,
                   lastRequest, rowFrom, deletedAt>>

\* Faulty variant: the expired entries are kept and the others deleted.
ExpiredInverted == {k \in cached : now - seenAt[k] <= TTL}

Expired == {k \in cached : now - seenAt[k] > TTL}

\* The ticker of main fires every 10 minutes; here it may fire at any time.
CleanupDedupCache ==
    /\ cached' = cached \ Expired
    /\ UNCHANGED <<seenAt, pending, staleDue, tableVars, now, histVars>>

-----------------------------------------------------------------------------
(* The process and the clock *)

Restart ==
    /\ cached' = {}
    /\ pending' = {}
    /\ staleDue' = TRUE
    /\ UNCHANGED <<seenAt, tableVars, now, histVars>>

\* Faulty variant: the upsert has no deadline.
TickRegardless ==
    /\ now < MaxTime
    /\ now' = now + 1
    /\ UNCHANGED <<memVars, tableVars, histVars>>

\* Time passes; an upsert whose deadline has come ends first.
Tick ==
    /\ now < MaxTime
    /\ \A p \in pending : now < p[2] + Timeout
    /\ now' = now + 1
    /\ UNCHANGED <<memVars, tableVars, histVars>>

Next ==
    \/ \E k \in Keys : RecordSkipped(k) \/ RecordLaunched(k)
    \/ \E u \in Users : GetOrCreateMe(u)
    \/ \E p \in pending : UpsertSession(p) \/ UpsertFails(p)
    \/ \E k \in Keys : DeleteSession(k) \/ DeleteOtherSessions(k)
    \/ CleanupStaleSessions
    \/ CleanupDedupCache
    \/ Restart
    \/ Tick

Spec == Init /\ [][Next]_vars

-----------------------------------------------------------------------------
(* Properties *)

\* At most one upsert of a session is under way: the map, its clean-up and the
\* deadline of the upsert together keep a slow database from piling them up,
\* and two upserts of one row from racing.
SingleFlight == \A p, q \in pending : p[1] = q[1] => p = q

\* The last-active time a user is shown lags behind the session's last request
\* by less than TTL, as long as the upsert last launched for it succeeded.
LastActiveLags ==
    \A k \in fresh : lastRequest[k] < lastActive[k] + TTL

\* A session the user deleted comes back only if it was used after the
\* deletion or less than the upsert's deadline before it.
ReappearsOnlyIfUsed ==
    \A k \in stored : deletedAt[k] <= rowFrom[k] + Timeout

\* The clean-up at start-up deletes no session that was used within the last
\* StaleAfter less TTL, unless its last upsert failed.
CleanupSparesActive ==
    [][\A k \in fresh \ fresh' :
          staleDue /\ ~staleDue' => now - lastRequest[k] > StaleAfter - TTL]_vars

\* What the comment on TrackingMiddleware says: it "records the active session
\* on every authenticated request".  So where a request of a registered user
\* would skip the database, the session has its row or an upsert is on its way
\* (a row that the user deleted is another matter).
EveryRequestRecorded ==
    \A k \in Keys :
        SeenRecently(k) /\ UserOf(k) \in registered /\ deletedAt[k] = 0
        => k \in stored \/ \E p \in pending : p[1] = k
=============================================================================
