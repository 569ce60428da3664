------------------------- MODULE NotificationService -------------------------
(***************************************************************************)
(* POST /api/users/{id}/follow and the notification it sends               *)
(* (internal/users/service.go FollowUser, internal/notification/service.go *)
(* Notify).  FollowUser inserts the follow and starts a goroutine that     *)
(* checks for a recent duplicate, inserts a notification row, counts the   *)
(* unread rows and publishes an event; each of these is a database round   *)
(* trip of its own, outside any transaction, so calls interleave between   *)
(* them.  The process may crash between any two steps; the tables survive. *)
(*                                                                         *)
(* A Call is one follow request with the Notify goroutine it starts.  It   *)
(* inserts at most one notification, so the row is named after the call.   *)
(***************************************************************************)
EXTENDS Integers, FiniteSets

CONSTANTS
    Users,      \* user ids
    Calls,      \* follow requests
    Window,     \* the deduplication window (24 hours)
    MaxTime,    \* bound on the clock
    DbMayFail   \* whether a query may return an error

ASSUME WindowAssumption == Window \in Nat
ASSUME MaxTimeAssumption == MaxTime \in Nat
ASSUME DbMayFailAssumption == DbMayFail \in BOOLEAN

VARIABLES
    registered, \* users table
    follows,    \* follows table: <<follower, following>>
    edge,       \* edge[c]: the <<follower, following>> request c carries
    pc,         \* where request c or its goroutine is
    rows,       \* notifications table
    unread,     \* the rows with is_read = FALSE
    createdAt,  \* created_at of each row
    counted,    \* counted[c]: the rows c's CountUnread counted
    countErr,   \* calls whose CountUnread failed, which publish the count 0
    seen,       \* history: seen[c] = the rows c's duplicate check looked at
    now         \* the database's clock

dbVars == <<registered, follows, rows, unread, createdAt>>
callVars == <<edge, pc, counted, countErr, seen>>
vars == <<registered, follows, edge, pc, rows, unread, createdAt, counted,
          countErr, seen, now>>

InFlight == {"insert", "spawn", "check", "create", "count", "publish"}
Final == {"rejected", "failed", "duplicate", "published", "lost"}

\* A follow notification's dedup key (user_id, actor_id, type, entity_id) is
\* determined by who followed whom: the actor is also the entity.
SameKey(c, d) == edge[c] = edge[d]
Actor(c) == edge[c][1]
Recipient(c) == edge[c][2]

UnreadOf(u) == {r \in unread : Recipient(r) = u}

TypeOK ==
    /\ registered \in SUBSET Users
    /\ follows \in SUBSET (Users \X Users)
    /\ edge \in [Calls -> Users \X Users]
    /\ pc \in [Calls -> {"new"} \cup InFlight \cup Final]
    /\ rows \in SUBSET Calls
    /\ unread \in SUBSET rows
    /\ createdAt \in [Calls -> Nat]
    /\ counted \in [Calls -> SUBSET Calls]
    /\ countErr \in SUBSET Calls
    /\ seen \in [Calls -> SUBSET Calls]
    /\ now \in Nat

Init ==
    /\ registered \in SUBSET Users
    /\ follows = {}
    /\ edge \in [Calls -> Users \X Users]
    /\ pc = [c \in Calls |-> "new"]
    /\ rows = {}
    /\ unread = {}
    /\ createdAt = [c \in Calls |-> 0]
    /\ counted = [c \in Calls |-> {}]
    /\ countErr = {}
    /\ seen = [c \in Calls |-> {}]
    /\ now = 0

Goto(c, from, to) == pc[c] = from /\ pc' = [pc EXCEPT ![c] = to]

-----------------------------------------------------------------------------
(* The follow request *)

\* GET /api/me creates the caller's row if there is none.
GetOrCreateMe(u) ==
    /\ registered' = registered \cup {u}
    /\ UNCHANGED <<follows, edge, pc, rows, unread, createdAt, counted,
                   countErr, seen, now>>

\* The checks of FollowUser: not oneself, and an existing target.
FollowUser(c) ==
    /\ \/ /\ Actor(c) # Recipient(c) /\ Recipient(c) \in registered
          /\ Goto(c, "new", "insert")
       \/ /\ Actor(c) = Recipient(c) \/ Recipient(c) \notin registered \/ DbMayFail
          /\ Goto(c, "new", "rejected")
    /\ UNCHANGED <<dbVars, edge, counted, countErr, seen, now>>

\* INSERT ... ON CONFLICT DO NOTHING: following twice is no error.  A follower
\* without a users row violates the foreign key.
InsertFollow(c) ==
    /\ \/ /\ Actor(c) \in registered
          /\ Goto(c, "insert", "spawn")
          /\ follows' = follows \cup {edge[c]}
       \/ /\ Actor(c) \notin registered \/ DbMayFail
          /\ Goto(c, "insert", "rejected")
          /\ UNCHANGED follows
    /\ UNCHANGED <<registered, edge, rows, unread, createdAt, counted,
                   countErr, seen, now>>

\* The actor's names are looked up, then the goroutine starts.
SpawnNotify(c) ==
    /\ Goto(c, "spawn", "check")
    /\ UNCHANGED <<dbVars, edge, counted, countErr, seen, now>>

UnfollowUser(e) ==
    /\ e \in follows
    /\ follows' = follows \ {e}
    /\ UNCHANGED <<registered, edge, pc, rows, unread, createdAt, counted,
                   countErr, seen, now>>

-----------------------------------------------------------------------------
(* The Notify goroutine *)

\* Faulty variant: the age comparison the wrong way round.
IsDuplicateOlder(c) ==
    \E r \in unread : SameKey(r, c) /\ createdAt[r] <= now - Window

\* CheckDuplicateNotification: an unread row of this key, created inside the
\* window.
IsDuplicate(c) ==
    \E r \in unread : SameKey(r, c) /\ createdAt[r] > now - Window

\* Faulty variant: an error of the check makes Notify return.
CheckDuplicateOrGiveUp(c) ==
    /\ \/ /\ IsDuplicate(c) \/ DbMayFail
          /\ Goto(c, "check", "duplicate")
          /\ UNCHANGED seen
       \/ /\ ~IsDuplicate(c)
          /\ Goto(c, "check", "create")
          /\ seen' = [seen EXCEPT ![c] = rows]
    /\ UNCHANGED <<dbVars, edge, counted, countErr, now>>

\* The duplicate check.  On an error Notify goes on: it has then looked at no
\* row.
CheckDuplicate(c) ==
    /\ \/ /\ IsDuplicate(c)
          /\ Goto(c, "check", "duplicate")
          /\ UNCHANGED seen
       \/ /\ ~IsDuplicate(c)
          /\ Goto(c, "check", "create")
          /\ seen' = [seen EXCEPT ![c] = rows]
       \/ /\ DbMayFail
          /\ Goto(c, "check", "create")
          /\ UNCHANGED seen
    /\ UNCHANGED <<dbVars, edge, counted, countErr, now>>

\* Faulty variant: an insert that failed is taken for one that succeeded.
CreateNotificationUnchecked(c) ==
    /\ Goto(c, "create", "count")
    /\ unread' = unread \cup {c}
    /\ createdAt' = [createdAt EXCEPT ![c] = now]
    /\ rows' \in {rows, rows \cup {c}}
    /\ UNCHANGED <<registered, follows, edge, counted, countErr, seen, now>>

\* Who follows and who is followed have users rows, so no foreign key fails.
CreateNotification(c) ==
    /\ \/ /\ Goto(c, "create", "count")
          /\ rows' = rows \cup {c}
          /\ unread' = unread \cup {c}
          /\ createdAt' = [createdAt EXCEPT ![c] = now]
       \/ /\ DbMayFail
          /\ Goto(c, "create", "failed")
          /\ UNCHANGED <<rows, unread, createdAt>>
    /\ UNCHANGED <<registered, follows, edge, counted, countErr, seen, now>>

\* Faulty variant: the rows of the actor are counted, not the recipient's.
CountUnreadOfActor(c) ==
    /\ Goto(c, "count", "publish")
    /\ counted' = [counted EXCEPT ![c] = UnreadOf(Actor(c))]
    /\ UNCHANGED <<dbVars, edge, countErr, seen, now>>

\* Faulty variant: what the check found, and one more.
CountUnreadFromCheck(c) ==
    /\ Goto(c, "count", "publish")
    /\ counted' = [counted EXCEPT ![c] = UnreadOf(Recipient(c)) \cap (seen[c] \cup {c})]
    /\ UNCHANGED <<dbVars, edge, countErr, seen, now>>

\* CountUnread: on an error the event goes out all the same, with count 0.
CountUnread(c) ==
    /\ Goto(c, "count", "publish")
    /\ \/ /\ counted' = [counted EXCEPT ![c] = UnreadOf(Recipient(c))]
          /\ UNCHANGED countErr
       \/ /\ DbMayFail
          /\ countErr' = countErr \cup {c}
          /\ UNCHANGED counted
    /\ UNCHANGED <<dbVars, edge, seen, now>>

\* hub.Publish returns (NotificationHub models what it does).
Publish(c) ==
    /\ Goto(c, "publish", "published")
    /\ UNCHANGED <<dbVars, edge, counted, countErr, seen, now>>

-----------------------------------------------------------------------------
(* The recipient, the clock and the process *)

\* PUT /api/notifications/{id}/read: only a row of the caller's changes.
MarkRead(r, u) ==
    /\ r \in UnreadOf(u)
    /\ unread' = unread \ {r}
    /\ UNCHANGED <<registered, follows, rows, createdAt, callVars, now>>

\* PUT /api/notifications/read-all
MarkAllRead(u) ==
    /\ unread' = unread \ UnreadOf(u)
    /\ UNCHANGED <<registered, follows, rows, createdAt, callVars, now>>

Tick ==
    /\ now < MaxTime
    /\ now' = now + 1
    /\ UNCHANGED <<dbVars, callVars>>

\* The process dies and is restarted (docker-compose: restart: unless-stopped):
\* requests and goroutines under way are gone, the tables stay.
Crash ==
    /\ pc' = [c \in Calls |-> IF pc[c] \in InFlight THEN "lost" ELSE pc[c]]
    /\ UNCHANGED <<dbVars, edge, counted, countErr, seen, now>>

Notify(c) ==
    CheckDuplicate(c) \/ CreateNotification(c) \/ CountUnread(c) \/ Publish(c)

Next ==
    \/ \E u \in Users : GetOrCreateMe(u) \/ MarkAllRead(u)
    \/ \E u \in Users, r \in Calls : MarkRead(r, u)
    \/ \E c \in Calls : FollowUser(c) \/ InsertFollow(c) \/ SpawnNotify(c)
    \/ \E c \in Calls : Notify(c)
    \/ \E e \in Users \X Users : UnfollowUser(e)
    \/ Tick
    \/ Crash

\* A goroutine runs on until it returns: the scheduler is fair to it and the
\* database answers its queries, with a result or an error.  Nothing is assumed
\* of clients, and a crash is never forced.
Fairness == \A c \in Calls : WF_vars(InsertFollow(c) \/ SpawnNotify(c) \/ Notify(c))

\* What may happen, and what has to.
SafetySpec == Init /\ [][Next]_vars
Spec == SafetySpec /\ Fairness

-----------------------------------------------------------------------------
(* Properties *)

\* Two unread notifications of one key, the later created inside the window of
\* the earlier, exist only because the two Notify calls overlapped: the later
\* call's duplicate check did not see the earlier row (it ran before that row
\* was inserted, or failed).  So the check-then-insert of Notify lets through
\* no duplicate but those of concurrent calls and failed checks.
UnreadDuplicatesOverlapped ==
    \A a, b \in unread :
        /\ a # b
        /\ SameKey(a, b)
        /\ createdAt[a] <= createdAt[b]
        /\ createdAt[b] < createdAt[a] + Window
        => a \notin seen[b]

\* The unread count Notify sends with a notification counts that notification,
\* unless it was read before the count or the count failed: the badge is never
\* one behind the bell.
CountIncludesOwnRow ==
    \A c \in unread :
        pc[c] \in {"publish", "published"} /\ c \notin countErr => c \in counted[c]

\* Deduplication never swallows a notification that is due: an inserted follow
\* leads to its own row, or to the verdict "duplicate" while an unread row of
\* its key lies inside the window, unless the insert of the row fails or the
\* process crashes.
FollowLeadsToNotification ==
    \A c \in Calls :
        pc[c] = "spawn" ~> \/ c \in rows
                           \/ pc[c] = "duplicate" /\ IsDuplicate(c)
                           \/ pc[c] \in {"failed", "lost"}
=============================================================================
