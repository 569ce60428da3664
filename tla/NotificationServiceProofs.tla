----------------------- MODULE NotificationServiceProofs -----------------------
(***************************************************************************)
(* Proofs that the invariants of NotificationService hold for any sets of  *)
(* users and follow requests, any window and any clock bound.              *)
(***************************************************************************)
EXTENDS NotificationService, TLAPS

USE WindowAssumption, MaxTimeAssumption, DbMayFailAssumption

\* Invariant: NotificationService keeps its variables in their types (the
\* unread rows among the rows, in particular).
THEOREM TypeCorrect == SafetySpec => []TypeOK
<1>1. Init => TypeOK
  BY DEF Init, TypeOK
<1>2. TypeOK /\ [Next]_vars => TypeOK'
  <2> SUFFICES ASSUME TypeOK, [Next]_vars PROVE TypeOK'
    OBVIOUS
  <2> USE DEF TypeOK, dbVars, callVars, Goto, InFlight, Final
  <2>1. ASSUME NEW u \in Users, GetOrCreateMe(u) PROVE TypeOK'
    BY <2>1 DEF GetOrCreateMe
  <2>2. ASSUME NEW u \in Users, MarkAllRead(u) PROVE TypeOK'
    BY <2>2 DEF MarkAllRead
  <2>3. ASSUME NEW u \in Users, NEW r \in Calls, MarkRead(r, u) PROVE TypeOK'
    BY <2>3 DEF MarkRead
  <2>4. ASSUME NEW c \in Calls, FollowUser(c) PROVE TypeOK'
    BY <2>4 DEF FollowUser
  <2>5. ASSUME NEW c \in Calls, InsertFollow(c) PROVE TypeOK'
    BY <2>5 DEF InsertFollow
  <2>6. ASSUME NEW c \in Calls, SpawnNotify(c) PROVE TypeOK'
    BY <2>6 DEF SpawnNotify
  <2>7. ASSUME NEW c \in Calls, CheckDuplicate(c) PROVE TypeOK'
    BY <2>7 DEF CheckDuplicate
  <2>8. ASSUME NEW c \in Calls, CreateNotification(c) PROVE TypeOK'
    BY <2>8 DEF CreateNotification
  <2>9. ASSUME NEW c \in Calls, CountUnread(c) PROVE TypeOK'
    BY <2>9 DEF CountUnread, UnreadOf
  <2>10. ASSUME NEW c \in Calls, Publish(c) PROVE TypeOK'
    BY <2>10 DEF Publish
  <2>11. ASSUME NEW e \in Users \X Users, UnfollowUser(e) PROVE TypeOK'
    BY <2>11 DEF UnfollowUser
  <2>12. CASE Tick
    BY <2>12 DEF Tick
  <2>13. CASE Crash
    BY <2>13 DEF Crash
  <2>14. CASE UNCHANGED vars
    BY <2>14 DEF vars
  <2>15. QED
    BY <2>1, <2>2, <2>3, <2>4, <2>5, <2>6, <2>7, <2>8, <2>9, <2>10, <2>11,
       <2>12, <2>13, <2>14 DEF Next, Notify
<1>3. QED
  BY <1>1, <1>2, PTL DEF SafetySpec

-----------------------------------------------------------------------------
(* The inductive invariant behind UnreadDuplicatesOverlapped *)

\* A row exists only for a call that is past its insert.
RowOfLaterPhase ==
    \A c \in rows : pc[c] \in {"count", "publish", "published", "lost"}

\* Rows are dated in the past, and a check looks at existing rows.
RowsInPast == \A r \in rows : createdAt[r] <= now
SeenAreRows == \A c \in Calls : seen[c] \subseteq rows

\* Before its check a call has looked at nothing.
NothingSeenYet ==
    \A c \in Calls : pc[c] \in {"new", "insert", "spawn", "check"} => seen[c] = {}

\* What a successful check knows until the insert: of the rows it saw, those
\* of its key that are still unread have left the window.
CheckedClear ==
    \A c \in Calls : pc[c] = "create" =>
        \A r \in seen[c] \cap unread : SameKey(r, c) => createdAt[r] + Window <= now

\* What remains of it after the insert.
InsertedClear ==
    \A b \in rows : \A a \in seen[b] \cap unread :
        a # b /\ SameKey(a, b) => createdAt[a] + Window <= createdAt[b]

DedupInv ==
    /\ RowOfLaterPhase
    /\ RowsInPast
    /\ SeenAreRows
    /\ NothingSeenYet
    /\ CheckedClear
    /\ InsertedClear

\* DedupInv is preserved by every step of the service.
LEMMA DedupInductive == TypeOK /\ DedupInv /\ [Next]_vars => DedupInv'
<1> SUFFICES ASSUME TypeOK, DedupInv, [Next]_vars PROVE DedupInv'
  OBVIOUS
<1> USE DEF TypeOK, DedupInv, RowOfLaterPhase, RowsInPast, SeenAreRows, NothingSeenYet,
            CheckedClear, InsertedClear, SameKey, Goto, InFlight, Final,
            dbVars, callVars
<1>1. ASSUME NEW u \in Users, GetOrCreateMe(u) PROVE DedupInv'
  BY <1>1 DEF GetOrCreateMe
<1>2. ASSUME NEW u \in Users, MarkAllRead(u) PROVE DedupInv'
  BY <1>2 DEF MarkAllRead
<1>3. ASSUME NEW u \in Users, NEW r \in Calls, MarkRead(r, u) PROVE DedupInv'
  BY <1>3 DEF MarkRead
<1>4. ASSUME NEW c \in Calls, FollowUser(c) PROVE DedupInv'
  BY <1>4 DEF FollowUser
<1>5. ASSUME NEW c \in Calls, InsertFollow(c) PROVE DedupInv'
  BY <1>5 DEF InsertFollow
<1>6. ASSUME NEW c \in Calls, SpawnNotify(c) PROVE DedupInv'
  BY <1>6 DEF SpawnNotify
<1>7. ASSUME NEW c \in Calls, CheckDuplicate(c) PROVE DedupInv'
  <2>1. UNCHANGED <<rows, unread, createdAt, edge, now>> /\ c \notin rows
    BY <1>7 DEF CheckDuplicate
  <2>2. CASE /\ ~IsDuplicate(c) /\ Goto(c, "check", "create")
             /\ seen' = [seen EXCEPT ![c] = rows]
    <3>1. CheckedClear'
      BY <2>1, <2>2 DEF IsDuplicate
    <3>2. QED
      BY <2>1, <2>2, <3>1
  <2>3. CASE Goto(c, "check", "duplicate") /\ UNCHANGED seen
    BY <2>1, <2>3
  <2>4. CASE Goto(c, "check", "create") /\ UNCHANGED seen
    BY <2>1, <2>4
  <2>5. QED
    BY <1>7, <2>2, <2>3, <2>4 DEF CheckDuplicate
<1>8. ASSUME NEW c \in Calls, CreateNotification(c) PROVE DedupInv'
  <2>1. UNCHANGED <<edge, seen, now>> /\ c \notin rows
    BY <1>8 DEF CreateNotification
  <2>2. CASE /\ Goto(c, "create", "count") /\ rows' = rows \cup {c}
             /\ unread' = unread \cup {c}
             /\ createdAt' = [createdAt EXCEPT ![c] = now]
    <3>1. \A d \in Calls : c \notin seen[d]
      BY <2>1
    <3>2. \A r \in rows : createdAt'[r] = createdAt[r]
      BY <2>1, <2>2
    <3>3. createdAt'[c] = now
      BY <2>2
    <3>4. InsertedClear'
      BY <2>1, <2>2, <3>1, <3>2, <3>3
    <3>5. CheckedClear'
      BY <2>1, <2>2, <3>1, <3>2
    <3>6. QED
      BY <2>1, <2>2, <3>2, <3>3, <3>4, <3>5
  <2>3. CASE Goto(c, "create", "failed") /\ UNCHANGED <<rows, unread, createdAt>>
    BY <2>1, <2>3
  <2>4. QED
    BY <1>8, <2>2, <2>3 DEF CreateNotification
<1>9. ASSUME NEW c \in Calls, CountUnread(c) PROVE DedupInv'
  BY <1>9 DEF CountUnread
<1>10. ASSUME NEW c \in Calls, Publish(c) PROVE DedupInv'
  BY <1>10 DEF Publish
<1>11. ASSUME NEW e \in Users \X Users, UnfollowUser(e) PROVE DedupInv'
  BY <1>11 DEF UnfollowUser
<1>12. CASE Tick
  BY <1>12 DEF Tick
<1>13. CASE Crash
  BY <1>13 DEF Crash
<1>14. CASE UNCHANGED vars
  BY <1>14 DEF vars
<1>15. QED
  BY <1>1, <1>2, <1>3, <1>4, <1>5, <1>6, <1>7, <1>8, <1>9, <1>10, <1>11,
     <1>12, <1>13, <1>14 DEF Next, Notify

\* Safety: deduplication (CheckDuplicate then Create, without a transaction)
\* lets two unread rows of a key into one window only when the later call's
\* check did not see the earlier row.
THEOREM DuplicatesOnlyByOverlap == SafetySpec => []UnreadDuplicatesOverlapped
<1>1. Init => DedupInv
  BY DEF Init, DedupInv, RowOfLaterPhase, RowsInPast, SeenAreRows, NothingSeenYet, CheckedClear,
         InsertedClear
<1>2. TypeOK /\ DedupInv => UnreadDuplicatesOverlapped
  BY DEF TypeOK, DedupInv, InsertedClear, UnreadDuplicatesOverlapped
<1>3. QED
  BY <1>1, <1>2, TypeCorrect, DedupInductive, PTL DEF SafetySpec

-----------------------------------------------------------------------------
\* Safety: the count pushed with a notification includes that notification
\* while it is unread, whatever other calls and readers do in between.
THEOREM CountIncludesRow == SafetySpec => []CountIncludesOwnRow
<1>1. Init => CountIncludesOwnRow
  BY DEF Init, CountIncludesOwnRow
<1>2. TypeOK /\ CountIncludesOwnRow /\ [Next]_vars => CountIncludesOwnRow'
  <2> SUFFICES ASSUME TypeOK, CountIncludesOwnRow, [Next]_vars
               PROVE  CountIncludesOwnRow'
    OBVIOUS
  <2> USE DEF TypeOK, CountIncludesOwnRow, Goto, InFlight, Final, dbVars, callVars
  <2>1. ASSUME NEW c \in Calls, CountUnread(c) PROVE CountIncludesOwnRow'
    BY <2>1 DEF CountUnread, UnreadOf
  <2>2. ASSUME NEW c \in Calls, CreateNotification(c) PROVE CountIncludesOwnRow'
    BY <2>2 DEF CreateNotification
  <2>3. ASSUME NEW c \in Calls, Publish(c) PROVE CountIncludesOwnRow'
    BY <2>3 DEF Publish
  <2>4. ASSUME NEW c \in Calls,
               FollowUser(c) \/ InsertFollow(c) \/ SpawnNotify(c) \/ CheckDuplicate(c)
        PROVE  CountIncludesOwnRow'
    BY <2>4 DEF FollowUser, InsertFollow, SpawnNotify, CheckDuplicate
  <2>5. ASSUME NEW u \in Users, NEW r \in Calls, MarkRead(r, u)
        PROVE  CountIncludesOwnRow'
    BY <2>5 DEF MarkRead
  <2>6. ASSUME NEW u \in Users, GetOrCreateMe(u) \/ MarkAllRead(u)
        PROVE  CountIncludesOwnRow'
    BY <2>6 DEF GetOrCreateMe, MarkAllRead
  <2>7. ASSUME NEW e \in Users \X Users, UnfollowUser(e) PROVE CountIncludesOwnRow'
    BY <2>7 DEF UnfollowUser
  <2>8. CASE Tick \/ Crash \/ UNCHANGED vars
    BY <2>8 DEF Tick, Crash, vars
  <2>9. QED
    BY <2>1, <2>2, <2>3, <2>4, <2>5, <2>6, <2>7, <2>8 DEF Next, Notify
<1>3. QED
  BY <1>1, <1>2, TypeCorrect, PTL DEF SafetySpec
=============================================================================
