------------------------ MODULE SessionTrackingProofs ------------------------
(***************************************************************************)
(* Proofs about SessionTracking for any users, sessions, TTL and deadline  *)
(* with Timeout < TTL.                                                     *)
(***************************************************************************)
EXTENDS SessionTracking, TLAPS

USE TTLAssumption, TimeoutAssumption, StaleAfterAssumption,
    MaxTimeAssumption, DbMayFailAssumption

\* Type correctness of the tracking; a fresh session has a row.
THEOREM TypeCorrect == Spec => []TypeOK
<1>1. Init => TypeOK
  BY DEF Init, TypeOK
<1>2. TypeOK /\ [Next]_vars => TypeOK'
  <2> SUFFICES ASSUME TypeOK, [Next]_vars PROVE TypeOK'
    OBVIOUS
  <2> USE DEF TypeOK, memVars, tableVars, histVars
  <2>1. ASSUME NEW k \in Keys, RecordSkipped(k) PROVE TypeOK'
    BY <2>1 DEF RecordSkipped
  <2>2. ASSUME NEW k \in Keys, RecordLaunched(k) PROVE TypeOK'
    BY <2>2 DEF RecordLaunched
  <2>3. ASSUME NEW u \in Users, GetOrCreateMe(u) PROVE TypeOK'
    BY <2>3 DEF GetOrCreateMe
  <2>4. ASSUME NEW p \in pending, UpsertSession(p) PROVE TypeOK'
    <3>1. p[1] \in Keys /\ p[2] \in Nat
      OBVIOUS
    <3>2. QED
      BY <2>4, <3>1 DEF UpsertSession
  <2>5. ASSUME NEW p \in pending, UpsertFails(p) PROVE TypeOK'
    BY <2>5 DEF UpsertFails
  <2>6. ASSUME NEW k \in Keys, DeleteSession(k) PROVE TypeOK'
    BY <2>6 DEF DeleteSession
  <2>7. ASSUME NEW k \in Keys, DeleteOtherSessions(k) PROVE TypeOK'
    BY <2>7 DEF DeleteOtherSessions, OthersOf
  <2>8. CASE CleanupStaleSessions
    BY <2>8 DEF CleanupStaleSessions, Stale
  <2>9. CASE CleanupDedupCache
    BY <2>9 DEF CleanupDedupCache, Expired
  <2>10. CASE Restart
    BY <2>10 DEF Restart
  <2>11. CASE Tick
    BY <2>11 DEF Tick
  <2>12. CASE UNCHANGED vars
    BY <2>12 DEF vars
  <2>13. QED
    BY <2>1, <2>2, <2>3, <2>4, <2>5, <2>6, <2>7, <2>8, <2>9, <2>10, <2>11,
       <2>12 DEF Next
<1>3. QED
  BY <1>1, <1>2, PTL DEF Spec

-----------------------------------------------------------------------------
(* The inductive invariant *)

\* An upsert under way has not passed its deadline, and its key's entry in the
\* map is the one made when it was launched: it expires only after the deadline.
PendingIsCached ==
    \A p \in pending :
        /\ p[2] <= now
        /\ now <= p[2] + Timeout
        /\ p[1] \in cached
        /\ seenAt[p[1]] = p[2]

HistoryInPast == \A k \in Keys : lastRequest[k] <= now /\ deletedAt[k] <= now

\* A fresh row was written after the entry was made, so requests that the entry
\* lets skip are less than TTL younger than the row.
FreshRows ==
    \A k \in fresh :
        /\ seenAt[k] <= lastActive[k]
        /\ lastRequest[k] < lastActive[k] + TTL

TrackingInv ==
    PendingIsCached /\ HistoryInPast /\ FreshRows /\ ReappearsOnlyIfUsed

\* TrackingInv is preserved by every step of session tracking.
LEMMA TrackingInductive == TypeOK /\ TrackingInv /\ [Next]_vars => TrackingInv'
<1> SUFFICES ASSUME TypeOK, TrackingInv, [Next]_vars PROVE TrackingInv'
  OBVIOUS
<1> USE DEF TypeOK, TrackingInv, PendingIsCached, HistoryInPast, FreshRows,
            ReappearsOnlyIfUsed, memVars, tableVars, histVars
<1>1. ASSUME NEW k \in Keys, RecordSkipped(k) PROVE TrackingInv'
  BY <1>1 DEF RecordSkipped, SeenRecently
<1>2. ASSUME NEW k \in Keys, RecordLaunched(k) PROVE TrackingInv'
  <2>1. \A p \in pending : p[1] # k
    BY <1>2 DEF RecordLaunched, SeenRecently
  <2>2. PendingIsCached'
    BY <1>2, <2>1 DEF RecordLaunched
  <2>3. (HistoryInPast /\ FreshRows /\ ReappearsOnlyIfUsed)'
    BY <1>2 DEF RecordLaunched
  <2>4. QED
    BY <2>2, <2>3
<1>3. ASSUME NEW u \in Users, GetOrCreateMe(u) PROVE TrackingInv'
  BY <1>3 DEF GetOrCreateMe
<1>4. ASSUME NEW p \in pending, UpsertSession(p) PROVE TrackingInv'
  <2>1. p[1] \in Keys /\ p[2] \in Nat /\ p[2] <= now /\ now <= p[2] + Timeout
        /\ seenAt[p[1]] = p[2] /\ lastRequest[p[1]] <= now /\ deletedAt[p[1]] <= now
    OBVIOUS
  <2>2. (PendingIsCached /\ HistoryInPast)'
    BY <1>4 DEF UpsertSession
  <2>3. FreshRows'
    BY <1>4, <2>1 DEF UpsertSession
  <2>4. ReappearsOnlyIfUsed'
    BY <1>4, <2>1 DEF UpsertSession
  <2>5. QED
    BY <2>2, <2>3, <2>4
<1>5. ASSUME NEW p \in pending, UpsertFails(p) PROVE TrackingInv'
  BY <1>5 DEF UpsertFails
<1>6. ASSUME NEW k \in Keys, DeleteSession(k) PROVE TrackingInv'
  BY <1>6 DEF DeleteSession
<1>7. ASSUME NEW k \in Keys, DeleteOtherSessions(k) PROVE TrackingInv'
  BY <1>7 DEF DeleteOtherSessions, OthersOf
<1>8. CASE CleanupStaleSessions
  BY <1>8 DEF CleanupStaleSessions, Stale
<1>9. CASE CleanupDedupCache
  <2>1. \A p \in pending : p[1] \notin Expired
    BY DEF Expired
  <2>2. QED
    BY <1>9, <2>1 DEF CleanupDedupCache
<1>10. CASE Restart
  BY <1>10 DEF Restart
<1>11. CASE Tick
  BY <1>11 DEF Tick
<1>12. CASE UNCHANGED vars
  BY <1>12 DEF vars
<1>13. QED
  BY <1>1, <1>2, <1>3, <1>4, <1>5, <1>6, <1>7, <1>8, <1>9, <1>10, <1>11,
     <1>12 DEF Next

\* TrackingInv holds throughout.
LEMMA TrackingInvariant == Spec => []TrackingInv
<1>1. Init => TrackingInv
  BY DEF Init, TrackingInv, PendingIsCached, HistoryInPast, FreshRows,
         ReappearsOnlyIfUsed
<1>2. QED
  BY <1>1, TypeCorrect, TrackingInductive, PTL DEF Spec

-----------------------------------------------------------------------------
\* Safety: the background upserts of RecordSession never pile up, at most one
\* of a session is under way.
THEOREM OneUpsertAtATime == Spec => []SingleFlight
<1>1. TypeOK /\ TrackingInv => SingleFlight
  BY DEF TypeOK, TrackingInv, PendingIsCached, SingleFlight
<1>2. QED
  BY <1>1, TypeCorrect, TrackingInvariant, PTL

\* Safety: the last-active time of a session lags behind its use by less than
\* the TTL of the dedup map.
THEOREM LastActiveIsRecent == Spec => []LastActiveLags
<1>1. TypeOK /\ TrackingInv => LastActiveLags
  BY DEF TypeOK, TrackingInv, FreshRows, LastActiveLags
<1>2. QED
  BY <1>1, TypeCorrect, TrackingInvariant, PTL

\* Safety: DeleteSession and DeleteOtherSessions are undone only by an upsert
\* of a request made after, or less than a deadline before.
THEOREM DeletedSessionsStay == Spec => []ReappearsOnlyIfUsed
<1>1. TrackingInv => ReappearsOnlyIfUsed
  BY DEF TrackingInv
<1>2. QED
  BY <1>1, TrackingInvariant, PTL

\* Action property: the start-up clean-up deletes no session in recent use.
THEOREM CleanupIsSafe == Spec => CleanupSparesActive
<1> DEFINE Spares == \A k \in fresh \ fresh' :
             staleDue /\ ~staleDue' => now - lastRequest[k] > StaleAfter - TTL
<1>1. TypeOK /\ TrackingInv /\ [Next]_vars => [Spares]_vars
  <2> SUFFICES ASSUME TypeOK, TrackingInv, Next, staleDue, ~staleDue',
                      NEW k \in fresh \ fresh'
               PROVE  now - lastRequest[k] > StaleAfter - TTL
    OBVIOUS
  <2>1. CleanupStaleSessions
    BY DEF Next, RecordSkipped, RecordLaunched, GetOrCreateMe, UpsertSession,
           UpsertFails, DeleteSession, DeleteOtherSessions, CleanupDedupCache,
           Restart, Tick, memVars
  <2>2. now - lastActive[k] > StaleAfter
    BY <2>1 DEF CleanupStaleSessions, Stale
  <2>3. lastRequest[k] < lastActive[k] + TTL
    BY DEF TrackingInv, FreshRows
  <2>4. now \in Nat /\ lastRequest[k] \in Nat /\ lastActive[k] \in Nat
    BY DEF TypeOK
  <2>5. QED
    BY <2>2, <2>3, <2>4
<1>2. QED
  BY <1>1, TypeCorrect, TrackingInvariant, PTL DEF Spec, CleanupSparesActive
=============================================================================
