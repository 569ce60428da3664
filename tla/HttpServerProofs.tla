--------------------------- MODULE HttpServerProofs ---------------------------
(***************************************************************************)
(* Proofs about HttpServer for any connections, goroutines and periods.    *)
(***************************************************************************)
EXTENDS HttpServer, TLAPS

LEMMA Times ==
    /\ WriteTimeout \in Nat /\ WriteTimeout > 0
    /\ Heartbeat \in Nat /\ Heartbeat > 0
    /\ ShutdownTimeout \in Nat /\ ShutdownTimeout > 0
    /\ MaxEvents \in Nat /\ MaxEvents > 0
    /\ WriteTimeout <= Heartbeat
  BY TimesAssumption

-----------------------------------------------------------------------------
(* Types and events *)

InTime(s) == \A i \in 1..Len(s) : s[i] = TRUE
Gapless(s) == \A i, j \in 1..Len(s) : i < j /\ s[j] => s[i]

\* A connection that is not a stream has no events, a stream that is not cancelled
\* has written all of its events in time, and one that is pushing has room.
EventsInv ==
    \A c \in Conns :
        /\ conn[c] \notin Streaming => events[c] = <<>>
        /\ conn[c] \in {"streaming", "pushing"} => InTime(events[c])
        /\ conn[c] = "pushing" => Len(events[c]) < MaxEvents
        /\ Gapless(events[c])

\* An event appended to events that were in time leaves no gap, and neither does
\* one that was not in time appended to any.
LEMMA AppendKeepsPrefix ==
    ASSUME NEW s \in Seq(BOOLEAN), NEW b \in BOOLEAN, Gapless(s), b => InTime(s)
    PROVE  /\ Append(s, b) \in Seq(BOOLEAN)
           /\ Len(Append(s, b)) = Len(s) + 1
           /\ Gapless(Append(s, b))
           /\ b => InTime(Append(s, b))
<1>1. /\ Append(s, b) \in Seq(BOOLEAN) /\ Len(Append(s, b)) = Len(s) + 1
      /\ Append(s, b)[Len(s) + 1] = b
      /\ \A i \in 1..Len(s) : Append(s, b)[i] = s[i]
  OBVIOUS
<1>2. ASSUME NEW i \in 1..Len(s) + 1, NEW j \in 1..Len(s) + 1, i < j, Append(s, b)[j]
      PROVE  Append(s, b)[i]
  <2>1. i \in 1..Len(s)
    BY <1>2
  <2>2. CASE j = Len(s) + 1
    BY <1>1, <1>2, <2>1, <2>2 DEF InTime
  <2>3. CASE j # Len(s) + 1
    BY <1>1, <1>2, <2>1, <2>3 DEF Gapless
  <2>4. QED
    BY <2>2, <2>3
<1>3. b => InTime(Append(s, b))
  BY <1>1 DEF InTime
<1>4. QED
  BY <1>1, <1>2, <1>3 DEF Gapless

LEMMA EmptyIsGapless == Gapless(<<>>) /\ InTime(<<>>) /\ Len(<<>>) = 0 /\ <<>> \in Seq(BOOLEAN)
  BY DEF Gapless, InTime

\* A connection closed leaves nothing behind.
LEMMA ForgetKeeps ==
    ASSUME NEW c \in Conns, TypeOK, EventsInv, Forget(c) PROVE TypeOK' /\ EventsInv'
<1>1. TypeOK'
  BY EmptyIsGapless, Times DEF Forget, TypeOK, mainVars
<1>2. EventsInv'
  BY EmptyIsGapless DEF Forget, TypeOK, EventsInv, Streaming
<1>3. QED
  BY <1>1, <1>2

\* A write to a stream that has room keeps the types and EventsInv.
LEMMA WrittenKeeps ==
    ASSUME NEW c \in Conns, NEW b \in BOOLEAN, TypeOK, EventsInv, Written(c, b),
           Len(events[c]) < MaxEvents, beatLeft' \in [Conns -> 0..Heartbeat],
           b => InTime(events[c])
    PROVE  TypeOK' /\ EventsInv'
<1>1. /\ events' = [events EXCEPT ![c] = Append(events[c], b)]
      /\ conn' = [conn EXCEPT ![c] = IF b THEN "streaming" ELSE "cancelled"]
      /\ UNCHANGED <<phase, exit, drainLeft, writeLeft, task, kept, late, owed>>
  BY DEF Written, mainVars
<1>2. events[c] \in Seq(BOOLEAN) /\ Gapless(events[c])
  BY DEF TypeOK, EventsInv
<1>3. /\ Append(events[c], b) \in Seq(BOOLEAN)
      /\ Len(Append(events[c], b)) = Len(events[c]) + 1
      /\ Gapless(Append(events[c], b))
      /\ b => InTime(Append(events[c], b))
  BY <1>2, AppendKeepsPrefix
<1>4. Len(events[c]) + 1 <= MaxEvents
  BY <1>2, Times
<1>5. TypeOK'
  <2>1. events' \in [Conns -> Seq(BOOLEAN)] /\ \A d \in Conns : Len(events'[d]) <= MaxEvents
    BY <1>1, <1>3, <1>4 DEF TypeOK
  <2>2. QED
    BY <1>1, <2>1 DEF TypeOK, Streaming
<1>6. EventsInv'
  BY <1>1, <1>3 DEF TypeOK, EventsInv, Streaming
<1>7. QED
  BY <1>5, <1>6

\* What leaves the events alone and makes no stream of what is none.
LEMMA EventsUnchanged ==
    ASSUME EventsInv, UNCHANGED events,
           \A c \in Conns :
              \/ conn'[c] = conn[c]
              \/ conn[c] \notin Streaming /\ conn'[c] # "pushing"
              \/ conn[c] \in Streaming /\ conn'[c] = "cancelled"
              \/ /\ conn[c] = "streaming" /\ conn'[c] = "pushing"
                 /\ Len(events[c]) < MaxEvents
    PROVE  EventsInv'
  BY EmptyIsGapless DEF EventsInv, Streaming

\* The types and EventsInv are preserved by every step.
LEMMA EventsInductive == TypeOK /\ EventsInv /\ [Next]_vars => TypeOK' /\ EventsInv'
<1> SUFFICES ASSUME TypeOK, EventsInv, [Next]_vars PROVE TypeOK' /\ EventsInv'
  OBVIOUS
<1> USE Times DEF mainVars, connVars
<1>1. ASSUME NEW c \in Conns, Connect(c) \/ ReadRequest(c) \/ Respond(c)
      PROVE  TypeOK' /\ EventsInv'
  <2>1. TypeOK'
    <3>1. CASE Connect(c)
      BY <3>1 DEF TypeOK, Connect
    <3>2. CASE ReadRequest(c)
      BY <3>2 DEF TypeOK, Ordinary, ReadRequest
    <3>3. CASE Respond(c)
      BY <3>3 DEF TypeOK, Ordinary, Respond
    <3>4. QED
      BY <1>1, <3>1, <3>2, <3>3
  <2>2. EventsInv'
    BY <1>1, EventsUnchanged DEF TypeOK, Streaming, Connect, ReadRequest, Respond
  <2>3. QED
    BY <2>1, <2>2
<1>2. ASSUME NEW c \in Conns,
             Disconnect(c) \/ ResponseTimesOut(c) \/ StreamReturns(c)
      PROVE  TypeOK' /\ EventsInv'
  BY <1>2, ForgetKeeps DEF Disconnect, ResponseTimesOut, StreamReturns
<1>3. ASSUME NEW c \in Conns, ResponseWritten(c) PROVE TypeOK' /\ EventsInv'
  <2>1. CASE phase = "draining"
    BY <1>3, <2>1, ForgetKeeps DEF ResponseWritten
  <2>2. CASE phase # "draining"
    <3>1. TypeOK'
      BY <1>3, <2>2 DEF TypeOK, ResponseWritten
    <3>2. EventsInv'
      BY <1>3, <2>2, EventsUnchanged DEF TypeOK, Streaming, ResponseWritten
    <3>3. QED
      BY <3>1, <3>2
  <2>3. QED
    BY <2>1, <2>2
<1>4. ASSUME NEW c \in Conns, OpenStream(c) PROVE TypeOK' /\ EventsInv'
  <2>1. /\ conn[c] = "handling" /\ beatLeft' = [beatLeft EXCEPT ![c] = Heartbeat]
    BY <1>4 DEF OpenStream
  <2>2. /\ InTime(events[c]) /\ Len(events[c]) < MaxEvents
        /\ beatLeft' \in [Conns -> 0..Heartbeat]
    <3>1. events[c] = <<>>
      BY <2>1 DEF EventsInv, Streaming
    <3>2. beatLeft' \in [Conns -> 0..Heartbeat]
      BY <2>1 DEF TypeOK
    <3>3. QED
      BY <3>1, <3>2, EmptyIsGapless
  <2>3. CASE Written(c, writeLeft[c] > 0)
    <3>1. (writeLeft[c] > 0) = TRUE \/ (writeLeft[c] > 0) = FALSE
      OBVIOUS
    <3>2. Written(c, TRUE) \/ Written(c, FALSE)
      BY <2>3, <3>1 DEF Written
    <3>3. QED
      BY <2>2, <3>2, WrittenKeeps
  <2>4. CASE /\ conn' = [conn EXCEPT ![c] = "streaming"]
             /\ UNCHANGED <<mainVars, writeLeft, task, events, kept, late, owed>>
    <3>1. TypeOK'
      BY <2>2, <2>4 DEF TypeOK, Streaming
    <3>2. EventsInv'
      BY <2>1, <2>4, EventsUnchanged DEF TypeOK, Streaming
    <3>3. QED
      BY <3>1, <3>2
  <2>5. QED
    BY <1>4, <2>3, <2>4 DEF OpenStream
<1>5. ASSUME NEW c \in Conns, PushDone(c) PROVE TypeOK' /\ EventsInv'
  <2>1. /\ Written(c, TRUE) /\ InTime(events[c]) /\ Len(events[c]) < MaxEvents
        /\ beatLeft' \in [Conns -> 0..Heartbeat]
    BY <1>5 DEF PushDone, EventsInv, TypeOK
  <2>2. QED
    BY <2>1, WrittenKeeps
<1>6. ASSUME NEW c \in Conns, PushFails(c) \/ PushCancelled(c) PROVE TypeOK' /\ EventsInv'
  <2>1. /\ Written(c, FALSE) /\ Len(events[c]) < MaxEvents
        /\ beatLeft' \in [Conns -> 0..Heartbeat]
    BY <1>6 DEF PushFails, PushCancelled, EventsInv, TypeOK
  <2>2. QED
    BY <2>1, WrittenKeeps
<1>7. ASSUME NEW c \in Conns, BeginPush(c) \/ HeartbeatFires(c) \/ ClientGone(c)
      PROVE  TypeOK' /\ EventsInv'
  <2>1. TypeOK'
    <3>1. CASE BeginPush(c)
      BY <3>1 DEF TypeOK, Streaming, BeginPush
    <3>2. CASE HeartbeatFires(c)
      <4>1. beatLeft' \in [Conns -> 0..Heartbeat]
        BY <3>2 DEF TypeOK, HeartbeatFires
      <4>2. /\ conn' = conn \/ conn' = [conn EXCEPT ![c] = "cancelled"]
            /\ kept' = kept \/ kept' = kept \cup {c}
            /\ UNCHANGED <<phase, exit, drainLeft, writeLeft, task, events, late, owed>>
        BY <3>2 DEF HeartbeatFires
      <4>3. QED
        BY <4>1, <4>2 DEF TypeOK, Streaming
    <3>3. CASE ClientGone(c)
      BY <3>3 DEF TypeOK, Streaming, ClientGone
    <3>4. QED
      BY <1>7, <3>1, <3>2, <3>3
  <2>2. EventsInv'
    BY <1>7, EventsUnchanged DEF TypeOK, Streaming, BeginPush, HeartbeatFires, ClientGone
  <2>3. QED
    BY <2>1, <2>2
<1>8. ASSUME NEW c \in Conns, NEW t \in Tasks, SpawnTask(c, t) PROVE TypeOK' /\ EventsInv'
  BY <1>8, EventsUnchanged DEF SpawnTask, TypeOK
<1>9. ASSUME NEW t \in Tasks, QueryStarts(t) \/ QueryEnds(t) \/ QueryRefused(t)
      PROVE  TypeOK' /\ EventsInv'
  BY <1>9, EventsUnchanged DEF QueryStarts, QueryEnds, QueryRefused, TypeOK
<1>10. CASE Signal \/ ListenFails \/ ShutdownTimesOut \/ PoolClosed
  BY <1>10, EventsUnchanged
     DEF Signal, ListenFails, ShutdownTimesOut, PoolClosed, End, TypeOK
<1>11. CASE ShutdownDone
  <2>1. TypeOK'
    BY <1>11 DEF TypeOK, ShutdownDone
  <2>2. EventsInv'
    BY <1>11, EventsUnchanged DEF TypeOK, Streaming, ShutdownDone
  <2>3. QED
    BY <2>1, <2>2
<1>12. CASE Tick
  <2>1. TypeOK'
    BY <1>12 DEF TypeOK, Tick, Decremented
  <2>2. EventsInv'
    BY <1>12, EventsUnchanged DEF Tick
  <2>3. QED
    BY <2>1, <2>2
<1>13. CASE UNCHANGED vars
  BY <1>13, EventsUnchanged DEF vars, TypeOK
<1>14. QED
  BY <1>1, <1>2, <1>3, <1>4, <1>5, <1>6, <1>7, <1>8, <1>9, <1>10, <1>11, <1>12, <1>13
     DEF Next

LEMMA EventsStart == Init => TypeOK /\ EventsInv
  BY EmptyIsGapless, Times DEF Init, TypeOK, EventsInv

\* Type correctness of the server.
THEOREM TypeCorrect == Spec => []TypeOK
  BY EventsStart, EventsInductive, PTL DEF Spec

\* Safety: what a client gets of a stream is a prefix of what was written to it.
THEOREM StreamsHaveNoGaps == Spec => []NoGaps
<1>1. EventsInv => NoGaps
  BY DEF EventsInv, NoGaps, Gapless
<1>2. QED
  BY <1>1, EventsStart, EventsInductive, PTL DEF Spec

-----------------------------------------------------------------------------
(* Heartbeats *)

\* The write deadline of a live stream is over no later than its next heartbeat
\* is due.
DeadlineFirst ==
    /\ \A c \in Conns : conn[c] \in {"streaming", "pushing"} => writeLeft[c] <= beatLeft[c]
    /\ kept = {}

\* DeadlineFirst is preserved by every step.
LEMMA DeadlineInductive == TypeOK /\ DeadlineFirst /\ [Next]_vars => DeadlineFirst'
<1> SUFFICES ASSUME TypeOK, DeadlineFirst, [Next]_vars PROVE DeadlineFirst'
  OBVIOUS
<1> USE Times DEF DeadlineFirst, mainVars, connVars
<1>1. ASSUME UNCHANGED <<writeLeft, beatLeft, kept>>,
             \A c \in Conns : conn'[c] \in {"streaming", "pushing"} =>
                 conn[c] \in {"streaming", "pushing"}
      PROVE  DeadlineFirst'
  BY <1>1
<1>2. ASSUME NEW c \in Conns, Connect(c) \/ Respond(c) PROVE DeadlineFirst'
  BY <1>1, <1>2 DEF TypeOK, Connect, Respond
<1>3. ASSUME NEW c \in Conns, ReadRequest(c) PROVE DeadlineFirst'
  BY <1>3 DEF TypeOK, ReadRequest
<1>4. ASSUME NEW c \in Conns, Forget(c) PROVE DeadlineFirst'
  BY <1>4 DEF TypeOK, Forget
<1>5. ASSUME NEW c \in Conns,
             Disconnect(c) \/ ResponseTimesOut(c) \/ StreamReturns(c)
      PROVE  DeadlineFirst'
  BY <1>4, <1>5 DEF Disconnect, ResponseTimesOut, StreamReturns
<1>6. ASSUME NEW c \in Conns, ResponseWritten(c) PROVE DeadlineFirst'
  <2>1. CASE phase = "draining"
    BY <1>4, <1>6, <2>1 DEF ResponseWritten
  <2>2. CASE phase # "draining"
    BY <1>1, <1>6, <2>2 DEF TypeOK, ResponseWritten
  <2>3. QED
    BY <2>1, <2>2
<1>7. ASSUME NEW c \in Conns, OpenStream(c) PROVE DeadlineFirst'
  <2>1. /\ beatLeft' = [beatLeft EXCEPT ![c] = Heartbeat]
        /\ UNCHANGED <<writeLeft, kept>>
        /\ \A d \in Conns : d # c => conn'[d] = conn[d]
    BY <1>7 DEF OpenStream, Written, TypeOK
  <2>2. beatLeft'[c] = Heartbeat /\ writeLeft[c] <= Heartbeat
    BY <2>1 DEF TypeOK
  <2>3. QED
    BY <2>1, <2>2 DEF TypeOK
<1>8. ASSUME NEW c \in Conns, BeginPush(c) \/ ClientGone(c) PROVE DeadlineFirst'
  BY <1>1, <1>8 DEF TypeOK, BeginPush, ClientGone
<1>9. ASSUME NEW c \in Conns, PushDone(c) PROVE DeadlineFirst'
  BY <1>1, <1>9 DEF TypeOK, PushDone, Written
<1>10. ASSUME NEW c \in Conns, PushFails(c) \/ PushCancelled(c) PROVE DeadlineFirst'
  BY <1>1, <1>10 DEF TypeOK, PushFails, PushCancelled, Written
<1>11. ASSUME NEW c \in Conns, HeartbeatFires(c) PROVE DeadlineFirst'
  <2>1. writeLeft[c] = 0
    BY <1>11 DEF TypeOK, HeartbeatFires
  <2>2. QED
    BY <1>11, <2>1 DEF TypeOK, HeartbeatFires
<1>12. ASSUME NEW c \in Conns, NEW t \in Tasks, SpawnTask(c, t) PROVE DeadlineFirst'
  BY <1>1, <1>12 DEF SpawnTask
<1>13. ASSUME NEW t \in Tasks, QueryStarts(t) \/ QueryEnds(t) \/ QueryRefused(t)
       PROVE  DeadlineFirst'
  BY <1>1, <1>13 DEF QueryStarts, QueryEnds, QueryRefused
<1>14. CASE Signal \/ ListenFails \/ ShutdownTimesOut \/ PoolClosed
  BY <1>1, <1>14 DEF Signal, ListenFails, ShutdownTimesOut, PoolClosed, End
<1>15. CASE ShutdownDone
  BY <1>1, <1>15 DEF ShutdownDone
<1>16. CASE Tick
  <2>1. \A c \in Conns : /\ writeLeft[c] \in Nat /\ beatLeft[c] \in Nat
                         /\ writeLeft'[c] = IF writeLeft[c] = 0 THEN 0 ELSE writeLeft[c] - 1
                         /\ beatLeft'[c] = IF beatLeft[c] = 0 THEN 0 ELSE beatLeft[c] - 1
    BY <1>16 DEF TypeOK, Tick, Decremented
  <2>2. UNCHANGED <<conn, kept>>
    BY <1>16 DEF Tick
  <2>3. QED
    BY <2>1, <2>2
<1>17. CASE UNCHANGED vars
  BY <1>1, <1>17 DEF vars
<1>18. QED
  BY <1>2, <1>3, <1>5, <1>6, <1>7, <1>8, <1>9, <1>10, <1>11, <1>12, <1>13, <1>14, <1>15,
     <1>16, <1>17 DEF Next

\* Safety: no heartbeat ever reaches a client, because WriteTimeout <= Heartbeat.
THEOREM NoHeartbeatArrives == Spec => []StreamsEndByHeartbeat
<1>1. Init => DeadlineFirst
  BY DEF Init, DeadlineFirst
<1>2. DeadlineFirst => StreamsEndByHeartbeat
  BY DEF DeadlineFirst, StreamsEndByHeartbeat
<1>3. QED
  BY <1>1, <1>2, TypeCorrect, DeadlineInductive, PTL DEF Spec

-----------------------------------------------------------------------------
(* Shutdown *)

\* While Shutdown waits, a request that was read before the signal has used up at
\* least the time that has passed since.
RequestsAge ==
    phase = "draining" =>
        \A c \in Conns \ late : conn[c] \in Ordinary =>
            writeLeft[c] + (ShutdownTimeout - drainLeft) <= WriteTimeout \/ writeLeft[c] = 0

ShutdownInv == RequestsAge /\ CutOffOnlyIfLong

\* ShutdownInv is preserved by every step.
LEMMA ShutdownInductive == TypeOK /\ ShutdownInv /\ [Next]_vars => ShutdownInv'
<1> SUFFICES ASSUME TypeOK, ShutdownInv, [Next]_vars PROVE ShutdownInv'
  OBVIOUS
<1> USE Times DEF mainVars, connVars, Ordinary
<1>1. ASSUME UNCHANGED <<phase, exit, drainLeft, writeLeft, late>>, Listening,
             \A c \in Conns : conn'[c] \in Ordinary => conn[c] \in Ordinary
      PROVE  ShutdownInv'
  BY <1>1 DEF ShutdownInv, RequestsAge, CutOffOnlyIfLong, Listening
<1>2. ASSUME NEW c \in Conns, Connect(c) \/ Respond(c) PROVE ShutdownInv'
  BY <1>1, <1>2 DEF TypeOK, Connect, Respond, Listening
<1>3. ASSUME NEW c \in Conns, ReadRequest(c) PROVE ShutdownInv'
  BY <1>3 DEF TypeOK, ReadRequest, Listening, ShutdownInv, RequestsAge,
              CutOffOnlyIfLong
<1>4. ASSUME NEW c \in Conns, Listening, Forget(c) PROVE ShutdownInv'
  BY <1>4 DEF TypeOK, Forget, Listening, ShutdownInv, RequestsAge,
              CutOffOnlyIfLong
<1>5. ASSUME NEW c \in Conns,
             Disconnect(c) \/ ResponseTimesOut(c) \/ StreamReturns(c)
      PROVE  ShutdownInv'
  BY <1>4, <1>5 DEF Disconnect, ResponseTimesOut, StreamReturns
<1>6. ASSUME NEW c \in Conns, ResponseWritten(c) PROVE ShutdownInv'
  <2>1. CASE phase = "draining"
    BY <1>4, <1>6, <2>1 DEF ResponseWritten
  <2>2. CASE phase # "draining"
    BY <1>1, <1>6, <2>2 DEF TypeOK, ResponseWritten
  <2>3. QED
    BY <2>1, <2>2
<1>7. ASSUME NEW c \in Conns, OpenStream(c) PROVE ShutdownInv'
  BY <1>1, <1>7 DEF TypeOK, OpenStream, Written
<1>8. ASSUME NEW c \in Conns,
             BeginPush(c) \/ PushDone(c) \/ PushFails(c) \/ PushCancelled(c) \/ ClientGone(c)
      PROVE  ShutdownInv'
  BY <1>1, <1>8 DEF TypeOK, BeginPush, PushDone, PushFails, PushCancelled, ClientGone, Written
<1>9. ASSUME NEW c \in Conns, HeartbeatFires(c) PROVE ShutdownInv'
  BY <1>1, <1>9 DEF TypeOK, HeartbeatFires
<1>10. ASSUME NEW c \in Conns, NEW t \in Tasks, SpawnTask(c, t) PROVE ShutdownInv'
  BY <1>1, <1>10 DEF SpawnTask
<1>11. ASSUME NEW t \in Tasks, QueryStarts(t) PROVE ShutdownInv'
  BY <1>1, <1>11 DEF QueryStarts
<1>12. ASSUME NEW t \in Tasks, QueryEnds(t) \/ QueryRefused(t) PROVE ShutdownInv'
  <2>1. /\ phase # "ended"
        /\ UNCHANGED <<phase, exit, drainLeft, conn, writeLeft, late>>
    BY <1>12 DEF QueryEnds, QueryRefused
  <2>2. QED
    BY <2>1 DEF ShutdownInv, RequestsAge, CutOffOnlyIfLong
<1>13. CASE Signal
  BY <1>13 DEF TypeOK, Signal, ShutdownInv, RequestsAge, CutOffOnlyIfLong
<1>14. CASE ListenFails
  BY <1>14 DEF ListenFails, End, ShutdownInv, RequestsAge, CutOffOnlyIfLong
<1>15. CASE ShutdownDone
  BY <1>15 DEF ShutdownDone, ShutdownInv, RequestsAge, CutOffOnlyIfLong
<1>16. CASE ShutdownTimesOut
  <2>1. /\ phase = "draining" /\ drainLeft = 0 /\ phase' = "ended" /\ exit' = "timeout"
        /\ UNCHANGED <<drainLeft, conn, writeLeft, late>>
    BY <1>16 DEF ShutdownTimesOut, End
  <2>2. CutOffOnlyIfLong'
    BY <2>1 DEF TypeOK, ShutdownInv, RequestsAge, CutOffOnlyIfLong
  <2>3. QED
    BY <2>1, <2>2 DEF ShutdownInv, RequestsAge
<1>17. CASE PoolClosed
  BY <1>17 DEF PoolClosed, End, ShutdownInv, RequestsAge, CutOffOnlyIfLong
<1>18. CASE Tick
  <2>1. /\ UNCHANGED <<phase, exit, conn, task, late>> /\ Listening
        /\ phase = "draining" => drainLeft > 0
        /\ drainLeft' = IF drainLeft = 0 THEN 0 ELSE drainLeft - 1
    BY <1>18 DEF TypeOK, Tick, NothingDue
  <2>2. \A c \in Conns : /\ writeLeft[c] \in Nat
                         /\ writeLeft'[c] = IF writeLeft[c] = 0 THEN 0 ELSE writeLeft[c] - 1
    BY <1>18 DEF TypeOK, Tick, Decremented
  <2>3. RequestsAge'
    BY <2>1, <2>2 DEF TypeOK, ShutdownInv, RequestsAge
  <2>4. QED
    BY <2>1, <2>3 DEF ShutdownInv, CutOffOnlyIfLong, Listening
<1>19. CASE UNCHANGED vars
  BY <1>19 DEF vars, ShutdownInv, RequestsAge, CutOffOnlyIfLong
<1>20. QED
  BY <1>2, <1>3, <1>5, <1>6, <1>7, <1>8, <1>9, <1>10, <1>11, <1>12, <1>13, <1>14, <1>15,
     <1>16, <1>17, <1>18, <1>19 DEF Next

LEMMA ShutdownStarts == Init => ShutdownInv
  BY DEF Init, ShutdownInv, RequestsAge, CutOffOnlyIfLong

\* Safety: a shutdown that runs out of time cuts off an ordinary request only if
\* it was read after the signal or had all of Shutdown's time.
THEOREM OnlyLongRequestsAreCutOff == Spec => []CutOffOnlyIfLong
<1>1. ShutdownInv => CutOffOnlyIfLong
  BY DEF ShutdownInv
<1>2. QED
  BY <1>1, ShutdownStarts, TypeCorrect, ShutdownInductive, PTL DEF Spec

-----------------------------------------------------------------------------
(* The end of the requests and the end of the pool *)

\* A request is owed its end from the reading of it until its connection is idle or
\* closed, and none is owed once Shutdown has returned.
Served(c) == conn[c] \in Ordinary \cup Streaming
OwedInv ==
    /\ Listening => exit = "none" /\ \A c \in Conns : c \in owed <=> Served(c)
    /\ PoolOutlivesRequests

\* OwedInv is preserved by every step: only Shutdown, which waits for the requests,
\* leads to the closing of the pool.
LEMMA OwedInductive == TypeOK /\ OwedInv /\ [Next]_vars => OwedInv'
<1> SUFFICES ASSUME TypeOK, OwedInv, [Next]_vars PROVE OwedInv'
  OBVIOUS
<1> USE DEF mainVars, connVars, Ordinary, Streaming, OwedInv, PoolOutlivesRequests, Listening, Served
<1>1. ASSUME UNCHANGED <<phase, exit, owed>>, Listening,
             \A c \in Conns : Served(c)' <=> Served(c)
      PROVE  OwedInv'
  BY <1>1
<1>2. ASSUME NEW c \in Conns, Connect(c) \/ Respond(c) PROVE OwedInv'
  BY <1>1, <1>2 DEF TypeOK, Connect, Respond
<1>3. ASSUME NEW c \in Conns, ReadRequest(c) PROVE OwedInv'
  BY <1>3 DEF TypeOK, ReadRequest
<1>4. ASSUME NEW c \in Conns, Listening, Forget(c) PROVE OwedInv'
  BY <1>4 DEF TypeOK, Forget
<1>5. ASSUME NEW c \in Conns,
             Disconnect(c) \/ ResponseTimesOut(c) \/ StreamReturns(c)
      PROVE  OwedInv'
  BY <1>4, <1>5 DEF Disconnect, ResponseTimesOut, StreamReturns
<1>6. ASSUME NEW c \in Conns, ResponseWritten(c) PROVE OwedInv'
  <2>1. CASE phase = "draining"
    BY <1>4, <1>6, <2>1 DEF ResponseWritten
  <2>2. CASE phase # "draining"
    BY <1>6, <2>2 DEF TypeOK, ResponseWritten
  <2>3. QED
    BY <2>1, <2>2
<1>7. ASSUME NEW c \in Conns, OpenStream(c) PROVE OwedInv'
  BY <1>1, <1>7 DEF TypeOK, OpenStream, Written
<1>8. ASSUME NEW c \in Conns,
             BeginPush(c) \/ PushDone(c) \/ PushFails(c) \/ PushCancelled(c) \/ ClientGone(c)
      PROVE  OwedInv'
  BY <1>1, <1>8 DEF TypeOK, BeginPush, PushDone, PushFails, PushCancelled, ClientGone, Written
<1>9. ASSUME NEW c \in Conns, HeartbeatFires(c) PROVE OwedInv'
  BY <1>1, <1>9 DEF TypeOK, HeartbeatFires
<1>10. ASSUME UNCHANGED <<phase, exit, conn, owed>> PROVE OwedInv'
  BY <1>10
<1>11. ASSUME NEW t \in Tasks,
              \/ \E c \in Conns : SpawnTask(c, t)
              \/ QueryStarts(t) \/ QueryEnds(t) \/ QueryRefused(t)
       PROVE  OwedInv'
  BY <1>10, <1>11 DEF SpawnTask, QueryStarts, QueryEnds, QueryRefused
<1>12. CASE Signal
  BY <1>12 DEF Signal
<1>13. CASE ListenFails \/ ShutdownTimesOut \/ PoolClosed
  BY <1>13 DEF ListenFails, ShutdownTimesOut, PoolClosed, End
<1>14. CASE ShutdownDone
  <2>1. \A c \in Conns : ~Served(c)
    BY <1>14 DEF ShutdownDone
  <2>2. owed = {}
    BY <1>14, <2>1 DEF TypeOK, ShutdownDone
  <2>3. QED
    BY <1>14, <2>2 DEF ShutdownDone
<1>15. CASE Tick \/ UNCHANGED vars
  BY <1>10, <1>15 DEF Tick, vars
<1>16. QED
  BY <1>2, <1>3, <1>5, <1>6, <1>7, <1>8, <1>9, <1>11, <1>12, <1>13, <1>14, <1>15 DEF Next

\* Safety: main closes the pool, and exits with status 0, only when every request
\* that was read is over.
THEOREM PoolIsClosedLast == Spec => []PoolOutlivesRequests
<1>1. Init => OwedInv
  BY DEF Init, OwedInv, PoolOutlivesRequests, Listening, Served, Ordinary, Streaming
<1>2. OwedInv => PoolOutlivesRequests
  BY DEF OwedInv
<1>3. QED
  BY <1>1, <1>2, TypeCorrect, OwedInductive, PTL DEF Spec
=============================================================================
