------------------------------ MODULE HttpServer ------------------------------
(***************************************************************************)
(* The life of the process as httpx.Run and main arrange it: a server with *)
(* a write timeout, requests and event streams on its connections,         *)
(* goroutines that requests leave behind, and the shutdown after a signal. *)
(*                                                                         *)
(* Timers count down.  The write timeout is one deadline per request, set  *)
(* when the request's header has been read: a stream, which is one long    *)
(* answer, has it too.  A failed write makes net/http cancel the request's *)
(* context, which ends the stream's loop.  Faster than the unit of time is *)
(* whatever waits for neither client, database nor timer: Tick lets it go  *)
(* first.                                                                  *)
(***************************************************************************)
EXTENDS Naturals, Sequences, FiniteSets

CONSTANTS
    Conns,            \* places for connections, used again and again
    Tasks,            \* places for goroutines that outlive their request
    WriteTimeout,     \* http.Server.WriteTimeout
    Heartbeat,        \* the period of the ticker in Stream
    ShutdownTimeout,  \* the time Shutdown is given
    MaxEvents         \* bound on the events written to one stream

ASSUME TimesAssumption ==
    /\ {WriteTimeout, Heartbeat, ShutdownTimeout, MaxEvents} \subseteq Nat \ {0}
    /\ WriteTimeout <= Heartbeat
ASSUME ConnsAssumption == IsFiniteSet(Conns) /\ IsFiniteSet(Tasks)

VARIABLES
    phase,      \* what main does: serve, drain, close the pool, or it has ended
    exit,       \* why it ended
    drainLeft,  \* time left to Shutdown
    conn,       \* what happens on a connection
    writeLeft,  \* time left to the connection's write deadline
    beatLeft,   \* time left to the next tick of the stream's heartbeat
    task,       \* what a background goroutine does
    \* history:
    events,     \* events[c]: for each event written to stream c, did it arrive
    kept,       \* streams a heartbeat has got through on
    late,       \* connections whose request was read after the signal
    owed        \* connections whose request has been read and is not over: its answer
                \* neither written nor past its deadline, its stream's handler not back

connVars == <<conn, writeLeft, beatLeft, events, kept, late, owed>>
mainVars == <<phase, exit, drainLeft>>
vars == <<phase, exit, drainLeft, conn, writeLeft, beatLeft, task, events, kept, late,
          owed>>

\* A cancelled stream's handler is about to return.  A request is "writing" or a
\* stream "pushing" while it waits for a client that is slow to read.
Streaming == {"streaming", "pushing", "cancelled"}
Ordinary == {"handling", "writing"}

TypeOK ==
    /\ phase \in {"serving", "draining", "closing", "ended"}
    /\ exit \in {"none", "clean", "timeout", "listen"}
    /\ drainLeft \in 0..ShutdownTimeout
    /\ conn \in [Conns -> {"none", "open"} \cup Ordinary \cup Streaming]
    /\ writeLeft \in [Conns -> 0..WriteTimeout]
    /\ beatLeft \in [Conns -> 0..Heartbeat]
    /\ task \in [Tasks -> {"none", "between", "querying"}]
    /\ events \in [Conns -> Seq(BOOLEAN)]
    /\ \A c \in Conns : Len(events[c]) <= MaxEvents
    /\ kept \subseteq Conns /\ late \subseteq Conns /\ owed \subseteq Conns

Init ==
    /\ phase = "serving" /\ exit = "none" /\ drainLeft = 0
    /\ conn = [c \in Conns |-> "none"]
    /\ writeLeft = [c \in Conns |-> 0]
    /\ beatLeft = [c \in Conns |-> 0]
    /\ task = [t \in Tasks |-> "none"]
    /\ events = [c \in Conns |-> <<>>]
    /\ kept = {} /\ late = {} /\ owed = {}

Listening == phase \in {"serving", "draining"}

-----------------------------------------------------------------------------
(* Connections and ordinary requests *)

\* The connection c is closed; its place is as new.
Forget(c) ==
    /\ conn' = [conn EXCEPT ![c] = "none"]
    /\ writeLeft' = [writeLeft EXCEPT ![c] = 0]
    /\ beatLeft' = [beatLeft EXCEPT ![c] = 0]
    /\ events' = [events EXCEPT ![c] = <<>>]
    /\ kept' = kept \ {c} /\ late' = late \ {c} /\ owed' = owed \ {c}
    /\ UNCHANGED <<mainVars, task>>

Connect(c) ==
    /\ phase = "serving" /\ conn[c] = "none"
    /\ conn' = [conn EXCEPT ![c] = "open"]
    /\ UNCHANGED <<mainVars, writeLeft, beatLeft, task, events, kept, late, owed>>

\* The client closes an idle connection, or its read or idle timeout is over.
Disconnect(c) == Listening /\ conn[c] = "open" /\ Forget(c)

\* Faulty variant: the two periods mixed up.
ReadRequestSwapped(c) ==
    /\ Listening /\ conn[c] = "open"
    /\ conn' = [conn EXCEPT ![c] = "handling"]
    /\ writeLeft' = [writeLeft EXCEPT ![c] = Heartbeat]
    /\ late' = IF phase = "draining" THEN late \cup {c} ELSE late
    /\ owed' = owed \cup {c}
    /\ UNCHANGED <<mainVars, beatLeft, task, events, kept>>

\* A connection that was open before the signal may still bring a request.
ReadRequest(c) ==
    /\ Listening /\ conn[c] = "open"
    /\ conn' = [conn EXCEPT ![c] = "handling"]
    /\ writeLeft' = [writeLeft EXCEPT ![c] = WriteTimeout]
    /\ late' = IF phase = "draining" THEN late \cup {c} ELSE late
    /\ owed' = owed \cup {c}
    /\ UNCHANGED <<mainVars, beatLeft, task, events, kept>>

\* FollowUser, the session middleware and TrackProfileView go on after the answer.
SpawnTask(c, t) ==
    /\ Listening /\ conn[c] = "handling" /\ task[t] = "none"
    /\ task' = [task EXCEPT ![t] = "between"]
    /\ UNCHANGED <<mainVars, connVars>>

\* The handler is done, or has panicked and Recover answers in its place.
Respond(c) ==
    /\ Listening /\ conn[c] = "handling"
    /\ conn' = [conn EXCEPT ![c] = "writing"]
    /\ UNCHANGED <<mainVars, writeLeft, beatLeft, task, events, kept, late, owed>>

\* Connections are kept for a next request, but not while Shutdown waits.
ResponseWritten(c) ==
    /\ Listening /\ conn[c] = "writing" /\ writeLeft[c] > 0
    /\ IF phase = "draining" THEN Forget(c)
       ELSE /\ conn' = [conn EXCEPT ![c] = "open"]
            /\ owed' = owed \ {c}
            /\ UNCHANGED <<mainVars, writeLeft, beatLeft, task, events, kept, late>>

ResponseTimesOut(c) ==
    /\ Listening /\ conn[c] = "writing" /\ writeLeft[c] = 0
    /\ Forget(c)

-----------------------------------------------------------------------------
(* Event streams *)

\* What is left of the handler's writes to a stream: the event was or was not in
\* time.  Once one has failed the context is cancelled.
Written(c, arrived) ==
    /\ events' = [events EXCEPT ![c] = Append(@, arrived)]
    /\ conn' = [conn EXCEPT ![c] = IF arrived THEN "streaming" ELSE "cancelled"]
    /\ UNCHANGED <<mainVars, writeLeft, task, kept, late, owed>>

\* The initial count is queried and written, then the ticker is made.
OpenStream(c) ==
    /\ Listening /\ conn[c] = "handling"
    /\ beatLeft' = [beatLeft EXCEPT ![c] = Heartbeat]
    /\ \/ Written(c, writeLeft[c] > 0)
       \/ /\ conn' = [conn EXCEPT ![c] = "streaming"]   \* the count failed
          /\ UNCHANGED <<mainVars, writeLeft, task, events, kept, late, owed>>

BeginPush(c) ==
    /\ Listening /\ conn[c] = "streaming" /\ Len(events[c]) < MaxEvents
    /\ conn' = [conn EXCEPT ![c] = "pushing"]
    /\ UNCHANGED <<mainVars, writeLeft, beatLeft, task, events, kept, late, owed>>

\* The client has read the event.
PushDone(c) ==
    /\ Listening /\ conn[c] = "pushing" /\ writeLeft[c] > 0
    /\ Written(c, TRUE)
    /\ UNCHANGED beatLeft

\* Faulty variant: the handler goes on after a failed write, with a new deadline.
PushFailsUnnoticed(c) ==
    /\ Listening /\ conn[c] = "pushing" /\ writeLeft[c] = 0
    /\ events' = [events EXCEPT ![c] = Append(@, FALSE)]
    /\ conn' = [conn EXCEPT ![c] = "streaming"]
    /\ writeLeft' = [writeLeft EXCEPT ![c] = WriteTimeout]
    /\ UNCHANGED <<mainVars, beatLeft, task, kept, late, owed>>

PushFails(c) ==
    /\ Listening /\ conn[c] = "pushing" /\ writeLeft[c] = 0
    /\ Written(c, FALSE)
    /\ UNCHANGED beatLeft

\* The select of the loop picks among what is ready: an event may still be taken
\* when the context is cancelled.
PushCancelled(c) ==
    /\ Listening /\ conn[c] = "cancelled" /\ Len(events[c]) < MaxEvents
    /\ Written(c, FALSE)
    /\ UNCHANGED beatLeft

HeartbeatFires(c) ==
    /\ Listening /\ conn[c] = "streaming" /\ beatLeft[c] = 0
    /\ beatLeft' = [beatLeft EXCEPT ![c] = Heartbeat]
    /\ IF writeLeft[c] > 0 THEN kept' = kept \cup {c} /\ UNCHANGED conn
       ELSE conn' = [conn EXCEPT ![c] = "cancelled"] /\ UNCHANGED kept
    /\ UNCHANGED <<mainVars, writeLeft, task, events, late, owed>>

ClientGone(c) ==
    /\ Listening /\ conn[c] \in {"streaming", "pushing"}
    /\ conn' = [conn EXCEPT ![c] = "cancelled"]
    /\ UNCHANGED <<mainVars, writeLeft, beatLeft, task, events, kept, late, owed>>

StreamReturns(c) == Listening /\ conn[c] = "cancelled" /\ Forget(c)

-----------------------------------------------------------------------------
(* Background goroutines: a sequence of queries on the pool *)

QueryStarts(t) ==
    /\ Listening /\ task[t] = "between"
    /\ task' = [task EXCEPT ![t] = "querying"]
    /\ UNCHANGED <<mainVars, connVars>>

QueryEnds(t) ==
    /\ phase # "ended" /\ task[t] = "querying"
    /\ \E next \in {"between", "none"} : task' = [task EXCEPT ![t] = next]
    /\ UNCHANGED <<mainVars, connVars>>

\* A closed pool refuses the next query.
QueryRefused(t) ==
    /\ phase = "closing" /\ task[t] = "between"
    /\ task' = [task EXCEPT ![t] = "none"]
    /\ UNCHANGED <<mainVars, connVars>>

-----------------------------------------------------------------------------
(* The end of the process *)

End(why) ==
    /\ phase' = "ended" /\ exit' = why
    /\ UNCHANGED <<drainLeft, connVars, task>>

\* Faulty variant: half the time.
SignalHalf ==
    /\ phase = "serving"
    /\ phase' = "draining" /\ drainLeft' = ShutdownTimeout \div 2
    /\ UNCHANGED <<exit, connVars, task>>

Signal ==
    /\ phase = "serving"
    /\ phase' = "draining" /\ drainLeft' = ShutdownTimeout
    /\ UNCHANGED <<exit, connVars, task>>

\* ListenAndServe fails: Run returns the error and main ends with Fatal.
ListenFails == phase = "serving" /\ End("listen")

\* Faulty variant: streams on hijacked connections, which Shutdown does not wait
\* for or close.
ShutdownDoneBesideStreams ==
    /\ phase = "draining"
    /\ \A c \in Conns : conn[c] \notin Ordinary
    /\ phase' = "closing"
    /\ conn' = [c \in Conns |-> "none"]
    /\ UNCHANGED <<exit, drainLeft, writeLeft, beatLeft, task, events, kept, late, owed>>

\* Shutdown closes idle connections and returns once there are no others; main
\* returns, and its deferred functions close the pool.
ShutdownDone ==
    /\ phase = "draining"
    /\ \A c \in Conns : conn[c] \in {"none", "open"}
    /\ phase' = "closing"
    /\ conn' = [c \in Conns |-> "none"]
    /\ UNCHANGED <<exit, drainLeft, writeLeft, beatLeft, task, events, kept, late, owed>>

\* Run returns the context's error and main ends with Fatal: exit status 1, no
\* deferred function, whoever is still served cut off.
ShutdownTimesOut == phase = "draining" /\ drainLeft = 0 /\ End("timeout")

\* pool.Close waits for the connections in use, not for the goroutines.
PoolClosed ==
    /\ phase = "closing"
    /\ \A t \in Tasks : task[t] # "querying"
    /\ End("clean")

-----------------------------------------------------------------------------
Decremented(left) == [c \in Conns |-> IF left[c] = 0 THEN 0 ELSE left[c] - 1]

\* Nothing is due that would happen before time moves on.
NothingDue ==
    /\ ~(phase = "draining" /\ drainLeft = 0)
    /\ \A c \in Conns :
          /\ conn[c] # "cancelled"
          /\ ~(conn[c] \in {"writing", "pushing"} /\ writeLeft[c] = 0)
          /\ ~(conn[c] = "streaming" /\ beatLeft[c] = 0)

\* Faulty variant: a server without WriteTimeout.
TickNoWriteTimeout ==
    /\ Listening /\ NothingDue
    /\ drainLeft' = IF drainLeft = 0 THEN 0 ELSE drainLeft - 1
    /\ beatLeft' = Decremented(beatLeft)
    /\ UNCHANGED <<phase, exit, conn, writeLeft, task, events, kept, late, owed>>

\* Faulty variant: Shutdown with a context that does not end.
TickNoDeadline ==
    /\ Listening /\ NothingDue
    /\ writeLeft' = Decremented(writeLeft)
    /\ beatLeft' = Decremented(beatLeft)
    /\ UNCHANGED <<phase, exit, drainLeft, conn, task, events, kept, late, owed>>

Tick ==
    /\ Listening /\ NothingDue
    /\ drainLeft' = IF drainLeft = 0 THEN 0 ELSE drainLeft - 1
    /\ writeLeft' = Decremented(writeLeft)
    /\ beatLeft' = Decremented(beatLeft)
    /\ UNCHANGED <<phase, exit, conn, task, events, kept, late, owed>>

Next ==
    \/ \E c \in Conns :
          \/ Connect(c) \/ Disconnect(c) \/ ReadRequest(c)
          \/ (\E t \in Tasks : SpawnTask(c, t))
          \/ Respond(c) \/ ResponseWritten(c) \/ ResponseTimesOut(c)
          \/ OpenStream(c) \/ BeginPush(c) \/ PushDone(c) \/ PushFails(c)
          \/ PushCancelled(c) \/ HeartbeatFires(c) \/ ClientGone(c) \/ StreamReturns(c)
    \/ \E t \in Tasks : QueryStarts(t) \/ QueryEnds(t) \/ QueryRefused(t)
    \/ Signal \/ ListenFails \/ ShutdownDone \/ ShutdownTimesOut \/ PoolClosed
    \/ Tick

\* Time passes whatever else happens, timers fire and a cancelled handler returns.
\* Nothing is assumed of clients, of handlers' speed, of signals, or of queries: a
\* query may never return.
Fairness ==
    /\ SF_vars(Tick)
    /\ \A c \in Conns :
          WF_vars(ResponseTimesOut(c) \/ PushFails(c) \/ HeartbeatFires(c)
                    \/ StreamReturns(c))
    /\ WF_vars(ShutdownTimesOut) /\ WF_vars(PoolClosed)

Spec == Init /\ [][Next]_vars /\ Fairness

-----------------------------------------------------------------------------
(* Properties *)

\* No heartbeat ever reaches a client: the write deadline of the request is over
\* before the first is due, so the first heartbeat ends every stream that lasts
\* until then, and no stream lasts longer.
StreamsEndByHeartbeat == kept = {}

\* What a client gets of a stream is a prefix of what the handler wrote: a client
\* that opens the next stream when one ends has missed no event in the middle of
\* one, however late its events were.
NoGaps ==
    \A c \in Conns : \A i, j \in 1..Len(events[c]) :
        i < j /\ events[c][j] => events[c][i]

\* The pool outlives the requests: main closes it, and exits with status 0, only
\* when every request that was read is over, streams and requests read after the
\* signal included, so no handler meets a closed pool and a clean exit cuts off none.
PoolOutlivesRequests == phase = "closing" \/ exit = "clean" => owed = {}

\* Streams may use up the time that Shutdown has, but an ordinary request is cut
\* off by that only if it was read after the signal or had run for all of it.
CutOffOnlyIfLong ==
    phase = "ended" /\ exit = "timeout" =>
        \A c \in Conns : conn[c] \in Ordinary =>
            c \in late \/ writeLeft[c] + ShutdownTimeout <= WriteTimeout
                       \/ writeLeft[c] = 0

\* After a signal the process ends, whatever clients and handlers do, unless the
\* closing of the pool waits for a query of a background goroutine that never returns.
ShutdownEnds ==
    (phase = "draining") ~>
        \/ phase = "ended"
        \/ \E t \in Tasks : [](phase = "closing" /\ task[t] = "querying")

\* The heartbeat keeps a stream alive, as the comment at its ticker says.
HeartbeatKeepsAlive ==
    [][\A c \in Conns : HeartbeatFires(c) => conn'[c] = "streaming"]_vars
=============================================================================
