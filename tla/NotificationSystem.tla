-------------------------- MODULE NotificationSystem --------------------------
(***************************************************************************)
(* Follow requests, their Notify goroutines, the hub and the streams       *)
(* together: NotificationService composed with NotificationHub.  A call    *)
(* that has counted the unread rows publishes the notification to its      *)
(* recipient: its Publish is a publisher of the hub, named after the call. *)
(* A stream first sends the number of unread rows, then what its channel   *)
(* carries.  Both parts live in one process and end with it.               *)
(***************************************************************************)
EXTENDS Integers, Sequences, FiniteSets

CONSTANTS Users, Calls, Window, MaxTime, DbMayFail, Streams, Capacity, None

ASSUME WindowAssumption == Window \in Nat /\ MaxTime \in Nat
ASSUME DbMayFailAssumption == DbMayFail \in BOOLEAN
ASSUME CapacityAssumption == Capacity \in Nat \ {0}
ASSUME NoneAssumption == None \notin Users \cup Streams \cup Calls

VARIABLES
    registered, follows, edge, pc, rows, unread, createdAt, counted, countErr,
    seen, now,
    clients, subs, buf, closed, owner, spc, gone, ppc, pmap, atStart, visited,
    target,
    initCounted, \* initCounted[s]: the rows the initial count of s counted
    initFailed,  \* streams whose initial count failed
    received,    \* received[s]: the events written to the client of s
    dropped,     \* dropped[s]: the events dropped for s, its channel being full
    shown,       \* shown[s]: the event whose count the client of s was sent last
    during       \* history: during[c] = the rows inserted after c had counted and
                 \* before its Publish was over

Svc == INSTANCE NotificationService
Hub == INSTANCE NotificationHub WITH Publishers <- Calls

clientVars == <<initCounted, initFailed, received, dropped, shown>>
svcVars == <<registered, follows, edge, pc, rows, unread, createdAt, counted,
             countErr, seen, now>>
hubVars == <<clients, subs, buf, closed, owner, spc, gone, ppc, pmap, atStart,
             visited, target>>
vars == <<registered, follows, edge, pc, rows, unread, createdAt, counted,
          countErr, seen, now, clients, subs, buf, closed, owner, spc, gone,
          ppc, pmap, atStart, visited, target, initCounted, initFailed,
          received, dropped, shown, during>>

Init ==
    /\ Svc!Init
    /\ Hub!Init
    /\ initCounted = [s \in Streams |-> {}]
    /\ initFailed = {}
    /\ received = [s \in Streams |-> {}]
    /\ dropped = [s \in Streams |-> {}]
    /\ shown = [s \in Streams |-> None]
    /\ during = [c \in Calls |-> {}]

-----------------------------------------------------------------------------
(* Actions of the service that leave the hub alone *)

Requests ==
    /\ \/ \E u \in Users : Svc!GetOrCreateMe(u) \/ Svc!MarkAllRead(u)
       \/ \E u \in Users, r \in Calls : Svc!MarkRead(r, u)
       \/ \E c \in Calls : Svc!FollowUser(c)
       \/ \E e \in Users \X Users : Svc!UnfollowUser(e)
       \/ Svc!Tick
    /\ UNCHANGED <<hubVars, clientVars, during>>

CallStep(c) ==
    /\ \/ Svc!InsertFollow(c)
       \/ Svc!SpawnNotify(c)
       \/ Svc!CheckDuplicate(c)
       \/ Svc!CreateNotification(c)
       \/ Svc!CountUnread(c)
    /\ during' = [d \in Calls |->
                     IF pc[d] = "publish" THEN during[d] \cup (rows' \ rows) ELSE during[d]]
    /\ UNCHANGED <<hubVars, clientVars>>

-----------------------------------------------------------------------------
(* Publish: the service's call of the hub *)

\* Faulty variant: the event goes to the follower.
BeginPublishToActor(c) ==
    /\ pc[c] = "publish"
    /\ Hub!Lookup(c, Svc!Actor(c))
    /\ UNCHANGED <<svcVars, clientVars, during>>

BeginPublish(c) ==
    /\ pc[c] = "publish"
    /\ Hub!Lookup(c, Svc!Recipient(c))
    /\ UNCHANGED <<svcVars, clientVars, during>>

PublishNext(c) ==
    /\ Hub!RangeNext(c)
    /\ UNCHANGED <<svcVars, clientVars, during>>

PublishSend(c) ==
    /\ Hub!Send(c)
    /\ dropped' = IF Len(buf[target[c]]) < Capacity THEN dropped
                  ELSE [dropped EXCEPT ![target[c]] = @ \cup {c}]
    /\ UNCHANGED <<svcVars, initCounted, initFailed, received, shown, during>>

EndPublish(c) ==
    /\ Hub!RangeDone(c)
    /\ Svc!Publish(c)
    /\ UNCHANGED <<clientVars, during>>

\* A publisher whose next channel has been closed panics, and with it ends all
\* of the process.
PublishPanics(c) ==
    /\ Hub!SendOnClosed(c)
    /\ Svc!Crash
    /\ UNCHANGED <<clientVars, during>>

-----------------------------------------------------------------------------
(* Streams *)

StreamOpen(s) ==
    /\ \E u \in Users : Hub!BeginSubscribe(s, u)
    /\ UNCHANGED <<svcVars, clientVars, during>>

StreamDisconnect(s) ==
    /\ Hub!ClientGone(s)
    /\ UNCHANGED <<svcVars, clientVars, during>>

\* Handler steps that send the client nothing.
StreamQuiet(s) ==
    /\ Hub!EndSubscribe(s) \/ Hub!EndUnsubscribe(s) \/ Hub!Close(s)
    /\ UNCHANGED <<svcVars, clientVars, during>>

\* The deferred Unsubscribe of a stream whose client has gone.
StreamLeave(s) ==
    /\ Hub!BeginUnsubscribe(s)
    /\ UNCHANGED <<svcVars, clientVars, during>>

\* The count is taken after Subscribe has returned; if it fails the client is
\* sent none and the loop begins all the same.
StreamCount(s) ==
    /\ Hub!SendInitialCount(s)
    /\ \/ /\ initCounted' = [initCounted EXCEPT ![s] = Svc!UnreadOf(owner[s])]
          /\ UNCHANGED initFailed
       \/ /\ DbMayFail
          /\ initFailed' = initFailed \cup {s}
          /\ UNCHANGED initCounted
    /\ UNCHANGED <<svcVars, received, dropped, shown, during>>

StreamReceive(s) ==
    /\ Hub!Receive(s)
    /\ received' = [received EXCEPT ![s] = @ \cup {Head(buf[s])}]
    /\ shown' = [shown EXCEPT ![s] = Head(buf[s])]
    /\ UNCHANGED <<svcVars, initCounted, initFailed, dropped, during>>

\* The event is lost, and so is the stream.
StreamWriteFails(s) ==
    /\ Hub!WriteFails(s)
    /\ UNCHANGED <<svcVars, clientVars, during>>

-----------------------------------------------------------------------------
\* The runtime's fatal error or a kill.
ProcessEnds ==
    /\ (\E c \in Calls : Hub!MapRace(c)) \/ Hub!Stop
    /\ Svc!Crash
    /\ UNCHANGED <<clientVars, during>>

Next ==
    \/ Requests
    \/ \E c \in Calls :
          \/ CallStep(c) \/ BeginPublish(c) \/ PublishNext(c) \/ PublishSend(c)
          \/ EndPublish(c) \/ PublishPanics(c)
    \/ \E s \in Streams :
          \/ StreamOpen(s) \/ StreamQuiet(s) \/ StreamCount(s) \/ StreamReceive(s)
          \/ StreamWriteFails(s)
          \/ StreamDisconnect(s) \/ StreamLeave(s)
    \/ ProcessEnds

\* As in the two parts: goroutines run on, and those that wait for the mutex
\* get it.  A write to a client ends, at the WriteTimeout if need be.
Fairness ==
    /\ \A c \in Calls :
          /\ WF_vars(CallStep(c) \/ PublishNext(c) \/ PublishSend(c) \/ EndPublish(c)
                       \/ PublishPanics(c))
          /\ SF_vars(BeginPublish(c))
    /\ \A s \in Streams :
          /\ WF_vars(StreamQuiet(s) \/ StreamCount(s) \/ StreamReceive(s)
                       \/ StreamWriteFails(s))
          /\ SF_vars(StreamLeave(s))

Spec == Init /\ [][Next]_vars /\ Fairness

-----------------------------------------------------------------------------
(* Properties *)

\* An open stream misses no notification: each unread one of its user whose
\* Publish is over was counted in the stream's initial count, or was written to
\* the client, or waits in its channel, or was dropped because the channel was
\* full.  This is why Stream subscribes before it counts, and it holds although
\* Publish ranges over the map with no lock held.
NoMissedNotification ==
    \A s \in Streams : \A c \in unread :
        /\ spc[s] = "loop" /\ s \notin initFailed \cup gone
        /\ pc[c] = "published" /\ Svc!Recipient(c) = owner[s]
        => \/ c \in initCounted[s] \cup received[s] \cup dropped[s]
           \/ \E i \in 1..Len(buf[s]) : buf[s][i] = c

\* A stream is sent the notifications of its own user only, whatever maps the
\* hub drops and makes while publishers range over them, and none that is not in
\* the table: what a client is told it finds when it asks for its list.
OnlyOwnNotifications ==
    \A s \in Streams : \A c \in received[s] : c \in rows /\ Svc!Recipient(c) = owner[s]

\* A client that has been sent an unread notification is shown a count that
\* leaves it out only if the notification was inserted while the event with that
\* count was between its own count and the end of its Publish, or if that event's
\* count failed: two calls may count in one order and publish in the other, but a
\* channel delivers in order and a count is not older than the row it announces.
BadgeBehindOnlyByOverlap ==
    \A s \in Streams : \A r \in received[s] \cap unread :
        shown[s] \in Calls \ countErr => r \in counted[shown[s]] \cup during[shown[s]]

\* A notification about to be published while a stream of its recipient is open
\* is written to that stream's client, or dropped because its channel is full,
\* unless the client disconnects, a write to it fails or the process ends.
PushedOrDropped ==
    \A s \in Streams, c \in Calls :
        (pc[c] = "publish" /\ ppc[c] = "idle" /\ spc[s] = "loop" /\ Svc!Recipient(c) = owner[s])
          ~> (c \in received[s] \cup dropped[s] \/ s \in gone \/ spc[s] = "done")
=============================================================================
