--------------------------- MODULE NotificationHub ---------------------------
(***************************************************************************)
(* The SSE hub (internal/notification/hub.go) and the stream handler that  *)
(* uses it (handler.go Stream).  The hub maps each user to a Go map of the *)
(* user's channels.  Subscribe and Unsubscribe change that map under the   *)
(* mutex; Publish fetches it under the read lock and then ranges over it   *)
(* with no lock held, sending to each channel without blocking.            *)
(*                                                                         *)
(* A map is an object that lives on while a publisher ranges over it, even *)
(* when the hub has dropped it, so it has a name: the stream whose         *)
(* Subscribe allocated it.  A channel is named by its stream.  A write to  *)
(* a map takes two steps, between which a ranging publisher's next step    *)
(* may be detected by the Go runtime as a concurrent map iteration and map *)
(* write, or not.  That, like a send on a closed channel, ends the process *)
(* (no recover on these goroutines); it is restarted with an empty hub.    *)
(***************************************************************************)
EXTENDS Naturals, Sequences

CONSTANTS
    Users,      \* user ids
    Streams,    \* SSE connections, each with the channel made for it
    Publishers, \* calls of Publish, each with the event it sends
    Capacity,   \* of a channel (16)
    None        \* no map, no user, no stream

ASSUME CapacityAssumption == Capacity \in Nat \ {0}
ASSUME NoneAssumption == None \notin Users \cup Streams

VARIABLES
    clients,    \* clients[u]: the map registered for user u, or None
    subs,       \* subs[m]: the channels in map m
    buf,        \* buf[s]: the events queued in the channel of s
    closed,     \* the closed channels
    owner,      \* owner[s]: the user that opened stream s
    spc,        \* where the handler of stream s is
    gone,       \* streams whose context is cancelled: client gone, write failed
    ppc,        \* where publisher p is
    pmap,       \* pmap[p]: the map p ranges over
    atStart,    \* atStart[p]: its channels when p fetched it
    visited,    \* visited[p]: the channels the range has produced
    target      \* target[p]: the channel p is about to send to

hubVars == <<clients, subs, buf, closed>>
streamVars == <<owner, spc, gone>>
pubVars == <<ppc, pmap, atStart, visited, target>>
vars == <<clients, subs, buf, closed, owner, spc, gone, ppc, pmap, atStart,
          visited, target>>

TypeOK ==
    /\ clients \in [Users -> Streams \cup {None}]
    /\ subs \in [Streams -> SUBSET Streams]
    /\ buf \in [Streams -> Seq(Publishers)]
    /\ \A s \in Streams : Len(buf[s]) <= Capacity
    /\ closed \in SUBSET Streams
    /\ owner \in [Streams -> Users \cup {None}]
    /\ spc \in [Streams -> {"new", "subscribing", "count", "loop",
                            "unsubscribing", "closing", "done"}]
    /\ gone \in SUBSET Streams
    /\ ppc \in [Publishers -> {"idle", "ranging", "sending", "done", "lost"}]
    /\ pmap \in [Publishers -> Streams \cup {None}]
    /\ atStart \in [Publishers -> SUBSET Streams]
    /\ visited \in [Publishers -> SUBSET Streams]
    /\ target \in [Publishers -> Streams \cup {None}]

Init ==
    /\ clients = [u \in Users |-> None]
    /\ subs = [m \in Streams |-> {}]
    /\ buf = [s \in Streams |-> <<>>]
    /\ closed = {}
    /\ owner = [s \in Streams |-> None]
    /\ spc = [s \in Streams |-> "new"]
    /\ gone = {}
    /\ ppc = [p \in Publishers |-> "idle"]
    /\ pmap = [p \in Publishers |-> None]
    /\ atStart = [p \in Publishers |-> {}]
    /\ visited = [p \in Publishers |-> {}]
    /\ target = [p \in Publishers |-> None]

SGoto(s, from, to) == spc[s] = from /\ spc' = [spc EXCEPT ![s] = to]
PGoto(p, from, to) == ppc[p] = from /\ ppc' = [ppc EXCEPT ![p] = to]

\* The mutex is held for writing between the two halves of Subscribe and of
\* Unsubscribe, while the user's map is being written.
Writing(s) == spc[s] \in {"subscribing", "unsubscribing"}
LockFree == \A s \in Streams : ~Writing(s)
BeingWritten(m) == \E s \in Streams : Writing(s) /\ clients[owner[s]] = m

\* The streams of u that are registered: Subscribe has returned and
\* Unsubscribe has not begun.
Registered(u) == {s \in Streams : owner[s] = u /\ spc[s] \in {"count", "loop"}}

-----------------------------------------------------------------------------
(* The stream handler *)

\* Subscribe: make the channel, lock, make the user's map if there is none,
\* and write the channel into it.
BeginSubscribe(s, u) ==
    /\ LockFree
    /\ SGoto(s, "new", "subscribing")
    /\ owner' = [owner EXCEPT ![s] = u]
    /\ LET m == IF clients[u] = None THEN s ELSE clients[u]
       IN  /\ clients' = [clients EXCEPT ![u] = m]
           /\ subs' = [subs EXCEPT ![m] = @ \cup {s}]
    /\ UNCHANGED <<buf, closed, gone, pubVars>>

EndSubscribe(s) ==
    /\ SGoto(s, "subscribing", "count")
    /\ UNCHANGED <<hubVars, owner, gone, pubVars>>

\* The unread count is read and, if that succeeds, written to the client.
SendInitialCount(s) ==
    /\ SGoto(s, "count", "loop")
    /\ UNCHANGED <<hubVars, owner, gone, pubVars>>

\* The loop writes the next event to the client.
Receive(s) ==
    /\ spc[s] = "loop"
    /\ buf[s] # <<>>
    /\ buf' = [buf EXCEPT ![s] = Tail(@)]
    /\ UNCHANGED <<clients, subs, closed, streamVars, pubVars>>

\* The write fails, for the client does not read or the server's WriteTimeout
\* has passed.  The handler goes on; the server cancels the request's context.
WriteFails(s) ==
    /\ spc[s] = "loop"
    /\ buf[s] # <<>>
    /\ buf' = [buf EXCEPT ![s] = Tail(@)]
    /\ gone' = gone \cup {s}
    /\ UNCHANGED <<clients, subs, closed, owner, spc, pubVars>>

\* The client disconnects or a keepalive cannot be written, which cancels the
\* request's context.
ClientGone(s) ==
    /\ spc[s] \notin {"new", "done"}
    /\ s \notin gone
    /\ gone' = gone \cup {s}
    /\ UNCHANGED <<hubVars, owner, spc, pubVars>>

\* Faulty variant: the loop notices the disconnect only when it has an event to
\* write.
BeginUnsubscribeOnEvent(s) ==
    /\ s \in gone
    /\ buf[s] # <<>>
    /\ LockFree
    /\ SGoto(s, "loop", "unsubscribing")
    /\ subs' = [subs EXCEPT ![clients[owner[s]]] = @ \ {s}]
    /\ UNCHANGED <<clients, buf, closed, owner, gone, pubVars>>

\* The loop sees the context done; the deferred Unsubscribe locks and deletes
\* the channel from the map.
BeginUnsubscribe(s) ==
    /\ s \in gone
    /\ LockFree
    /\ SGoto(s, "loop", "unsubscribing")
    /\ subs' = [subs EXCEPT ![clients[owner[s]]] = @ \ {s}]
    /\ UNCHANGED <<clients, buf, closed, owner, gone, pubVars>>

\* Faulty variant: an emptied map stays registered.
EndUnsubscribeKeepsMap(s) ==
    /\ SGoto(s, "unsubscribing", "closing")
    /\ UNCHANGED <<hubVars, owner, gone, pubVars>>

\* Faulty variant: the map is dropped whether emptied or not.
EndUnsubscribeDropsMap(s) ==
    /\ SGoto(s, "unsubscribing", "closing")
    /\ clients' = [clients EXCEPT ![owner[s]] = None]
    /\ UNCHANGED <<subs, buf, closed, owner, gone, pubVars>>

\* An emptied map is dropped; unlock.
EndUnsubscribe(s) ==
    /\ SGoto(s, "unsubscribing", "closing")
    /\ clients' = IF subs[clients[owner[s]]] = {}
                  THEN [clients EXCEPT ![owner[s]] = None]
                  ELSE clients
    /\ UNCHANGED <<subs, buf, closed, owner, gone, pubVars>>

\* The channel is closed after the unlock.
Close(s) ==
    /\ SGoto(s, "closing", "done")
    /\ closed' = closed \cup {s}
    /\ UNCHANGED <<clients, subs, buf, owner, gone, pubVars>>

-----------------------------------------------------------------------------
(* Publish *)

\* The map is fetched under the read lock; ranging over no map ends at once.
Lookup(p, u) ==
    /\ LockFree
    /\ PGoto(p, "idle", "ranging")
    /\ pmap' = [pmap EXCEPT ![p] = clients[u]]
    /\ atStart' = [atStart EXCEPT ![p] = IF clients[u] = None THEN {} ELSE subs[clients[u]]]
    /\ UNCHANGED <<hubVars, streamVars, visited, target>>

\* One step of the range: it produces some channel of the map it has not
\* produced before.  Channels added meanwhile may be produced.
RangeNext(p) ==
    /\ PGoto(p, "ranging", "sending")
    /\ pmap[p] # None
    /\ \E s \in subs[pmap[p]] \ visited[p] :
          /\ target' = [target EXCEPT ![p] = s]
          /\ visited' = [visited EXCEPT ![p] = @ \cup {s}]
    /\ UNCHANGED <<hubVars, streamVars, pmap, atStart>>

\* Faulty variant: the range ends after its first channel.
RangeDoneEarly(p) ==
    /\ PGoto(p, "ranging", "done")
    /\ pmap[p] # None /\ atStart[p] \cap subs[pmap[p]] # {} => visited[p] # {}
    /\ pmap' = [pmap EXCEPT ![p] = None]
    /\ atStart' = [atStart EXCEPT ![p] = {}]
    /\ visited' = [visited EXCEPT ![p] = {}]
    /\ target' = [target EXCEPT ![p] = None]
    /\ UNCHANGED <<hubVars, streamVars>>

\* The range may end when every channel that was in the map throughout has
\* been produced.  With that Publish returns and its locals are gone.
RangeDone(p) ==
    /\ PGoto(p, "ranging", "done")
    /\ pmap[p] # None => atStart[p] \cap subs[pmap[p]] \subseteq visited[p]
    /\ pmap' = [pmap EXCEPT ![p] = None]
    /\ atStart' = [atStart EXCEPT ![p] = {}]
    /\ visited' = [visited EXCEPT ![p] = {}]
    /\ target' = [target EXCEPT ![p] = None]
    /\ UNCHANGED <<hubVars, streamVars>>

\* Faulty variant: a send that waits for room.
SendBlocking(p) ==
    /\ PGoto(p, "sending", "ranging")
    /\ target[p] \notin closed
    /\ Len(buf[target[p]]) < Capacity
    /\ buf' = [buf EXCEPT ![target[p]] = Append(@, p)]
    /\ UNCHANGED <<clients, subs, closed, streamVars, pmap, atStart, visited,
                   target>>

\* Faulty variant: a send that does not look at the room left.
SendUnbounded(p) ==
    /\ PGoto(p, "sending", "ranging")
    /\ target[p] \notin closed
    /\ buf' = [buf EXCEPT ![target[p]] = Append(@, p)]
    /\ UNCHANGED <<clients, subs, closed, streamVars, pmap, atStart, visited,
                   target>>

\* The non-blocking send: a full channel drops the event.
Send(p) ==
    /\ PGoto(p, "sending", "ranging")
    /\ target[p] \notin closed
    /\ buf' = IF Len(buf[target[p]]) < Capacity
              THEN [buf EXCEPT ![target[p]] = Append(@, p)]
              ELSE buf
    /\ UNCHANGED <<clients, subs, closed, streamVars, pmap, atStart, visited,
                   target>>

-----------------------------------------------------------------------------
(* The end of the process *)

\* The restarted process has an empty hub, no stream and no publisher; its
\* clients connect again as new streams.
Restart ==
    /\ clients' = [u \in Users |-> None]
    /\ subs' = [m \in Streams |-> {}]
    /\ buf' = [s \in Streams |-> <<>>]
    /\ spc' = [s \in Streams |-> IF spc[s] = "new" THEN "new" ELSE "done"]
    /\ ppc' = [p \in Publishers |-> IF ppc[p] \in {"ranging", "sending"}
                                    THEN "lost" ELSE ppc[p]]
    /\ pmap' = [p \in Publishers |-> None]
    /\ atStart' = [p \in Publishers |-> {}]
    /\ visited' = [p \in Publishers |-> {}]
    /\ target' = [p \in Publishers |-> None]
    /\ UNCHANGED <<closed, owner, gone>>

\* The runtime detects that the map is written while p ranges over it.
MapRace(p) ==
    /\ ppc[p] = "ranging"
    /\ pmap[p] # None
    /\ BeingWritten(pmap[p])
    /\ Restart

\* Sending on a closed channel panics, in a select with a default too.
SendOnClosed(p) ==
    /\ ppc[p] = "sending"
    /\ target[p] \in closed
    /\ Restart

\* Any other end: a deployment, a kill.
Stop == Restart

-----------------------------------------------------------------------------
StreamStep(s) ==
    EndSubscribe(s) \/ SendInitialCount(s) \/ EndUnsubscribe(s) \/ Close(s)

PublishStep(p) ==
    RangeNext(p) \/ RangeDone(p) \/ Send(p) \/ SendOnClosed(p)

Next ==
    \/ \E s \in Streams, u \in Users : BeginSubscribe(s, u)
    \/ \E s \in Streams :
          \/ StreamStep(s) \/ Receive(s) \/ WriteFails(s)
          \/ BeginUnsubscribe(s) \/ ClientGone(s)
    \/ \E p \in Publishers, u \in Users : Lookup(p, u)
    \/ \E p \in Publishers : PublishStep(p) \/ MapRace(p)
    \/ Stop

\* A handler and a publisher run on.  The mutex is starvation-free (a waiter
\* of more than 1 ms gets it next), and select picks among ready cases at
\* random, so a handler whose client is gone leaves in the end: strong
\* fairness of BeginUnsubscribe.  A client need not read what it is sent, so
\* nothing is assumed of the writes to it.
Fairness ==
    /\ \A s \in Streams : WF_vars(StreamStep(s)) /\ SF_vars(BeginUnsubscribe(s))
    /\ \A p \in Publishers : WF_vars(PublishStep(p))

\* What may happen, and what has to.
SafetySpec == Init /\ [][Next]_vars
Spec == SafetySpec /\ Fairness

-----------------------------------------------------------------------------
(* Properties *)

\* Whenever the mutex is free the hub's registry is exact: a user has a map if
\* and only if the user has registered streams, and it holds exactly their
\* channels.  So an Unsubscribe leaks no map and no channel, and strands no
\* other stream of the user in a map that Publish can no longer find.
RegistryExact ==
    LockFree =>
        \A u \in Users :
            IF Registered(u) = {} THEN clients[u] = None
            ELSE clients[u] # None /\ subs[clients[u]] = Registered(u)

\* A call of Publish always returns, however slow the streams' clients are,
\* unless the process ends under it.
PublishReturns ==
    \A p \in Publishers : ppc[p] = "ranging" ~> ppc[p] \in {"done", "lost"}

\* The handler of a client that has disconnected ends, so its channel is freed.
StreamEnds == \A s \in Streams : s \in gone ~> spc[s] = "done"

\* What the comment on Hub says: "It is safe for concurrent use."  So no
\* publisher ranges over a map that is being written, and none is about to
\* send on a closed channel.
SafeForConcurrentUse ==
    \A p \in Publishers :
        /\ ppc[p] = "ranging" /\ pmap[p] # None => ~BeingWritten(pmap[p])
        /\ ppc[p] = "sending" => target[p] \notin closed
=============================================================================
