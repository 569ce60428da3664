----------------------- MODULE NotificationSystemProofs -----------------------
(***************************************************************************)
(* Proofs about NotificationSystem for any users, calls, streams, channel  *)
(* capacity and clock.  The invariants are about the variables of both     *)
(* parts, so they are proved of the composition's own steps.               *)
(***************************************************************************)
EXTENDS NotificationSystem, TLAPS

USE NoneAssumption

Pcs == {"new", "insert", "spawn", "check", "create", "count", "publish",
        "rejected", "failed", "duplicate", "published", "lost"}

SvcTypes ==
    /\ edge \in [Calls -> Users \X Users]
    /\ pc \in [Calls -> Pcs]
    /\ rows \in SUBSET Calls /\ unread \in SUBSET rows
    /\ counted \in [Calls -> SUBSET Calls] /\ countErr \in SUBSET Calls
    /\ during \in [Calls -> SUBSET Calls]

RegistryTypes ==
    /\ clients \in [Users -> Streams \cup {None}]
    /\ subs \in [Streams -> SUBSET Streams]
    /\ owner \in [Streams -> Users \cup {None}]
    /\ spc \in [Streams -> {"new", "subscribing", "count", "loop",
                            "unsubscribing", "closing", "done"}]

PublisherTypes ==
    /\ ppc \in [Calls -> {"idle", "ranging", "sending", "done", "lost"}]
    /\ pmap \in [Calls -> Streams \cup {None}]
    /\ atStart \in [Calls -> SUBSET Streams]
    /\ visited \in [Calls -> SUBSET Streams]
    /\ target \in [Calls -> Streams \cup {None}]

ClientTypes ==
    /\ buf \in [Streams -> Seq(Calls)]
    /\ initCounted \in [Streams -> SUBSET Calls]
    /\ received \in [Streams -> SUBSET Calls]
    /\ dropped \in [Streams -> SUBSET Calls]
    /\ shown \in [Streams -> Calls \cup {None}]

Types == SvcTypes /\ RegistryTypes /\ PublisherTypes /\ ClientTypes

svcState == <<edge, pc, rows, unread, counted, countErr>>
pubState == <<ppc, pmap, atStart, visited, target>>
clientState == <<initCounted, initFailed, received, dropped, shown>>

-----------------------------------------------------------------------------
(* What the steps do, in the variables the invariants are about *)

\* A request other than a Notify marks rows read or moves a call that is new.
RequestsDo ==
    /\ unread' \subseteq unread
    /\ \/ UNCHANGED pc
       \/ \E c \in Calls : /\ pc[c] = "new"
                           /\ pc' \in {[pc EXCEPT ![c] = "insert"], [pc EXCEPT ![c] = "rejected"]}
    /\ UNCHANGED <<edge, rows, counted, countErr, clients, subs, buf, owner, spc, gone,
                   pubState, clientState, during>>

LEMMA RequestSteps == Types /\ Requests => RequestsDo
<1> SUFFICES ASSUME Types, Requests PROVE RequestsDo
  OBVIOUS
<1> USE DEF RequestsDo, Svc!dbVars, Svc!callVars, hubVars, clientVars, pubState, clientState
<1>1. UNCHANGED <<hubVars, clientVars, during>>
  BY DEF Requests
<1>2. ASSUME NEW u \in Users, Svc!GetOrCreateMe(u) \/ Svc!MarkAllRead(u) PROVE RequestsDo
  BY <1>1, <1>2 DEF Svc!GetOrCreateMe, Svc!MarkAllRead
<1>3. ASSUME NEW u \in Users, NEW r \in Calls, Svc!MarkRead(r, u) PROVE RequestsDo
  BY <1>1, <1>3 DEF Svc!MarkRead
<1>4. ASSUME NEW c \in Calls, Svc!FollowUser(c) PROVE RequestsDo
  BY <1>1, <1>4 DEF Svc!FollowUser, Svc!Goto
<1>5. ASSUME NEW e \in Users \X Users, Svc!UnfollowUser(e) PROVE RequestsDo
  BY <1>1, <1>5 DEF Svc!UnfollowUser
<1>6. CASE Svc!Tick
  BY <1>1, <1>6 DEF Svc!Tick
<1>7. QED
  BY <1>2, <1>3, <1>4, <1>5, <1>6 DEF Requests

\* The end of the process.
EndDoes ==
    /\ clients' = [u \in Users |-> None]
    /\ subs' = [m \in Streams |-> {}]
    /\ buf' = [s \in Streams |-> <<>>]
    /\ spc' = [s \in Streams |-> IF spc[s] = "new" THEN "new" ELSE "done"]
    /\ ppc' = [p \in Calls |-> IF ppc[p] \in {"ranging", "sending"} THEN "lost" ELSE ppc[p]]
    /\ pmap' = [p \in Calls |-> None]
    /\ atStart' = [p \in Calls |-> {}]
    /\ visited' = [p \in Calls |-> {}]
    /\ target' = [p \in Calls |-> None]
    /\ pc' = [c \in Calls |-> IF pc[c] \in Svc!InFlight THEN "lost" ELSE pc[c]]
    /\ UNCHANGED <<edge, rows, unread, counted, countErr, owner, gone, clientState, during>>

LEMMA EndSteps ==
    (\E c \in Calls : PublishPanics(c)) \/ ProcessEnds => EndDoes
<1> USE DEF EndDoes, Svc!Crash, Svc!dbVars, Hub!Restart, clientVars, clientState
<1>1. ASSUME NEW c \in Calls, PublishPanics(c) PROVE EndDoes
  BY <1>1 DEF PublishPanics, Hub!SendOnClosed
<1>2. ASSUME ProcessEnds PROVE EndDoes
  BY <1>2 DEF ProcessEnds, Hub!MapRace, Hub!Stop
<1>3. QED
  BY <1>1, <1>2

\* A step of a request's goroutine before its Publish.
CallDoes(c) ==
    /\ \/ /\ pc[c] \in {"insert", "spawn", "check", "create"}
          /\ \E to \in {"spawn", "check", "create", "rejected", "duplicate", "failed"} :
                pc' = [pc EXCEPT ![c] = to]
          /\ UNCHANGED <<rows, unread, counted, countErr>>
       \/ /\ pc[c] = "create" /\ pc' = [pc EXCEPT ![c] = "count"]
          /\ rows' = rows \cup {c} /\ unread' = unread \cup {c}
          /\ UNCHANGED <<counted, countErr>>
       \/ /\ pc[c] = "count" /\ pc' = [pc EXCEPT ![c] = "publish"]
          /\ counted' = [counted EXCEPT ![c] = Svc!UnreadOf(Svc!Recipient(c))]
          /\ UNCHANGED <<rows, unread, countErr>>
       \/ /\ pc[c] = "count" /\ pc' = [pc EXCEPT ![c] = "publish"]
          /\ countErr' = countErr \cup {c}
          /\ UNCHANGED <<rows, unread, counted>>
    /\ during' = [d \in Calls |->
                     IF pc[d] = "publish" THEN during[d] \cup (rows' \ rows) ELSE during[d]]
    /\ UNCHANGED <<edge, clients, subs, buf, owner, spc, gone, pubState, clientState>>

LEMMA CallSteps == ASSUME NEW c \in Calls, Types, CallStep(c) PROVE CallDoes(c)
<1> USE DEF CallStep, Svc!Goto, Svc!dbVars, hubVars, clientVars, pubState, clientState
<1>1. CASE Svc!InsertFollow(c) \/ Svc!SpawnNotify(c)
  BY <1>1 DEF CallDoes, Svc!InsertFollow, Svc!SpawnNotify
<1>2. CASE Svc!CheckDuplicate(c)
  BY <1>2 DEF CallDoes, Svc!CheckDuplicate
<1>3. CASE Svc!CreateNotification(c)
  BY <1>3 DEF CallDoes, Svc!CreateNotification
<1>4. CASE Svc!CountUnread(c)
  BY <1>4 DEF CallDoes, Svc!CountUnread
<1>5. QED
  BY <1>1, <1>2, <1>3, <1>4

\* The steps, by what they do.
LEMMA Steps ==
    Types /\ [Next]_vars =>
        \/ RequestsDo \/ EndDoes \/ UNCHANGED vars
        \/ \E c \in Calls : \/ CallDoes(c) \/ BeginPublish(c) \/ PublishNext(c)
                            \/ PublishSend(c) \/ EndPublish(c)
        \/ \E s \in Streams :
              \/ StreamOpen(s) \/ StreamQuiet(s) \/ StreamCount(s) \/ StreamReceive(s)
              \/ StreamWriteFails(s) \/ StreamDisconnect(s) \/ StreamLeave(s)
  BY RequestSteps, CallSteps, EndSteps DEF Next

-----------------------------------------------------------------------------
(* Types *)

\* Queued(s): the events in the channel of s.
Queued(s) == {buf[s][i] : i \in 1..Len(buf[s])}

LEMMA QueueFacts ==
    ASSUME NEW q \in Seq(Calls)
    PROVE  /\ Len(q) \in Nat
           /\ q # <<>> => /\ Head(q) \in Calls /\ Tail(q) \in Seq(Calls)
                          /\ Len(q) >= 1 /\ Len(Tail(q)) = Len(q) - 1
                          /\ Head(q) = q[1]
                          /\ \A i \in 1..Len(q) - 1 : Tail(q)[i] = q[i + 1]
           /\ \A c \in Calls : /\ Append(q, c) \in Seq(Calls)
                               /\ Len(Append(q, c)) = Len(q) + 1
                               /\ Append(q, c)[Len(q) + 1] = c
                               /\ \A i \in 1..Len(q) : Append(q, c)[i] = q[i]
  OBVIOUS

LEMMA SameSvcTypes ==
    SvcTypes /\ UNCHANGED <<svcState, during>> => SvcTypes'
  BY DEF SvcTypes, svcState
LEMMA SameRegistryTypes ==
    RegistryTypes /\ UNCHANGED <<clients, subs, owner, spc>> => RegistryTypes'
  BY DEF RegistryTypes
LEMMA SamePublisherTypes == PublisherTypes /\ UNCHANGED pubState => PublisherTypes'
  BY DEF PublisherTypes, pubState
LEMMA SameClientTypes ==
    ClientTypes /\ UNCHANGED <<buf, clientState>> => ClientTypes'
  BY DEF ClientTypes, clientState

\* The types are preserved by every step.
LEMMA TypesInductive == Types /\ [Next]_vars => Types'
<1> SUFFICES ASSUME SvcTypes, RegistryTypes, PublisherTypes, ClientTypes, [Next]_vars
             PROVE  SvcTypes' /\ RegistryTypes' /\ PublisherTypes' /\ ClientTypes'
  BY DEF Types
<1> USE SameSvcTypes, SameRegistryTypes, SamePublisherTypes, SameClientTypes
    DEF svcState, svcVars, hubVars, clientVars, pubState, clientState, Hub!hubVars,
        Hub!streamVars, Hub!pubVars, Hub!SGoto, Hub!PGoto
<1> DEFINE AllTypes == SvcTypes /\ RegistryTypes /\ PublisherTypes /\ ClientTypes
<1>1. CASE RequestsDo
  <2>1. UNCHANGED <<clients, subs, owner, spc, buf, pubState, clientState>>
    BY <1>1 DEF RequestsDo
  <2>2. pc' \in [Calls -> Pcs]
    <3>1. pc \in [Calls -> Pcs]
      BY DEF SvcTypes
    <3>2. CASE UNCHANGED pc
      BY <3>1, <3>2
    <3>3. ASSUME NEW c \in Calls, NEW to \in {"insert", "rejected"},
                 pc' = [pc EXCEPT ![c] = to]
          PROVE  pc' \in [Calls -> Pcs]
      BY <3>1, <3>3 DEF Pcs
    <3>4. QED
      BY <1>1, <3>2, <3>3 DEF RequestsDo
  <2>3. SvcTypes'
    BY <1>1, <2>2 DEF RequestsDo, SvcTypes
  <2>4. QED
    BY <2>1, <2>3
<1>2. CASE EndDoes
  <2>1. SvcTypes'
    <3>1. pc' \in [Calls -> Pcs]
      BY <1>2 DEF EndDoes, SvcTypes, Pcs
    <3>2. QED
      BY <1>2, <3>1 DEF EndDoes, SvcTypes
  <2>2. RegistryTypes'
    BY <1>2 DEF EndDoes, RegistryTypes
  <2>3. PublisherTypes'
    BY <1>2 DEF EndDoes, PublisherTypes
  <2>4. ClientTypes'
    BY <1>2 DEF EndDoes, ClientTypes
  <2>5. QED
    BY <2>1, <2>2, <2>3, <2>4
<1>3. ASSUME NEW c \in Calls, CallDoes(c) PROVE AllTypes'
  <2>1. UNCHANGED <<edge, clients, subs, owner, spc, buf, pubState, clientState>>
    BY <1>3 DEF CallDoes
  <2>2. rows' \in SUBSET Calls /\ unread' \in SUBSET rows'
    BY <1>3 DEF CallDoes, SvcTypes
  <2>3. during' \in [Calls -> SUBSET Calls]
    BY <1>3, <2>2 DEF CallDoes, SvcTypes
  <2>4. pc' \in [Calls -> Pcs]
    <3>1. pc \in [Calls -> Pcs]
      BY DEF SvcTypes
    <3>2. \E to \in Pcs : pc' = [pc EXCEPT ![c] = to]
      BY <1>3 DEF CallDoes, Pcs
    <3>3. QED
      BY <3>1, <3>2
  <2>5. counted' \in [Calls -> SUBSET Calls] /\ countErr' \in SUBSET Calls
    <3>1. Svc!UnreadOf(Svc!Recipient(c)) \in SUBSET Calls
      BY DEF Svc!UnreadOf, SvcTypes
    <3>2. \/ counted' = counted
          \/ counted' = [counted EXCEPT ![c] = Svc!UnreadOf(Svc!Recipient(c))]
      BY <1>3 DEF CallDoes
    <3>3. countErr' \in {countErr, countErr \cup {c}}
      BY <1>3 DEF CallDoes
    <3>4. QED
      BY <3>1, <3>2, <3>3 DEF SvcTypes
  <2>6. SvcTypes'
    BY <2>1, <2>2, <2>3, <2>4, <2>5 DEF SvcTypes
  <2>7. QED
    BY <2>1, <2>6
<1>4. ASSUME NEW c \in Calls, BeginPublish(c) PROVE AllTypes'
  <2>1. Svc!Recipient(c) \in Users
    BY DEF Svc!Recipient, SvcTypes
  <2>2. PublisherTypes'
    BY <1>4, <2>1 DEF BeginPublish, Hub!Lookup, PublisherTypes, RegistryTypes
  <2>3. QED
    BY <1>4, <2>2 DEF BeginPublish, Hub!Lookup
<1>5. ASSUME NEW c \in Calls, PublishNext(c) PROVE AllTypes'
  <2>1. PublisherTypes'
    BY <1>5 DEF PublishNext, Hub!RangeNext, PublisherTypes, RegistryTypes
  <2>2. QED
    BY <1>5, <2>1 DEF PublishNext, Hub!RangeNext
<1>6. ASSUME NEW c \in Calls, PublishSend(c) PROVE AllTypes'
  <2>1. buf' \in [Streams -> Seq(Calls)]
    <3>1. \/ buf' = buf
          \/ buf' = [buf EXCEPT ![target[c]] = Append(buf[target[c]], c)]
      BY <1>6 DEF PublishSend, Hub!Send
    <3>2. \A s \in Streams : Append(buf[s], c) \in Seq(Calls)
      BY QueueFacts DEF ClientTypes
    <3>3. target[c] \in Streams \/ target[c] = None
      BY DEF PublisherTypes
    <3>4. buf \in [Streams -> Seq(Calls)]
      BY DEF ClientTypes
    <3>5. QED
      BY <3>1, <3>2, <3>3, <3>4
  <2>2. dropped' \in [Streams -> SUBSET Calls]
    BY <1>6 DEF PublishSend, ClientTypes
  <2>3. ClientTypes'
    BY <1>6, <2>1, <2>2 DEF PublishSend, ClientTypes
  <2>4. PublisherTypes'
    BY <1>6 DEF PublishSend, Hub!Send, PublisherTypes
  <2>5. QED
    BY <1>6, <2>3, <2>4 DEF PublishSend, Hub!Send
<1>7. ASSUME NEW c \in Calls, EndPublish(c) PROVE AllTypes'
  <2>1. SvcTypes'
    BY <1>7 DEF EndPublish, Svc!Publish, Svc!Goto, Svc!dbVars, SvcTypes, Pcs
  <2>2. PublisherTypes'
    BY <1>7 DEF EndPublish, Hub!RangeDone, PublisherTypes
  <2>3. QED
    BY <1>7, <2>1, <2>2 DEF EndPublish, Hub!RangeDone
<1>8. ASSUME NEW s \in Streams, StreamOpen(s) PROVE AllTypes'
  <2>1. RegistryTypes'
    BY <1>8 DEF StreamOpen, Hub!BeginSubscribe, RegistryTypes
  <2>2. QED
    BY <1>8, <2>1 DEF StreamOpen, Hub!BeginSubscribe
<1>9. ASSUME NEW s \in Streams, StreamQuiet(s) \/ StreamLeave(s) \/ StreamDisconnect(s)
      PROVE  AllTypes'
  <2>1. RegistryTypes'
    <3>1. CASE StreamQuiet(s)
      BY <3>1 DEF StreamQuiet, Hub!EndSubscribe, Hub!EndUnsubscribe, Hub!Close, RegistryTypes
    <3>2. CASE StreamLeave(s)
      BY <3>2 DEF StreamLeave, Hub!BeginUnsubscribe, RegistryTypes
    <3>3. CASE StreamDisconnect(s)
      BY <3>3 DEF StreamDisconnect, Hub!ClientGone, RegistryTypes
    <3>4. QED
      BY <1>9, <3>1, <3>2, <3>3
  <2>2. UNCHANGED <<svcVars, pubState, buf, clientVars, during>>
    BY <1>9 DEF StreamQuiet, StreamLeave, StreamDisconnect, Hub!EndSubscribe,
                Hub!EndUnsubscribe, Hub!Close, Hub!BeginUnsubscribe, Hub!ClientGone
  <2>3. QED
    BY <2>1, <2>2
<1>10. ASSUME NEW s \in Streams, StreamCount(s) PROVE AllTypes'
  <2>1. Svc!UnreadOf(owner[s]) \in SUBSET Calls
    BY DEF Svc!UnreadOf, SvcTypes
  <2>2. initCounted' \in [Streams -> SUBSET Calls]
    BY <1>10, <2>1 DEF StreamCount, ClientTypes
  <2>3. ClientTypes'
    BY <1>10, <2>2 DEF StreamCount, Hub!SendInitialCount, ClientTypes
  <2>4. RegistryTypes'
    BY <1>10 DEF StreamCount, Hub!SendInitialCount, RegistryTypes
  <2>5. QED
    BY <1>10, <2>3, <2>4 DEF StreamCount, Hub!SendInitialCount
<1>11. ASSUME NEW s \in Streams, StreamReceive(s) PROVE AllTypes'
  <2>1. Head(buf[s]) \in Calls /\ Tail(buf[s]) \in Seq(Calls)
    BY <1>11, QueueFacts DEF StreamReceive, Hub!Receive, ClientTypes
  <2>2. ClientTypes'
    BY <1>11, <2>1 DEF StreamReceive, Hub!Receive, ClientTypes
  <2>3. QED
    BY <1>11, <2>2 DEF StreamReceive, Hub!Receive
<1>12. ASSUME NEW s \in Streams, StreamWriteFails(s) PROVE AllTypes'
  <2>1. Tail(buf[s]) \in Seq(Calls)
    BY <1>12, QueueFacts DEF StreamWriteFails, Hub!WriteFails, ClientTypes
  <2>2. ClientTypes'
    BY <1>12, <2>1 DEF StreamWriteFails, Hub!WriteFails, ClientTypes
  <2>3. QED
    BY <1>12, <2>2 DEF StreamWriteFails, Hub!WriteFails
<1>13. CASE UNCHANGED vars
  BY <1>13 DEF vars
<1>14. QED
  BY <1>1, <1>2, <1>3, <1>4, <1>5, <1>6, <1>7, <1>8, <1>9, <1>10, <1>11, <1>12, <1>13,
     Steps DEF Types

LEMMA TypesStart == Init => Types
  BY DEF Init, Types, SvcTypes, RegistryTypes, PublisherTypes, ClientTypes, Pcs, Svc!Init,
         Hub!Init

-----------------------------------------------------------------------------
(* Whose events a stream is sent *)

\* A map is named after a stream of the user it was made for and holds channels of
\* that user's streams only, also when the hub has dropped it.
MapsOfOneUser ==
    /\ \A u \in Users : clients[u] # None =>
          owner[clients[u]] = u /\ spc[clients[u]] # "new"
    /\ \A m \in Streams : \A s \in subs[m] :
          owner[s] = owner[m] /\ spc[s] # "new" /\ spc[m] # "new"

PublishersToRecipient ==
    \A p \in Calls :
        /\ pmap[p] # None => owner[pmap[p]] = Svc!Recipient(p) /\ spc[pmap[p]] # "new"
        /\ ppc[p] = "sending" => /\ target[p] \in Streams
                                 /\ owner[target[p]] = Svc!Recipient(p)
                                 /\ spc[target[p]] # "new"

EventsToRecipient ==
    \A s \in Streams : \A c \in Queued(s) \cup received[s] :
        Svc!Recipient(c) = owner[s] /\ spc[s] # "new"

OwnInv == MapsOfOneUser /\ PublishersToRecipient /\ EventsToRecipient

\* A stream that has begun keeps its owner, so nothing is disturbed by a step that
\* leaves the maps, the publishers and the queues alone.
LEMMA OwnFrame ==
    ASSUME Types, OwnInv,
           UNCHANGED <<edge, clients, subs, owner, pmap, buf, received>>,
           \A p \in Calls : ppc'[p] = "sending" => ppc[p] = "sending" /\ target'[p] = target[p],
           \A s \in Streams : spc[s] # "new" => spc'[s] # "new"
    PROVE  OwnInv'
<1>1. MapsOfOneUser'
  BY DEF OwnInv, MapsOfOneUser, Types, RegistryTypes
<1>2. PublishersToRecipient'
  BY DEF OwnInv, PublishersToRecipient, Types, PublisherTypes, Svc!Recipient
<1>3. EventsToRecipient'
  BY DEF OwnInv, EventsToRecipient, Queued, Svc!Recipient
<1>4. QED
  BY <1>1, <1>2, <1>3 DEF OwnInv

\* OwnInv is preserved by every step.
LEMMA OwnInductive == Types /\ OwnInv /\ [Next]_vars => OwnInv'
<1> SUFFICES ASSUME Types, OwnInv, [Next]_vars PROVE OwnInv'
  OBVIOUS
<1> USE DEF svcVars, hubVars, clientVars, pubState, clientState, Hub!hubVars,
            Hub!streamVars, Hub!pubVars, Hub!SGoto, Hub!PGoto
<1>1. CASE RequestsDo
  BY <1>1, OwnFrame DEF RequestsDo
<1>2. ASSUME NEW c \in Calls, CallDoes(c) PROVE OwnInv'
  BY <1>2, OwnFrame DEF CallDoes
<1>3. CASE UNCHANGED vars
  BY <1>3, OwnFrame DEF vars
<1>4. CASE EndDoes
  <2>1. MapsOfOneUser' /\ PublishersToRecipient'
    BY <1>4 DEF EndDoes, MapsOfOneUser, PublishersToRecipient, Types, PublisherTypes
  <2>2. EventsToRecipient'
    <3> SUFFICES ASSUME NEW s \in Streams, NEW c \in Queued(s)' \cup received'[s]
                 PROVE  Svc!Recipient(c)' = owner'[s] /\ spc'[s] # "new"
      BY DEF EventsToRecipient
    <3>1. c \in received[s]
      BY <1>4 DEF EndDoes, Queued
    <3>2. QED
      BY <1>4, <3>1 DEF EndDoes, OwnInv, EventsToRecipient, Svc!Recipient
  <2>3. QED
    BY <2>1, <2>2 DEF OwnInv
<1>5. ASSUME NEW c \in Calls, BeginPublish(c) PROVE OwnInv'
  <2>1. /\ pmap' = [pmap EXCEPT ![c] = clients[Svc!Recipient(c)]]
        /\ ppc' = [ppc EXCEPT ![c] = "ranging"]
        /\ UNCHANGED <<edge, clients, subs, owner, spc, buf, received, target>>
    BY <1>5 DEF BeginPublish, Hub!Lookup
  <2>2. Svc!Recipient(c) \in Users
    BY DEF Svc!Recipient, Types, SvcTypes
  <2>3. PublishersToRecipient'
    BY <2>1, <2>2 DEF OwnInv, MapsOfOneUser, PublishersToRecipient, Types, PublisherTypes,
                      Svc!Recipient
  <2>4. MapsOfOneUser' /\ EventsToRecipient'
    BY <2>1 DEF OwnInv, MapsOfOneUser, EventsToRecipient, Queued, Svc!Recipient
  <2>5. QED
    BY <2>3, <2>4 DEF OwnInv
<1>6. ASSUME NEW c \in Calls, PublishNext(c) PROVE OwnInv'
  <2>1. PICK s \in subs[pmap[c]] : target' = [target EXCEPT ![c] = s]
    BY <1>6 DEF PublishNext, Hub!RangeNext
  <2>2. /\ pmap[c] # None /\ ppc' = [ppc EXCEPT ![c] = "sending"]
        /\ UNCHANGED <<edge, clients, subs, owner, spc, buf, received, pmap>>
    BY <1>6 DEF PublishNext, Hub!RangeNext
  <2>3. pmap[c] \in Streams /\ s \in Streams
    BY <2>1, <2>2 DEF Types, PublisherTypes, RegistryTypes
  <2>4. owner[s] = Svc!Recipient(c) /\ spc[s] # "new"
    BY <2>1, <2>2, <2>3 DEF OwnInv, MapsOfOneUser, PublishersToRecipient
  <2>5. PublishersToRecipient'
    BY <2>1, <2>2, <2>3, <2>4
       DEF OwnInv, PublishersToRecipient, Types, PublisherTypes, Svc!Recipient
  <2>6. MapsOfOneUser' /\ EventsToRecipient'
    BY <2>2 DEF OwnInv, MapsOfOneUser, EventsToRecipient, Queued, Svc!Recipient
  <2>7. QED
    BY <2>5, <2>6 DEF OwnInv
<1>7. ASSUME NEW c \in Calls, PublishSend(c) PROVE OwnInv'
  <2>1. /\ ppc[c] = "sending" /\ ppc' = [ppc EXCEPT ![c] = "ranging"]
        /\ \/ buf' = buf
           \/ buf' = [buf EXCEPT ![target[c]] = Append(buf[target[c]], c)]
        /\ UNCHANGED <<edge, clients, subs, owner, spc, received, pmap, target>>
    BY <1>7 DEF PublishSend, Hub!Send
  <2>2. /\ target[c] \in Streams /\ owner[target[c]] = Svc!Recipient(c)
        /\ spc[target[c]] # "new"
    BY <2>1 DEF OwnInv, PublishersToRecipient
  <2>3. \A s \in Streams : Queued(s)' \subseteq Queued(s) \cup (IF s = target[c] THEN {c} ELSE {})
    <3> SUFFICES ASSUME NEW s \in Streams, NEW i \in 1..Len(buf'[s])
                 PROVE  \/ buf'[s][i] \in Queued(s)
                        \/ s = target[c] /\ buf'[s][i] = c
      BY DEF Queued
    <3>1. CASE buf'[s] = buf[s]
      BY <3>1 DEF Queued
    <3>2. CASE s = target[c] /\ buf'[s] = Append(buf[s], c)
      <4>1. buf[s] \in Seq(Calls)
        BY DEF Types, ClientTypes
      <4>2. i \in 1..Len(buf[s]) \/ i = Len(buf[s]) + 1
        BY <3>2, <4>1, QueueFacts
      <4>3. QED
        BY <3>2, <4>1, <4>2, QueueFacts DEF Queued
    <3>3. QED
      BY <2>1, <3>1, <3>2 DEF Types, ClientTypes
  <2>4. EventsToRecipient'
    BY <2>1, <2>2, <2>3 DEF OwnInv, EventsToRecipient, Svc!Recipient
  <2>5. PublishersToRecipient'
    BY <2>1 DEF OwnInv, PublishersToRecipient, Types, PublisherTypes, Svc!Recipient
  <2>6. MapsOfOneUser'
    BY <2>1 DEF OwnInv, MapsOfOneUser
  <2>7. QED
    BY <2>4, <2>5, <2>6 DEF OwnInv
<1>8. ASSUME NEW c \in Calls, EndPublish(c) PROVE OwnInv'
  <2>1. /\ ppc' = [ppc EXCEPT ![c] = "done"] /\ pmap' = [pmap EXCEPT ![c] = None]
        /\ target' = [target EXCEPT ![c] = None]
        /\ UNCHANGED <<edge, clients, subs, owner, spc, buf, received>>
    BY <1>8 DEF EndPublish, Hub!RangeDone, Svc!Publish
  <2>2. PublishersToRecipient'
    BY <2>1 DEF OwnInv, PublishersToRecipient, Types, PublisherTypes, Svc!Recipient
  <2>3. MapsOfOneUser' /\ EventsToRecipient'
    BY <2>1 DEF OwnInv, MapsOfOneUser, EventsToRecipient, Queued, Svc!Recipient
  <2>4. QED
    BY <2>2, <2>3 DEF OwnInv
<1>9. ASSUME NEW s \in Streams, StreamOpen(s) PROVE OwnInv'
  <2>1. PICK u \in Users : Hub!BeginSubscribe(s, u)
    BY <1>9 DEF StreamOpen
  <2> DEFINE m == IF clients[u] = None THEN s ELSE clients[u]
  <2>2. /\ spc[s] = "new" /\ spc' = [spc EXCEPT ![s] = "subscribing"]
        /\ owner' = [owner EXCEPT ![s] = u]
        /\ clients' = [clients EXCEPT ![u] = m]
        /\ subs' = [subs EXCEPT ![m] = @ \cup {s}]
        /\ m \in Streams
        /\ UNCHANGED <<edge, buf, received, pmap, ppc, target>>
    BY <1>9, <2>1 DEF StreamOpen, Hub!BeginSubscribe, Types, RegistryTypes
  <2>3. owner'[m] = u /\ spc'[m] # "new" /\ owner'[s] = u /\ spc'[s] # "new"
    BY <2>2 DEF OwnInv, MapsOfOneUser, Types, RegistryTypes
  <2>4. \A t \in Streams : spc[t] # "new" =>
            t # s /\ owner'[t] = owner[t] /\ spc'[t] = spc[t]
    BY <2>2 DEF Types, RegistryTypes
  <2>5. MapsOfOneUser'
    <3>1. ASSUME NEW v \in Users, clients'[v] # None
          PROVE  owner'[clients'[v]] = v /\ spc'[clients'[v]] # "new"
      <4>1. CASE v = u
        BY <2>2, <2>3, <4>1 DEF Types, RegistryTypes
      <4>2. CASE v # u
        BY <2>2, <2>4, <3>1, <4>2 DEF OwnInv, MapsOfOneUser, Types, RegistryTypes
      <4>3. QED
        BY <4>1, <4>2
    <3>2. ASSUME NEW n \in Streams, NEW t \in subs'[n]
          PROVE  owner'[t] = owner'[n] /\ spc'[t] # "new" /\ spc'[n] # "new"
      <4>1. CASE n = m /\ t = s
        BY <2>3, <4>1
      <4>2. CASE t \in subs[n]
        BY <2>4, <4>2 DEF OwnInv, MapsOfOneUser, Types, RegistryTypes
      <4>3. QED
        BY <2>2, <4>1, <4>2 DEF Types, RegistryTypes
    <3>3. QED
      BY <3>1, <3>2 DEF MapsOfOneUser
  <2>6. PublishersToRecipient'
    BY <2>2, <2>4 DEF OwnInv, PublishersToRecipient, Types, PublisherTypes, Svc!Recipient
  <2>7. EventsToRecipient'
    <3>1. \A t \in Streams : Queued(t)' = Queued(t) /\ received'[t] = received[t]
      BY <2>2 DEF Queued
    <3>2. QED
      BY <2>2, <2>4, <3>1 DEF OwnInv, EventsToRecipient, Svc!Recipient
  <2>8. QED
    BY <2>5, <2>6, <2>7 DEF OwnInv
<1>10. ASSUME NEW s \in Streams,
              StreamDisconnect(s) \/ StreamCount(s) \/ Hub!EndSubscribe(s) \/ Hub!Close(s),
              UNCHANGED <<svcVars, received>>
       PROVE  OwnInv'
  BY <1>10, OwnFrame DEF StreamDisconnect, StreamCount, Hub!EndSubscribe, Hub!Close,
                         Hub!ClientGone, Hub!SendInitialCount, Types, RegistryTypes
<1>11. ASSUME NEW s \in Streams, StreamLeave(s) PROVE OwnInv'
  <2>1. /\ spc' = [spc EXCEPT ![s] = "unsubscribing"]
        /\ subs' = [subs EXCEPT ![clients[owner[s]]] = @ \ {s}]
        /\ UNCHANGED <<edge, clients, owner, buf, received, pmap, ppc, target>>
    BY <1>11 DEF StreamLeave, Hub!BeginUnsubscribe
  <2>2. \A t \in Streams : subs'[t] \subseteq subs[t] /\ (spc[t] # "new" => spc'[t] # "new")
    BY <2>1 DEF Types, RegistryTypes
  <2>3. MapsOfOneUser'
    BY <2>1, <2>2 DEF OwnInv, MapsOfOneUser, Types, RegistryTypes
  <2>4. PublishersToRecipient'
    BY <2>1, <2>2 DEF OwnInv, PublishersToRecipient, Types, PublisherTypes, Svc!Recipient
  <2>5. EventsToRecipient'
    <3>1. \A t \in Streams : Queued(t)' = Queued(t) /\ received'[t] = received[t]
      BY <2>1 DEF Queued
    <3>2. QED
      BY <2>1, <2>2, <3>1 DEF OwnInv, EventsToRecipient, Svc!Recipient
  <2>6. QED
    BY <2>3, <2>4, <2>5 DEF OwnInv
<1>12. ASSUME NEW s \in Streams, Hub!EndUnsubscribe(s), UNCHANGED <<svcVars, received>>
       PROVE  OwnInv'
  <2>1. /\ spc' = [spc EXCEPT ![s] = "closing"]
        /\ clients' = clients \/ clients' = [clients EXCEPT ![owner[s]] = None]
        /\ UNCHANGED <<edge, subs, owner, buf, received, pmap, ppc, target>>
    BY <1>12 DEF Hub!EndUnsubscribe
  <2>2. \A t \in Streams : spc[t] # "new" => spc'[t] # "new"
    BY <2>1 DEF Types, RegistryTypes
  <2>3. \A u \in Users : clients'[u] # None => clients'[u] = clients[u]
    BY <2>1 DEF Types, RegistryTypes
  <2>4. MapsOfOneUser'
    BY <2>1, <2>2, <2>3 DEF OwnInv, MapsOfOneUser, Types, RegistryTypes
  <2>5. PublishersToRecipient'
    BY <2>1, <2>2 DEF OwnInv, PublishersToRecipient, Types, PublisherTypes, Svc!Recipient
  <2>6. EventsToRecipient'
    <3>1. \A t \in Streams : Queued(t)' = Queued(t) /\ received'[t] = received[t]
      BY <2>1 DEF Queued
    <3>2. QED
      BY <2>1, <2>2, <3>1 DEF OwnInv, EventsToRecipient, Svc!Recipient
  <2>7. QED
    BY <2>4, <2>5, <2>6 DEF OwnInv
<1>13. ASSUME NEW s \in Streams, StreamReceive(s) \/ StreamWriteFails(s) PROVE OwnInv'
  <2>1. /\ buf[s] # <<>> /\ buf' = [buf EXCEPT ![s] = Tail(buf[s])]
        /\ received' = received \/ received' = [received EXCEPT ![s] = @ \cup {Head(buf[s])}]
        /\ UNCHANGED <<edge, clients, subs, owner, spc, pmap, ppc, target>>
    BY <1>13 DEF StreamReceive, StreamWriteFails, Hub!Receive, Hub!WriteFails
  <2>2. \A t \in Streams : Queued(t)' \cup received'[t] \subseteq Queued(t) \cup received[t]
    <3>1. buf[s] \in Seq(Calls)
      BY DEF Types, ClientTypes
    <3>2. Head(buf[s]) \in Queued(s)
      BY <2>1, <3>1, QueueFacts DEF Queued
    <3>3. \A i \in 1..Len(Tail(buf[s])) : Tail(buf[s])[i] \in Queued(s)
      BY <2>1, <3>1, QueueFacts DEF Queued
    <3>4. Queued(s)' \subseteq Queued(s)
      BY <2>1, <3>3 DEF Queued, Types, ClientTypes
    <3>5. \A t \in Streams : t # s => Queued(t)' = Queued(t)
      BY <2>1 DEF Queued, Types, ClientTypes
    <3>6. \A t \in Streams : /\ t # s => received'[t] = received[t]
                            /\ received'[s] \subseteq received[s] \cup {Head(buf[s])}
      BY <2>1 DEF Types, ClientTypes
    <3>7. QED
      BY <3>2, <3>4, <3>5, <3>6
  <2>3. EventsToRecipient'
    BY <2>1, <2>2 DEF OwnInv, EventsToRecipient, Svc!Recipient
  <2>4. MapsOfOneUser' /\ PublishersToRecipient'
    BY <2>1 DEF OwnInv, MapsOfOneUser, PublishersToRecipient, Svc!Recipient
  <2>5. QED
    BY <2>3, <2>4 DEF OwnInv
<1>14. ASSUME NEW s \in Streams, StreamQuiet(s) PROVE OwnInv'
  BY <1>10, <1>12, <1>14 DEF StreamQuiet
<1>15. ASSUME NEW s \in Streams, StreamDisconnect(s) \/ StreamCount(s) PROVE OwnInv'
  BY <1>10, <1>15 DEF StreamDisconnect, StreamCount
<1>16. QED
  BY <1>1, <1>2, <1>3, <1>4, <1>5, <1>6, <1>7, <1>8, <1>9, <1>11, <1>13, <1>14, <1>15, Steps

-----------------------------------------------------------------------------
(* What an open stream is sent *)

\* What taking and adding an event do to a channel.
LEMMA TakenFromQueue ==
    ASSUME NEW s \in Streams, Types, buf[s] # <<>>, buf' = [buf EXCEPT ![s] = Tail(buf[s])]
    PROVE  /\ Queued(s) = Queued(s)' \cup {Head(buf[s])}
           /\ \A t \in Streams \ {s} : Queued(t)' = Queued(t)
<1>1. buf[s] \in Seq(Calls) /\ buf'[s] = Tail(buf[s])
  BY DEF Types, ClientTypes
<1>2. Head(buf[s]) \in Queued(s)
  BY <1>1, QueueFacts DEF Queued
<1>3. Queued(s)' \subseteq Queued(s)
  BY <1>1, QueueFacts DEF Queued
<1>4. Queued(s) \subseteq Queued(s)' \cup {Head(buf[s])}
  <2>1. ASSUME NEW i \in 1..Len(buf[s]), i # 1 PROVE buf[s][i] \in Queued(s)'
    <3>1. /\ Len(buf[s]) \in Nat /\ Len(buf'[s]) = Len(buf[s]) - 1
          /\ \A j \in 1..Len(buf[s]) - 1 : buf'[s][j] = buf[s][j + 1]
      BY <1>1, QueueFacts
    <3>2. i - 1 \in 1..Len(buf'[s]) /\ buf'[s][i - 1] = buf[s][i]
      BY <2>1, <3>1
    <3>3. QED
      BY <3>2 DEF Queued
  <2>2. buf[s][1] = Head(buf[s])
    BY <1>1, QueueFacts
  <2>3. QED
    BY <2>1, <2>2 DEF Queued
<1>5. \A t \in Streams \ {s} : Queued(t)' = Queued(t)
  BY DEF Queued, Types, ClientTypes
<1>6. QED
  BY <1>2, <1>3, <1>4, <1>5

LEMMA AddedToQueue ==
    ASSUME NEW s \in Streams, NEW c \in Calls, Types,
           buf' = [buf EXCEPT ![s] = Append(buf[s], c)]
    PROVE  /\ Queued(s)' = Queued(s) \cup {c}
           /\ \A t \in Streams \ {s} : Queued(t)' = Queued(t)
<1>1. buf[s] \in Seq(Calls) /\ buf'[s] = Append(buf[s], c)
  BY DEF Types, ClientTypes
<1>2. /\ Len(buf'[s]) = Len(buf[s]) + 1 /\ buf'[s][Len(buf[s]) + 1] = c
      /\ \A i \in 1..Len(buf[s]) : buf'[s][i] = buf[s][i]
      /\ Len(buf[s]) \in Nat
  BY <1>1, QueueFacts
<1>3. Queued(s)' = Queued(s) \cup {c}
  BY <1>2 DEF Queued
<1>4. \A t \in Streams \ {s} : Queued(t)' = Queued(t)
  BY DEF Queued, Types, ClientTypes
<1>5. QED
  BY <1>3, <1>4

\* A stream is in its user's map from Subscribe on until Unsubscribe begins.
InRegistry ==
    \A s \in Streams : spc[s] \in {"subscribing", "count", "loop"} =>
        owner[s] \in Users /\ clients[owner[s]] # None /\ s \in subs[clients[owner[s]]]

\* Where a call is in the service and in the hub.
Phases ==
    \A c \in Calls :
        /\ pc[c] = "publish" => ppc[c] \in {"idle", "ranging", "sending"}
        /\ ppc[c] \in {"ranging", "sending"} => pc[c] = "publish"
        /\ pc[c] \in {"new", "insert", "spawn", "check", "create", "count"} => ppc[c] = "idle"
        /\ ppc[c] = "idle" => visited[c] = {}
        /\ c \in rows => pc[c] \in {"count", "publish", "published", "lost"}

Got(s) == received[s] \cup dropped[s] \cup Queued(s)

\* The initial count of s has left out c, so its event is due to s.
Due(s, c) ==
    /\ spc[s] = "loop" /\ s \notin initFailed \cup gone
    /\ Svc!Recipient(c) = owner[s] /\ c \notin initCounted[s]

\* While c ranges, s is in its map, and has been sent what c has visited it for.
Reached(s, c) ==
    /\ pc[c] = "published" => c \in Got(s)
    /\ ppc[c] \in {"ranging", "sending"} =>
          /\ pmap[c] # None /\ s \in atStart[c] /\ s \in subs[pmap[c]]
          /\ s \in visited[c] => \/ c \in Got(s)
                                 \/ ppc[c] = "sending" /\ target[c] = s

Deliveries == \A s \in Streams : \A c \in unread : Due(s, c) => Reached(s, c)

\* The first two parts of the invariant are preserved by every step.
LEMMA PhasesInductive == Types /\ Phases /\ [Next]_vars => Phases'
<1> SUFFICES ASSUME Types, Phases, [Next]_vars PROVE Phases'
  OBVIOUS
<1> USE DEF svcVars, hubVars, clientVars, pubState, clientState, Hub!hubVars,
            Hub!streamVars, Hub!pubVars, Hub!SGoto, Hub!PGoto
<1>1. ASSUME UNCHANGED <<pc, rows, ppc, visited>> PROVE Phases'
  BY <1>1 DEF Phases
<1>2. CASE RequestsDo
  BY <1>2 DEF RequestsDo, Phases, Types, SvcTypes
<1>3. CASE EndDoes
  BY <1>3 DEF EndDoes, Phases, Svc!InFlight
<1>4. ASSUME NEW c \in Calls, CallDoes(c) PROVE Phases'
  BY <1>4 DEF CallDoes, Phases, Types, SvcTypes
<1>5. ASSUME NEW c \in Calls, BeginPublish(c) PROVE Phases'
  BY <1>5 DEF BeginPublish, Hub!Lookup, Phases, Types, PublisherTypes
<1>6. ASSUME NEW c \in Calls, PublishNext(c) \/ PublishSend(c) PROVE Phases'
  BY <1>6 DEF PublishNext, PublishSend, Hub!RangeNext, Hub!Send, Phases, Types, PublisherTypes
<1>7. ASSUME NEW c \in Calls, EndPublish(c) PROVE Phases'
  BY <1>7 DEF EndPublish, Hub!RangeDone, Svc!Publish, Svc!Goto, Svc!dbVars, Phases, Types,
              SvcTypes, PublisherTypes
<1>8. ASSUME NEW s \in Streams,
             \/ StreamOpen(s) \/ StreamQuiet(s) \/ StreamCount(s) \/ StreamReceive(s)
             \/ StreamWriteFails(s) \/ StreamDisconnect(s) \/ StreamLeave(s)
      PROVE  Phases'
  BY <1>1, <1>8 DEF StreamOpen, StreamQuiet, StreamCount, StreamReceive, StreamWriteFails,
                    StreamDisconnect, StreamLeave, Hub!BeginSubscribe, Hub!EndSubscribe,
                    Hub!EndUnsubscribe, Hub!Close, Hub!SendInitialCount, Hub!Receive,
                    Hub!WriteFails, Hub!ClientGone, Hub!BeginUnsubscribe
<1>9. CASE UNCHANGED vars
  BY <1>1, <1>9 DEF vars
<1>10. QED
  BY <1>2, <1>3, <1>4, <1>5, <1>6, <1>7, <1>8, <1>9, Steps

LEMMA RegistryInductive == Types /\ InRegistry /\ [Next]_vars => InRegistry'
<1> SUFFICES ASSUME Types, InRegistry, [Next]_vars PROVE InRegistry'
  OBVIOUS
<1> USE DEF hubVars, Hub!hubVars, Hub!streamVars, Hub!pubVars, Hub!SGoto, Hub!PGoto
<1>1. ASSUME UNCHANGED <<clients, subs, owner>>,
             \A s \in Streams : spc'[s] \in {"subscribing", "count", "loop"} =>
                 spc[s] \in {"subscribing", "count", "loop"}
      PROVE  InRegistry'
  BY <1>1 DEF InRegistry
<1>2. CASE RequestsDo \/ \E c \in Calls : CallDoes(c)
  BY <1>1, <1>2 DEF RequestsDo, CallDoes
<1>3. CASE EndDoes
  BY <1>3 DEF EndDoes, InRegistry
<1>4. ASSUME NEW c \in Calls,
             BeginPublish(c) \/ PublishNext(c) \/ PublishSend(c) \/ EndPublish(c)
      PROVE  InRegistry'
  BY <1>1, <1>4 DEF BeginPublish, PublishNext, PublishSend, EndPublish, Hub!Lookup,
                    Hub!RangeNext, Hub!Send, Hub!RangeDone
<1>5. ASSUME NEW s \in Streams, StreamOpen(s) PROVE InRegistry'
  <2>1. PICK u \in Users : Hub!BeginSubscribe(s, u)
    BY <1>5 DEF StreamOpen
  <2> DEFINE m == IF clients[u] = None THEN s ELSE clients[u]
  <2>2. /\ spc[s] = "new" /\ spc' = [spc EXCEPT ![s] = "subscribing"]
        /\ owner' = [owner EXCEPT ![s] = u]
        /\ clients' = [clients EXCEPT ![u] = m]
        /\ subs' = [subs EXCEPT ![m] = @ \cup {s}]
        /\ m \in Streams
    BY <2>1 DEF Hub!BeginSubscribe, Types, RegistryTypes
  <2>3. ASSUME NEW t \in Streams, spc'[t] \in {"subscribing", "count", "loop"}
        PROVE  /\ owner'[t] \in Users /\ clients'[owner'[t]] # None
               /\ t \in subs'[clients'[owner'[t]]]
    <3>1. CASE t = s
      BY <2>2, <3>1 DEF Types, RegistryTypes
    <3>2. CASE t # s
      <4>1. /\ owner'[t] = owner[t] /\ owner[t] \in Users /\ clients[owner[t]] # None
            /\ t \in subs[clients[owner[t]]]
        BY <2>2, <2>3, <3>2 DEF Types, RegistryTypes, InRegistry
      <4>2. clients'[owner[t]] = clients[owner[t]]
        BY <2>2, <4>1 DEF Types, RegistryTypes
      <4>3. clients[owner[t]] \in Streams
        BY <4>1 DEF Types, RegistryTypes
      <4>4. subs[clients[owner[t]]] \subseteq subs'[clients[owner[t]]]
        BY <2>2, <4>3 DEF Types, RegistryTypes
      <4>5. QED
        BY <4>1, <4>2, <4>4
    <3>3. QED
      BY <3>1, <3>2
  <2>4. QED
    BY <2>3 DEF InRegistry
<1>6. ASSUME NEW s \in Streams,
             \/ StreamCount(s) \/ StreamReceive(s) \/ StreamWriteFails(s) \/ StreamDisconnect(s)
             \/ Hub!EndSubscribe(s) \/ Hub!Close(s)
      PROVE  InRegistry'
  BY <1>1, <1>6 DEF StreamCount, StreamReceive, StreamWriteFails, StreamDisconnect,
                    Hub!EndSubscribe, Hub!Close, Hub!SendInitialCount, Hub!Receive,
                    Hub!WriteFails, Hub!ClientGone, Types, RegistryTypes
<1>7. ASSUME NEW s \in Streams, StreamLeave(s) PROVE InRegistry'
  <2>1. /\ spc' = [spc EXCEPT ![s] = "unsubscribing"]
        /\ subs' = [subs EXCEPT ![clients[owner[s]]] = @ \ {s}]
        /\ UNCHANGED <<clients, owner>>
    BY <1>7 DEF StreamLeave, Hub!BeginUnsubscribe
  <2>2. \A t \in Streams : /\ spc'[t] \in {"subscribing", "count", "loop"} =>
                                t # s /\ spc[t] = spc'[t]
                           /\ \A n \in Streams : t # s /\ t \in subs[n] => t \in subs'[n]
    BY <2>1 DEF Types, RegistryTypes
  <2>3. QED
    BY <2>1, <2>2 DEF InRegistry, Types, RegistryTypes
<1>8. ASSUME NEW s \in Streams, Hub!EndUnsubscribe(s) PROVE InRegistry'
  <2>1. /\ spc' = [spc EXCEPT ![s] = "closing"]
        /\ clients' = IF subs[clients[owner[s]]] = {} THEN [clients EXCEPT ![owner[s]] = None]
                                                      ELSE clients
        /\ UNCHANGED <<subs, owner>>
    BY <1>8 DEF Hub!EndUnsubscribe
  <2>2. ASSUME NEW t \in Streams, spc'[t] \in {"subscribing", "count", "loop"}
        PROVE  /\ owner[t] \in Users /\ clients'[owner[t]] # None
               /\ t \in subs[clients'[owner[t]]]
    <3>1. /\ owner[t] \in Users /\ clients[owner[t]] # None
          /\ t \in subs[clients[owner[t]]]
      BY <2>1, <2>2 DEF InRegistry, Types, RegistryTypes
    <3>2. clients'[owner[t]] = clients[owner[t]]
      BY <2>1, <3>1 DEF Types, RegistryTypes
    <3>3. QED
      BY <3>1, <3>2
  <2>3. QED
    BY <2>1, <2>2 DEF InRegistry
<1>9. CASE UNCHANGED vars
  BY <1>1, <1>9 DEF vars
<1>10. QED
  BY <1>2, <1>3, <1>4, <1>5, <1>6, <1>7, <1>8, <1>9, Steps DEF StreamQuiet

\* Deliveries is not disturbed by a step that leaves the publishers alone, makes
\* nothing due and takes nothing away.
LEMMA DeliveriesFrame ==
    ASSUME Types, Deliveries, unread' \subseteq unread, UNCHANGED pubState,
           \A s \in Streams : \A c \in unread' : Due(s, c)' => Due(s, c),
           \A s \in Streams : Got(s) \subseteq Got(s)',
           \A c \in Calls : pc'[c] = "published" => pc[c] = "published",
           \A s \in Streams : spc'[s] = "loop" =>
               \A m \in Streams : s \in subs[m] => s \in subs'[m]
    PROVE  Deliveries'
<1> SUFFICES ASSUME NEW s \in Streams, NEW c \in unread', Due(s, c)'
             PROVE  Reached(s, c)'
  BY DEF Deliveries
<1>1. Reached(s, c) /\ c \in Calls
  BY DEF Deliveries, Types, SvcTypes
<1>2. spc'[s] = "loop"
  BY DEF Due
<1>3. pmap[c] # None => pmap[c] \in Streams
  BY <1>1 DEF Types, PublisherTypes
<1>4. QED
  BY <1>1, <1>2, <1>3 DEF Reached, pubState

\* Deliveries is preserved by every step.
LEMMA DeliveriesInductive ==
    Types /\ OwnInv /\ InRegistry /\ Phases /\ Deliveries /\ [Next]_vars => Deliveries'
<1> SUFFICES ASSUME Types, OwnInv, InRegistry, Phases, Deliveries, [Next]_vars
             PROVE  Deliveries'
  OBVIOUS
<1> USE DEF svcVars, hubVars, clientVars, pubState, clientState, Hub!hubVars,
            Hub!streamVars, Hub!pubVars, Hub!SGoto, Hub!PGoto
<1> unread \subseteq Calls
  BY DEF Types, SvcTypes
<1>1. CASE RequestsDo
  <2>1. \A s \in Streams : Got(s)' = Got(s) /\ \A c \in Calls : Due(s, c)' = Due(s, c)
    BY <1>1 DEF RequestsDo, Got, Queued, Due, Svc!Recipient
  <2>2. \A c \in Calls : pc'[c] = "published" => pc[c] = "published"
    BY <1>1 DEF RequestsDo, Types, SvcTypes
  <2>3. /\ unread' \subseteq unread
        /\ UNCHANGED <<pubState, subs>>
    BY <1>1 DEF RequestsDo
  <2>4. QED
    BY <2>1, <2>2, <2>3, DeliveriesFrame
<1>2. CASE EndDoes
  BY <1>2 DEF EndDoes, Deliveries, Due
<1>3. ASSUME NEW d \in Calls, CallDoes(d) PROVE Deliveries'
  <2>1. \A s \in Streams : Got(s)' = Got(s) /\ \A c \in Calls : Due(s, c)' = Due(s, c)
    BY <1>3 DEF CallDoes, Got, Queued, Due, Svc!Recipient
  <2>2. \A c \in Calls : pc'[c] = "published" => pc[c] = "published"
    BY <1>3 DEF CallDoes, Types, SvcTypes
  <2>3. /\ unread' \subseteq unread \cup {d}
        /\ d \in unread' \ unread => pc'[d] = "count" /\ pc[d] = "create"
        /\ UNCHANGED <<pubState, subs>>
    BY <1>3 DEF CallDoes, Types, SvcTypes
  <2>4. SUFFICES ASSUME NEW s \in Streams, NEW c \in unread', Due(s, c)'
                 PROVE  Reached(s, c)'
    BY DEF Deliveries
  <2>5. CASE c \in unread
    BY <2>1, <2>2, <2>3, <2>4, <2>5 DEF Deliveries, Reached
  <2>6. CASE c \notin unread
    <3>1. c = d /\ pc'[c] = "count" /\ ppc[c] = "idle"
      BY <2>3, <2>4, <2>6 DEF Phases
    <3>2. QED
      BY <2>3, <3>1 DEF Reached
  <2>7. QED
    BY <2>5, <2>6
<1>4. ASSUME NEW d \in Calls, BeginPublish(d) PROVE Deliveries'
  <2> DEFINE m == clients[Svc!Recipient(d)]
  <2>1. /\ ppc[d] = "idle" /\ ppc' = [ppc EXCEPT ![d] = "ranging"]
        /\ pmap' = [pmap EXCEPT ![d] = m]
        /\ atStart' = [atStart EXCEPT ![d] = IF m = None THEN {} ELSE subs[m]]
        /\ UNCHANGED <<edge, pc, unread, subs, spc, owner, gone, initFailed, initCounted,
                       received, dropped, buf, visited, target>>
    BY <1>4 DEF BeginPublish, Hub!Lookup
  <2>2. \A s \in Streams : Got(s)' = Got(s) /\ \A c \in Calls : Due(s, c)' = Due(s, c)
    BY <2>1 DEF Got, Queued, Due, Svc!Recipient
  <2>3. SUFFICES ASSUME NEW s \in Streams, NEW c \in unread, Due(s, c)
                 PROVE  Reached(s, c)'
    BY <2>1, <2>2 DEF Deliveries
  <2>4. Reached(s, c)
    BY <2>3 DEF Deliveries
  <2>5. CASE c = d
    <3>1. m # None /\ s \in subs[m]
      BY <2>3, <2>5 DEF InRegistry, Due
    <3>2. visited'[d] = {}
      BY <2>1 DEF Phases
    <3>3. pmap'[d] = m /\ atStart'[d] = subs[m]
      BY <2>1, <3>1 DEF Types, PublisherTypes
    <3>4. QED
      BY <2>1, <2>2, <2>4, <2>5, <3>1, <3>2, <3>3 DEF Reached
  <2>6. CASE c # d
    BY <2>1, <2>2, <2>4, <2>6 DEF Reached, Types, PublisherTypes
  <2>7. QED
    BY <2>5, <2>6
<1>5. ASSUME NEW d \in Calls, PublishNext(d) PROVE Deliveries'
  <2>1. PICK t \in subs[pmap[d]] : /\ target' = [target EXCEPT ![d] = t]
                                   /\ visited' = [visited EXCEPT ![d] = @ \cup {t}]
    BY <1>5 DEF PublishNext, Hub!RangeNext
  <2>2. /\ ppc[d] = "ranging" /\ ppc' = [ppc EXCEPT ![d] = "sending"]
        /\ UNCHANGED <<edge, pc, unread, subs, spc, owner, gone, initFailed, initCounted,
                       received, dropped, buf, pmap, atStart>>
    BY <1>5 DEF PublishNext, Hub!RangeNext
  <2>3. \A s \in Streams : Got(s)' = Got(s) /\ \A c \in Calls : Due(s, c)' = Due(s, c)
    BY <2>2 DEF Got, Queued, Due, Svc!Recipient
  <2>4. SUFFICES ASSUME NEW s \in Streams, NEW c \in unread, Due(s, c)
                 PROVE  Reached(s, c)'
    BY <2>2, <2>3 DEF Deliveries
  <2>5. Reached(s, c)
    BY <2>4 DEF Deliveries
  <2>6. CASE c = d
    BY <2>1, <2>2, <2>3, <2>5, <2>6 DEF Reached, Types, PublisherTypes
  <2>7. CASE c # d
    BY <2>1, <2>2, <2>3, <2>5, <2>7 DEF Reached, Types, PublisherTypes
  <2>8. QED
    BY <2>6, <2>7
<1>6. ASSUME NEW d \in Calls, PublishSend(d) PROVE Deliveries'
  <2> DEFINE t == target[d]
  <2>1. /\ ppc[d] = "sending" /\ ppc' = [ppc EXCEPT ![d] = "ranging"]
        /\ IF Len(buf[t]) < Capacity
           THEN buf' = [buf EXCEPT ![t] = Append(buf[t], d)] /\ dropped' = dropped
           ELSE buf' = buf /\ dropped' = [dropped EXCEPT ![t] = @ \cup {d}]
        /\ UNCHANGED <<edge, pc, unread, subs, spc, owner, gone, initFailed, initCounted,
                       received, visited, target, pmap, atStart>>
    BY <1>6 DEF PublishSend, Hub!Send
  <2>2. t \in Streams
    BY <2>1 DEF OwnInv, PublishersToRecipient
  <2>3. /\ d \in Got(t)'
        /\ \A s \in Streams : Got(s) \subseteq Got(s)'
    <3>1. CASE Len(buf[t]) < Capacity
      BY <2>1, <2>2, <3>1, AddedToQueue DEF Got
    <3>2. CASE ~(Len(buf[t]) < Capacity)
      <4>1. /\ buf' = buf /\ received' = received
            /\ dropped' = [dropped EXCEPT ![t] = @ \cup {d}]
        BY <2>1, <3>2
      <4>2. dropped \in [Streams -> SUBSET Calls]
        BY DEF Types, ClientTypes
      <4>3. \A s \in Streams : Queued(s)' = Queued(s)
        BY <4>1 DEF Queued
      <4>4. QED
        <5>1. \A s \in Streams \ {t} : dropped'[s] = dropped[s]
          BY <4>1, <4>2
        <5>2. dropped'[t] = dropped[t] \cup {d}
          BY <2>2, <4>1, <4>2
        <5>3. Got(t)' = Got(t) \cup {d}
          BY <2>1, <2>2, <4>1, <4>3, <5>2 DEF Got
        <5>4. \A s \in Streams \ {t} : Got(s)' = Got(s)
          BY <4>1, <4>3, <5>1 DEF Got
        <5>5. QED
          BY <2>1, <2>2, <5>3, <5>4
    <3>3. QED
      BY <3>1, <3>2
  <2>4. \A s \in Streams : \A c \in Calls : Due(s, c)' = Due(s, c)
    BY <2>1 DEF Due, Svc!Recipient
  <2>5. SUFFICES ASSUME NEW s \in Streams, NEW c \in unread, Due(s, c)
                 PROVE  Reached(s, c)'
    BY <2>1, <2>4 DEF Deliveries
  <2>6. Reached(s, c)
    BY <2>5 DEF Deliveries
  <2>7. CASE c = d
    BY <2>1, <2>3, <2>6, <2>7 DEF Reached, Types, PublisherTypes
  <2>8. CASE c # d
    BY <2>1, <2>3, <2>6, <2>8 DEF Reached, Types, PublisherTypes
  <2>9. QED
    BY <2>7, <2>8
<1>7. ASSUME NEW d \in Calls, EndPublish(d) PROVE Deliveries'
  <2>1. /\ ppc[d] = "ranging" /\ ppc' = [ppc EXCEPT ![d] = "done"]
        /\ pmap[d] # None => atStart[d] \cap subs[pmap[d]] \subseteq visited[d]
        /\ pmap' = [pmap EXCEPT ![d] = None]
        /\ atStart' = [atStart EXCEPT ![d] = {}]
        /\ visited' = [visited EXCEPT ![d] = {}]
        /\ target' = [target EXCEPT ![d] = None]
        /\ pc' = [pc EXCEPT ![d] = "published"]
        /\ UNCHANGED <<edge, unread, subs, spc, owner, gone, initFailed, initCounted,
                       received, dropped, buf>>
    BY <1>7 DEF EndPublish, Hub!RangeDone, Svc!Publish, Svc!Goto, Svc!dbVars
  <2>2. \A s \in Streams : Got(s)' = Got(s) /\ \A c \in Calls : Due(s, c)' = Due(s, c)
    BY <2>1 DEF Got, Queued, Due, Svc!Recipient
  <2>3. SUFFICES ASSUME NEW s \in Streams, NEW c \in unread, Due(s, c)
                 PROVE  Reached(s, c)'
    BY <2>1, <2>2 DEF Deliveries
  <2>4. Reached(s, c)
    BY <2>3 DEF Deliveries
  <2>5. CASE c = d
    <3>1. d \in Got(s)
      BY <2>1, <2>4, <2>5 DEF Reached
    <3>2. QED
      BY <2>1, <2>2, <2>5, <3>1 DEF Reached, Types, PublisherTypes
  <2>6. CASE c # d
    BY <2>1, <2>2, <2>4, <2>6 DEF Reached, Types, PublisherTypes, SvcTypes
  <2>7. QED
    BY <2>5, <2>6
<1>8. ASSUME NEW s \in Streams, StreamOpen(s) PROVE Deliveries'
  <2>1. PICK u \in Users : Hub!BeginSubscribe(s, u)
    BY <1>8 DEF StreamOpen
  <2>2. /\ spc' = [spc EXCEPT ![s] = "subscribing"]
        /\ owner' = [owner EXCEPT ![s] = u]
        /\ \E m : subs' = [subs EXCEPT ![m] = @ \cup {s}]
        /\ UNCHANGED <<edge, pc, unread, gone, clientState, buf, pubState>>
    BY <1>8, <2>1 DEF StreamOpen, Hub!BeginSubscribe
  <2>3. \A t \in Streams : Got(t)' = Got(t) /\ \A c \in Calls : Due(t, c)' => Due(t, c)
    BY <2>2 DEF Got, Queued, Due, Svc!Recipient, Types, RegistryTypes
  <2>4. \A n \in Streams : subs[n] \subseteq subs'[n]
    BY <2>2 DEF Types, RegistryTypes
  <2>5. QED
    BY <2>2, <2>3, <2>4, DeliveriesFrame
<1>9. ASSUME NEW s \in Streams,
             StreamDisconnect(s) \/ StreamQuiet(s) \/ StreamLeave(s)
      PROVE  Deliveries'
  <2>1. /\ spc' = spc \/ \E to : to # "loop" /\ spc' = [spc EXCEPT ![s] = to]
        /\ gone \subseteq gone'
        /\ subs' = subs \/ /\ subs' = [subs EXCEPT ![clients[owner[s]]] = @ \ {s}]
                           /\ spc' = [spc EXCEPT ![s] = "unsubscribing"]
        /\ UNCHANGED <<edge, pc, unread, owner, clientState, buf, pubState>>
    BY <1>9 DEF StreamDisconnect, StreamQuiet, StreamLeave, Hub!ClientGone, Hub!EndSubscribe,
                Hub!EndUnsubscribe, Hub!Close, Hub!BeginUnsubscribe
  <2>2. \A t \in Streams : spc'[t] = "loop" => spc[t] = "loop"
    BY <2>1 DEF Types, RegistryTypes
  <2>3. \A t \in Streams : Got(t)' = Got(t) /\ \A c \in Calls : Due(t, c)' => Due(t, c)
    BY <2>1, <2>2 DEF Got, Queued, Due, Svc!Recipient
  <2>4. \A t \in Streams : spc'[t] = "loop" =>
           \A m \in Streams : t \in subs[m] => t \in subs'[m]
    BY <2>1 DEF Types, RegistryTypes
  <2>5. QED
    BY <2>1, <2>3, <2>4, DeliveriesFrame
<1>10. ASSUME NEW s \in Streams, StreamCount(s) PROVE Deliveries'
  <2>1. /\ spc' = [spc EXCEPT ![s] = "loop"]
        /\ \/ initCounted' = [initCounted EXCEPT ![s] = Svc!UnreadOf(owner[s])]
              /\ initFailed' = initFailed
           \/ initCounted' = initCounted /\ initFailed' = initFailed \cup {s}
        /\ UNCHANGED <<edge, pc, unread, owner, subs, gone, received, dropped, buf, pubState>>
    BY <1>10 DEF StreamCount, Hub!SendInitialCount
  <2>2. \A t \in Streams : Got(t)' = Got(t)
    BY <2>1 DEF Got, Queued
  <2>3. ASSUME NEW c \in unread PROVE ~Due(s, c)'
    <3>1. CASE initCounted' = [initCounted EXCEPT ![s] = Svc!UnreadOf(owner[s])]
      BY <2>1, <3>1 DEF Due, Svc!UnreadOf, Svc!Recipient, Types, ClientTypes
    <3>2. CASE initFailed' = initFailed \cup {s}
      BY <3>2 DEF Due
    <3>3. QED
      BY <2>1, <3>1, <3>2
  <2>4. \A t \in Streams \ {s} : \A c \in Calls : Due(t, c)' => Due(t, c)
    BY <2>1 DEF Due, Svc!Recipient, Types, ClientTypes, RegistryTypes
  <2>5. QED
    BY <2>1, <2>2, <2>3, <2>4, DeliveriesFrame
<1>11. ASSUME NEW s \in Streams, StreamReceive(s) \/ StreamWriteFails(s) PROVE Deliveries'
  <2>1. /\ buf[s] # <<>> /\ buf' = [buf EXCEPT ![s] = Tail(buf[s])]
        /\ \/ received' = [received EXCEPT ![s] = @ \cup {Head(buf[s])}] /\ gone' = gone
           \/ received' = received /\ gone' = gone \cup {s}
        /\ UNCHANGED <<edge, pc, unread, owner, spc, subs, initCounted, initFailed, dropped,
                       pubState>>
    BY <1>11 DEF StreamReceive, StreamWriteFails, Hub!Receive, Hub!WriteFails
  <2>2. /\ Queued(s) = Queued(s)' \cup {Head(buf[s])}
        /\ \A t \in Streams \ {s} : Queued(t)' = Queued(t)
    BY <2>1, TakenFromQueue
  <2>3. \A t \in Streams : \A c \in Calls : Due(t, c)' => Due(t, c)
    BY <2>1 DEF Due, Svc!Recipient
  <2>4. CASE received' = [received EXCEPT ![s] = @ \cup {Head(buf[s])}]
    <3>1. \A t \in Streams : Got(t) \subseteq Got(t)'
      BY <2>1, <2>2, <2>4 DEF Got, Types, ClientTypes
    <3>2. QED
      BY <2>1, <2>3, <3>1, DeliveriesFrame
  <2>5. CASE received' = received /\ gone' = gone \cup {s}
    <3>1. \A t \in Streams \ {s} : Got(t)' = Got(t)
      BY <2>1, <2>2, <2>5 DEF Got
    <3>2. \A c \in Calls : ~Due(s, c)'
      BY <2>5 DEF Due
    <3>3. QED
      BY <2>1, <2>3, <3>1, <3>2 DEF Deliveries, Reached
  <2>6. QED
    BY <2>1, <2>4, <2>5
<1>12. CASE UNCHANGED vars
  BY <1>12, DeliveriesFrame DEF vars, Due, Got, Queued, Svc!Recipient
<1>13. QED
  BY <1>1, <1>2, <1>3, <1>4, <1>5, <1>6, <1>7, <1>8, <1>9, <1>10, <1>11, <1>12, Steps

\* Safety: an open stream misses no notification.
THEOREM NothingIsMissed == Spec => []NoMissedNotification
<1>1. Init => OwnInv /\ InRegistry /\ Phases /\ Deliveries
  BY DEF Init, Svc!Init, Hub!Init, OwnInv, MapsOfOneUser, PublishersToRecipient,
         EventsToRecipient, Queued, InRegistry, Phases, Deliveries
<1>2. Deliveries => NoMissedNotification
  <2> SUFFICES ASSUME Deliveries, NEW s \in Streams, NEW c \in unread,
                      spc[s] = "loop", s \notin initFailed \cup gone, pc[c] = "published",
                      Svc!Recipient(c) = owner[s]
               PROVE  \/ c \in initCounted[s] \cup received[s] \cup dropped[s]
                      \/ \E i \in 1..Len(buf[s]) : buf[s][i] = c
    BY DEF NoMissedNotification
  <2> QED
    BY DEF Deliveries, Due, Reached, Got, Queued
<1>3. QED
  BY <1>1, <1>2, TypesStart, TypesInductive, OwnInductive, RegistryInductive,
     PhasesInductive, DeliveriesInductive, PTL DEF Spec

-----------------------------------------------------------------------------
(* What is sent is in the table *)

\* A call that is past its insert has its row, and an event stands for a row.
StoredInv ==
    /\ \A c \in Calls : pc[c] \in {"count", "publish"} => c \in rows
    /\ \A s \in Streams : Queued(s) \cup received[s] \subseteq rows

\* What leaves the calls' phases and the events as they are, and drops no row.
LEMMA StoredFrame ==
    ASSUME StoredInv, rows \subseteq rows', received' = received,
           \A s \in Streams : Queued(s)' \subseteq Queued(s),
           \A c \in Calls : pc'[c] \in {"count", "publish"} =>
               pc[c] \in {"count", "publish"} \/ c \in rows'
    PROVE  StoredInv'
  BY DEF StoredInv

\* StoredInv is preserved by every step: rows are never deleted, and what is sent
\* is a call in its Publish.
LEMMA StoredInductive == Types /\ OwnInv /\ Phases /\ StoredInv /\ [Next]_vars => StoredInv'
<1> SUFFICES ASSUME Types, OwnInv, Phases, StoredInv, [Next]_vars PROVE StoredInv'
  OBVIOUS
<1> USE DEF svcVars, hubVars, clientVars, clientState, Hub!hubVars, Hub!streamVars,
            Hub!pubVars, Hub!SGoto, Hub!PGoto
<1>1. ASSUME UNCHANGED <<pc, rows, buf, received>> PROVE StoredInv'
  BY <1>1, StoredFrame DEF Queued
<1>2. CASE RequestsDo
  BY <1>2, StoredFrame DEF RequestsDo, Queued, Types, SvcTypes
<1>3. CASE EndDoes
  <2>1. \A s \in Streams : Queued(s)' = {}
    BY <1>3 DEF EndDoes, Queued
  <2>2. QED
    BY <1>3, <2>1, StoredFrame DEF EndDoes, Svc!InFlight
<1>4. ASSUME NEW c \in Calls, CallDoes(c) PROVE StoredInv'
  <2>1. UNCHANGED <<buf, received>> /\ rows \subseteq rows'
    BY <1>4 DEF CallDoes
  <2>2. \A d \in Calls : pc'[d] \in {"count", "publish"} =>
            pc[d] \in {"count", "publish"} \/ d \in rows'
    BY <1>4 DEF CallDoes, Types, SvcTypes
  <2>3. QED
    BY <2>1, <2>2, StoredFrame DEF Queued
<1>5. ASSUME NEW c \in Calls, BeginPublish(c) \/ PublishNext(c) PROVE StoredInv'
  BY <1>1, <1>5 DEF BeginPublish, PublishNext, Hub!Lookup, Hub!RangeNext
<1>6. ASSUME NEW c \in Calls, EndPublish(c) PROVE StoredInv'
  <2>1. /\ UNCHANGED <<rows, buf, received>>
        /\ pc' = [pc EXCEPT ![c] = "published"]
    BY <1>6 DEF EndPublish, Hub!RangeDone, Svc!Publish, Svc!Goto, Svc!dbVars
  <2>2. QED
    BY <2>1, StoredFrame DEF Queued, Types, SvcTypes
<1>7. ASSUME NEW c \in Calls, PublishSend(c) PROVE StoredInv'
  <2>1. /\ ppc[c] = "sending" /\ UNCHANGED <<pc, rows, received>>
        /\ \/ buf' = buf
           \/ buf' = [buf EXCEPT ![target[c]] = Append(buf[target[c]], c)]
    BY <1>7 DEF PublishSend, Hub!Send
  <2>2. PICK t \in Streams : t = target[c] /\ pc[c] = "publish"
    BY <2>1 DEF OwnInv, PublishersToRecipient, Phases
  <2>3. CASE buf' = buf
    BY <1>1, <2>1, <2>3
  <2>4. CASE buf' = [buf EXCEPT ![t] = Append(buf[t], c)]
    <3>1. \A s \in Streams : Queued(s)' \subseteq Queued(s) \cup {c}
      BY <2>2, <2>4, AddedToQueue
    <3>2. QED
      BY <2>1, <2>2, <3>1 DEF StoredInv
  <2>5. QED
    BY <2>1, <2>2, <2>3, <2>4
<1>8. ASSUME NEW s \in Streams, StreamReceive(s) \/ StreamWriteFails(s) PROVE StoredInv'
  <2>1. /\ buf[s] # <<>> /\ buf' = [buf EXCEPT ![s] = Tail(buf[s])]
        /\ received' = received \/ received' = [received EXCEPT ![s] = @ \cup {Head(buf[s])}]
        /\ UNCHANGED <<pc, rows>>
    BY <1>8 DEF StreamReceive, StreamWriteFails, Hub!Receive, Hub!WriteFails
  <2>2. \A t \in Streams : Queued(t)' \cup received'[t] \subseteq Queued(t) \cup received[t]
    <3>1. /\ Queued(s) = Queued(s)' \cup {Head(buf[s])}
          /\ \A t \in Streams \ {s} : Queued(t)' = Queued(t)
      BY <2>1, TakenFromQueue
    <3>2. /\ received'[s] \subseteq received[s] \cup {Head(buf[s])}
          /\ \A t \in Streams \ {s} : received'[t] = received[t]
      BY <2>1 DEF Types, ClientTypes
    <3>3. QED
      BY <3>1, <3>2
  <2>3. QED
    BY <2>1, <2>2 DEF StoredInv
<1>9. ASSUME NEW s \in Streams,
             \/ StreamOpen(s) \/ StreamQuiet(s) \/ StreamCount(s) \/ StreamDisconnect(s)
             \/ StreamLeave(s)
      PROVE  StoredInv'
  BY <1>1, <1>9 DEF StreamOpen, StreamQuiet, StreamCount, StreamDisconnect, StreamLeave,
                    Hub!BeginSubscribe, Hub!EndSubscribe, Hub!EndUnsubscribe, Hub!Close,
                    Hub!SendInitialCount, Hub!ClientGone, Hub!BeginUnsubscribe
<1>10. CASE UNCHANGED vars
  BY <1>1, <1>10 DEF vars
<1>11. QED
  BY <1>2, <1>3, <1>4, <1>5, <1>6, <1>7, <1>8, <1>9, <1>10, Steps

\* Safety: a stream is sent the notifications of its own user only, and only such
\* as are in the table.
THEOREM OnlyOwnAreSent == Spec => []OnlyOwnNotifications
<1>1. Init => OwnInv /\ Phases /\ StoredInv
  BY DEF Init, Svc!Init, Hub!Init, OwnInv, MapsOfOneUser, PublishersToRecipient,
         EventsToRecipient, Queued, Phases, StoredInv
<1>2. OwnInv /\ StoredInv => OnlyOwnNotifications
  BY DEF OwnInv, EventsToRecipient, StoredInv, OnlyOwnNotifications
<1>3. QED
  BY <1>1, <1>2, TypesStart, TypesInductive, OwnInductive, PhasesInductive,
     StoredInductive, PTL DEF Spec

-----------------------------------------------------------------------------
(* The counts a client is shown *)

\* The count sent with e stands for r, or was over when r came, or has failed.
Informed(e, r) == e \in countErr \/ r \in counted[e] \cup during[e]

\* An event about to be published stands for the unread rows of its recipient.
Counting ==
    \A e \in Calls : \A r \in unread :
        pc[e] = "publish" /\ Svc!Recipient(r) = Svc!Recipient(e) => Informed(e, r)

\* What has been sent or waits to be has been counted.
AfterCount == {"publish", "published", "lost"}
SentCounted ==
    \A s \in Streams :
        /\ \A e \in Queued(s) \cup received[s] : pc[e] \in AfterCount
        /\ shown[s] # None => pc[shown[s]] \in AfterCount

\* An event in a channel stands for the rows written to the client or queued
\* before it, and the event shown for those written to the client.
BadgeInv ==
    \A s \in Streams :
        /\ \A i \in 1..Len(buf[s]) : \A r \in unread :
              (r \in received[s] \/ \E j \in 1..i : buf[s][j] = r) => Informed(buf[s][i], r)
        /\ \A r \in unread \cap received[s] : shown[s] # None => Informed(shown[s], r)

\* What a step may do to the calls that have counted, and to the unread rows.
Lasting ==
    /\ \A e \in Calls : pc[e] \in AfterCount =>
          /\ pc'[e] \in AfterCount
          /\ \A r \in Calls : Informed(e, r) => Informed(e, r)'
    /\ \A r \in unread' \ unread : r \in Calls /\ pc[r] = "create"

LEMMA StepsLast == Types /\ Phases /\ [Next]_vars => Lasting
<1> SUFFICES ASSUME Types, Phases, [Next]_vars PROVE Lasting
  OBVIOUS
<1> USE DEF Lasting, AfterCount, Informed
<1>1. ASSUME UNCHANGED <<pc, unread, counted, countErr, during>> PROVE Lasting
  BY <1>1
<1>2. CASE RequestsDo
  <2>1. \A e \in Calls : pc[e] \in AfterCount => pc'[e] \in AfterCount
    BY <1>2 DEF RequestsDo, Types, SvcTypes
  <2>2. UNCHANGED <<counted, countErr, during>> /\ unread' \subseteq unread
    BY <1>2 DEF RequestsDo
  <2>3. QED
    BY <2>1, <2>2
<1>3. CASE EndDoes
  <2>1. \A e \in Calls : pc[e] \in AfterCount => pc'[e] \in AfterCount
    BY <1>3 DEF EndDoes
  <2>2. UNCHANGED <<counted, countErr, during, unread>>
    BY <1>3 DEF EndDoes
  <2>3. QED
    BY <2>1, <2>2
<1>4. ASSUME NEW c \in Calls, CallDoes(c) PROVE Lasting
  <2>1. pc[c] \in {"insert", "spawn", "check", "create", "count"}
    BY <1>4 DEF CallDoes
  <2>2. \A e \in Calls \ {c} : pc'[e] = pc[e] /\ counted'[e] = counted[e]
    BY <1>4 DEF CallDoes, Types, SvcTypes
  <2>3. countErr \subseteq countErr' /\ \A e \in Calls : during[e] \subseteq during'[e]
    BY <1>4 DEF CallDoes
  <2>4. \A r \in unread' \ unread : r \in Calls /\ pc[r] = "create"
    BY <1>4 DEF CallDoes
  <2>5. QED
    BY <2>1, <2>2, <2>3, <2>4
<1>5. ASSUME NEW c \in Calls, BeginPublish(c) \/ PublishNext(c) \/ PublishSend(c) PROVE Lasting
  BY <1>1, <1>5 DEF BeginPublish, PublishNext, PublishSend, svcVars
<1>6. ASSUME NEW c \in Calls, EndPublish(c) PROVE Lasting
  <2>1. /\ pc' = [pc EXCEPT ![c] = "published"]
        /\ UNCHANGED <<unread, counted, countErr, during>>
    BY <1>6 DEF EndPublish, Svc!Publish, Svc!Goto, Svc!dbVars
  <2>2. QED
    BY <2>1 DEF Types, SvcTypes
<1>7. ASSUME NEW s \in Streams,
             \/ StreamOpen(s) \/ StreamQuiet(s) \/ StreamCount(s) \/ StreamReceive(s)
             \/ StreamWriteFails(s) \/ StreamDisconnect(s) \/ StreamLeave(s)
      PROVE  Lasting
  BY <1>1, <1>7 DEF StreamOpen, StreamQuiet, StreamCount, StreamReceive, StreamWriteFails,
                    StreamDisconnect, StreamLeave, svcVars
<1>8. CASE UNCHANGED vars
  BY <1>1, <1>8 DEF vars
<1>9. QED
  BY <1>2, <1>3, <1>4, <1>5, <1>6, <1>7, <1>8, Steps

\* Counting is preserved by every step: a row that comes after the count is noted
\* as such.
LEMMA CountingInductive == Types /\ Phases /\ Counting /\ [Next]_vars => Counting'
<1> SUFFICES ASSUME Types, Phases, Counting, [Next]_vars PROVE Counting'
  OBVIOUS
<1>a. unread \subseteq Calls
  BY DEF Types, SvcTypes
<1>1. ASSUME UNCHANGED edge, unread' \subseteq unread, Lasting,
             \A e \in Calls : pc'[e] = "publish" => pc[e] = "publish"
      PROVE  Counting'
  BY <1>1, <1>a DEF Counting, Lasting, AfterCount, Svc!Recipient
<1>b. Lasting
  BY StepsLast
<1>2. CASE RequestsDo
  BY <1>1, <1>2, <1>b DEF RequestsDo, Types, SvcTypes
<1>3. CASE EndDoes
  BY <1>1, <1>3, <1>b DEF EndDoes
<1>4. ASSUME NEW c \in Calls, CallDoes(c) PROVE Counting'
  <2>1. UNCHANGED edge
    BY <1>4 DEF CallDoes
  <2>2. SUFFICES ASSUME NEW e \in Calls, NEW r \in unread', pc'[e] = "publish",
                        Svc!Recipient(r) = Svc!Recipient(e)
                 PROVE  Informed(e, r)'
    BY <2>1 DEF Counting, Svc!Recipient
  <2>3. CASE pc[e] = "publish"
    <3>1. CASE r \in unread
      BY <1>a, <1>b, <2>2, <2>3, <3>1 DEF Counting, Lasting, AfterCount
    <3>2. CASE r \notin unread
      <4>1. r \in Calls /\ pc[r] = "create" /\ r \notin rows
        BY <1>b, <2>2, <3>2 DEF Lasting, Phases
      <4>2. r \in rows'
        BY <1>4, <2>2, <3>2 DEF CallDoes
      <4>3. during'[e] = during[e] \cup (rows' \ rows)
        BY <1>4, <2>3 DEF CallDoes
      <4>4. QED
        BY <4>1, <4>2, <4>3 DEF Informed
    <3>3. QED
      BY <3>1, <3>2
  <2>4. CASE pc[e] # "publish"
    <3>1. e = c /\ pc[c] = "count" /\ unread' = unread
      BY <1>4, <2>2, <2>4 DEF CallDoes, Types, SvcTypes
    <3>2. CASE counted' = [counted EXCEPT ![c] = Svc!UnreadOf(Svc!Recipient(c))]
      BY <2>2, <3>1, <3>2 DEF Informed, Svc!UnreadOf, Types, SvcTypes
    <3>3. CASE countErr' = countErr \cup {c}
      BY <3>1, <3>3 DEF Informed
    <3>4. QED
      BY <1>4, <3>1, <3>2, <3>3 DEF CallDoes
  <2>5. QED
    BY <2>3, <2>4
<1>5. ASSUME NEW c \in Calls, BeginPublish(c) \/ PublishNext(c) \/ PublishSend(c)
      PROVE  Counting'
  BY <1>1, <1>5, <1>b DEF BeginPublish, PublishNext, PublishSend, svcVars
<1>6. ASSUME NEW c \in Calls, EndPublish(c) PROVE Counting'
  BY <1>1, <1>6, <1>b DEF EndPublish, Svc!Publish, Svc!Goto, Svc!dbVars, Types, SvcTypes
<1>7. ASSUME NEW s \in Streams,
             \/ StreamOpen(s) \/ StreamQuiet(s) \/ StreamCount(s) \/ StreamReceive(s)
             \/ StreamWriteFails(s) \/ StreamDisconnect(s) \/ StreamLeave(s)
      PROVE  Counting'
  BY <1>1, <1>7, <1>b DEF StreamOpen, StreamQuiet, StreamCount, StreamReceive,
     StreamWriteFails, StreamDisconnect, StreamLeave, svcVars
<1>8. CASE UNCHANGED vars
  BY <1>1, <1>8, <1>b DEF vars
<1>9. QED
  BY <1>2, <1>3, <1>4, <1>5, <1>6, <1>7, <1>8, Steps

\* A step that sends nothing disturbs neither what was sent nor what it stands for:
\* a row that is new has not been sent.
LEMMA BadgeFrame ==
    ASSUME Types, Lasting, SentCounted, BadgeInv,
           received' = received, shown' = shown, buf' = buf
    PROVE  SentCounted' /\ BadgeInv'
<1>a. \A s \in Streams : Queued(s) \subseteq Calls /\ received[s] \subseteq Calls
  <2>1. \A s \in Streams : buf[s] \in Seq(Calls)
    BY DEF Types, ClientTypes
  <2>2. \A s \in Streams : \A i \in 1..Len(buf[s]) : buf[s][i] \in Calls
    BY <2>1
  <2>3. QED
    BY <2>2 DEF Queued, Types, ClientTypes
<1>b. \A s \in Streams : shown[s] # None => shown[s] \in Calls
  BY DEF Types, ClientTypes
<1>1. SentCounted'
  BY <1>a, <1>b DEF SentCounted, Lasting, Queued
<1>2. \A s \in Streams : \A r \in unread' : r \in Queued(s) \cup received[s] => r \in unread
  BY DEF SentCounted, Lasting, AfterCount
<1>3. ASSUME NEW s \in Streams, NEW i \in 1..Len(buf[s]), NEW r \in unread',
             r \in received[s] \/ \E j \in 1..i : buf[s][j] = r
      PROVE  Informed(buf[s][i], r)'
  <2>1. buf[s] \in Seq(Calls)
    BY DEF Types, ClientTypes
  <2>2. Len(buf[s]) \in Nat /\ \A j \in 1..i : j \in 1..Len(buf[s])
    BY <2>1
  <2>3. r \in Queued(s) \cup received[s] /\ buf[s][i] \in Queued(s)
    BY <1>3, <2>2 DEF Queued
  <2>4. r \in unread /\ r \in Calls
    BY <1>2, <1>a, <2>3
  <2>5. Informed(buf[s][i], r)
    BY <1>3, <2>4 DEF BadgeInv
  <2>6. QED
    BY <1>a, <2>3, <2>4, <2>5 DEF SentCounted, Lasting
<1>4. ASSUME NEW s \in Streams, NEW r \in unread' \cap received[s], shown[s] # None
      PROVE  Informed(shown[s], r)'
  <2>1. r \in unread /\ r \in Calls
    BY <1>2, <1>a
  <2>2. Informed(shown[s], r)
    BY <1>4, <2>1 DEF BadgeInv
  <2>3. QED
    BY <1>4, <1>b, <2>1, <2>2 DEF SentCounted, Lasting
<1>5. QED
  BY <1>1, <1>3, <1>4 DEF BadgeInv

\* Both are preserved by every step.
LEMMA BadgeInductive ==
    Types /\ OwnInv /\ Phases /\ Counting /\ SentCounted /\ BadgeInv /\ [Next]_vars
        => SentCounted' /\ BadgeInv'
<1> SUFFICES ASSUME Types, OwnInv, Phases, Counting, SentCounted, BadgeInv, [Next]_vars
             PROVE  SentCounted' /\ BadgeInv'
  OBVIOUS
<1> USE DEF hubVars, svcVars, clientVars, Hub!hubVars, Hub!streamVars, Hub!pubVars, Hub!SGoto,
            Hub!PGoto
<1>a. Lasting
  BY StepsLast
<1>b. \A s \in Streams : buf[s] \in Seq(Calls) /\ received[s] \subseteq Calls
  BY DEF Types, ClientTypes
<1>1. CASE RequestsDo
  BY <1>1, <1>a, BadgeFrame DEF RequestsDo, clientState
<1>2. ASSUME NEW c \in Calls, CallDoes(c) PROVE SentCounted' /\ BadgeInv'
  BY <1>2, <1>a, BadgeFrame DEF CallDoes, clientState
<1>3. ASSUME NEW c \in Calls, BeginPublish(c) \/ PublishNext(c) \/ EndPublish(c)
      PROVE  SentCounted' /\ BadgeInv'
  <2>1. UNCHANGED buf /\ UNCHANGED clientVars
    BY <1>3 DEF BeginPublish, PublishNext, EndPublish, Hub!Lookup, Hub!RangeNext,
       Hub!RangeDone
  <2>2. QED
    BY <1>a, <2>1, BadgeFrame
<1>4. ASSUME NEW s \in Streams,
             \/ StreamOpen(s) \/ StreamQuiet(s) \/ StreamCount(s) \/ StreamDisconnect(s)
             \/ StreamLeave(s)
      PROVE  SentCounted' /\ BadgeInv'
  <2>1. UNCHANGED <<buf, received, shown>>
    BY <1>4 DEF StreamOpen, StreamQuiet, StreamCount, StreamDisconnect, StreamLeave,
       Hub!BeginSubscribe, Hub!EndSubscribe, Hub!EndUnsubscribe, Hub!Close,
       Hub!SendInitialCount, Hub!ClientGone, Hub!BeginUnsubscribe
  <2>2. QED
    BY <1>a, <2>1, BadgeFrame
<1>5. CASE UNCHANGED vars
  BY <1>5, <1>a, BadgeFrame DEF vars
<1>6. CASE EndDoes
  <2>1. /\ buf' = [s \in Streams |-> <<>>] /\ received' = received /\ shown' = shown
        /\ UNCHANGED <<unread, counted, countErr, during>>
    BY <1>6 DEF EndDoes, clientState
  <2>2. \A s \in Streams : Queued(s)' = {} /\ 1..Len(buf'[s]) = {}
    BY <2>1 DEF Queued
  <2>3. SentCounted'
    BY <1>a, <1>b, <2>1, <2>2 DEF SentCounted, Lasting, Types, ClientTypes
  <2>4. BadgeInv'
    BY <2>1, <2>2 DEF BadgeInv, Informed
  <2>5. QED
    BY <2>3, <2>4
<1>7. ASSUME NEW c \in Calls, PublishSend(c) PROVE SentCounted' /\ BadgeInv'
  <2>1. /\ ppc[c] = "sending" /\ received' = received /\ shown' = shown
        /\ UNCHANGED <<edge, pc, unread, counted, countErr, during>>
        /\ \/ buf' = buf
           \/ buf' = [buf EXCEPT ![target[c]] = Append(buf[target[c]], c)]
    BY <1>7 DEF PublishSend, Hub!Send
  <2>2. PICK t \in Streams :
            t = target[c] /\ owner[t] = Svc!Recipient(c) /\ pc[c] = "publish"
    BY <2>1 DEF OwnInv, PublishersToRecipient, Phases
  <2>3. CASE buf' = buf
    BY <1>a, <2>1, <2>3, BadgeFrame
  <2>4. CASE buf' = [buf EXCEPT ![t] = Append(buf[t], c)]
    <3>1. /\ Queued(t)' = Queued(t) \cup {c}
          /\ \A s \in Streams \ {t} : Queued(s)' = Queued(s) /\ buf'[s] = buf[s]
      <4>1. /\ Queued(t)' = Queued(t) \cup {c}
            /\ \A s \in Streams \ {t} : Queued(s)' = Queued(s)
        BY <2>2, <2>4, AddedToQueue
      <4>2. \A s \in Streams \ {t} : buf'[s] = buf[s]
        BY <2>4 DEF Types, ClientTypes
      <4>3. QED
        BY <4>1, <4>2
    <3>2. SentCounted'
      <4>1. \A s \in Streams : Queued(s)' \subseteq Queued(s) \cup {c}
        BY <3>1
      <4>2. \A e \in {c} : pc[e] \in AfterCount
        BY <2>2 DEF AfterCount
      <4>3. \A s \in Streams : \A e \in Queued(s)' \cup received[s] : pc[e] \in AfterCount
        BY <4>1, <4>2 DEF SentCounted
      <4>4. QED
        BY <2>1, <4>3 DEF SentCounted
    <3>3. /\ buf[t] \in Seq(Calls) /\ buf'[t] = Append(buf[t], c) /\ Len(buf[t]) \in Nat
          /\ Len(buf'[t]) = Len(buf[t]) + 1 /\ buf'[t][Len(buf[t]) + 1] = c
          /\ \A i \in 1..Len(buf[t]) : buf'[t][i] = buf[t][i]
      BY <1>b, <2>2, <2>4, QueueFacts DEF Types, ClientTypes
    <3>4. ASSUME NEW i \in 1..Len(buf'[t]), NEW r \in unread,
                 r \in received[t] \/ \E j \in 1..i : buf'[t][j] = r
          PROVE  Informed(buf'[t][i], r)
      <4>1. CASE i \in 1..Len(buf[t])
        <5>1. buf'[t][i] = buf[t][i] /\ \A j \in 1..i : buf'[t][j] = buf[t][j]
          BY <3>3, <4>1
        <5>2. QED
          BY <2>2, <3>4, <4>1, <5>1 DEF BadgeInv
      <4>2. CASE i = Len(buf[t]) + 1
        <5>1. r \in Queued(t)' \cup received[t]
          <6>1. CASE r \in received[t]
            BY <6>1
          <6>2. ASSUME NEW j \in 1..i, buf'[t][j] = r PROVE r \in Queued(t)'
            <7>1. j \in 1..Len(buf'[t])
              BY <3>3, <4>2
            <7>2. QED
              BY <6>2, <7>1 DEF Queued
          <6>3. QED
            BY <3>4, <6>1, <6>2
        <5>2. Svc!Recipient(r) = Svc!Recipient(c)
          BY <2>2, <3>1, <5>1 DEF OwnInv, EventsToRecipient
        <5>3. QED
          BY <2>2, <3>3, <4>2, <5>2 DEF Counting
      <4>3. QED
        BY <3>3, <4>1, <4>2
    <3>5. \A e, r : Informed(e, r)' = Informed(e, r)
      BY <2>1 DEF Informed
    <3>6. BadgeInv'
      <4>1. ASSUME NEW s \in Streams, NEW i \in 1..Len(buf'[s]), NEW r \in unread,
                   r \in received[s] \/ \E j \in 1..i : buf'[s][j] = r
            PROVE  Informed(buf'[s][i], r)
        <5>1. CASE s = t
          BY <3>4, <4>1, <5>1
        <5>2. CASE s # t
          <6>1. buf'[s] = buf[s]
            BY <3>1, <5>2
          <6>2. QED
            BY <4>1, <6>1 DEF BadgeInv
        <5>3. QED
          BY <5>1, <5>2
      <4>2. QED
        BY <2>1, <3>5, <4>1 DEF BadgeInv
    <3>7. QED
      BY <3>2, <3>6
  <2>5. QED
    BY <2>1, <2>2, <2>3, <2>4
<1>8. ASSUME NEW t \in Streams, StreamReceive(t) \/ StreamWriteFails(t)
      PROVE  SentCounted' /\ BadgeInv'
  <2> DEFINE h == Head(buf[t])
  <2>1. /\ buf[t] # <<>> /\ buf' = [buf EXCEPT ![t] = Tail(buf[t])]
        /\ \/ received' = [received EXCEPT ![t] = @ \cup {h}] /\ shown' = [shown EXCEPT ![t] = h]
           \/ received' = received /\ shown' = shown
        /\ UNCHANGED <<pc, unread, counted, countErr, during>>
    BY <1>8 DEF StreamReceive, StreamWriteFails, Hub!Receive, Hub!WriteFails
  <2>2. /\ Queued(t) = Queued(t)' \cup {h}
        /\ \A s \in Streams \ {t} : Queued(s)' = Queued(s)
    BY <2>1, TakenFromQueue
  <2>3. /\ buf'[t] = Tail(buf[t]) /\ Len(buf[t]) \in Nat /\ Len(buf[t]) >= 1
        /\ Len(buf'[t]) = Len(buf[t]) - 1 /\ h = buf[t][1] /\ h \in Calls
        /\ \A i \in 1..Len(buf[t]) - 1 : buf'[t][i] = buf[t][i + 1]
    BY <1>b, <2>1, QueueFacts DEF Types, ClientTypes
  <2>4. \A s \in Streams \ {t} :
            buf'[s] = buf[s] /\ received'[s] = received[s] /\ shown'[s] = shown[s]
    BY <2>1 DEF Types, ClientTypes
  <2>5. \/ received'[t] = received[t] \cup {h} /\ shown'[t] = h
        \/ received'[t] = received[t] /\ shown'[t] = shown[t]
    BY <2>1 DEF Types, ClientTypes
  <2>6. SentCounted'
    <3>1. \A e \in Queued(t)' \cup received'[t] : pc[e] \in AfterCount
      BY <2>2, <2>5 DEF SentCounted
    <3>2. shown'[t] # None => pc[shown'[t]] \in AfterCount
      BY <2>2, <2>5 DEF SentCounted
    <3>3. QED
      BY <2>1, <2>2, <2>4, <3>1, <3>2 DEF SentCounted
  <2>7. ASSUME NEW i \in 1..Len(buf'[t]), NEW r \in unread,
               r \in received'[t] \/ \E j \in 1..i : buf'[t][j] = r
        PROVE  Informed(buf'[t][i], r)
    <3>1. /\ i + 1 \in 1..Len(buf[t]) /\ buf'[t][i] = buf[t][i + 1] /\ 1 \in 1..(i + 1)
          /\ \A j \in 1..i : buf'[t][j] = buf[t][j + 1] /\ j + 1 \in 1..(i + 1)
      BY <2>3
    <3>2. r \in received[t] \/ \E j \in 1..(i + 1) : buf[t][j] = r
      BY <2>3, <2>5, <2>7, <3>1
    <3>3. Informed(buf[t][i + 1], r)
      BY <3>1, <3>2 DEF BadgeInv
    <3>4. QED
      BY <3>1, <3>3
  <2>8. ASSUME NEW r \in unread \cap received'[t], shown'[t] # None
        PROVE  Informed(shown'[t], r)
    <3>1. CASE received'[t] = received[t] \cup {h} /\ shown'[t] = h
      <4>1. 1 \in 1..Len(buf[t]) /\ 1 \in 1..1
        BY <2>3
      <4>2. r \in received[t] \/ \E j \in 1..1 : buf[t][j] = r
        BY <2>3, <2>8, <3>1, <4>1
      <4>3. Informed(buf[t][1], r)
        BY <4>1, <4>2 DEF BadgeInv
      <4>4. QED
        BY <2>3, <3>1, <4>3
    <3>2. CASE received'[t] = received[t] /\ shown'[t] = shown[t]
      BY <2>8, <3>2 DEF BadgeInv
    <3>3. QED
      BY <2>5, <3>1, <3>2
  <2>9. ASSUME NEW s \in Streams \ {t}
        PROVE  /\ \A i \in 1..Len(buf'[s]) : \A r \in unread :
                     (r \in received'[s] \/ \E j \in 1..i : buf'[s][j] = r)
                        => Informed(buf'[s][i], r)
               /\ \A r \in unread \cap received'[s] :
                     shown'[s] # None => Informed(shown'[s], r)
    BY <2>4 DEF BadgeInv
  <2>10. BadgeInv'
    <3>1. \A s \in Streams :
             /\ \A i \in 1..Len(buf'[s]) : \A r \in unread :
                   (r \in received'[s] \/ \E j \in 1..i : buf'[s][j] = r)
                      => Informed(buf'[s][i], r)
             /\ \A r \in unread \cap received'[s] :
                   shown'[s] # None => Informed(shown'[s], r)
      <4>1. SUFFICES ASSUME NEW s \in Streams
                     PROVE  /\ \A i \in 1..Len(buf'[s]) : \A r \in unread :
                                 (r \in received'[s] \/ \E j \in 1..i : buf'[s][j] = r)
                                    => Informed(buf'[s][i], r)
                            /\ \A r \in unread \cap received'[s] :
                                 shown'[s] # None => Informed(shown'[s], r)
        OBVIOUS
      <4>2. CASE s = t
        BY <2>7, <2>8, <4>2
      <4>3. CASE s # t
        BY <2>9, <4>3
      <4>4. QED
        BY <4>2, <4>3
    <3>2. \A e, r : Informed(e, r)' = Informed(e, r)
      BY <2>1 DEF Informed
    <3>3. QED
      BY <2>1, <3>1, <3>2 DEF BadgeInv
  <2>11. QED
    BY <2>6, <2>10
<1>9. QED
  BY <1>1, <1>2, <1>3, <1>4, <1>5, <1>6, <1>7, <1>8, Steps

\* Safety: the count a client is shown last leaves out a row it was sent only if the
\* row came while the event with that count was on its way, or the count failed.
THEOREM CountsAreInOrder == Spec => []BadgeBehindOnlyByOverlap
<1>1. Init => OwnInv /\ Phases /\ Counting /\ SentCounted /\ BadgeInv
  BY DEF Init, Svc!Init, Hub!Init, OwnInv, MapsOfOneUser, PublishersToRecipient,
         EventsToRecipient, Queued, Phases, Counting, SentCounted, BadgeInv
<1>2. Types /\ BadgeInv => BadgeBehindOnlyByOverlap
  BY DEF BadgeInv, Informed, BadgeBehindOnlyByOverlap
<1>3. QED
  BY <1>1, <1>2, TypesStart, TypesInductive, OwnInductive, PhasesInductive,
     CountingInductive, BadgeInductive, PTL DEF Spec

-----------------------------------------------------------------------------
(* The composition implements its parts *)

\* Refinement: every step of the composition is a step of NotificationService
\* or leaves its variables alone, so attaching the hub to Notify (Publish, and a
\* publisher that panics) lets the service do nothing it did not do alone.
THEOREM SystemIsService == Spec => Svc!SafetySpec
<1>1. Init => Svc!Init
  BY DEF Init
<1>2. [Next]_vars => [Svc!Next]_(Svc!vars)
  <2> SUFFICES ASSUME [Next]_vars PROVE [Svc!Next]_(Svc!vars)
    OBVIOUS
  <2>1. CASE Requests
    BY <2>1 DEF Requests, Svc!Next
  <2>2. ASSUME NEW c \in Calls, CallStep(c) PROVE Svc!Next
    BY <2>2 DEF CallStep, Svc!Next, Svc!Notify
  <2>3. ASSUME NEW c \in Calls, EndPublish(c) PROVE Svc!Next
    BY <2>3 DEF EndPublish, Svc!Next, Svc!Notify
  <2>4. ASSUME NEW c \in Calls, PublishPanics(c) PROVE Svc!Next
    BY <2>4 DEF PublishPanics, Svc!Next
  <2>5. CASE ProcessEnds
    BY <2>5 DEF ProcessEnds, Svc!Next
  <2>6. ASSUME UNCHANGED svcVars PROVE UNCHANGED Svc!vars
    BY <2>6 DEF svcVars, Svc!vars
  <2>7. ASSUME NEW c \in Calls, BeginPublish(c) \/ PublishNext(c) \/ PublishSend(c)
        PROVE  UNCHANGED svcVars
    BY <2>7 DEF BeginPublish, PublishNext, PublishSend
  <2>8. ASSUME NEW s \in Streams,
               \/ StreamOpen(s) \/ StreamQuiet(s) \/ StreamCount(s) \/ StreamReceive(s)
               \/ StreamWriteFails(s) \/ StreamDisconnect(s) \/ StreamLeave(s)
        PROVE  UNCHANGED svcVars
    BY <2>8 DEF StreamOpen, StreamQuiet, StreamCount, StreamReceive, StreamWriteFails,
                StreamDisconnect, StreamLeave
  <2>9. CASE UNCHANGED vars
    BY <2>9 DEF vars, Svc!vars
  <2>10. QED
    BY <2>1, <2>2, <2>3, <2>4, <2>5, <2>6, <2>7, <2>8, <2>9 DEF Next
<1>3. QED
  BY <1>1, <1>2, PTL DEF Spec, Svc!SafetySpec

\* Refinement: every step of the composition is a step of NotificationHub, with
\* the calls as its publishers, or leaves its variables alone: Notify and the
\* stream handler call the hub only as the hub's own model lets them.
THEOREM SystemIsHub == Spec => Hub!SafetySpec
<1>1. Init => Hub!Init
  BY DEF Init
<1>2. Types /\ [Next]_vars => [Hub!Next]_(Hub!vars)
  <2> SUFFICES ASSUME Types, [Next]_vars PROVE [Hub!Next]_(Hub!vars)
    OBVIOUS
  <2>1. ASSUME UNCHANGED hubVars PROVE UNCHANGED Hub!vars
    BY <2>1 DEF hubVars, Hub!vars
  <2>2. CASE Requests
    BY <2>1, <2>2 DEF Requests
  <2>3. ASSUME NEW c \in Calls, CallStep(c) PROVE UNCHANGED Hub!vars
    BY <2>1, <2>3 DEF CallStep
  <2>4. ASSUME NEW c \in Calls, BeginPublish(c) PROVE Hub!Next
    <3>1. Svc!Recipient(c) \in Users
      BY DEF Types, SvcTypes, Svc!Recipient
    <3>2. QED
      BY <2>4, <3>1 DEF BeginPublish, Hub!Next
  <2>5. ASSUME NEW c \in Calls,
               PublishNext(c) \/ PublishSend(c) \/ EndPublish(c) \/ PublishPanics(c)
        PROVE  Hub!Next
    BY <2>5 DEF PublishNext, PublishSend, EndPublish, PublishPanics, Hub!Next,
                Hub!PublishStep
  <2>6. ASSUME NEW s \in Streams, StreamOpen(s) PROVE Hub!Next
    BY <2>6 DEF StreamOpen, Hub!Next
  <2>7. ASSUME NEW s \in Streams,
               \/ StreamQuiet(s) \/ StreamCount(s) \/ StreamReceive(s)
               \/ StreamWriteFails(s) \/ StreamDisconnect(s) \/ StreamLeave(s)
        PROVE  Hub!Next
    BY <2>7 DEF StreamQuiet, StreamCount, StreamReceive, StreamWriteFails,
                StreamDisconnect, StreamLeave, Hub!Next, Hub!StreamStep
  <2>8. CASE ProcessEnds
    BY <2>8 DEF ProcessEnds, Hub!Next
  <2>9. CASE UNCHANGED vars
    BY <2>1, <2>9 DEF vars, hubVars
  <2>10. QED
    BY <2>2, <2>3, <2>4, <2>5, <2>6, <2>7, <2>8, <2>9 DEF Next
<1>3. QED
  BY <1>1, <1>2, TypesStart, TypesInductive, PTL DEF Spec, Hub!SafetySpec

-----------------------------------------------------------------------------
(* What was proved of the parts holds in the composition *)

SvcP == INSTANCE NotificationServiceProofs
HubP == INSTANCE NotificationHubProofs WITH Publishers <- Calls

\* Safety: with the hub attached, duplicates still come only of checks that
\* overlap an insert, and the pushed count still includes its own row.
THEOREM ServicePromisesHold ==
    Spec => [](Svc!UnreadDuplicatesOverlapped /\ Svc!CountIncludesOwnRow)
<1>1. Svc!Init => SvcP!Init
  BY DEF Svc!Init, SvcP!Init
<1>2. [Svc!Next]_(Svc!vars) => [SvcP!Next]_(SvcP!vars)
  BY Zenon
     DEF Svc!Next, SvcP!Next, Svc!vars, SvcP!vars, Svc!dbVars, SvcP!dbVars,
         Svc!callVars, SvcP!callVars, Svc!GetOrCreateMe, SvcP!GetOrCreateMe,
         Svc!FollowUser, SvcP!FollowUser, Svc!InsertFollow, SvcP!InsertFollow,
         Svc!SpawnNotify, SvcP!SpawnNotify, Svc!UnfollowUser,
         SvcP!UnfollowUser, Svc!IsDuplicate, SvcP!IsDuplicate,
         Svc!CheckDuplicate, SvcP!CheckDuplicate, Svc!CreateNotification,
         SvcP!CreateNotification, Svc!CountUnread, SvcP!CountUnread,
         Svc!Publish, SvcP!Publish, Svc!MarkRead, SvcP!MarkRead,
         Svc!MarkAllRead, SvcP!MarkAllRead, Svc!Tick, SvcP!Tick, Svc!Crash,
         SvcP!Crash, Svc!Notify, SvcP!Notify, Svc!Goto, SvcP!Goto,
         Svc!InFlight, SvcP!InFlight, Svc!SameKey, SvcP!SameKey, Svc!Actor,
         SvcP!Actor, Svc!Recipient, SvcP!Recipient, Svc!UnreadOf,
         SvcP!UnreadOf
<1>3. SvcP!UnreadDuplicatesOverlapped => Svc!UnreadDuplicatesOverlapped
  BY DEF SvcP!UnreadDuplicatesOverlapped, Svc!UnreadDuplicatesOverlapped,
         SvcP!SameKey, Svc!SameKey
<1>4. SvcP!CountIncludesOwnRow => Svc!CountIncludesOwnRow
  BY DEF SvcP!CountIncludesOwnRow, Svc!CountIncludesOwnRow
<1>5. SvcP!SafetySpec => []SvcP!UnreadDuplicatesOverlapped
  BY SvcP!DuplicatesOnlyByOverlap, WindowAssumption, DbMayFailAssumption
<1>6. SvcP!SafetySpec => []SvcP!CountIncludesOwnRow
  BY SvcP!CountIncludesRow, WindowAssumption, DbMayFailAssumption
<1>7. QED
  BY <1>1, <1>2, <1>3, <1>4, <1>5, <1>6, SystemIsService, PTL
     DEF Svc!SafetySpec, SvcP!SafetySpec

\* Safety: with the service publishing and the clients reading, the hub's
\* registry still holds exactly the registered streams whenever its mutex is free.
THEOREM HubPromiseHolds == Spec => []Hub!RegistryExact
<1>1. Hub!Init => HubP!Init
  BY DEF Hub!Init, HubP!Init
<1>2. [Hub!Next]_(Hub!vars) => [HubP!Next]_(HubP!vars)
  BY Zenon
     DEF Hub!Next, HubP!Next, Hub!vars, HubP!vars, Hub!hubVars, HubP!hubVars,
         Hub!streamVars, HubP!streamVars, Hub!pubVars, HubP!pubVars,
         Hub!StreamStep, HubP!StreamStep, Hub!PublishStep, HubP!PublishStep,
         Hub!SGoto, HubP!SGoto, Hub!PGoto, HubP!PGoto, Hub!LockFree,
         HubP!LockFree, Hub!Writing, HubP!Writing, Hub!BeingWritten,
         HubP!BeingWritten, Hub!BeginSubscribe, HubP!BeginSubscribe,
         Hub!EndSubscribe, HubP!EndSubscribe, Hub!SendInitialCount,
         HubP!SendInitialCount, Hub!Receive, HubP!Receive, Hub!WriteFails,
         HubP!WriteFails, Hub!ClientGone, HubP!ClientGone,
         Hub!BeginUnsubscribe, HubP!BeginUnsubscribe, Hub!EndUnsubscribe,
         HubP!EndUnsubscribe, Hub!EndUnsubscribeKeepsMap,
         HubP!EndUnsubscribeKeepsMap, Hub!EndUnsubscribeDropsMap,
         HubP!EndUnsubscribeDropsMap, Hub!Close, HubP!Close, Hub!Lookup,
         HubP!Lookup, Hub!RangeNext, HubP!RangeNext, Hub!RangeDone,
         HubP!RangeDone, Hub!Send, HubP!Send, Hub!MapRace, HubP!MapRace,
         Hub!SendOnClosed, HubP!SendOnClosed, Hub!Stop, HubP!Stop,
         Hub!Restart, HubP!Restart, Hub!Registered, HubP!Registered
<1>3. HubP!RegistryExact => Hub!RegistryExact
  BY DEF HubP!RegistryExact, Hub!RegistryExact, HubP!LockFree, Hub!LockFree,
         HubP!Writing, Hub!Writing, HubP!Registered, Hub!Registered
<1>4. HubP!SafetySpec => []HubP!RegistryExact
  BY HubP!RegistryIsExact, NoneAssumption, CapacityAssumption
<1>5. QED
  BY <1>1, <1>2, <1>3, <1>4, SystemIsHub, PTL DEF Hub!SafetySpec, HubP!SafetySpec
=============================================================================
