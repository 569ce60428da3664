------------------------- MODULE NotificationHubProofs -------------------------
(***************************************************************************)
(* Proofs about NotificationHub for any users, streams, publishers and     *)
(* channel capacity.                                                       *)
(***************************************************************************)
EXTENDS NotificationHub, TLAPS

USE CapacityAssumption, NoneAssumption

\* What the mutex, the maps and the streams' handlers agree on.  A map is named
\* after a stream of its user; a handler that is between the two halves of
\* Subscribe has its channel in the map already, one between the two halves of
\* Unsubscribe no longer.
InMap(u) == {s \in Streams : owner[s] = u /\ spc[s] \in {"subscribing", "count", "loop"}}
Leaving(u) == {s \in Streams : owner[s] = u /\ spc[s] = "unsubscribing"}

MutualExclusion == \A s, t \in Streams : Writing(s) /\ Writing(t) => s = t

MapsOwned ==
    \A u \in Users : clients[u] # None =>
        owner[clients[u]] = u /\ spc[clients[u]] # "new"

NewStreams ==
    \A s \in Streams :
        /\ spc[s] = "new" => subs[s] = {}
        /\ spc[s] \in {"subscribing", "count", "loop", "unsubscribing"} => owner[s] \in Users

MapExact(u) ==
    IF clients[u] = None THEN InMap(u) = {} /\ Leaving(u) = {}
    ELSE subs[clients[u]] = InMap(u) /\ InMap(u) \cup Leaving(u) # {}

MapsExact == \A u \in Users : MapExact(u)

RegistryInv == MutualExclusion /\ MapsOwned /\ NewStreams /\ MapsExact

-----------------------------------------------------------------------------
\* Type correctness of the hub: no channel ever holds more than its capacity.
THEOREM TypeCorrect == SafetySpec => []TypeOK
<1>1. Init => TypeOK
  BY DEF Init, TypeOK
<1>2. TypeOK /\ [Next]_vars => TypeOK'
  <2> SUFFICES ASSUME TypeOK, [Next]_vars PROVE TypeOK'
    OBVIOUS
  <2> USE DEF TypeOK, SGoto, PGoto, hubVars, streamVars, pubVars
  <2>1. ASSUME NEW s \in Streams, NEW u \in Users, BeginSubscribe(s, u) PROVE TypeOK'
    BY <2>1 DEF BeginSubscribe
  <2>2. ASSUME NEW s \in Streams,
               StreamStep(s) \/ Receive(s) \/ WriteFails(s) \/ BeginUnsubscribe(s) \/ ClientGone(s)
        PROVE  TypeOK'
    <3>1. CASE EndSubscribe(s) \/ SendInitialCount(s) \/ ClientGone(s) \/ Close(s)
      BY <3>1 DEF EndSubscribe, SendInitialCount, ClientGone, Close
    <3>2. CASE Receive(s) \/ WriteFails(s)
      <4>1. Tail(buf[s]) \in Seq(Publishers) /\ Len(Tail(buf[s])) <= Capacity
        BY <3>2 DEF Receive, WriteFails
      <4>2. buf' = [buf EXCEPT ![s] = Tail(buf[s])] /\ gone' \in SUBSET Streams
        BY <3>2 DEF Receive, WriteFails
      <4>3. buf' \in [Streams -> Seq(Publishers)] /\ \A t \in Streams : Len(buf'[t]) <= Capacity
        BY <4>1, <4>2
      <4>4. UNCHANGED <<clients, subs, closed, owner, spc, pubVars>>
        BY <3>2 DEF Receive, WriteFails
      <4>5. QED
        BY <4>2, <4>3, <4>4
    <3>3. CASE BeginUnsubscribe(s)
      BY <3>3 DEF BeginUnsubscribe
    <3>4. CASE EndUnsubscribe(s)
      BY <3>4 DEF EndUnsubscribe
    <3>5. QED
      BY <2>2, <3>1, <3>2, <3>3, <3>4 DEF StreamStep
  <2>3. ASSUME NEW p \in Publishers, NEW u \in Users, Lookup(p, u) PROVE TypeOK'
    BY <2>3 DEF Lookup
  <2>4. ASSUME NEW p \in Publishers, RangeNext(p) PROVE TypeOK'
    BY <2>4 DEF RangeNext
  <2>5. ASSUME NEW p \in Publishers, RangeDone(p) PROVE TypeOK'
    BY <2>5 DEF RangeDone
  <2>6. ASSUME NEW p \in Publishers, Send(p) PROVE TypeOK'
    <3>1. \A t \in Streams : Len(buf[t]) < Capacity =>
             Append(buf[t], p) \in Seq(Publishers) /\ Len(Append(buf[t], p)) <= Capacity
      BY CapacityAssumption
    <3>2. CASE buf' = buf
      BY <2>6, <3>2 DEF Send
    <3>3. CASE /\ target[p] \in Streams
               /\ Len(buf[target[p]]) < Capacity
               /\ buf' = [buf EXCEPT ![target[p]] = Append(@, p)]
      <4>1. buf' \in [Streams -> Seq(Publishers)]
            /\ \A t \in Streams : Len(buf'[t]) <= Capacity
        BY <3>1, <3>3
      <4>2. QED
        BY <2>6, <4>1 DEF Send
    <3>4. CASE target[p] = None /\ buf' = [buf EXCEPT ![target[p]] = Append(@, p)]
      <4>1. buf' = buf
        BY <3>4
      <4>2. QED
        BY <3>2, <4>1
    <3>5. QED
      BY <2>6, <3>2, <3>3, <3>4 DEF Send
  <2>7. CASE Restart
    BY <2>7 DEF Restart
  <2>8. CASE UNCHANGED vars
    BY <2>8 DEF vars
  <2>9. QED
    BY <2>1, <2>2, <2>3, <2>4, <2>5, <2>6, <2>7, <2>8
       DEF Next, PublishStep, MapRace, SendOnClosed, Stop
<1>3. QED
  BY <1>1, <1>2, PTL DEF SafetySpec

-----------------------------------------------------------------------------
\* RegistryInv is preserved by every step of the hub and its streams.
LEMMA RegistryInductive == TypeOK /\ RegistryInv /\ [Next]_vars => RegistryInv'
<1> SUFFICES ASSUME TypeOK, RegistryInv, [Next]_vars PROVE RegistryInv'
  OBVIOUS
<1> USE DEF TypeOK, RegistryInv, MutualExclusion, MapsOwned, NewStreams, SGoto,
            Writing, hubVars, streamVars, pubVars
<1>1. ASSUME NEW s \in Streams, NEW u \in Users, BeginSubscribe(s, u)
      PROVE  RegistryInv'
  <2> DEFINE m == IF clients[u] = None THEN s ELSE clients[u]
  <2>1. /\ LockFree /\ spc[s] = "new"
        /\ spc' = [spc EXCEPT ![s] = "subscribing"]
        /\ owner' = [owner EXCEPT ![s] = u]
        /\ clients' = [clients EXCEPT ![u] = m]
        /\ subs' = [subs EXCEPT ![m] = @ \cup {s}]
        /\ m \in Streams
    BY <1>1 DEF BeginSubscribe
  <2>2. MutualExclusion'
    BY <2>1 DEF LockFree
  <2>3. MapsOwned'
    BY <2>1
  <2>4. NewStreams'
    BY <2>1
  <2>5. \A v \in Users : InMap(v)' = (IF v = u THEN InMap(v) \cup {s} ELSE InMap(v))
                        /\ Leaving(v)' = {} /\ Leaving(v) = {}
    BY <2>1 DEF InMap, Leaving, LockFree
  <2>6. subs'[m] = InMap(u)'
    BY <2>1, <2>5 DEF MapsExact, MapExact
  <2>7. ASSUME NEW v \in Users, v # u, clients[v] # None
        PROVE  clients[v] # m /\ subs'[clients[v]] = subs[clients[v]]
    BY <2>1, <2>7
  <2>8. MapsExact'
    <3> SUFFICES ASSUME NEW v \in Users
                 PROVE  MapExact(v)'
      BY DEF MapsExact
    <3> MapExact(v)
      BY DEF MapsExact
    <3>1. CASE v = u
      BY <2>1, <2>5, <2>6, <3>1 DEF MapExact
    <3>2. CASE v # u
      BY <2>1, <2>5, <2>7, <3>2 DEF MapExact
    <3>3. QED
      BY <3>1, <3>2
  <2>9. QED
    BY <2>2, <2>3, <2>4, <2>8
<1>2. ASSUME NEW s \in Streams, EndSubscribe(s) \/ SendInitialCount(s)
      PROVE  RegistryInv'
  <2>1. /\ UNCHANGED <<clients, subs, owner>>
        /\ \/ spc[s] = "subscribing" /\ spc' = [spc EXCEPT ![s] = "count"]
           \/ spc[s] = "count" /\ spc' = [spc EXCEPT ![s] = "loop"]
    BY <1>2 DEF EndSubscribe, SendInitialCount
  <2>2. \A v \in Users : InMap(v)' = InMap(v) /\ Leaving(v)' = Leaving(v)
    BY <2>1 DEF InMap, Leaving
  <2>3. \A v \in Users : MapExact(v) => MapExact(v)'
    BY <2>1, <2>2 DEF MapExact
  <2>4. /\ spc[s] \notin {"new", "unsubscribing"} /\ spc'[s] \in {"count", "loop"}
        /\ \A t \in Streams : t # s => spc'[t] = spc[t]
    BY <2>1
  <2>5. MutualExclusion'
    BY <2>4
  <2>6. MapsOwned'
    <3> SUFFICES ASSUME NEW v \in Users, clients[v] # None
                 PROVE  owner[clients[v]] = v /\ spc'[clients[v]] # "new"
      BY <2>1
    <3> QED
      BY <2>4
  <2>7. NewStreams'
    BY <2>1, <2>4
  <2>8. QED
    BY <2>3, <2>5, <2>6, <2>7 DEF MapsExact
<1>3. ASSUME NEW s \in Streams, BeginUnsubscribe(s) PROVE RegistryInv'
  <2> DEFINE u == owner[s]
  <2>1. /\ LockFree /\ spc[s] = "loop" /\ u \in Users
        /\ spc' = [spc EXCEPT ![s] = "unsubscribing"]
        /\ subs' = [subs EXCEPT ![clients[u]] = @ \ {s}]
        /\ UNCHANGED <<clients, owner>>
    BY <1>3 DEF BeginUnsubscribe
  <2>2. s \in InMap(u) /\ clients[u] # None
    BY <2>1 DEF InMap, MapsExact, MapExact
  <2>3. /\ InMap(u)' = InMap(u) \ {s}
        /\ s \in Leaving(u)'
        /\ \A v \in Users : v # u => InMap(v)' = InMap(v) /\ Leaving(v)' = Leaving(v)
    BY <2>1 DEF InMap, Leaving, LockFree
  <2>4. ASSUME NEW v \in Users, v # u, clients[v] # None
        PROVE  subs'[clients[v]] = subs[clients[v]]
    BY <2>1, <2>2, <2>4
  <2>5. MapsExact'
    <3> SUFFICES ASSUME NEW v \in Users
                 PROVE  MapExact(v)'
      BY DEF MapsExact
    <3> MapExact(v)
      BY DEF MapsExact
    <3>1. CASE v = u
      <4>1. subs[clients[u]] = InMap(u) /\ clients'[u] # None
        BY <2>1, <2>2, <3>1 DEF MapExact
      <4>2. subs'[clients'[u]] = InMap(u) \ {s}
        BY <2>1, <4>1
      <4>3. subs'[clients'[u]] = InMap(u)' /\ InMap(u)' \cup Leaving(u)' # {}
        BY <2>3, <4>2
      <4>4. clients'[v] # None /\ subs'[clients'[v]] = InMap(v)'
            /\ InMap(v)' \cup Leaving(v)' # {}
        BY <2>1, <3>1, <4>1, <4>3 DEF InMap, Leaving
      <4>5. (MapExact(v))' <=> IF clients'[v] = None
                               THEN InMap(v)' = {} /\ Leaving(v)' = {}
                               ELSE /\ subs'[clients'[v]] = InMap(v)'
                                    /\ InMap(v)' \cup Leaving(v)' # {}
        BY DEF MapExact
      <4>6. QED
        BY <4>4, <4>5
    <3>2. CASE v # u
      BY <2>1, <2>3, <2>4, <3>2 DEF MapExact
    <3>3. QED
      BY <3>1, <3>2
  <2>6. MutualExclusion' /\ MapsOwned' /\ NewStreams'
    BY <2>1 DEF LockFree
  <2>7. QED
    BY <2>5, <2>6
<1>4. ASSUME NEW s \in Streams, EndUnsubscribe(s) PROVE RegistryInv'
  <2> DEFINE u == owner[s]
  <2>1. /\ spc[s] = "unsubscribing" /\ u \in Users
        /\ spc' = [spc EXCEPT ![s] = "closing"]
        /\ clients' = IF subs[clients[u]] = {} THEN [clients EXCEPT ![u] = None] ELSE clients
        /\ UNCHANGED <<subs, owner>>
    BY <1>4 DEF EndUnsubscribe
  <2>2. \A v \in Users : InMap(v)' = InMap(v) /\ Leaving(v)' = {}
                        /\ (v # u => Leaving(v) = {}) /\ s \in Leaving(u)
    BY <2>1 DEF InMap, Leaving
  <2>3. clients[u] # None /\ subs[clients[u]] = InMap(u)
    BY <2>1, <2>2 DEF MapsExact, MapExact
  <2>4. MapsExact'
    <3> SUFFICES ASSUME NEW v \in Users
                 PROVE  MapExact(v)'
      BY DEF MapsExact
    <3> MapExact(v)
      BY DEF MapsExact
    <3>1. CASE v = u
      BY <2>1, <2>2, <2>3, <3>1 DEF MapExact
    <3>2. CASE v # u
      BY <2>1, <2>2, <3>2 DEF MapExact
    <3>3. QED
      BY <3>1, <3>2
  <2>5. MutualExclusion' /\ MapsOwned' /\ NewStreams'
    BY <2>1
  <2>6. QED
    BY <2>4, <2>5
<1>5. ASSUME NEW s \in Streams, Close(s) PROVE RegistryInv'
  <2>1. /\ spc[s] = "closing" /\ spc' = [spc EXCEPT ![s] = "done"]
        /\ UNCHANGED <<clients, subs, owner>>
    BY <1>5 DEF Close
  <2>2. \A v \in Users : InMap(v)' = InMap(v) /\ Leaving(v)' = Leaving(v)
    BY <2>1 DEF InMap, Leaving
  <2>3. \A v \in Users : MapExact(v) => MapExact(v)'
    BY <2>1, <2>2 DEF MapExact
  <2>4. MutualExclusion' /\ MapsOwned' /\ NewStreams'
    BY <2>1
  <2>5. QED
    BY <2>3, <2>4 DEF MapsExact
<1>6. CASE UNCHANGED <<clients, subs, owner, spc>>
  <2>1. \A v \in Users : InMap(v)' = InMap(v) /\ Leaving(v)' = Leaving(v)
    BY <1>6 DEF InMap, Leaving
  <2>2. QED
    BY <1>6, <2>1 DEF MapsExact, MapExact
<1>7. CASE Restart
  <2>1. \A v \in Users : InMap(v)' = {} /\ Leaving(v)' = {}
    BY <1>7 DEF InMap, Leaving, Restart
  <2>2. QED
    BY <1>7, <2>1 DEF MapsExact, MapExact, Restart
<1>8. QED
  <2>1. ASSUME NEW s \in Streams, Receive(s) \/ WriteFails(s) \/ ClientGone(s)
        PROVE  UNCHANGED <<clients, subs, owner, spc>>
    BY <2>1 DEF Receive, WriteFails, ClientGone
  <2>2. ASSUME NEW p \in Publishers, NEW u \in Users, Lookup(p, u)
        PROVE  UNCHANGED <<clients, subs, owner, spc>>
    BY <2>2 DEF Lookup
  <2>3. ASSUME NEW p \in Publishers, RangeNext(p) \/ RangeDone(p) \/ Send(p)
        PROVE  UNCHANGED <<clients, subs, owner, spc>>
    BY <2>3 DEF RangeNext, RangeDone, Send
  <2>4. UNCHANGED vars => UNCHANGED <<clients, subs, owner, spc>>
    BY DEF vars
  <2>5. QED
    BY <1>1, <1>2, <1>3, <1>4, <1>5, <1>6, <1>7, <2>1, <2>2, <2>3, <2>4
       DEF Next, StreamStep, PublishStep, MapRace, SendOnClosed, Stop

\* Safety: whenever the mutex is free, a user's map is registered exactly when
\* the user has registered streams, and holds exactly their channels, so
\* Subscribe and Unsubscribe leak no map and strand no stream.
THEOREM RegistryIsExact == SafetySpec => []RegistryExact
<1>1. Init => RegistryInv
  BY DEF Init, RegistryInv, MutualExclusion, MapsOwned, NewStreams, MapsExact,
         MapExact, InMap, Leaving, Writing
<1>2. TypeOK /\ RegistryInv => RegistryExact
  <2> SUFFICES ASSUME TypeOK, RegistryInv, LockFree, NEW u \in Users
               PROVE  IF Registered(u) = {} THEN clients[u] = None
                      ELSE clients[u] # None /\ subs[clients[u]] = Registered(u)
    BY DEF RegistryExact
  <2>1. InMap(u) = Registered(u) /\ Leaving(u) = {}
    BY DEF LockFree, Writing, InMap, Registered, Leaving
  <2>2. QED
    BY <2>1 DEF RegistryInv, MapsExact, MapExact
<1>3. QED
  BY <1>1, <1>2, TypeCorrect, RegistryInductive, PTL DEF SafetySpec
=============================================================================
