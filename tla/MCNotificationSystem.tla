------------------------- MODULE MCNotificationSystem -------------------------
(* Instances of NotificationSystem that begin when the follows have been     *)
(* inserted and each request is about to start its Notify goroutine: one     *)
(* call with two streams, or two calls of one follow with one stream.  Who   *)
(* does not take part has ended before.  Users are interchangeable, so who   *)
(* follows whom is fixed; streams are of either.                             *)
EXTENDS NotificationSystem

CONSTANTS u1, u2, c1, c2, s1, s2

Taking(calls, streams) ==
    /\ pc = [c \in Calls |-> IF c \in calls THEN "spawn" ELSE "rejected"]
    /\ spc = [s \in Streams |-> IF s \in streams THEN "new" ELSE "done"]

MCInit ==
    /\ Taking({c1}, {s1, s2}) \/ Taking({c1, c2}, {s1})
    /\ registered = Users
    /\ edge = [c \in Calls |-> <<u1, u2>>]
    /\ follows = {<<u1, u2>>}
    /\ rows = {} /\ unread = {}
    /\ createdAt = [c \in Calls |-> 0]
    /\ counted = [c \in Calls |-> {}]
    /\ countErr = {}
    /\ seen = [c \in Calls |-> {}]
    /\ now = 0
    /\ clients = [u \in Users |-> None]
    /\ subs = [m \in Streams |-> {}]
    /\ buf = [s \in Streams |-> <<>>]
    /\ closed = {}
    /\ owner = [s \in Streams |-> None]
    /\ gone = {}
    /\ ppc = [c \in Calls |-> "idle"]
    /\ pmap = [c \in Calls |-> None]
    /\ atStart = [c \in Calls |-> {}]
    /\ visited = [c \in Calls |-> {}]
    /\ target = [c \in Calls |-> None]
    /\ initCounted = [s \in Streams |-> {}]
    /\ initFailed = {}
    /\ received = [s \in Streams |-> {}]
    /\ dropped = [s \in Streams |-> {}]
    /\ shown = [s \in Streams |-> None]
    /\ during = [c \in Calls |-> {}]

MCSpec == MCInit /\ [][Next]_vars /\ Fairness

\* ACTION_CONSTRAINT: nobody signs up, unfollows or marks anything read.  No step
\* of a stream or of a Notify goroutine looks at the first two tables, and the
\* properties are about unread notifications.
TablesFixed == UNCHANGED <<registered, follows>> /\ unread \subseteq unread'
=============================================================================
