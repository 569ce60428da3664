----------------------------- MODULE TokenBucket -----------------------------
(***************************************************************************)
(* What the rate limiter of common/httpx promises (the comment of          *)
(* NewRateLimiter: "allows `rate` requests per `interval` with a burst     *)
(* capacity"): every client address has a bucket that is full at first,    *)
(* gains one unit per unit of time up to Cap, never forgets, and pays Cost *)
(* for each request admitted.                                              *)
(***************************************************************************)
EXTENDS Integers

CONSTANTS
    IPs,    \* client addresses
    Cost,   \* of a request: the time in which one token is gained
    Cap     \* of a bucket: burst times Cost

VARIABLES
    level,  \* level[ip]: what the bucket of ip holds
    reply   \* reply[ip]: the answer to the last request of ip

vars == <<level, reply>>

Smaller(a, b) == IF a <= b THEN a ELSE b

Init ==
    /\ level = [ip \in IPs |-> Cap]
    /\ reply = [ip \in IPs |-> "none"]

Admit(ip) ==
    /\ level[ip] >= Cost
    /\ level' = [level EXCEPT ![ip] = @ - Cost]
    /\ reply' = [reply EXCEPT ![ip] = "ok"]

Deny(ip) ==
    /\ level[ip] < Cost
    /\ reply' = [reply EXCEPT ![ip] = "limited"]
    /\ UNCHANGED level

Refill ==
    /\ level' = [ip \in IPs |-> Smaller(Cap, level[ip] + 1)]
    /\ UNCHANGED reply

Next == Refill \/ \E ip \in IPs : Admit(ip) \/ Deny(ip)

Spec == Init /\ [][Next]_vars
=============================================================================
