----------------------------- MODULE RateLimiter -----------------------------
(***************************************************************************)
(* The rate limiter of common/httpx/ratelimit.go.  A visitor entry is made *)
(* at the first request of an address, brought up to date only when the    *)
(* address is seen again, and deleted by a background sweep once it has    *)
(* been idle for more than StaleAfter.  All of it runs under one mutex.    *)
(*                                                                         *)
(* Tokens are measured in time: the code adds rate/interval tokens per     *)
(* second, so a token is worth Cost = interval/rate units of time and a    *)
(* bucket holds Cap = burst * Cost.  The code's floating-point rounding is *)
(* abstracted.                                                             *)
(***************************************************************************)
EXTENDS Integers

CONSTANTS
    IPs,        \* client addresses
    Cost,       \* what a request costs: interval / rate
    Cap,        \* what a bucket holds: burst * Cost
    StaleAfter, \* idle time after which the sweep deletes a visitor (10 minutes)
    SweepEvery, \* the sweep's ticker (5 minutes)
    MaxTime     \* bound on the clock

ASSUME CostAssumption == Cost \in Nat \ {0}
\* burst >= 1
ASSUME CapAssumption == Cap \in Nat /\ Cap >= Cost
\* A visitor idle for StaleAfter has a full bucket.  The limiters of main.go
\* fill in 8 s (40 tokens, 300 a minute) and 20 s (10 tokens, 30 a minute).
ASSUME StaleAssumption == StaleAfter \in Nat /\ StaleAfter >= Cap
ASSUME SweepAssumption == SweepEvery \in Nat \ {0}
ASSUME MaxTimeAssumption == MaxTime \in Nat

VARIABLES
    visitors,   \* the addresses that have an entry
    tokens,     \* tokens[ip]: of its entry
    lastSeen,   \* lastSeen[ip]: of its entry
    sweeping,   \* whether the cleanup goroutine runs
    nextSweep,  \* when its ticker fires next
    now,
    reply,      \* reply[ip]: the answer to the last request of ip
    markAt,     \* history: some moment in the past, and
    spent       \*   spent[ip] what the requests admitted from ip have cost since

vars == <<visitors, tokens, lastSeen, sweeping, nextSweep, now, reply, markAt, spent>>
sweepVars == <<sweeping, nextSweep>>

Smaller(a, b) == IF a <= b THEN a ELSE b

TypeOK ==
    /\ visitors \in SUBSET IPs
    /\ tokens \in [IPs -> 0..Cap]
    /\ lastSeen \in [IPs -> Nat]
    /\ \A ip \in IPs : lastSeen[ip] <= now
    /\ sweeping \in BOOLEAN
    /\ nextSweep \in Nat
    /\ now \in Nat
    /\ reply \in [IPs -> {"none", "ok", "limited"}]
    /\ markAt \in Nat /\ markAt <= now
    /\ spent \in [IPs -> Nat]

Init ==
    /\ visitors = {}
    /\ tokens = [ip \in IPs |-> 0]
    /\ lastSeen = [ip \in IPs |-> 0]
    /\ sweeping = TRUE
    /\ nextSweep = SweepEvery
    /\ now = 0
    /\ reply = [ip \in IPs |-> "none"]
    /\ markAt = 0
    /\ spent = [ip \in IPs |-> 0]

-----------------------------------------------------------------------------
\* Allow, for an address without an entry: a full bucket less one token.
AllowNew(ip) ==
    /\ ip \notin visitors
    /\ visitors' = visitors \cup {ip}
    /\ tokens' = [tokens EXCEPT ![ip] = Cap - Cost]
    /\ lastSeen' = [lastSeen EXCEPT ![ip] = now]
    /\ reply' = [reply EXCEPT ![ip] = "ok"]
    /\ spent' = [spent EXCEPT ![ip] = @ + Cost]
    /\ UNCHANGED <<sweepVars, now, markAt>>

\* Faulty variant: the bucket overflows.
ReplenishedUncapped(ip) == tokens[ip] + (now - lastSeen[ip])

\* The tokens of an entry brought up to date.
Replenished(ip) == Smaller(Cap, tokens[ip] + (now - lastSeen[ip]))

\* Faulty variant: a request that is turned away costs a token too.
AllowKnownCharging(ip) ==
    /\ ip \in visitors
    /\ lastSeen' = [lastSeen EXCEPT ![ip] = now]
    /\ tokens' = [tokens EXCEPT ![ip] = Replenished(ip) - Cost]
    /\ \/ /\ Replenished(ip) >= Cost
          /\ reply' = [reply EXCEPT ![ip] = "ok"]
          /\ spent' = [spent EXCEPT ![ip] = @ + Cost]
       \/ /\ Replenished(ip) < Cost
          /\ reply' = [reply EXCEPT ![ip] = "limited"]
          /\ UNCHANGED spent
    /\ UNCHANGED <<visitors, sweepVars, now, markAt>>

\* Allow, for an address with an entry: replenish, then take a token if there
\* is one.  A request that is turned away updates the entry too.
AllowKnown(ip) ==
    /\ ip \in visitors
    /\ lastSeen' = [lastSeen EXCEPT ![ip] = now]
    /\ \/ /\ Replenished(ip) >= Cost
          /\ tokens' = [tokens EXCEPT ![ip] = Replenished(ip) - Cost]
          /\ reply' = [reply EXCEPT ![ip] = "ok"]
          /\ spent' = [spent EXCEPT ![ip] = @ + Cost]
       \/ /\ Replenished(ip) < Cost
          /\ tokens' = [tokens EXCEPT ![ip] = Replenished(ip)]
          /\ reply' = [reply EXCEPT ![ip] = "limited"]
          /\ UNCHANGED spent
    /\ UNCHANGED <<visitors, sweepVars, now, markAt>>

\* Faulty variant: the sweep deletes visitors however recently they were seen.
StaleOrNot == visitors

\* The visitors the sweep deletes.
Stale == {ip \in visitors : now - lastSeen[ip] > StaleAfter}

\* Faulty variant: the sweep runs, and deletes nothing.
CleanupNothing ==
    /\ sweeping
    /\ now >= nextSweep
    /\ nextSweep' = now + SweepEvery
    /\ UNCHANGED <<visitors, tokens, lastSeen, sweeping, now, reply, markAt, spent>>

\* One tick of the cleanup goroutine.
Cleanup ==
    /\ sweeping
    /\ now >= nextSweep
    /\ visitors' = visitors \ Stale
    /\ nextSweep' = now + SweepEvery
    /\ UNCHANGED <<tokens, lastSeen, sweeping, now, reply, markAt, spent>>

\* Stop ends the cleanup goroutine, and nothing else.
Stop ==
    /\ sweeping
    /\ sweeping' = FALSE
    /\ UNCHANGED <<visitors, tokens, lastSeen, nextSweep, now, reply, markAt, spent>>

\* Time passes; a sweep that is due runs first.
Tick ==
    /\ now < MaxTime
    /\ sweeping => now < nextSweep
    /\ now' = now + 1
    /\ UNCHANGED <<visitors, tokens, lastSeen, sweepVars, reply, markAt, spent>>

\* Bookkeeping of the history variables: any moment may begin the interval over
\* which admissions are counted.
Mark ==
    /\ markAt' = now
    /\ spent' = [ip \in IPs |-> 0]
    /\ UNCHANGED <<visitors, tokens, lastSeen, sweepVars, now, reply>>

Next ==
    \/ \E ip \in IPs : AllowNew(ip) \/ AllowKnown(ip)
    \/ Cleanup
    \/ Stop
    \/ Tick
    \/ Mark

Spec == Init /\ [][Next]_vars

-----------------------------------------------------------------------------
(* Properties *)

\* In no interval, wherever it begins, are the requests admitted from an
\* address worth more than a full bucket and what is gained in the interval,
\* although the sweep forgets visitors.
AdmissionBound ==
    \A ip \in IPs : spent[ip] <= Cap + (now - markAt)

\* An address whose requests come at least Cost apart (at most `rate` per
\* `interval`) is never turned away, whatever it spent before.
PacedNeverDenied ==
    [][\A ip \in IPs :
          ip \in visitors' /\ lastSeen'[ip] # lastSeen[ip] /\ reply'[ip] = "limited"
            => now - lastSeen[ip] < Cost]_vars

\* While the sweep runs, an entry outlives its last request by StaleAfter and
\* one period of the sweep at most, so idle addresses cost no memory for long.
EntriesExpire ==
    sweeping => \A ip \in visitors : now - lastSeen[ip] <= StaleAfter + SweepEvery

\* The limiter implements a bucket per address that is never forgotten: neither
\* bringing entries up to date lazily nor sweeping them can be noticed.
Level(ip) == IF ip \in visitors THEN Replenished(ip) ELSE Cap
Bucket == INSTANCE TokenBucket WITH level <- [ip \in IPs |-> Level(ip)]
ImplementsTokenBucket == Bucket!Spec
=============================================================================
