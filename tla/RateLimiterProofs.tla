-------------------------- MODULE RateLimiterProofs --------------------------
(***************************************************************************)
(* Proofs about RateLimiter for any addresses, rate, burst and timing that *)
(* meet its assumptions, StaleAssumption among them: a visitor is forgotten *)
(* only when its bucket is full.                                           *)
(***************************************************************************)
EXTENDS RateLimiter, TLAPS

USE CostAssumption, CapAssumption, StaleAssumption, SweepAssumption,
    MaxTimeAssumption

\* Bringing an entry up to date leaves at most a full bucket.
LEMMA ReplenishedType ==
    ASSUME TypeOK, NEW ip \in IPs
    PROVE  Replenished(ip) \in 0..Cap
BY DEF TypeOK, Replenished, Smaller

\* Type correctness of the limiter: buckets stay between empty and full, and no
\* entry is dated in the future.
THEOREM TypeCorrect == Spec => []TypeOK
<1>1. Init => TypeOK
  BY DEF Init, TypeOK
<1>2. TypeOK /\ [Next]_vars => TypeOK'
  <2> SUFFICES ASSUME TypeOK, [Next]_vars PROVE TypeOK'
    OBVIOUS
  <2> USE DEF sweepVars
  <2>1. ASSUME NEW ip \in IPs, AllowNew(ip) PROVE TypeOK'
    <3>1. Cap - Cost \in 0..Cap
      OBVIOUS
    <3>2. QED
      BY <2>1, <3>1 DEF TypeOK, AllowNew
  <2>2. ASSUME NEW ip \in IPs, AllowKnown(ip) PROVE TypeOK'
    <3>1. Replenished(ip) \in 0..Cap
      BY ReplenishedType
    <3>2. Replenished(ip) >= Cost => Replenished(ip) - Cost \in 0..Cap
      BY <3>1
    <3>3. QED
      BY <2>2, <3>1, <3>2 DEF TypeOK, AllowKnown
  <2>3. CASE Cleanup
    BY <2>3 DEF TypeOK, Cleanup, Stale
  <2>4. CASE Stop
    BY <2>4 DEF TypeOK, Stop
  <2>5. CASE Tick
    BY <2>5 DEF TypeOK, Tick
  <2>6. CASE Mark
    BY <2>6 DEF TypeOK, Mark
  <2>7. CASE UNCHANGED vars
    BY <2>7 DEF TypeOK, vars
  <2>8. QED
    BY <2>1, <2>2, <2>3, <2>4, <2>5, <2>6, <2>7 DEF Next
<1>3. QED
  BY <1>1, <1>2, PTL DEF Spec

-----------------------------------------------------------------------------
(* How each kind of step moves the level of a bucket *)

\* A level is between empty and full.
LEMMA LevelType ==
    ASSUME TypeOK, NEW ip \in IPs
    PROVE  Level(ip) \in 0..Cap
BY ReplenishedType DEF Level

\* A visitor that the sweep deletes has a full bucket, so no level changes.
LEMMA CleanupKeepsLevels ==
    ASSUME TypeOK, Cleanup
    PROVE  \A ip \in IPs : Level(ip)' = Level(ip)
<1> SUFFICES ASSUME NEW ip \in IPs PROVE Level(ip)' = Level(ip)
  OBVIOUS
<1>1. ip \in Stale => Replenished(ip) = Cap
  BY DEF TypeOK, Stale, Replenished, Smaller
<1>2. Replenished(ip)' = Replenished(ip)
  BY DEF Cleanup, Replenished, Smaller
<1>3. QED
  BY <1>1, <1>2 DEF Cleanup, Level, Stale

\* A unit of time adds one to each level that is not full.
LEMMA TickRefills ==
    ASSUME TypeOK, Tick
    PROVE  \A ip \in IPs : Level(ip)' = Smaller(Cap, Level(ip) + 1)
<1> SUFFICES ASSUME NEW ip \in IPs PROVE Level(ip)' = Smaller(Cap, Level(ip) + 1)
  OBVIOUS
<1> USE DEF TypeOK, Tick, Smaller, sweepVars
<1>1. CASE ip \in visitors
  BY <1>1 DEF Level, Replenished
<1>2. CASE ip \notin visitors
  BY <1>2 DEF Level
<1>3. QED
  BY <1>1, <1>2

\* A request is admitted, and pays Cost, if and only if the level allows it; no
\* other address is affected.
LEMMA AllowPays ==
    ASSUME TypeOK, NEW ip \in IPs, AllowNew(ip) \/ AllowKnown(ip)
    PROVE  /\ \/ /\ Level(ip) >= Cost
                 /\ Level(ip)' = Level(ip) - Cost
                 /\ reply' = [reply EXCEPT ![ip] = "ok"]
                 /\ spent' = [spent EXCEPT ![ip] = @ + Cost]
              \/ /\ Level(ip) < Cost
                 /\ Level(ip)' = Level(ip)
                 /\ reply' = [reply EXCEPT ![ip] = "limited"]
                 /\ UNCHANGED spent
           /\ \A j \in IPs : j # ip => Level(j)' = Level(j)
           /\ UNCHANGED <<now, markAt>>
<1>1. \A j \in IPs : j # ip => Level(j)' = Level(j)
  BY DEF TypeOK, AllowNew, AllowKnown, Level, Replenished, Smaller, sweepVars
<1>2. CASE AllowNew(ip)
  <2>1. tokens'[ip] = Cap - Cost /\ lastSeen'[ip] = now /\ now' = now /\ ip \in visitors'
    BY <1>2 DEF TypeOK, AllowNew
  <2>2. Level(ip) = Cap /\ Level(ip)' = Cap - Cost
    BY <1>2, <2>1 DEF TypeOK, AllowNew, Level, Replenished, Smaller
  <2>3. QED
    BY <1>1, <1>2, <2>2 DEF AllowNew
<1>3. CASE AllowKnown(ip)
  <2>1. Level(ip) = Replenished(ip) /\ Replenished(ip) \in 0..Cap
    BY <1>3, ReplenishedType DEF AllowKnown, Level
  <2>2. lastSeen'[ip] = now /\ now' = now /\ ip \in visitors'
    BY <1>3 DEF TypeOK, AllowKnown
  <2>3. ASSUME NEW t \in 0..Cap, tokens' = [tokens EXCEPT ![ip] = t]
        PROVE  Level(ip)' = t
    BY <2>2, <2>3 DEF TypeOK, Level, Replenished, Smaller
  <2>4. CASE Replenished(ip) >= Cost
    <3>1. Replenished(ip) - Cost \in 0..Cap
      BY <2>1, <2>4
    <3>2. tokens' = [tokens EXCEPT ![ip] = Replenished(ip) - Cost]
      BY <1>3, <2>1, <2>4 DEF AllowKnown
    <3>3. Level(ip)' = Replenished(ip) - Cost
      BY <2>3, <3>1, <3>2
    <3>4. QED
      BY <1>1, <1>3, <2>1, <2>4, <3>3 DEF AllowKnown
  <2>5. CASE Replenished(ip) < Cost
    <3>1. tokens' = [tokens EXCEPT ![ip] = Replenished(ip)]
      BY <1>3, <2>1, <2>5 DEF AllowKnown
    <3>2. Level(ip)' = Replenished(ip)
      BY <2>1, <2>3, <3>1
    <3>3. QED
      BY <1>1, <1>3, <2>1, <2>5, <3>2 DEF AllowKnown
  <2>6. QED
    BY <2>1, <2>4, <2>5
<1>4. QED
  BY <1>2, <1>3

-----------------------------------------------------------------------------
(* The admission bound *)

\* The account that strengthens AdmissionBound: what has been spent since the
\* mark and what is left do not exceed a full bucket and what was gained.
Balanced == \A ip \in IPs : spent[ip] + Level(ip) <= Cap + (now - markAt)

\* Safety: in no interval does the limiter admit more than a burst and the rate
\* allow, although entries are updated lazily and the sweep forgets visitors.
THEOREM NeverOverAdmits == Spec => []AdmissionBound
<1>1. Init => Balanced
  <2> SUFFICES ASSUME Init, NEW ip \in IPs
               PROVE  spent[ip] + Level(ip) <= Cap + (now - markAt)
    BY DEF Balanced
  <2>1. Level(ip) = Cap /\ spent[ip] = 0 /\ now - markAt = 0
    BY DEF Init, Level
  <2>2. QED
    BY <2>1
<1>2. TypeOK /\ Balanced /\ [Next]_vars => Balanced'
  <2> SUFFICES ASSUME TypeOK, Balanced, [Next]_vars PROVE Balanced'
    OBVIOUS
  <2>1. \A j \in IPs : Level(j) \in 0..Cap /\ spent[j] \in Nat
    BY LevelType DEF TypeOK
  <2>2. now \in Nat /\ markAt \in Nat /\ markAt <= now
    BY DEF TypeOK
  <2>3. ASSUME NEW ip \in IPs, AllowNew(ip) \/ AllowKnown(ip) PROVE Balanced'
    <3> SUFFICES ASSUME NEW j \in IPs
                 PROVE  spent'[j] + Level(j)' <= Cap + (now' - markAt')
      BY DEF Balanced
    <3>1. UNCHANGED <<now, markAt>> /\ (j # ip => Level(j)' = Level(j) /\ spent'[j] = spent[j])
      BY <2>3, AllowPays DEF TypeOK
    <3>2. ip = j => spent'[j] + Level(j)' = spent[j] + Level(j)
      BY <2>1, <2>3, AllowPays DEF TypeOK
    <3>3. QED
      BY <2>1, <2>2, <3>1, <3>2 DEF Balanced
  <2>4. CASE Cleanup
    BY <2>4, CleanupKeepsLevels DEF Balanced, Cleanup
  <2>5. CASE Tick
    <3> SUFFICES ASSUME NEW j \in IPs
                 PROVE  spent'[j] + Level(j)' <= Cap + (now' - markAt')
      BY DEF Balanced
    <3>1. Level(j)' = Smaller(Cap, Level(j) + 1)
      BY <2>5, TickRefills
    <3>2. Level(j)' <= Level(j) + 1 /\ Level(j)' \in Int
      BY <2>1, <3>1 DEF Smaller
    <3>3. QED
      BY <2>1, <2>2, <2>5, <3>2 DEF Balanced, Tick
  <2>6. CASE Mark
    <3>1. \A j \in IPs : Level(j)' = Level(j)
      BY <2>6 DEF Mark, Level, Replenished, Smaller, sweepVars
    <3>2. QED
      BY <2>1, <2>2, <2>6, <3>1 DEF Balanced, Mark
  <2>7. CASE Stop \/ UNCHANGED vars
    <3>1. \A j \in IPs : Level(j)' = Level(j)
      BY <2>7 DEF Stop, vars, Level, Replenished, Smaller
    <3>2. QED
      BY <2>7, <3>1 DEF Balanced, Stop, vars
  <2>8. QED
    BY <2>3, <2>4, <2>5, <2>6, <2>7 DEF Next
<1>3. TypeOK /\ Balanced => AdmissionBound
  <2> SUFFICES ASSUME TypeOK, Balanced, NEW ip \in IPs
               PROVE  spent[ip] <= Cap + (now - markAt)
    BY DEF AdmissionBound
  <2>1. Level(ip) \in 0..Cap
    BY LevelType
  <2>2. QED
    BY <2>1 DEF TypeOK, Balanced
<1>4. QED
  BY <1>1, <1>2, <1>3, TypeCorrect, PTL DEF Spec

-----------------------------------------------------------------------------
\* Action property: a client that keeps to the rate (requests at least Cost
\* apart) is never answered 429.
THEOREM PacedClientsServed == Spec => PacedNeverDenied
<1> DEFINE Paced == \A ip \in IPs :
             ip \in visitors' /\ lastSeen'[ip] # lastSeen[ip] /\ reply'[ip] = "limited"
               => now - lastSeen[ip] < Cost
<1>1. TypeOK /\ [Next]_vars => [Paced]_vars
  <2> SUFFICES ASSUME TypeOK, Next PROVE Paced
    OBVIOUS
  <2>1. ASSUME NEW ip \in IPs, AllowNew(ip) PROVE Paced
    BY <2>1 DEF TypeOK, AllowNew
  <2>2. ASSUME NEW ip \in IPs, AllowKnown(ip) PROVE Paced
    <3>1. now - lastSeen[ip] >= Cost => Replenished(ip) >= Cost
      BY DEF TypeOK, Replenished, Smaller
    <3>2. Replenished(ip) \in 0..Cap
      BY ReplenishedType
    <3>3. now - lastSeen[ip] \in Int
      BY DEF TypeOK
    <3>4. \A j \in IPs : lastSeen'[j] # lastSeen[j] => j = ip
      BY <2>2 DEF TypeOK, AllowKnown
    <3>5. reply'[ip] = "limited" => now - lastSeen[ip] < Cost
      BY <2>2, <3>1, <3>2, <3>3 DEF TypeOK, AllowKnown
    <3>6. QED
      BY <3>4, <3>5
  <2>3. CASE Cleanup \/ Stop \/ Tick \/ Mark
    BY <2>3 DEF Cleanup, Stop, Tick, Mark
  <2>4. QED
    BY <2>1, <2>2, <2>3 DEF Next
<1>2. QED
  BY <1>1, TypeCorrect, PTL DEF Spec, PacedNeverDenied

-----------------------------------------------------------------------------
\* What each sweep leaves behind: the last sweep was at nextSweep - SweepEvery,
\* and every entry was fresh then or is younger.
SweepInv ==
    sweeping =>
        /\ now <= nextSweep
        /\ nextSweep <= now + SweepEvery
        /\ \A ip \in visitors : nextSweep - lastSeen[ip] <= StaleAfter + SweepEvery

\* Safety: no entry outlives its address's last request by more than StaleAfter
\* and one period of the sweep.
THEOREM EntriesAreSwept == Spec => []EntriesExpire
<1>1. Init => SweepInv
  BY DEF Init, SweepInv
<1>2. TypeOK /\ SweepInv /\ [Next]_vars => SweepInv'
  <2> SUFFICES ASSUME TypeOK, SweepInv, [Next]_vars PROVE SweepInv'
    OBVIOUS
  <2> USE DEF TypeOK, SweepInv, sweepVars
  <2>1. ASSUME NEW ip \in IPs, AllowNew(ip) PROVE SweepInv'
    BY <2>1 DEF AllowNew
  <2>2. ASSUME NEW ip \in IPs, AllowKnown(ip) PROVE SweepInv'
    BY <2>2 DEF AllowKnown
  <2>3. CASE Cleanup
    BY <2>3 DEF Cleanup, Stale
  <2>4. CASE Tick
    BY <2>4 DEF Tick
  <2>5. CASE Stop \/ Mark \/ UNCHANGED vars
    BY <2>5 DEF Stop, Mark, vars
  <2>6. QED
    BY <2>1, <2>2, <2>3, <2>4, <2>5 DEF Next
<1>3. TypeOK /\ SweepInv => EntriesExpire
  <2> SUFFICES ASSUME TypeOK, SweepInv, sweeping, NEW ip \in visitors
               PROVE  now - lastSeen[ip] <= StaleAfter + SweepEvery
    BY DEF EntriesExpire
  <2>1. now \in Nat /\ nextSweep \in Nat /\ lastSeen[ip] \in Nat
    BY DEF TypeOK
  <2>2. now <= nextSweep /\ nextSweep - lastSeen[ip] <= StaleAfter + SweepEvery
    BY DEF SweepInv
  <2>3. QED
    BY <2>1, <2>2
<1>4. QED
  BY <1>1, <1>2, <1>3, TypeCorrect, PTL DEF Spec

-----------------------------------------------------------------------------
\* Refinement: the limiter implements TokenBucket, a bucket per address that is
\* never forgotten, with Level as the bucket.
THEOREM LimiterImplementsBucket == Spec => ImplementsTokenBucket
<1> DEFINE lv == [ip \in IPs |-> Level(ip)]
<1>1. Init => Bucket!Init
  BY DEF Init, Bucket!Init, Level
<1>2. TypeOK /\ [Next]_vars => [Bucket!Next]_(Bucket!vars)
  <2> SUFFICES ASSUME TypeOK, [Next]_vars PROVE Bucket!Next \/ UNCHANGED Bucket!vars
    OBVIOUS
  <2>1. lv' = [ip \in IPs |-> Level(ip)']
    OBVIOUS
  <2>2. ASSUME NEW ip \in IPs, AllowNew(ip) \/ AllowKnown(ip)
        PROVE  Bucket!Admit(ip) \/ Bucket!Deny(ip)
    <3>1. CASE /\ Level(ip) >= Cost
               /\ Level(ip)' = Level(ip) - Cost
               /\ reply' = [reply EXCEPT ![ip] = "ok"]
      <4>1. lv' = [lv EXCEPT ![ip] = @ - Cost]
        BY <2>1, <2>2, <3>1, AllowPays
      <4>2. QED
        BY <3>1, <4>1 DEF Bucket!Admit
    <3>2. CASE /\ Level(ip) < Cost
               /\ Level(ip)' = Level(ip)
               /\ reply' = [reply EXCEPT ![ip] = "limited"]
      <4>1. lv' = lv
        BY <2>1, <2>2, <3>2, AllowPays
      <4>2. QED
        BY <3>2, <4>1 DEF Bucket!Deny
    <3>3. QED
      BY <2>2, <3>1, <3>2, AllowPays
  <2>3. CASE Cleanup
    <3>1. lv' = lv
      BY <2>1, <2>3, CleanupKeepsLevels
    <3>2. QED
      BY <2>3, <3>1 DEF Cleanup, Bucket!vars
  <2>4. CASE Tick
    <3>1. lv' = [ip \in IPs |-> Bucket!Smaller(Cap, lv[ip] + 1)]
      BY <2>1, <2>4, TickRefills DEF Smaller, Bucket!Smaller
    <3>2. QED
      BY <2>4, <3>1 DEF Tick, Bucket!Next, Bucket!Refill
  <2>5. CASE Stop \/ Mark \/ UNCHANGED vars
    <3>1. lv' = lv
      BY <2>1, <2>5 DEF Stop, Mark, vars, Level, Replenished, Smaller, sweepVars
    <3>2. QED
      BY <2>5, <3>1 DEF Stop, Mark, vars, Bucket!vars
  <2>6. QED
    BY <2>2, <2>3, <2>4, <2>5 DEF Next, Bucket!Next
<1>3. QED
  BY <1>1, <1>2, TypeCorrect, PTL DEF Spec, ImplementsTokenBucket, Bucket!Spec
=============================================================================
