------------------------- MODULE RateLimiter_proofs -------------------------
(* Theorems about RateLimiter, for every number of calls, keys, minutes and  *)
(* restarts.                                                                 *)
EXTENDS RateLimiter, Functions, FiniteSetTheorems, TLAPS

-----------------------------------------------------------------------------
(* Types. A call under way knows its key, and its pipeline is at most a      *)
(* minute late; only a finished call has a verdict.                          *)

CallOK(r) ==
  /\ pc[r] \in {"increment", "fallback"} => call[r] \in [key : Keys, minute : 0 .. now]
  /\ pc[r] = "increment" => call[r].minute >= now - 1
  /\ pc[r] # "done" => verdict[r] = NoVerdict

TInv == TypeOK /\ IsFiniteSet(DOMAIN local) /\ \A r \in Requests : CallOK(r)

LEMMA NowMinute == TInv => now \in Nat /\ 0 .. now \subseteq Minutes
  BY BoundsAssumption DEF TInv, TypeOK, Minutes

LEMMA NoVerdictIsNone == NoVerdict \notin Verdicts
  BY DEF NoVerdict, Verdicts

\* What a decision writes down.
NewVerdict(r, backend, minute, epoch, count) ==
  [outcome |-> IF Over(count) THEN "limited" ELSE "passed", backend |-> backend,
   key |-> call[r].key, minute |-> minute, life |-> epoch, count |-> count]

\* A decision is about r alone.
LEMMA DecideMoves ==
  ASSUME TInv, NEW r \in Requests, pc[r] \in {"increment", "fallback"},
         NEW backend \in {"redis", "memory"}, NEW minute \in Minutes,
         NEW epoch \in 0 .. MaxRestarts, NEW count \in Nat,
         Decide(r, backend, minute, epoch, count)
  PROVE  /\ pc' = [pc EXCEPT ![r] = "done"]
         /\ NewVerdict(r, backend, minute, epoch, count) \in Verdicts
         /\ verdict' = [verdict EXCEPT ![r] = NewVerdict(r, backend, minute, epoch, count)]
         /\ verdict' \in [Requests -> Verdicts \cup {NoVerdict}]
         /\ verdict[r] = NoVerdict
  <1>1. call[r].key \in Keys /\ verdict[r] = NoVerdict
    BY DEF TInv, CallOK
  <1>2. NewVerdict(r, backend, minute, epoch, count) \in Verdicts
    BY <1>1 DEF NewVerdict, Verdicts
  <1> QED
    BY <1>1, <1>2 DEF Decide, Goto, NewVerdict, TInv, TypeOK

LEMMA InitTypes == Init => TInv
  <1> SUFFICES ASSUME Init PROVE TInv
    OBVIOUS
  <1>1. now \in Minutes /\ life \in 0 .. MaxRestarts
    BY BoundsAssumption DEF Init, Minutes
  <1>2. DOMAIN local = {}
    BY DEF Init
  <1>3. TypeOK
    BY <1>1, <1>2 DEF Init, TypeOK
  <1>4. \A r \in Requests : CallOK(r)
    BY DEF Init, CallOK
  <1> QED
    BY <1>2, <1>3, <1>4, FS_EmptySet DEF TInv

LEMMA ArriveTypes ==
  ASSUME TInv, NEW r \in Requests, NEW k \in Keys, Arrive(r, k)
  PROVE  TInv'
  <1>1. /\ pc' = [pc EXCEPT ![r] = "increment"]
        /\ call' = [call EXCEPT ![r] = [key |-> k, minute |-> now]]
        /\ UNCHANGED <<now, life, shared, local, verdict>>
    BY DEF Arrive, Goto
  <1>2. TypeOK'
    BY <1>1 DEF TInv, TypeOK
  <1>3. \A q \in Requests : CallOK(q)'
    BY <1>1, NowMinute DEF Arrive, TInv, TypeOK, CallOK
  <1> QED
    BY <1>1, <1>2, <1>3 DEF TInv

LEMMA CountedTypes ==
  ASSUME TInv, NEW r \in Requests, pc[r] = "increment", Counted(r)
  PROVE  /\ call[r].key \in Keys /\ call[r].minute \in Minutes
         /\ shared' \in [Keys -> [Minutes -> Nat]]
         /\ shared[call[r].key][call[r].minute] \in Nat
  BY NowMinute DEF Counted, TInv, TypeOK, CallOK

LEMMA IncrementTypes ==
  ASSUME TInv, NEW r \in Requests, Increment(r)
  PROVE  TInv'
  <1> DEFINE count == shared[call[r].key][call[r].minute] + 1
  <1>1. /\ pc[r] = "increment" /\ call[r].minute \in Minutes /\ count \in Nat
        /\ shared' \in [Keys -> [Minutes -> Nat]] /\ UNCHANGED <<now, life, local, call>>
    <2>1. pc[r] = "increment" /\ Counted(r) /\ UNCHANGED <<now, life, local, call>>
      BY DEF Increment
    <2>2. /\ call[r].minute \in Minutes /\ shared' \in [Keys -> [Minutes -> Nat]]
          /\ shared[call[r].key][call[r].minute] \in Nat
      BY <2>1, CountedTypes
    <2> QED
      BY <2>1, <2>2
  <1>2. 0 \in 0 .. MaxRestarts
    BY BoundsAssumption
  <1>3. /\ pc' = [pc EXCEPT ![r] = "done"]
        /\ verdict' \in [Requests -> Verdicts \cup {NoVerdict}]
        /\ \A q \in Requests \ {r} : verdict'[q] = verdict[q]
    BY <1>1, <1>2, DecideMoves DEF Increment, TInv, TypeOK
  <1>4. TypeOK'
    BY <1>1, <1>3 DEF TInv, TypeOK
  <1>5. \A q \in Requests : CallOK(q)'
    BY <1>1, <1>3 DEF TInv, TypeOK, CallOK
  <1> QED
    BY <1>1, <1>4, <1>5 DEF TInv

LEMMA FailTypes ==
  ASSUME TInv, NEW r \in Requests, IncrementFails(r) \/ IncrementLost(r)
  PROVE  TInv'
  <1>1. /\ pc[r] = "increment" /\ pc' = [pc EXCEPT ![r] = "fallback"]
        /\ UNCHANGED <<now, life, local, call, verdict>>
    BY DEF IncrementFails, IncrementLost, Goto
  <1>2. shared' \in [Keys -> [Minutes -> Nat]]
    BY CountedTypes DEF IncrementFails, IncrementLost, TInv, TypeOK
  <1>3. TypeOK'
    BY <1>1, <1>2 DEF TInv, TypeOK
  <1>4. \A q \in Requests : CallOK(q)'
    BY <1>1 DEF TInv, TypeOK, CallOK
  <1> QED
    BY <1>1, <1>3, <1>4 DEF TInv

\* Cleaning keeps some of the buckets, all of them below the threshold and those
\* of the minute and later otherwise.
LEMMA CleanedBuckets ==
  ASSUME TInv
  PROVE  /\ DOMAIN Cleaned(now) \subseteq DOMAIN local
         /\ \A k \in DOMAIN Cleaned(now) : Cleaned(now)[k] = local[k]
         /\ \A k \in DOMAIN local : local[k].minute = now => k \in DOMAIN Cleaned(now)
         /\ \/ Cardinality(DOMAIN local) < Threshold
            \/ \A k \in DOMAIN Cleaned(now) : local[k].minute >= now
  <1>1. \A k \in DOMAIN local : local[k].minute \in Nat
    BY DEF TInv, TypeOK
  <1> QED
    BY <1>1, NowMinute DEF Cleaned

\* What counting in the map does to it: the bucket of the key is of this minute and
\* counts one more, the others are kept or dropped.
LocalCount(r) == CountIn(Cleaned(now), call[r].key, now) + 1

LEMMA LocalSteps ==
  ASSUME TInv, NEW r \in Requests, IncrementLocal(r)
  PROVE  /\ pc[r] = "fallback" /\ call[r].key \in Keys
         /\ LocalCount(r) \in Nat \ {0}
         /\ Decide(r, "memory", now, life, LocalCount(r))
         /\ DOMAIN local' = DOMAIN Cleaned(now) \cup {call[r].key}
         /\ local'[call[r].key] = [minute |-> now, count |-> LocalCount(r)]
         /\ \A k \in DOMAIN local' \ {call[r].key} : k \in DOMAIN local /\ local'[k] = local[k]
         /\ UNCHANGED <<now, life, shared, call>>
  <1>1. call[r].key \in Keys
    BY DEF IncrementLocal, TInv, CallOK
  <1>2. CountIn(Cleaned(now), call[r].key, now) \in Nat
    BY CleanedBuckets DEF CountIn, TInv, TypeOK
  <1> QED
    BY <1>1, <1>2, CleanedBuckets DEF IncrementLocal, LocalMinute, LocalCount

LEMMA IncrementLocalTypes ==
  ASSUME TInv, NEW r \in Requests, IncrementLocal(r)
  PROVE  TInv'
  <1>1. now \in Minutes /\ now \in 0 .. now /\ life \in 0 .. MaxRestarts
    BY NowMinute DEF TInv, TypeOK
  <1>2. /\ pc' = [pc EXCEPT ![r] = "done"]
        /\ verdict' \in [Requests -> Verdicts \cup {NoVerdict}]
        /\ \A q \in Requests \ {r} : verdict'[q] = verdict[q]
    <2>1. /\ pc[r] \in {"increment", "fallback"} /\ LocalCount(r) \in Nat
          /\ Decide(r, "memory", now, life, LocalCount(r))
      BY LocalSteps
    <2>2. /\ pc' = [pc EXCEPT ![r] = "done"]
          /\ verdict' \in [Requests -> Verdicts \cup {NoVerdict}]
          /\ verdict' = [verdict EXCEPT ![r] = NewVerdict(r, "memory", now, life, LocalCount(r))]
      BY <1>1, <2>1, DecideMoves
    <2> QED
      BY <2>2 DEF TInv, TypeOK
  <1>3. DOMAIN local' \subseteq Keys
    BY LocalSteps, CleanedBuckets DEF TInv, TypeOK
  <1>4. \A k \in DOMAIN local' : local'[k] \in [minute : 0 .. now', count : Nat \ {0}]
    <2> SUFFICES ASSUME NEW k \in DOMAIN local'
                 PROVE  local'[k] \in [minute : 0 .. now, count : Nat \ {0}]
      BY LocalSteps
    <2>1. CASE k = call[r].key
      <3>1. /\ local'[call[r].key] = [minute |-> now, count |-> LocalCount(r)]
            /\ LocalCount(r) \in Nat \ {0}
        BY LocalSteps
      <3>2. PICK n \in Nat \ {0} : local'[k] = [minute |-> now, count |-> n]
        BY <2>1, <3>1
      <3>3. now \in 0 .. now
        BY <1>1, NowMinute
      <3> QED
        BY <3>2, <3>3
    <2>2. CASE k # call[r].key
      <3>1. k \in DOMAIN local /\ local'[k] = local[k]
        BY <2>2, LocalSteps
      <3>2. \A j \in DOMAIN local : local[j] \in [minute : 0 .. now, count : Nat \ {0}]
        BY DEF TInv, TypeOK
      <3> QED
        BY <3>1, <3>2
    <2> QED
      BY <2>1, <2>2
  <1>5. IsFiniteSet(DOMAIN local')
    <2>1. IsFiniteSet(DOMAIN Cleaned(now))
      BY CleanedBuckets, FS_Subset DEF TInv
    <2>2. DOMAIN local' = DOMAIN Cleaned(now) \cup {call[r].key}
      BY LocalSteps
    <2> QED
      BY <2>1, <2>2, FS_AddElement
  <1>6. TypeOK'
    BY <1>2, <1>3, <1>4, LocalSteps DEF TInv, TypeOK
  <1>7. \A q \in Requests : CallOK(q)'
    BY <1>2, LocalSteps DEF TInv, TypeOK, CallOK
  <1> QED
    BY <1>5, <1>6, <1>7 DEF TInv

LEMMA ExpireTypes ==
  ASSUME TInv, Expire
  PROVE  TInv'
  <1>1. shared' \in [Keys -> [Minutes -> Nat]] /\ UNCHANGED <<now, life, local, pc, call, verdict>>
    BY DEF Expire, TInv, TypeOK
  <1> QED
    BY <1>1 DEF TInv, TypeOK, CallOK

LEMMA TickTypes ==
  ASSUME TInv, Tick
  PROVE  TInv'
  <1>1. /\ now' = now + 1 /\ now \in Nat /\ now' \in Minutes /\ 0 .. now \subseteq 0 .. now'
        /\ UNCHANGED <<life, shared, local, pc, call, verdict>>
    BY NowMinute, BoundsAssumption DEF Tick, TInv, TypeOK, Minutes
  <1>2. \A k \in DOMAIN local' : local'[k] \in [minute : 0 .. now', count : Nat \ {0}]
    BY <1>1 DEF TInv, TypeOK
  <1>3. TypeOK'
    BY <1>1, <1>2 DEF TInv, TypeOK
  <1>4. \A q \in Requests : CallOK(q)'
    BY <1>1 DEF Tick, TInv, CallOK
  <1> QED
    BY <1>1, <1>3, <1>4 DEF TInv

LEMMA RestartTypes ==
  ASSUME TInv, Restart
  PROVE  TInv'
  <1>1. /\ life' \in 0 .. MaxRestarts /\ DOMAIN local' = {}
        /\ \A r \in Requests : pc'[r] \in {"idle", "done"} /\ (pc'[r] # "done" => pc[r] # "done")
        /\ UNCHANGED <<now, shared, call, verdict>>
    BY BoundsAssumption DEF Restart, TInv, TypeOK
  <1>2. TypeOK'
    BY <1>1 DEF Restart, TInv, TypeOK
  <1>3. \A q \in Requests : CallOK(q)'
    BY <1>1 DEF TInv, CallOK
  <1> QED
    BY <1>1, <1>2, <1>3, FS_EmptySet DEF TInv

LEMMA NextTypes ==
  ASSUME TInv, [Next]_vars
  PROVE  TInv'
  <1>1. CASE UNCHANGED vars
    BY <1>1 DEF vars, TInv, TypeOK, CallOK
  <1> QED
    BY <1>1, ArriveTypes, IncrementTypes, FailTypes, IncrementLocalTypes, ExpireTypes, TickTypes,
       RestartTypes DEF Next, Finished

\* No bucket of the map is ever of a minute to come, no count of it zero, and every
\* decision names the counter it was made on.
THEOREM TypeCorrect == Spec => []TypeOK
  <1>1. Spec => []TInv
    BY InitTypes, NextTypes, PTL DEF Spec
  <1>2. TInv => TypeOK
    BY DEF TInv
  <1> QED
    BY <1>1, <1>2, PTL

-----------------------------------------------------------------------------
(* Counters. The calls a counter has decided were given different counts,    *)
(* none above what the counter says while it can still be counted on: in     *)
(* Redis up to the minute after its own (it does not expire before), in the  *)
(* map in its own minute and process.                                        *)

Decided == {r \in Requests : verdict[r] # NoVerdict}

VerdictOK(v) ==
  /\ v.outcome = IF Over(v.count) THEN "limited" ELSE "passed"
  /\ v.count > 0
  /\ v.backend = "redis" /\ v.minute >= now - 1 => v.count <= shared[v.key][v.minute]
  /\ v.backend = "memory" => v.minute <= now /\ v.life <= life
  /\ v.backend = "memory" /\ v.minute = now /\ v.life = life =>
       /\ v.key \in DOMAIN local
       /\ local[v.key].minute = now
       /\ v.count <= local[v.key].count

CountersOK ==
  /\ IsFiniteSet(Decided)
  /\ \A r \in Decided : VerdictOK(verdict[r])
  /\ \A r, s \in Decided :
       SameCounter(verdict[r], verdict[s]) /\ verdict[r].count = verdict[s].count => r = s

LEMMA DecidedTypes ==
  ASSUME TInv, NEW r \in Decided
  PROVE  verdict[r] \in Verdicts
  BY DEF TInv, TypeOK, Decided

LEMMA InitCounters == Init => CountersOK
  <1> SUFFICES ASSUME Init PROVE CountersOK
    OBVIOUS
  <1>1. Decided = {}
    BY DEF Init, Decided
  <1> QED
    BY <1>1, FS_EmptySet DEF CountersOK

\* What the counters say of the current minute only grows; a minute may end and the
\* process may be restarted.
Growing ==
  /\ now' >= now /\ life' >= life
  /\ \A k \in Keys, m \in Minutes : m >= now' - 1 => shared'[k][m] >= shared[k][m]
  /\ now' = now /\ life' = life => \A k \in DOMAIN local : local[k].minute = now =>
       k \in DOMAIN local' /\ local'[k].minute = now /\ local'[k].count >= local[k].count

LEMMA VerdictStays ==
  ASSUME TInv, TInv', Growing, NEW v \in Verdicts, VerdictOK(v)
  PROVE  VerdictOK(v)'
  <1>1. /\ now \in Nat /\ now' \in Nat /\ life \in Nat /\ life' \in Nat
        /\ shared \in [Keys -> [Minutes -> Nat]] /\ shared' \in [Keys -> [Minutes -> Nat]]
    BY DEF TInv, TypeOK, Minutes
  <1>2. /\ v.key \in Keys /\ v.minute \in Minutes /\ v.minute \in Nat
        /\ v.life \in Nat /\ v.count \in Nat
    BY DEF Verdicts, Minutes
  <1>3. v.backend = "redis" /\ v.minute >= now' - 1 => v.count <= shared'[v.key][v.minute]
    BY <1>1, <1>2 DEF VerdictOK, Growing
  <1>4. v.backend = "memory" => v.minute <= now' /\ v.life <= life'
    BY <1>1, <1>2 DEF VerdictOK, Growing
  <1>5. v.backend = "memory" /\ v.minute = now' /\ v.life = life' =>
          v.key \in DOMAIN local' /\ local'[v.key].minute = now' /\ v.count <= local'[v.key].count
    <2> SUFFICES ASSUME v.backend = "memory", v.minute = now', v.life = life'
                 PROVE  /\ v.key \in DOMAIN local' /\ local'[v.key].minute = now'
                        /\ v.count <= local'[v.key].count
      OBVIOUS
    <2>1. now' = now /\ life' = life
      BY <1>1, <1>2 DEF VerdictOK, Growing
    <2>2. v.key \in DOMAIN local /\ local[v.key].minute = now /\ v.count <= local[v.key].count
      BY <2>1 DEF VerdictOK
    <2>3. v.key \in DOMAIN local' /\ local'[v.key].minute = now /\ local'[v.key].count >= local[v.key].count
      BY <2>1, <2>2 DEF Growing
    <2>4. local[v.key].count \in Nat /\ local'[v.key].count \in Nat
      BY <2>2, <2>3 DEF TInv, TypeOK
    <2> QED
      BY <1>2, <2>1, <2>2, <2>3, <2>4
  <1> QED
    BY <1>3, <1>4, <1>5 DEF VerdictOK, Over

LEMMA QuietCounters ==
  ASSUME TInv, TInv', CountersOK, UNCHANGED verdict, Growing
  PROVE  CountersOK'
  <1>1. Decided' = Decided
    BY DEF Decided
  <1>2. ASSUME NEW r \in Decided PROVE VerdictOK(verdict[r])'
    <2>1. PICK v \in Verdicts : v = verdict[r]
      BY <1>2, DecidedTypes
    <2>2. VerdictOK(v)
      BY <1>2, <2>1 DEF CountersOK
    <2>3. VerdictOK(v)'
      BY <2>2, VerdictStays
    <2>4. verdict'[r] = v
      BY <2>1
    <2> QED
      BY <2>3, <2>4
  <1> QED
    BY <1>1, <1>2 DEF CountersOK

\* A decision is sound if its count is above all counts of its counter so far, and the
\* counter says it afterwards.
LEMMA DecidedCounters ==
  ASSUME TInv, TInv', CountersOK, NEW r \in Requests, NEW v \in Verdicts, verdict[r] = NoVerdict,
         verdict' = [verdict EXCEPT ![r] = v],
         \A s \in Decided : SameCounter(verdict[s], v) => verdict[s].count < v.count,
         VerdictOK(v)', Growing
  PROVE  CountersOK'
  <1>1. r \notin Decided /\ Decided' = Decided \cup {r} /\ verdict'[r] = v
    BY NoVerdictIsNone DEF Decided, TInv, TypeOK
  <1>2. \A s \in Decided : verdict'[s] = verdict[s] /\ verdict[s].count \in Nat
    <2> SUFFICES ASSUME NEW s \in Decided PROVE verdict'[s] = verdict[s] /\ verdict[s].count \in Nat
      OBVIOUS
    <2>1. verdict[s] \in Verdicts
      BY DecidedTypes
    <2> QED
      BY <1>1, <2>1 DEF Decided, TInv, TypeOK, Verdicts
  <1>3. IsFiniteSet(Decided')
    BY <1>1, FS_AddElement DEF CountersOK
  <1>4. ASSUME NEW s \in Decided' PROVE VerdictOK(verdict[s])'
    <2>1. CASE s = r
      BY <1>1, <2>1
    <2>2. CASE s \in Decided
      <3>1. PICK w \in Verdicts : w = verdict[s]
        BY <2>2, DecidedTypes
      <3>2. VerdictOK(w)
        BY <2>2, <3>1 DEF CountersOK
      <3>3. VerdictOK(w)'
        BY <3>2, VerdictStays
      <3>4. verdict'[s] = w
        BY <1>2, <2>2, <3>1
      <3> QED
        BY <3>3, <3>4
    <2> QED
      BY <1>1, <2>1, <2>2
  <1>5. ASSUME NEW s \in Decided', NEW t \in Decided',
               SameCounter(verdict'[s], verdict'[t]), verdict'[s].count = verdict'[t].count
        PROVE  s = t
    <2>1. CASE s \in Decided /\ t \in Decided
      BY <1>2, <1>5, <2>1 DEF CountersOK
    <2>2. CASE s \in Decided /\ t = r
      <3>1. SameCounter(verdict[s], v) /\ verdict[s].count = v.count
        BY <1>1, <1>2, <1>5, <2>2
      <3> QED
        BY <1>2, <2>2, <3>1
    <2>3. CASE s = r /\ t \in Decided
      <3>1. SameCounter(verdict[t], v) /\ verdict[t].count = v.count
        BY <1>1, <1>2, <1>5, <2>3 DEF SameCounter
      <3> QED
        BY <1>2, <2>3, <3>1
    <2> QED
      BY <1>1, <2>1, <2>2, <2>3
  <1> QED
    BY <1>3, <1>4, <1>5 DEF CountersOK

LEMMA IncrementCounters ==
  ASSUME TInv, TInv', CountersOK, NEW r \in Requests, Increment(r)
  PROVE  CountersOK'
  <1>1. PICK k \in Keys, m \in Minutes : k = call[r].key /\ m = call[r].minute
    BY CountedTypes DEF Increment
  <1>2. PICK n \in Nat : n = shared[k][m]
    BY <1>1 DEF TInv, TypeOK
  <1>3. /\ pc[r] = "increment" /\ Decide(r, "redis", m, 0, n + 1) /\ UNCHANGED <<now, life, local>>
        /\ shared' = [shared EXCEPT ![k][m] = @ + 1]
    BY <1>1, <1>2 DEF Increment, Counted
  <1>4. PICK v : v = NewVerdict(r, "redis", m, 0, n + 1)
    OBVIOUS
  <1>5. v \in Verdicts /\ verdict[r] = NoVerdict /\ verdict' = [verdict EXCEPT ![r] = v]
    <2>1. 0 \in 0 .. MaxRestarts /\ n + 1 \in Nat
      BY BoundsAssumption
    <2> QED
      BY <1>3, <1>4, <2>1, DecideMoves
  <1>6. /\ v.outcome = IF Over(n + 1) THEN "limited" ELSE "passed"
        /\ v.backend = "redis" /\ v.key = k /\ v.minute = m /\ v.count = n + 1
    BY <1>1, <1>4 DEF NewVerdict
  <1>7. m \in Nat /\ now \in Nat /\ m >= now - 1
    BY <1>1, <1>3 DEF TInv, TypeOK, CallOK, Minutes
  <1>8. shared'[k][m] = n + 1 /\ \A j \in Keys, i \in Minutes : shared'[j][i] >= shared[j][i]
    BY <1>2, <1>3 DEF TInv, TypeOK
  <1>9. Growing
    <2>1. \A j \in DOMAIN local : local[j].count \in Nat
      BY DEF TInv, TypeOK
    <2>2. now >= now /\ life >= life
      BY <1>7 DEF TInv, TypeOK
    <2> QED
      BY <1>3, <1>8, <2>1, <2>2 DEF Growing
  <1>10. VerdictOK(v)'
    BY <1>6, <1>8, <1>2 DEF VerdictOK, Over
  <1>11. ASSUME NEW s \in Decided, SameCounter(verdict[s], v) PROVE verdict[s].count < v.count
    <2>1. verdict[s].backend = "redis" /\ verdict[s].key = k /\ verdict[s].minute = m
      BY <1>6, <1>11 DEF SameCounter
    <2>2. verdict[s].count <= n
      BY <1>2, <1>7, <1>11, <2>1 DEF CountersOK, VerdictOK
    <2>3. verdict[s].count \in Nat
      BY <1>11, DecidedTypes DEF Verdicts
    <2> QED
      BY <1>6, <2>2, <2>3
  <1> QED
    BY <1>5, <1>9, <1>10, <1>11, DecidedCounters

LEMMA IncrementLocalCounters ==
  ASSUME TInv, TInv', CountersOK, NEW r \in Requests, IncrementLocal(r)
  PROVE  CountersOK'
  <1>1. PICK k \in Keys : k = call[r].key
    BY LocalSteps
  <1>2. PICK n \in Nat \ {0} : n = LocalCount(r)
    BY LocalSteps
  <1>3. /\ pc[r] = "fallback" /\ Decide(r, "memory", now, life, n) /\ UNCHANGED <<now, life, shared>>
        /\ k \in DOMAIN local' /\ local'[k] = [minute |-> now, count |-> n]
    BY <1>1, <1>2, LocalSteps
  <1>4. PICK v : v = NewVerdict(r, "memory", now, life, n)
    OBVIOUS
  <1>5. v \in Verdicts /\ verdict[r] = NoVerdict /\ verdict' = [verdict EXCEPT ![r] = v]
    <2>1. now \in Minutes /\ life \in 0 .. MaxRestarts
      BY DEF TInv, TypeOK
    <2> QED
      BY <1>2, <1>3, <1>4, <2>1, DecideMoves
  <1>6. /\ v.outcome = IF Over(n) THEN "limited" ELSE "passed"
        /\ v.backend = "memory" /\ v.key = k /\ v.minute = now /\ v.life = life /\ v.count = n
    BY <1>1, <1>4 DEF NewVerdict
  <1>7. now \in Nat /\ life \in Nat
    BY DEF TInv, TypeOK, Minutes
  \* A bucket of this minute is kept and counts on.
  <1>8. k \in DOMAIN local /\ local[k].minute = now => n = local[k].count + 1
    BY <1>1, <1>2, CleanedBuckets DEF LocalCount, CountIn
  <1>9. ASSUME NEW j \in DOMAIN local, local[j].minute = now
        PROVE  j \in DOMAIN local' /\ local'[j].minute = now /\ local'[j].count >= local[j].count
    <2>1. local[j].count \in Nat
      BY <1>9 DEF TInv, TypeOK
    <2>2. CASE j = k
      BY <1>2, <1>3, <1>8, <1>9, <2>1, <2>2
    <2>3. CASE j # k
      <3>1. j \in DOMAIN local'
        BY <1>9, CleanedBuckets, LocalSteps
      <3>2. local'[j] = local[j]
        BY <1>1, <2>3, <3>1, LocalSteps
      <3> QED
        BY <1>9, <2>1, <3>1, <3>2
    <2> QED
      BY <2>2, <2>3
  <1>10. Growing
    <2>1. \A j \in Keys, m \in Minutes : shared'[j][m] >= shared[j][m]
      BY <1>3 DEF TInv, TypeOK
    <2> QED
      BY <1>3, <1>7, <1>9, <2>1 DEF Growing
  <1>11. VerdictOK(v)'
    BY <1>2, <1>3, <1>6, <1>7 DEF VerdictOK, Over
  <1>12. ASSUME NEW s \in Decided, SameCounter(verdict[s], v) PROVE verdict[s].count < v.count
    <2>1. /\ verdict[s].backend = "memory" /\ verdict[s].key = k /\ verdict[s].minute = now
          /\ verdict[s].life = life
      BY <1>6, <1>12 DEF SameCounter
    <2>2. /\ k \in DOMAIN local /\ local[k].minute = now /\ verdict[s].count <= local[k].count
      BY <1>12, <2>1 DEF CountersOK, VerdictOK
    <2>3. verdict[s].count \in Nat /\ local[k].count \in Nat
      BY <1>12, <2>2, DecidedTypes DEF Verdicts, TInv, TypeOK
    <2> QED
      BY <1>6, <1>8, <2>2, <2>3
  <1> QED
    BY <1>5, <1>10, <1>11, <1>12, DecidedCounters

\* Redis keys expire only when no pipeline can count on them any more.
LEMMA OtherCounters ==
  ASSUME TInv, TInv', CountersOK,
         \/ \E r \in Requests : \/ \E k \in Keys : Arrive(r, k)
                                \/ IncrementFails(r) \/ IncrementLost(r)
         \/ Expire \/ Tick \/ Restart \/ UNCHANGED vars
  PROVE  CountersOK'
  <1>1. now \in Nat /\ life \in Nat /\ shared \in [Keys -> [Minutes -> Nat]]
    BY DEF TInv, TypeOK, Minutes
  <1>2. \A k \in DOMAIN local : local[k].count \in Nat /\ local[k].count >= local[k].count
    BY DEF TInv, TypeOK
  <1>3. CASE UNCHANGED <<now, life, shared, local, verdict>>
    BY <1>1, <1>2, <1>3, QuietCounters DEF Growing
  <1>4. ASSUME NEW r \in Requests, IncrementLost(r) PROVE CountersOK'
    <2>1. UNCHANGED <<now, life, local, verdict>>
      BY <1>4 DEF IncrementLost
    <2>2. PICK k \in Keys, m \in Minutes :
            shared' = [shared EXCEPT ![k][m] = shared[k][m] + 1]
      BY <1>4, CountedTypes DEF IncrementLost, Counted
    <2>3. \A j \in Keys, i \in Minutes : shared'[j][i] >= shared[j][i]
      BY <1>1, <2>2
    <2> QED
      BY <1>1, <1>2, <2>1, <2>3, QuietCounters DEF Growing
  <1>5. CASE Expire
    <2>1. UNCHANGED <<now, life, local, verdict>>
      BY <1>5 DEF Expire
    <2>2. \A k \in Keys, m \in Minutes : m >= now - 1 => shared'[k][m] = shared[k][m]
      BY <1>1, <1>5 DEF Expire, Expired, Minutes
    <2> QED
      BY <1>1, <1>2, <2>1, <2>2, QuietCounters DEF Growing
  <1>6. CASE Tick
    BY <1>1, <1>6, QuietCounters DEF Tick, Growing
  <1>7. CASE Restart
    BY <1>1, <1>7, QuietCounters DEF Restart, Growing
  <1> QED
    BY <1>3, <1>4, <1>5, <1>6, <1>7 DEF Arrive, IncrementFails, vars

LEMMA NextCounters ==
  ASSUME TInv, CountersOK, [Next]_vars
  PROVE  CountersOK'
  BY NextTypes, IncrementCounters, IncrementLocalCounters, OtherCounters DEF Next, Finished

LEMMA CountersHold == Spec => [](TInv /\ CountersOK)
  BY InitTypes, InitCounters, NextTypes, NextCounters, PTL DEF Spec

\* The calls let through by one counter have different counts up to the limit.
LEMMA FewPassed ==
  ASSUME TInv, CountersOK, NEW r \in Requests
  PROVE  Cardinality({s \in CountedWith(r) : verdict[s].outcome = "passed"}) <= Limit
  <1> DEFINE P == {s \in CountedWith(r) : verdict[s].outcome = "passed"}
             f == [s \in P |-> verdict[s].count]
  <1>1. P \subseteq Decided
    BY DEF CountedWith, SameCounter, Decided
  <1>2. ASSUME NEW s \in P PROVE verdict[s].count \in 1 .. Limit
    <2>1. verdict[s].count \in Nat
      BY <1>1, <1>2, DecidedTypes DEF Verdicts
    <2>2. ~Over(verdict[s].count) /\ verdict[s].count > 0
      BY <1>1, <1>2 DEF CountersOK, VerdictOK
    <2> QED
      BY <2>1, <2>2, LimitAssumption DEF Over
  <1>3. ASSUME NEW s \in P, NEW t \in P, verdict[s].count = verdict[t].count PROVE s = t
    <2>1. SameCounter(verdict[s], verdict[t])
      BY <1>3 DEF CountedWith, SameCounter
    <2> QED
      BY <1>1, <1>3, <2>1 DEF CountersOK
  <1>4. f \in Injection(P, 1 .. Limit)
    BY <1>2, <1>3 DEF Injection, IsInjective
  <1>5. IsFiniteSet(1 .. Limit) /\ Cardinality(1 .. Limit) = Limit
    BY FS_Interval, LimitAssumption
  <1> HIDE DEF P, f
  <1>6. Cardinality(P) <= Limit
    BY <1>4, <1>5, FS_Injection
  <1> QED
    BY <1>6 DEF P

\* Lost answers, late pipelines, expiring keys, a cleaned map and restarts: no counter
\* lets more than Limit calls of a key through in a minute.
THEOREM PassedBoundedCorrect == Spec => []PassedBounded
  <1>1. TInv /\ CountersOK => PassedBounded
    BY FewPassed DEF PassedBounded
  <1> QED
    BY <1>1, CountersHold, PTL

-----------------------------------------------------------------------------
(* No call is refused before its time. A count of the map is never out of    *)
(* the blue: the ones below it were given to other calls by the same counter.*)

\* Some call was given count i by the map of process l, for key k in minute m.
Given(k, m, l, i) ==
  \E s \in Decided : /\ verdict[s].backend = "memory"
                     /\ verdict[s].key = k
                     /\ verdict[s].minute = m
                     /\ verdict[s].life = l
                     /\ verdict[s].count = i

CoverOK ==
  /\ \A r \in Decided : verdict[r].backend = "memory" =>
       \A i \in 1 .. verdict[r].count : Given(verdict[r].key, verdict[r].minute, verdict[r].life, i)
  /\ \A k \in DOMAIN local : \A i \in 1 .. local[k].count : Given(k, local[k].minute, life, i)

\* A call is decided once.
LEMMA DecisionsStay ==
  ASSUME TInv, [Next]_vars, NEW s \in Decided
  PROVE  s \in Decided' /\ verdict'[s] = verdict[s]
  <1>1. pc[s] = "done"
    BY DEF TInv, CallOK, Decided
  <1>2. ASSUME NEW r \in Requests, Increment(r) \/ IncrementLocal(r) PROVE verdict'[s] = verdict[s]
    BY <1>1, <1>2 DEF Increment, IncrementLocal, Decide, TInv, TypeOK, Decided
  <1>3. verdict'[s] = verdict[s]
    BY <1>2 DEF Next, Finished, vars, Arrive, IncrementFails, IncrementLost, Expire, Tick, Restart
  <1> QED
    BY <1>3 DEF Decided

LEMMA GivenStays ==
  ASSUME TInv, [Next]_vars, NEW k, NEW m, NEW l, NEW i, Given(k, m, l, i)
  PROVE  Given(k, m, l, i)'
  BY DecisionsStay DEF Given

\* Steps that decide nothing in the map change no bucket, but for a restart.
LEMMA OtherCover ==
  ASSUME TInv, CoverOK, [Next]_vars,
         \A r \in Decided' : r \in Decided \/ verdict'[r].backend = "redis",
         DOMAIN local' = {} \/ UNCHANGED <<local, life>>
  PROVE  CoverOK'
  <1>1. ASSUME NEW r \in Decided', verdict'[r].backend = "memory", NEW i \in 1 .. verdict'[r].count
        PROVE  Given(verdict[r].key, verdict[r].minute, verdict[r].life, i)'
    <2>1. r \in Decided /\ verdict'[r] = verdict[r]
      BY <1>1, DecisionsStay
    <2>2. PICK v : v = verdict[r]
      OBVIOUS
    <2>3. Given(v.key, v.minute, v.life, i)
      BY <1>1, <2>1, <2>2 DEF CoverOK
    <2>4. Given(v.key, v.minute, v.life, i)' /\ v = verdict'[r]
      BY <2>1, <2>2, <2>3, GivenStays
    <2> QED
      BY <2>4
  <1>2. ASSUME NEW k \in DOMAIN local', NEW i \in 1 .. local'[k].count
        PROVE  Given(k, local[k].minute, life, i)'
    <2>1. PICK m, l : m = local[k].minute /\ l = life
      OBVIOUS
    <2>2. k \in DOMAIN local /\ local' = local /\ life' = life
      BY <1>2
    <2>3. Given(k, m, l, i)
      BY <1>2, <2>1, <2>2 DEF CoverOK
    <2>4. Given(k, m, l, i)' /\ m = local'[k].minute /\ l = life'
      BY <2>1, <2>2, <2>3, GivenStays
    <2> QED
      BY <2>4
  <1> QED
    BY <1>1, <1>2 DEF CoverOK

LEMMA LocalCover ==
  ASSUME TInv, CoverOK, [Next]_vars, NEW r \in Requests, IncrementLocal(r)
  PROVE  CoverOK'
  <1>1. PICK k, m, l : k \in Keys /\ k = call[r].key /\ m = now /\ l = life
    BY LocalSteps
  <1>2. PICK n \in Nat \ {0} : n = LocalCount(r)
    BY LocalSteps
  <1>3. /\ pc[r] = "fallback" /\ Decide(r, "memory", now, life, n) /\ life' = l /\ now' = m
        /\ local'[k] = [minute |-> m, count |-> n]
        /\ \A j \in DOMAIN local' \ {k} : j \in DOMAIN local /\ local'[j] = local[j]
    BY <1>1, <1>2, LocalSteps
  <1>4. PICK v : v = NewVerdict(r, "memory", now, life, n)
    OBVIOUS
  <1>5. v \in Verdicts /\ verdict' = [verdict EXCEPT ![r] = v]
    <2>1. now \in Minutes /\ life \in 0 .. MaxRestarts
      BY DEF TInv, TypeOK
    <2> QED
      BY <1>2, <1>3, <1>4, <2>1, DecideMoves
  <1>6. v.backend = "memory" /\ v.key = k /\ v.minute = m /\ v.life = l /\ v.count = n
    BY <1>1, <1>4 DEF NewVerdict
  <1>7. r \in Decided' /\ verdict'[r] = v
    BY <1>5, NoVerdictIsNone DEF Decided, TInv, TypeOK
  <1>8. ASSUME NEW i \in 1 .. n PROVE Given(k, m, l, i)'
    <2>1. CASE i = n
      BY <1>6, <1>7, <2>1 DEF Given
    <2>2. CASE i # n
      <3>1. n = CountIn(Cleaned(now), k, now) + 1 /\ i <= n - 1
        BY <1>1, <1>2, <1>8, <2>2 DEF LocalCount
      <3>2. k \in DOMAIN local /\ local[k].minute = m /\ n = local[k].count + 1
        BY <1>1, <1>2, <2>2, <3>1, CleanedBuckets DEF CountIn
      <3>3. i \in 1 .. local[k].count
        <4>1. local[k].count \in Nat
          BY <3>2 DEF TInv, TypeOK
        <4> QED
          BY <1>8, <2>2, <3>2, <4>1
      <3>4. Given(k, m, l, i)
        BY <1>1, <3>2, <3>3 DEF CoverOK
      <3> QED
        BY <3>4, GivenStays
    <2> QED
      BY <2>1, <2>2
  <1>9. ASSUME NEW s \in Decided', verdict'[s].backend = "memory", NEW i \in 1 .. verdict'[s].count
        PROVE  Given(verdict[s].key, verdict[s].minute, verdict[s].life, i)'
    <2>1. CASE s = r
      BY <1>6, <1>7, <1>8, <1>9, <2>1
    <2>2. CASE s # r
      <3>1. s \in Decided /\ verdict'[s] = verdict[s]
        BY <1>5, <1>9, <2>2 DEF Decided, TInv, TypeOK
      <3>2. PICK w : w = verdict[s]
        OBVIOUS
      <3>3. Given(w.key, w.minute, w.life, i)
        BY <1>9, <3>1, <3>2 DEF CoverOK
      <3>4. Given(w.key, w.minute, w.life, i)' /\ w = verdict'[s]
        BY <3>1, <3>2, <3>3, GivenStays
      <3> QED
        BY <3>4
    <2> QED
      BY <2>1, <2>2
  <1>10. ASSUME NEW j \in DOMAIN local', NEW i \in 1 .. local'[j].count
         PROVE  Given(j, local[j].minute, life, i)'
    <2>1. CASE j = k
      BY <1>3, <1>8, <1>10, <2>1
    <2>2. CASE j # k
      <3>1. PICK h : h = local[j].minute
        OBVIOUS
      <3>2. Given(j, h, l, i) /\ h = local'[j].minute
        BY <1>1, <1>3, <1>10, <2>2, <3>1 DEF CoverOK
      <3>3. Given(j, h, l, i)'
        BY <3>2, GivenStays
      <3> QED
        BY <1>3, <3>2, <3>3
    <2> QED
      BY <2>1, <2>2
  <1> QED
    BY <1>9, <1>10 DEF CoverOK

LEMMA NextCover ==
  ASSUME TInv, CoverOK, [Next]_vars
  PROVE  CoverOK'
  <1>1. ASSUME NEW r \in Requests, Increment(r) PROVE CoverOK'
    <2>1. UNCHANGED <<local, life>>
      BY <1>1 DEF Increment
    <2>2. \A s \in Decided' : s \in Decided \/ verdict'[s].backend = "redis"
      BY <1>1 DEF Increment, Decide, Decided, TInv, TypeOK
    <2> QED
      BY <2>1, <2>2, OtherCover
  <1>2. CASE UNCHANGED verdict /\ (DOMAIN local' = {} \/ UNCHANGED <<local, life>>)
    <2>1. Decided' = Decided
      BY <1>2 DEF Decided
    <2> QED
      BY <1>2, <2>1, OtherCover
  <1>3. Restart => DOMAIN local' = {}
    BY DEF Restart
  <1> QED
    BY <1>1, <1>2, <1>3, LocalCover
       DEF Next, Finished, vars, Arrive, IncrementFails, IncrementLost, Expire, Tick, Restart

\* The counts 1 to Limit + 1 were given to different calls.
LEMMA ManyCounted ==
  ASSUME TInv, CountersOK, CoverOK, NEW r \in Decided,
         verdict[r].outcome = "limited", verdict[r].backend = "memory"
  PROVE  Cardinality(CountedWith(r)) > Limit
  <1> DEFINE D == 1 .. (Limit + 1)
             f == [i \in D |-> CHOOSE s \in CountedWith(r) : verdict[s].count = i]
  <1>1. verdict[r] \in Verdicts /\ verdict[r].count \in Nat /\ verdict[r].count > Limit
    <2>1. Over(verdict[r].count)
      BY DEF CountersOK, VerdictOK
    <2> QED
      BY <2>1, DecidedTypes DEF Over, Verdicts
  <1>2. ASSUME NEW i \in D PROVE \E s \in CountedWith(r) : verdict[s].count = i
    <2>1. i \in 1 .. verdict[r].count
      BY <1>1, <1>2, LimitAssumption
    <2>2. Given(verdict[r].key, verdict[r].minute, verdict[r].life, i)
      BY <2>1 DEF CoverOK
    <2> QED
      BY <2>2 DEF Given, CountedWith, SameCounter, Decided
  <1>3. \A i \in D : f[i] \in CountedWith(r) /\ verdict[f[i]].count = i
    BY <1>2
  <1>4. f \in Injection(D, CountedWith(r))
    BY <1>3 DEF Injection, IsInjective
  <1>5. CountedWith(r) \subseteq Decided
    BY DEF CountedWith, SameCounter, Decided
  <1>6. IsFiniteSet(CountedWith(r))
    BY <1>5, FS_Subset DEF CountersOK
  <1>7. Cardinality(D) = Limit + 1
    BY FS_Interval, LimitAssumption
  <1> HIDE DEF D, f
  <1>8. Cardinality(D) <= Cardinality(CountedWith(r))
    BY <1>4, <1>6, FS_Injection
  <1>9. Cardinality(CountedWith(r)) \in Nat
    BY <1>6, FS_CardinalityType
  <1> QED
    BY <1>7, <1>8, <1>9, LimitAssumption

\* A 429 of the map means that more than Limit calls of the key were counted by this
\* process in this minute, whatever the map was cleaned of and Redis had counted.
THEOREM RefusedOnlyOverLimitCorrect == Spec => []RefusedOnlyOverLimit
  <1>1. Init => TInv /\ CountersOK /\ CoverOK
    <2>1. ASSUME Init PROVE Decided = {} /\ DOMAIN local = {}
      BY <2>1 DEF Init, Decided
    <2> QED
      BY <2>1, InitTypes, InitCounters DEF CoverOK
  <1>2. TInv /\ CountersOK /\ CoverOK /\ [Next]_vars => TInv' /\ CountersOK' /\ CoverOK'
    BY NextTypes, NextCounters, NextCover
  <1>3. TInv /\ CountersOK /\ CoverOK => RefusedOnlyOverLimit
    BY ManyCounted DEF RefusedOnlyOverLimit, Decided
  <1> QED
    BY <1>1, <1>2, <1>3, PTL DEF Spec

-----------------------------------------------------------------------------
(* The size of the map.                                                      *)

LEMMA LocalStale ==
  ASSUME TInv, NEW r \in Requests, IncrementLocal(r)
  PROVE  Cardinality({k \in DOMAIN local' : local'[k].minute < now}) < Threshold
  <1> DEFINE Stale == {k \in DOMAIN local' : local'[k].minute < now}
  <1>1. \A k \in Stale : k \in DOMAIN Cleaned(now) /\ k \in DOMAIN local /\ local[k].minute < now
    <2> SUFFICES ASSUME NEW k \in Stale
                 PROVE  k \in DOMAIN Cleaned(now) /\ k \in DOMAIN local /\ local[k].minute < now
      OBVIOUS
    <2>1. local'[call[r].key].minute = now /\ now \in Nat
      <3>1. local'[call[r].key] = [minute |-> now, count |-> LocalCount(r)]
        BY LocalSteps
      <3> QED
        BY <3>1, NowMinute
    <2>2. k # call[r].key
      BY <2>1
    <2>3. k \in DOMAIN local /\ local'[k] = local[k] /\ k \in DOMAIN Cleaned(now)
      BY <2>2, LocalSteps
    <2> QED
      BY <2>3
  <1>2. CASE Cardinality(DOMAIN local) < Threshold
    <2>1. IsFiniteSet(DOMAIN local) /\ Stale \in SUBSET DOMAIN local
      BY <1>1 DEF TInv
    <2>2. Cardinality(Stale) <= Cardinality(DOMAIN local) /\ IsFiniteSet(Stale)
      BY <2>1, FS_Subset
    <2>3. Cardinality(Stale) \in Nat /\ Cardinality(DOMAIN local) \in Nat
      BY <2>1, <2>2, FS_CardinalityType
    <2> QED
      BY <1>2, <2>2, <2>3, ThresholdAssumption
  <1>3. CASE \A k \in DOMAIN Cleaned(now) : local[k].minute >= now
    <2>1. Stale = {}
      <3> SUFFICES ASSUME NEW k \in Stale PROVE FALSE
        OBVIOUS
      <3>1. local[k].minute \in Nat /\ now \in Nat
        BY <1>1, NowMinute DEF TInv, TypeOK
      <3> QED
        BY <1>1, <1>3, <3>1
    <2>2. Cardinality(Stale) = 0
      BY <2>1, FS_EmptySet
    <2> QED
      BY <2>2, ThresholdAssumption
  <1> QED
    BY <1>2, <1>3, CleanedBuckets

\* After a call was counted in the map fewer than Threshold of its buckets are stale, so
\* that it never outgrows the keys of one minute by more than that.
THEOREM StaleBucketsBoundedCorrect == Spec => StaleBucketsBounded
  <1>1. TInv /\ [Next]_vars =>
          [local' # local =>
             Cardinality({k \in DOMAIN local' : local'[k].minute < now}) < Threshold]_vars
    <2> SUFFICES ASSUME TInv, [Next]_vars, local' # local
                 PROVE  Cardinality({k \in DOMAIN local' : local'[k].minute < now}) < Threshold
      OBVIOUS
    <2>1. CASE Restart
      <3>1. {k \in DOMAIN local' : local'[k].minute < now} = {}
        BY <2>1 DEF Restart
      <3>2. Cardinality({k \in DOMAIN local' : local'[k].minute < now}) = 0
        BY <3>1, FS_EmptySet
      <3> QED
        BY <3>2, ThresholdAssumption
    <2>2. \/ Restart
          \/ \E r \in Requests : IncrementLocal(r)
      BY DEF Next, Finished, vars, Arrive, Increment, IncrementFails, IncrementLost, Expire, Tick
    <2> QED
      BY <2>1, <2>2, LocalStale
  <1> QED
    BY <1>1, InitTypes, NextTypes, PTL DEF Spec, StaleBucketsBounded
=============================================================================
