---------------------------- MODULE RateLimiter ----------------------------
(* The rate limiter in front of the authenticated routes. It counts the      *)
(* calls of a key (client address and route) per minute in Redis and, when   *)
(* Redis gives an error, in a map of the process. Time is the number of the  *)
(* minute. Redis answers, fails, or fails after it has counted the call.     *)
EXTENDS Integers, FiniteSets

CONSTANTS
  Requests,     \* calls that reach the limiter
  Keys,         \* client address and route
  Limit,        \* calls of a key let through per minute
  Threshold,    \* size of the map from which it is cleaned
  LastMinute,   \* bound: the minutes of a run
  MaxRestarts   \* bound: restarts of the process

ASSUME LimitAssumption == Limit \in Nat
ASSUME ThresholdAssumption == Threshold \in Nat \ {0}
ASSUME BoundsAssumption == LastMinute \in Nat /\ MaxRestarts \in Nat

VARIABLES
  now,      \* the current minute
  life,     \* number of the process among its restarts
  shared,   \* Redis: count of every key and minute, 0 when there is none
  local,    \* the map: bucket of every tracked key
  pc,       \* next step of every call
  call,     \* key of every call, and the minute in its Redis key
  verdict   \* how every call was counted, and what came of it

vars == <<now, life, shared, local, pc, call, verdict>>

Minutes == 0 .. LastMinute

NoCall == [key |-> "none", minute |-> 0]
NoVerdict == [outcome |-> "none"]

Verdicts == [outcome : {"passed", "limited"}, backend : {"redis", "memory"}, key : Keys,
             minute : Minutes, life : 0 .. MaxRestarts, count : Nat]

Init ==
  /\ now = 0 /\ life = 0
  /\ shared = [k \in Keys |-> [m \in Minutes |-> 0]]
  /\ local = [k \in {} |-> 0]
  /\ pc = [r \in Requests |-> "idle"]
  /\ call = [r \in Requests |-> NoCall]
  /\ verdict = [r \in Requests |-> NoVerdict]

Goto(r, step) == pc' = [pc EXCEPT ![r] = step]

Over(count) == count > Limit

\* The call goes on to its handler or is answered 429, on the count it was given.
Decide(r, backend, minute, epoch, count) ==
  /\ Goto(r, "done")
  /\ verdict' = [verdict EXCEPT ![r] =
       [outcome |-> IF Over(count) THEN "limited" ELSE "passed", backend |-> backend,
        key |-> call[r].key, minute |-> minute, life |-> epoch, count |-> count]]

-----------------------------------------------------------------------------
(* Counting in Redis. The minute is written into the Redis key before the    *)
(* pipeline is sent, and may be over when Redis counts the call.             *)

Arrive(r, k) ==
  /\ pc[r] = "idle"
  /\ call' = [call EXCEPT ![r] = [key |-> k, minute |-> now]]
  /\ Goto(r, "increment")
  /\ UNCHANGED <<now, life, shared, local, verdict>>

Counted(r) == shared' = [shared EXCEPT ![call[r].key][call[r].minute] = @ + 1]

Increment(r) ==
  /\ pc[r] = "increment"
  /\ Counted(r)
  /\ Decide(r, "redis", call[r].minute, 0, shared[call[r].key][call[r].minute] + 1)
  /\ UNCHANGED <<now, life, local, call>>

\* Redis cannot be reached, or the client of the call has gone.
IncrementFails(r) ==
  /\ pc[r] = "increment"
  /\ Goto(r, "fallback")
  /\ UNCHANGED <<now, life, shared, local, call, verdict>>

\* Redis counts the call but its answer is lost.
IncrementLost(r) ==
  /\ pc[r] = "increment"
  /\ Counted(r)
  /\ Goto(r, "fallback")
  /\ UNCHANGED <<now, life, local, call, verdict>>

\* A key lives for two minutes after it was last counted on.
Expired(m) == now >= m + 2

Expire ==
  /\ \E k \in Keys, m \in Minutes :
       /\ Expired(m) /\ shared[k][m] > 0
       /\ shared' = [shared EXCEPT ![k][m] = 0]
  /\ UNCHANGED <<now, life, local, pc, call, verdict>>

-----------------------------------------------------------------------------
(* Counting in the process, under its mutex.                                 *)

\* Slip: the minute of the Redis key used again.
LocalMinuteStale(r) == call[r].minute

\* Slip: the end of the minute taken for its beginning.
LocalMinuteEnd(r) == now + 1

\* The minute is taken under the mutex.
LocalMinute(r) == now

\* Slip: the map cleaned only beyond its threshold.
CleanedLate(minute) ==
  IF Cardinality(DOMAIN local) <= Threshold THEN local
  ELSE [k \in {j \in DOMAIN local : local[j].minute >= minute} |-> local[k]]

\* From the threshold on, the buckets of earlier minutes are dropped.
Cleaned(minute) ==
  IF Cardinality(DOMAIN local) < Threshold THEN local
  ELSE [k \in {j \in DOMAIN local : local[j].minute >= minute} |-> local[k]]

\* Slip: a bucket of an earlier minute counted on.
CountInNoReset(buckets, k, minute) ==
  IF k \in DOMAIN buckets THEN buckets[k].count ELSE 0

\* What the bucket of k says of this minute; a bucket of another one starts anew.
CountIn(buckets, k, minute) ==
  IF k \in DOMAIN buckets /\ buckets[k].minute = minute THEN buckets[k].count ELSE 0

IncrementLocal(r) ==
  LET k == call[r].key
      minute == LocalMinute(r)
      kept == Cleaned(minute)
      count == CountIn(kept, k, minute) + 1
  IN /\ pc[r] = "fallback"
     /\ local' = [j \in DOMAIN kept \cup {k} |->
                    IF j = k THEN [minute |-> minute, count |-> count] ELSE kept[j]]
     /\ Decide(r, "memory", minute, life, count)
     /\ UNCHANGED <<now, life, shared, call>>

-----------------------------------------------------------------------------
(* The clock and the process.                                                *)

\* The time limits of the Redis client: no pipeline is under way for longer than
\* a minute after the one in its key.
Tick ==
  /\ now < LastMinute
  /\ \A r \in Requests : pc[r] = "increment" => call[r].minute = now
  /\ now' = now + 1
  /\ UNCHANGED <<life, shared, local, pc, call, verdict>>

\* A restart empties the map and loses the calls under way.
Restart ==
  /\ life < MaxRestarts
  /\ life' = life + 1
  /\ local' = [k \in {} |-> 0]
  /\ pc' = [r \in Requests |-> IF pc[r] = "idle" THEN "idle" ELSE "done"]
  /\ UNCHANGED <<now, shared, call, verdict>>

\* A run ends when every call has been used.
Finished == (\A r \in Requests : pc[r] = "done") /\ UNCHANGED vars

Next ==
  \/ \E r \in Requests :
       \/ \E k \in Keys : Arrive(r, k)
       \/ Increment(r) \/ IncrementFails(r) \/ IncrementLost(r)
       \/ IncrementLocal(r)
  \/ Expire \/ Tick \/ Restart
  \/ Finished

Spec == Init /\ [][Next]_vars

-----------------------------------------------------------------------------
(* Properties.                                                               *)

\* Types; in particular no bucket is of a minute still to come.
TypeOK ==
  /\ now \in Minutes /\ life \in 0 .. MaxRestarts
  /\ shared \in [Keys -> [Minutes -> Nat]]
  /\ DOMAIN local \subseteq Keys
  /\ \A k \in DOMAIN local : local[k] \in [minute : 0 .. now, count : Nat \ {0}]
  /\ pc \in [Requests -> {"idle", "increment", "fallback", "done"}]
  /\ call \in [Requests -> [key : Keys, minute : Minutes] \cup {NoCall}]
  /\ verdict \in [Requests -> Verdicts \cup {NoVerdict}]

SameCounter(v, w) ==
  /\ v # NoVerdict /\ w # NoVerdict
  /\ v.backend = w.backend /\ v.key = w.key /\ v.minute = w.minute /\ v.life = w.life

CountedWith(r) == {s \in Requests : SameCounter(verdict[s], verdict[r])}

\* Increments race with the end of the minute, with the expiry of Redis keys, with
\* the cleaning of the map and with lost answers: still, no counter (Redis, or the
\* map of one process) lets more than Limit calls of a key through in a minute.
PassedBounded ==
  \A r \in Requests :
    Cardinality({s \in CountedWith(r) : verdict[s].outcome = "passed"}) <= Limit

\* The map refuses no call before its time: 429 means that more than Limit calls
\* of the key were counted by this process in this very minute.
RefusedOnlyOverLimit ==
  \A r \in Requests :
    verdict[r] # NoVerdict /\ verdict[r].outcome = "limited" /\ verdict[r].backend = "memory" =>
      Cardinality(CountedWith(r)) > Limit

\* The map is cleaned in time: after a call was counted in it, fewer than Threshold
\* buckets of earlier minutes are left.
StaleBucketsBounded ==
  [][local' # local =>
       Cardinality({k \in DOMAIN local' : local'[k].minute < now}) < Threshold]_vars

=============================================================================
