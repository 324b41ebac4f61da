----------------------------- MODULE RateLimiter -----------------------------
(*****************************************************************************)
(* The per-client token buckets of internal/reliability/ratelimit.go, as the *)
(* RateLimit middleware of internal/handler/ratelimit.go uses them.          *)
(*                                                                           *)
(* Allow and Cleanup read the time first and lock then: calls take the       *)
(* mutex in another order than they read the clock, and a call that waited   *)
(* works with an old time.  MaxWait bounds that wait.                        *)
(*                                                                           *)
(* Tokens are counted in clock ticks: a bucket gains one unit per tick, a    *)
(* request takes Cost = 1/rate units, and a full bucket holds                *)
(* Depth = burst * Cost.  Floating point is exact here.                      *)
(*****************************************************************************)
EXTENDS Integers

CONSTANTS
  Clients,   \* what ClientIP tells apart
  Calls,     \* slots for concurrent requests
  Cost,      \* ticks a token takes to come back
  Depth,     \* ticks an empty bucket takes to fill
  Idle,      \* 5 * interval: age at which Cleanup drops a bucket
  Gain,      \* units per tick of the bucket that bounds what is let through
  MaxWait,   \* bound on the ticks between reading the time and the lock
  MaxClock   \* bound of the model on time

ASSUME LimiterAssumption ==
  /\ Cost \in Nat \ {0}
  /\ Depth \in Nat /\ Cost <= Depth    \* burst is at least 1
  /\ MaxWait \in Nat
  /\ Idle \in Nat

\* A bucket that Cleanup drops comes back full, however large the burst is.
\* Gain is a rate at which a bucket fills within Idle: 1, the rate itself, as
\* long as the burst is at most about five times requestsPerMinute, and burst
\* over Idle above that, which NewRateLimiter accepts.  There is one for
\* every burst if no call waits longer than Idle.
ASSUME GainAssumption ==
  /\ Gain \in Nat \ {0}
  /\ Depth + (Gain + 1) * MaxWait <= Gain * (Idle + 1)

VARIABLES
  clock,
  buckets,     \* client -> bucket, or NoBucket
  stage,       \* where each call is
  client,      \* the client of the call
  now,         \* the time the call has read
  sweeping,    \* Cleanup has read the time and not yet locked
  sweepNow,
  level,       \* history: an ideal bucket of the client, filling at the rate
  budget       \* history: an ideal bucket of the client, filling at Gain

vars == <<clock, buckets, stage, client, now, sweeping, sweepNow, level, budget>>
callVars == <<stage, client, now>>
sweepVars == <<sweeping, sweepNow>>
ideals == <<level, budget>>

\* lastSeen always equals updated.
Bucket == [tokens : Int, updated : Nat]
NoBucket == [tokens |-> 0, updated |-> -1]
Known(c) == buckets[c] # NoBucket

TypeOK ==
  /\ clock \in Nat
  /\ buckets \in [Clients -> Bucket \cup {NoBucket}]
  /\ \A c \in Clients : buckets[c].updated <= clock /\ buckets[c].tokens <= Depth
  /\ stage \in [Calls -> {"idle", "waiting", "allowed", "rejected"}]
  /\ client \in [Calls -> Clients]
  /\ now \in [Calls -> Nat]
  /\ \A k \in Calls : now[k] <= clock
  /\ sweeping \in BOOLEAN
  /\ sweepNow \in Nat /\ sweepNow <= clock
  /\ level \in [Clients -> Int]
  /\ budget \in [Clients -> Int]

Init ==
  /\ clock = 0
  /\ buckets = [c \in Clients |-> NoBucket]
  /\ stage = [k \in Calls |-> "idle"]
  /\ client \in [Calls -> Clients]
  /\ now = [k \in Calls |-> 0]
  /\ sweeping = FALSE
  /\ sweepNow = 0
  /\ level = [c \in Clients |-> Depth]
  /\ budget = [c \in Clients |-> Depth]

\* Allow up to the lock.
ReadTime(k) ==
  /\ stage[k] = "idle"
  /\ \E c \in Clients : client' = [client EXCEPT ![k] = c]
  /\ stage' = [stage EXCEPT ![k] = "waiting"]
  /\ now' = [now EXCEPT ![k] = clock]
  /\ UNCHANGED <<clock, buckets, sweepVars, ideals>>

\* Seeded fault: the refill is not capped.
Uncapped(b, t) == b.tokens + (t - b.updated)

\* elapsed * rate, capped at the burst; elapsed is negative when a call with
\* a later time came first.
Refilled(b, t) ==
  LET tokens == b.tokens + (t - b.updated) IN IF tokens > Depth THEN Depth ELSE tokens

\* Seeded fault: a new bucket starts empty.
NewIsEmpty(c, t) == IF Known(c) THEN Refilled(buckets[c], t) ELSE 0

\* What the bucket holds when the call takes the lock; a new one is full.
Held(c, t) == IF Known(c) THEN Refilled(buckets[c], t) ELSE Depth

\* Seeded fault: a rejected call leaves the bucket's time alone.
TakeForgettingTime(k) ==
  LET c == client[k]
      held == Held(c, now[k])
      granted == held >= Cost
  IN /\ stage[k] = "waiting"
     /\ buckets' = [buckets EXCEPT ![c] =
                      [tokens |-> IF granted THEN held - Cost ELSE held,
                       updated |-> IF granted \/ ~Known(c) THEN now[k] ELSE @.updated]]
     /\ stage' = [stage EXCEPT ![k] = IF granted THEN "allowed" ELSE "rejected"]
     /\ level' = [level EXCEPT ![c] = IF granted THEN @ - Cost ELSE @]
     /\ budget' = [budget EXCEPT ![c] = IF granted THEN @ - Cost ELSE @]
     /\ UNCHANGED <<clock, client, now, sweepVars>>

\* Allow under the lock, and what it answers.
Take(k) ==
  LET c == client[k]
      held == Held(c, now[k])
      granted == held >= Cost
  IN /\ stage[k] = "waiting"
     /\ buckets' = [buckets EXCEPT ![c] =
                      [tokens |-> IF granted THEN held - Cost ELSE held, updated |-> now[k]]]
     /\ stage' = [stage EXCEPT ![k] = IF granted THEN "allowed" ELSE "rejected"]
     /\ level' = [level EXCEPT ![c] = IF granted THEN @ - Cost ELSE @]
     /\ budget' = [budget EXCEPT ![c] = IF granted THEN @ - Cost ELSE @]
     /\ UNCHANGED <<clock, client, now, sweepVars>>

\* The request is over.
Return(k) ==
  /\ stage[k] \in {"allowed", "rejected"}
  /\ stage' = [stage EXCEPT ![k] = "idle"]
  /\ now' = [now EXCEPT ![k] = 0]
  /\ UNCHANGED <<clock, buckets, client, sweepVars, ideals>>

\* Cleanup up to the lock.
BeginSweep ==
  /\ ~sweeping
  /\ sweeping' = TRUE
  /\ sweepNow' = clock
  /\ UNCHANGED <<clock, buckets, callVars, ideals>>

\* Seeded fault: buckets are dropped while they are still filling.
AnyAge(b) == sweepNow > b.updated

IdleTooLong(b) == sweepNow - b.updated > Idle

Sweep ==
  /\ sweeping
  /\ sweeping' = FALSE
  /\ sweepNow' = 0
  /\ buckets' = [c \in Clients |->
                   IF Known(c) /\ IdleTooLong(buckets[c]) THEN NoBucket ELSE buckets[c]]
  /\ UNCHANGED <<clock, callVars, ideals>>

\* Time; the ideal buckets of each client fill.
Refill(l, g) == IF l + g < Depth THEN l + g ELSE Depth

Tick ==
  /\ clock < MaxClock
  /\ \A k \in Calls : stage[k] = "waiting" => clock - now[k] < MaxWait
  /\ clock' = clock + 1
  /\ level' = [c \in Clients |-> Refill(level[c], 1)]
  /\ budget' = [c \in Clients |-> Refill(budget[c], Gain)]
  /\ UNCHANGED <<buckets, callVars, sweepVars>>

Next ==
  \/ \E k \in Calls : ReadTime(k) \/ Take(k) \/ Return(k)
  \/ BeginSweep \/ Sweep
  \/ Tick

Spec == Init /\ [][Next]_vars

-------------------------------------------------------------------------------
Granted(k)  == stage[k] = "waiting" /\ stage'[k] = "allowed"
Rejected(k) == stage[k] = "waiting" /\ stage'[k] = "rejected"

\* A call is let through only if an ideal bucket of its client - one that
\* fills at Gain, is never dropped and sees every request at the time it is
\* decided - has a token for it, up to what MaxWait ticks bring.  Calls that
\* overtake each other add nothing to requestsPerMinute and the burst, and
\* Cleanup at most one burst for every Idle ticks.
GrantsConform ==
  [][\A k \in Calls : Granted(k) => budget[client[k]] >= Cost - MaxWait]_vars

\* A call is turned away only if the ideal bucket that fills at the rate lacks
\* a token for it, up to what MaxWait ticks bring.
RejectsConform ==
  [][\A k \in Calls : Rejected(k) => level[client[k]] < Cost + MaxWait]_vars

\* The strengthening that makes both provable, for each client.  Available is
\* what its bucket would hold now if the refill were not capped: it never
\* falls below the one ideal bucket, exceeds the other by at most MaxWait, and
\* that one is full before Cleanup may drop the client's bucket.
Available(c) == buckets[c].tokens + (clock - buckets[c].updated)

BucketTracksIdeals(c) ==
  /\ level[c] <= Depth
  /\ budget[c] <= Depth
  /\ budget[c] >= -MaxWait
  /\ Known(c) => level[c] <= Available(c)
  /\ budget[c] = Depth \/
       /\ Known(c)
       /\ budget[c] >= Available(c) - MaxWait
       /\ budget[c] >= Gain * (clock - buckets[c].updated) - (Gain + 1) * MaxWait

Inv ==
  /\ TypeOK
  /\ \A k \in Calls : stage[k] = "waiting" => clock - now[k] <= MaxWait
  /\ \A c \in Clients : BucketTracksIdeals(c)

===============================================================================
