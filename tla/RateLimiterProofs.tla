-------------------------- MODULE RateLimiterProofs --------------------------
(*****************************************************************************)
(* Proofs about RateLimiter, for any number of clients and calls, every rate *)
(* and every burst, whatever its size, and every bound on the wait for the   *)
(* lock up to the age at which Cleanup drops a bucket.                       *)
(*                                                                           *)
(* Inv is inductive as it stands.  Available(c) is what the bucket of        *)
(* c would hold if it were refilled now without a cap.  It never falls below *)
(* the ideal level, which bounds rejections; it exceeds the budget by at     *)
(* most MaxWait until the budget is full, which bounds grants; and a bucket  *)
(* idle for Idle ticks belongs to a full budget, so that what Cleanup hands  *)
(* back when it drops one was in the budget.                                 *)
(*****************************************************************************)
EXTENDS RateLimiter, TLAPS

\* The rate that bounds grants exists for every burst, if no call waits longer
\* than Idle for the lock: GainAssumption excludes no setting of the limiter.
LEMMA GainExists ==
  ASSUME NEW depth \in Nat, NEW wait \in Nat, NEW idle \in Nat, 1 <= depth, wait <= idle
  PROVE  \E gain \in Nat \ {0} : depth + (gain + 1) * wait <= gain * (idle + 1)
<1> DEFINE gain == depth + wait
<1>1. gain \in Nat \ {0} /\ idle - wait \in Nat
  OBVIOUS
<1>2. gain * (idle + 1) = gain * wait + gain * (idle - wait) + gain
  BY <1>1
<1>3. (gain + 1) * wait = gain * wait + wait
  BY <1>1
<1>4. gain * (idle - wait) \in Nat /\ gain * wait \in Nat
  BY <1>1
<1>5. depth + (gain + 1) * wait <= gain * (idle + 1)
  BY <1>2, <1>3, <1>4
<1> QED BY <1>1, <1>5

LEMMA InitInv == Init => Inv
<1> SUFFICES ASSUME Init
             PROVE  Inv
  OBVIOUS
<1> USE LimiterAssumption, GainAssumption
<1>1. /\ clock = 0 /\ sweepNow = 0 /\ sweeping = FALSE
      /\ buckets = [c \in Clients |-> NoBucket]
      /\ stage = [k \in Calls |-> "idle"] /\ now = [k \in Calls |-> 0]
      /\ client \in [Calls -> Clients]
      /\ level = [c \in Clients |-> Depth]
      /\ budget = [c \in Clients |-> Depth]
  BY DEF Init
<1>2. NoBucket.tokens = 0 /\ NoBucket.updated = -1
  BY DEF NoBucket
<1>3. TypeOK
  <2>1. /\ buckets \in [Clients -> Bucket \cup {NoBucket}]
        /\ \A c \in Clients : buckets[c] = NoBucket
    BY <1>1, Zenon
  <2>2. \A c \in Clients : buckets[c].updated <= clock /\ buckets[c].tokens <= Depth
    <3>1. 0 <= Depth /\ -1 <= clock
      BY <1>1
    <3> QED BY <1>2, <2>1, <3>1
  <2>3. sweeping \in BOOLEAN
    BY <1>1, Zenon
  <2>4. /\ clock \in Nat /\ sweepNow \in Nat /\ sweepNow <= clock
        /\ level \in [Clients -> Int] /\ budget \in [Clients -> Int]
        /\ stage \in [Calls -> {"idle", "waiting", "allowed", "rejected"}]
        /\ now \in [Calls -> Nat] /\ \A k \in Calls : now[k] <= clock
    BY <1>1
  <2> QED BY <1>1, <2>1, <2>2, <2>3, <2>4 DEF TypeOK
<1>4. ASSUME NEW c \in Clients
      PROVE  BucketTracksIdeals(c)
  BY <1>1 DEF BucketTracksIdeals, Known
<1> QED BY <1>1, <1>3, <1>4 DEF Inv

\* What the lock holder finds in the bucket, and how it relates to the ideals.
LEMMA HeldBounds ==
  ASSUME Inv, NEW k \in Calls, stage[k] = "waiting"
  PROVE  LET c == client[k]
             held == Held(c, now[k])
         IN /\ held \in Int /\ held <= Depth
            /\ level[c] <= held + (clock - now[k])
            /\ budget[c] = Depth \/ budget[c] >= held + (clock - now[k]) - MaxWait
<1> DEFINE c == client[k]
<1>1. /\ c \in Clients /\ clock \in Nat /\ now[k] \in Nat /\ now[k] <= clock
      /\ clock - now[k] <= MaxWait /\ level[c] \in Int /\ budget[c] \in Int
      /\ BucketTracksIdeals(c)
  BY DEF Inv, TypeOK
<1>2. CASE Known(c)
  <2>1. /\ buckets[c].tokens \in Int /\ buckets[c].updated \in Nat
    BY <1>1, <1>2 DEF Inv, TypeOK, Known, Bucket
  <2> DEFINE uncapped == buckets[c].tokens + (now[k] - buckets[c].updated)
  <2>2. Held(c, now[k]) = IF uncapped > Depth THEN Depth ELSE uncapped
    BY <1>2 DEF Held, Refilled
  <2>3. /\ level[c] <= Depth
        /\ level[c] <= Available(c)
        /\ budget[c] = Depth \/ budget[c] >= Available(c) - MaxWait
        /\ Available(c) = uncapped + (clock - now[k])
    BY <1>1, <1>2, <2>1 DEF BucketTracksIdeals, Available
  <2> QED BY <1>1, <2>1, <2>2, <2>3, LimiterAssumption DEF Available
<1>3. CASE ~Known(c)
  <2>1. Held(c, now[k]) = Depth /\ level[c] <= Depth /\ budget[c] = Depth
    BY <1>1, <1>3 DEF Held, BucketTracksIdeals
  <2> QED BY <1>1, <2>1, LimiterAssumption
<1> QED BY <1>2, <1>3

LEMMA TakeKeepsInv ==
  ASSUME Inv, NEW k \in Calls, Take(k)
  PROVE  Inv'
<1> DEFINE c == client[k]
           held == Held(c, now[k])
           granted == held >= Cost
           left == IF granted THEN held - Cost ELSE held
<1> USE LimiterAssumption, GainAssumption
<1>1. /\ stage[k] = "waiting"
      /\ buckets' = [buckets EXCEPT ![c] = [tokens |-> left, updated |-> now[k]]]
      /\ stage' = [stage EXCEPT ![k] = IF granted THEN "allowed" ELSE "rejected"]
      /\ level' = [level EXCEPT ![c] = IF granted THEN @ - Cost ELSE @]
      /\ budget' = [budget EXCEPT ![c] = IF granted THEN @ - Cost ELSE @]
      /\ UNCHANGED <<clock, client, now, sweepVars>>
  BY DEF Take
<1>2. /\ held \in Int /\ held <= Depth
      /\ level[c] <= held + (clock - now[k])
      /\ budget[c] = Depth \/ budget[c] >= held + (clock - now[k]) - MaxWait
  BY <1>1, HeldBounds
<1>3. /\ c \in Clients /\ clock \in Nat /\ now[k] \in Nat /\ now[k] <= clock
      /\ clock - now[k] <= MaxWait /\ level[c] \in Int /\ budget[c] \in Int
      /\ BucketTracksIdeals(c)
  BY <1>1 DEF Inv, TypeOK
<1>4. left \in Int /\ left <= Depth
  BY <1>2
<1>5. TypeOK'
  BY <1>1, <1>3, <1>4 DEF Inv, TypeOK, sweepVars, Bucket
<1>6. \A j \in Calls : stage'[j] = "waiting" => clock' - now'[j] <= MaxWait
  BY <1>1 DEF Inv, TypeOK
<1>7. ASSUME NEW d \in Clients
      PROVE  BucketTracksIdeals(d)'
  <2>1. CASE d = c
    <3>1. /\ buckets'[d] = [tokens |-> left, updated |-> now[k]]
          /\ level'[d] = IF granted THEN level[c] - Cost ELSE level[c]
          /\ budget'[d] = IF granted THEN budget[c] - Cost ELSE budget[c]
          /\ clock' = clock
      BY <1>1, <1>3, <2>1 DEF Inv, TypeOK
    <3>2. Known(d)'
      BY <3>1, <1>3 DEF Known, NoBucket
    <3>3. /\ level[c] <= Depth /\ budget[c] <= Depth /\ budget[c] >= -MaxWait
      BY <1>3 DEF BucketTracksIdeals
    <3>4. Available(d)' = left + (clock - now[k]) /\ buckets'[d].updated = now[k]
      BY <3>1 DEF Available
    <3> DEFINE wait == clock - now[k]
    <3>5. wait \in Nat /\ wait <= MaxWait
      BY <1>3
    <3>6. Gain * wait - (Gain + 1) * MaxWait <= -MaxWait
      <4> HIDE DEF wait
      <4>1. Gain * wait <= Gain * MaxWait
        BY <3>5
      <4>2. (Gain + 1) * MaxWait = Gain * MaxWait + MaxWait
        OBVIOUS
      <4>3. Gain * wait \in Int /\ Gain * MaxWait \in Int
        BY <3>5
      <4> QED BY <4>1, <4>2, <4>3
    <3>7. /\ level'[d] <= Depth /\ budget'[d] <= Depth
          /\ level'[d] <= left + wait
          /\ budget'[d] >= -MaxWait
          /\ budget'[d] = Depth \/ budget'[d] >= (left + wait) - MaxWait
      BY <1>2, <1>3, <3>1, <3>3, <3>5
    <3>8. budget'[d] >= Gain * (clock' - buckets'[d].updated) - (Gain + 1) * MaxWait
      <4>1. clock' - buckets'[d].updated = wait
        BY <3>1, <3>4
      <4>2. /\ Gain * wait - (Gain + 1) * MaxWait \in Int /\ MaxWait \in Int /\ budget'[d] \in Int
        BY <1>3, <3>1, <3>5
      <4> HIDE DEF wait
      <4>3. budget'[d] >= Gain * wait - (Gain + 1) * MaxWait
        BY <3>6, <3>7, <4>2
      <4> QED BY <4>1, <4>3
    <3>9. Available(d)' = left + wait
      BY <3>4
    <3> HIDE DEF wait, left
    <3>10. level'[d] <= Available(d)'
      BY <3>7, <3>9
    <3>11. budget'[d] = Depth \/ budget'[d] >= Available(d)' - MaxWait
      BY <3>7, <3>9
    <3> QED BY <3>2, <3>7, <3>8, <3>10, <3>11 DEF BucketTracksIdeals
  <2>2. CASE d # c
    <3>1. /\ buckets'[d] = buckets[d] /\ level'[d] = level[d] /\ budget'[d] = budget[d] /\ clock' = clock
      BY <1>1, <2>2 DEF Inv, TypeOK
    <3>2. Known(d)' <=> Known(d)
      BY <3>1 DEF Known, NoBucket
    <3>3. Available(d)' = Available(d)
      BY <3>1 DEF Available
    <3> QED BY <3>1, <3>2, <3>3 DEF Inv, BucketTracksIdeals
  <2> QED BY <2>1, <2>2
<1> QED BY <1>5, <1>6, <1>7 DEF Inv

LEMMA SweepKeepsInv ==
  ASSUME Inv, Sweep
  PROVE  Inv'
<1> USE LimiterAssumption, GainAssumption
<1>1. /\ buckets' = [c \in Clients |->
                       IF Known(c) /\ IdleTooLong(buckets[c]) THEN NoBucket ELSE buckets[c]]
      /\ sweeping' = FALSE /\ sweepNow' = 0
      /\ UNCHANGED <<clock, stage, client, now, level, budget>>
  BY DEF Sweep, callVars, ideals
<1>2. NoBucket.tokens <= Depth /\ NoBucket.updated = -1
  BY DEF NoBucket
<1>3. TypeOK'
  <2>1. \A c \in Clients : buckets'[c] = NoBucket \/ buckets'[c] = buckets[c]
    BY <1>1
  <2>2. buckets' \in [Clients -> Bucket \cup {NoBucket}]
    BY <1>1 DEF Inv, TypeOK
  <2>3. \A c \in Clients : buckets'[c].updated <= clock /\ buckets'[c].tokens <= Depth
    BY <1>2, <2>1 DEF Inv, TypeOK
  <2>4. sweepNow' \in Nat /\ sweepNow' <= clock
    BY <1>1 DEF Inv, TypeOK
  <2> QED BY <1>1, <2>2, <2>3, <2>4 DEF Inv, TypeOK
<1>4. ASSUME NEW c \in Clients
      PROVE  BucketTracksIdeals(c)'
  <2>1. CASE Known(c) /\ IdleTooLong(buckets[c])
    <3>1. ~Known(c)'
      BY <1>1, <2>1 DEF Known
    <3>2. /\ buckets[c].updated \in Nat /\ sweepNow \in Nat /\ clock \in Nat
          /\ sweepNow <= clock /\ budget[c] \in Int
      BY <2>1 DEF Inv, TypeOK, Known, Bucket
    <3> DEFINE age == clock - buckets[c].updated
    <3>3. /\ level[c] <= Depth /\ budget[c] <= Depth /\ budget[c] >= -MaxWait
          /\ budget[c] = Depth \/ budget[c] >= Gain * age - (Gain + 1) * MaxWait
      BY <2>1 DEF Inv, BucketTracksIdeals
    <3>4. age \in Int /\ age >= Idle + 1
      BY <2>1, <3>2 DEF IdleTooLong
    <3>5. budget[c] = Depth
      <4> HIDE DEF age
      <4>1. Gain * age >= Gain * (Idle + 1)
        BY <3>4
      <4>2. /\ Gain * age \in Int /\ Gain * (Idle + 1) \in Int /\ (Gain + 1) * MaxWait \in Int
        BY <3>4
      <4> QED BY <3>2, <3>3, <4>1, <4>2
    <3> QED BY <1>1, <3>1, <3>2, <3>3, <3>5 DEF BucketTracksIdeals
  <2>2. CASE ~(Known(c) /\ IdleTooLong(buckets[c]))
    BY <1>1, <2>2 DEF Inv, BucketTracksIdeals, Known, NoBucket, Available
  <2> QED BY <2>1, <2>2
<1> QED BY <1>1, <1>4, <1>3 DEF Inv

LEMMA TickKeepsInv ==
  ASSUME Inv, Tick
  PROVE  Inv'
<1> USE LimiterAssumption, GainAssumption
<1>1. /\ \A k \in Calls : stage[k] = "waiting" => clock - now[k] < MaxWait
      /\ clock' = clock + 1
      /\ level' = [c \in Clients |-> Refill(level[c], 1)]
      /\ budget' = [c \in Clients |-> Refill(budget[c], Gain)]
      /\ UNCHANGED <<buckets, stage, client, now, sweeping, sweepNow>>
  BY DEF Tick, callVars, sweepVars
<1>2. ASSUME NEW c \in Clients
      PROVE  Refill(level[c], 1) \in Int /\ Refill(budget[c], Gain) \in Int
  BY DEF Inv, TypeOK, Refill
<1>3. TypeOK'
  BY <1>1, <1>2 DEF Inv, TypeOK, Bucket, NoBucket
<1>4. ASSUME NEW k \in Calls, stage'[k] = "waiting"
      PROVE  clock' - now'[k] <= MaxWait
  BY <1>1, <1>4 DEF Inv, TypeOK
<1>5. ASSUME NEW c \in Clients
      PROVE  BucketTracksIdeals(c)'
  <2>1. /\ clock \in Nat /\ level[c] \in Int /\ level'[c] = Refill(level[c], 1)
        /\ budget[c] \in Int /\ budget'[c] = Refill(budget[c], Gain)
        /\ buckets'[c] = buckets[c] /\ BucketTracksIdeals(c)
    BY <1>1 DEF Inv, TypeOK
  <2>2. CASE Known(c)
    <3>1. buckets[c].tokens \in Int /\ buckets[c].updated \in Nat
      BY <2>2 DEF Inv, TypeOK, Known, Bucket
    <3>2. Known(c)' /\ Available(c)' = Available(c) + 1 /\ Available(c) \in Int
      BY <1>1, <2>1, <2>2, <3>1 DEF Known, Available
    <3>3. /\ level'[c] <= Depth /\ level'[c] <= Available(c)'
          /\ budget'[c] <= Depth /\ budget'[c] >= -MaxWait
          /\ budget'[c] = Depth \/ budget'[c] >= Available(c)' - MaxWait
      BY <2>1, <2>2, <3>2 DEF BucketTracksIdeals, Refill
    <3> DEFINE age == clock - buckets[c].updated
               slack == (Gain + 1) * MaxWait
    <3>4. age \in Int /\ slack \in Int /\ clock' - buckets'[c].updated = age + 1
      BY <1>1, <2>1, <3>1
    <3>5. budget[c] = Depth \/ budget[c] >= Gain * age - slack
      BY <2>1, <2>2 DEF BucketTracksIdeals
    <3>6. budget'[c] = Depth \/ budget'[c] >= Gain * (age + 1) - slack
      <4> HIDE DEF age, slack
      <4>1. Gain * (age + 1) = Gain * age + Gain /\ Gain * age \in Int
        BY <3>4
      <4> QED BY <2>1, <3>4, <3>5, <4>1 DEF Refill
    <3> QED BY <3>2, <3>3, <3>4, <3>6 DEF BucketTracksIdeals
  <2>3. CASE ~Known(c)
    <3>1. ~Known(c)'
      BY <1>1, <2>3 DEF Known
    <3>2. budget[c] = Depth /\ level[c] <= Depth
      BY <2>1, <2>3 DEF BucketTracksIdeals
    <3> QED BY <2>1, <3>1, <3>2 DEF BucketTracksIdeals, Refill
  <2> QED BY <2>2, <2>3
<1> QED BY <1>3, <1>4, <1>5 DEF Inv

LEMMA NextInv == Inv /\ [Next]_vars => Inv'
<1> SUFFICES ASSUME Inv, [Next]_vars
             PROVE  Inv'
  OBVIOUS
<1> USE LimiterAssumption, GainAssumption
<1>1. ASSUME NEW k \in Calls, ReadTime(k)
      PROVE  Inv'
  BY <1>1 DEF ReadTime, Inv, TypeOK, BucketTracksIdeals, Known, NoBucket,
              Available, sweepVars, ideals
<1>2. ASSUME NEW k \in Calls, Take(k)
      PROVE  Inv'
  BY <1>2, TakeKeepsInv
<1>3. ASSUME NEW k \in Calls, Return(k)
      PROVE  Inv'
  BY <1>3 DEF Return, Inv, TypeOK, BucketTracksIdeals, Known, NoBucket,
              Available, sweepVars, ideals
<1>4. CASE BeginSweep
  BY <1>4 DEF BeginSweep, Inv, TypeOK, BucketTracksIdeals, Known, NoBucket,
              Available, callVars, ideals
<1>5. CASE Sweep
  BY <1>5, SweepKeepsInv
<1>6. CASE Tick
  BY <1>6, TickKeepsInv
<1>7. CASE UNCHANGED vars
  BY <1>7 DEF vars, Inv, TypeOK, BucketTracksIdeals, Known, NoBucket,
              Available
<1> QED BY <1>1, <1>2, <1>3, <1>4, <1>5, <1>6, <1>7 DEF Next

\* Every reachable state satisfies Inv: types, the bounded wait, and
\* each bucket's distance from the two ideal ones, for every burst.
THEOREM BucketsTrackIdeals == Spec => []Inv
<1>1. Init => Inv
  BY InitInv
<1>2. Inv /\ [Next]_vars => Inv'
  BY NextInv
<1> QED BY <1>1, <1>2, PTL DEF Spec

\* The only step that decides a call is its own Take.
LEMMA DecidedByTake ==
  ASSUME Inv, [Next]_vars, NEW k \in Calls,
         stage[k] = "waiting", stage'[k] # "waiting"
  PROVE  Take(k)
<1>1. ASSUME NEW j \in Calls, ReadTime(j) \/ Take(j) \/ Return(j)
      PROVE  j = k
  BY <1>1 DEF ReadTime, Take, Return, Inv, TypeOK
<1>2. ~ReadTime(k) /\ ~Return(k)
  BY DEF ReadTime, Return
<1>3. ~BeginSweep /\ ~Sweep /\ ~Tick /\ ~UNCHANGED vars
  BY DEF BeginSweep, Sweep, Tick, vars, callVars
<1> QED BY <1>1, <1>2, <1>3 DEF Next

LEMMA DecisionsConform ==
  ASSUME Inv, [Next]_vars, NEW k \in Calls
  PROVE  /\ Granted(k) => budget[client[k]] >= Cost - MaxWait
         /\ Rejected(k) => level[client[k]] < Cost + MaxWait
<1> DEFINE c == client[k]
           held == Held(c, now[k])
<1> SUFFICES ASSUME stage[k] = "waiting", stage'[k] # "waiting"
             PROVE  /\ Granted(k) => budget[c] >= Cost - MaxWait
                    /\ Rejected(k) => level[c] < Cost + MaxWait
  BY DEF Granted, Rejected
<1>1. stage' = [stage EXCEPT ![k] = IF held >= Cost THEN "allowed" ELSE "rejected"]
  BY DecidedByTake DEF Take
<1>2. /\ Granted(k) => held >= Cost
      /\ Rejected(k) => ~(held >= Cost)
  BY <1>1 DEF Granted, Rejected, Inv, TypeOK
<1>3. /\ held \in Int
      /\ level[c] <= held + (clock - now[k])
      /\ budget[c] = Depth \/ budget[c] >= held + (clock - now[k]) - MaxWait
  BY HeldBounds
<1>4. /\ clock \in Nat /\ now[k] \in Nat /\ now[k] <= clock /\ clock - now[k] <= MaxWait
      /\ level[c] \in Int /\ budget[c] \in Int
  BY DEF Inv, TypeOK
<1> QED BY <1>2, <1>3, <1>4, LimiterAssumption

\* No client is let through more often than a bucket that fills at Gain allows,
\* up to MaxWait, whatever order its calls reach the lock in and whenever
\* Cleanup drops its bucket: at its rate and burst, or, where the burst is so
\* large that Cleanup hands tokens back early, at a burst for every Idle ticks.
THEOREM GrantsWithinRate == Spec => GrantsConform
<1>1. Inv /\ [Next]_vars
      => [\A k \in Calls : Granted(k) => budget[client[k]] >= Cost - MaxWait]_vars
  BY DecisionsConform
<1> QED BY <1>1, BucketsTrackIdeals, PTL DEF Spec, GrantsConform

\* No call is turned away while the ideal bucket of its client holds a token,
\* up to MaxWait.
THEOREM RejectsOnlyWhenEmpty == Spec => RejectsConform
<1>1. Inv /\ [Next]_vars
      => [\A k \in Calls : Rejected(k) => level[client[k]] < Cost + MaxWait]_vars
  BY DecisionsConform
<1> QED BY <1>1, BucketsTrackIdeals, PTL DEF Spec, RejectsConform

===============================================================================
