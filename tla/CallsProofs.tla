----------------------------- MODULE CallsProofs -----------------------------
(*****************************************************************************)
(* What the calls and the router promise, each alone and together, for every *)
(* value of the constants: any threshold, cooldown and number of attempts,   *)
(* any configuration, weights, strategy, limit and width of the counter, any *)
(* number of models, requests and backends.                                  *)
(*                                                                           *)
(* The calls, with any lists: the breaker's fields agree, a half-open        *)
(* circuit has exactly one probe on its way, and every admitted call reports *)
(* exactly once.  The inductive invariant is CallsInv: OneProbe needs        *)
(* BreakerConsistent (a half-open circuit has its probe marked, so Allow     *)
(* grants no second one), and the type of owed needs ReportedOnce.  The      *)
(* failover loops have an invariant of their own, LoopInv.                   *)
(*                                                                           *)
(* The router alone: InOrder enumerates a finite set, so that sorting and    *)
(* removing repeats lose nothing; the expanded list has each backend as      *)
(* often as its weight says, by induction over the list; turning a list      *)
(* keeps its elements; so every list is complete (EveryListComplete), and in *)
(* a round the leads are counted by a bijection with the copies on the wheel *)
(* (RoundShares).                                                            *)
(*                                                                           *)
(* The two together: a step of RoutedCalls is a step of BackendCalls, and    *)
(* the requests at work hold lists of the router.                            *)
(*****************************************************************************)
EXTENDS RoutedCalls, SetInduction

-------------------------------------------------------------------------------
(* The calls. *)

\* The classes of answers a step may use are answers of the model.
LEMMA MayAnswerType ==
  ASSUME NEW b PROVE MayAnswer(b) \subseteq Answers
  BY CallsAssumption DEF MayAnswer, Answers

\* The initial state satisfies the invariant.
LEMMA InitInv == Init => CallsInv
<1> SUFFICES ASSUME Init PROVE CallsInv
  OBVIOUS
<1> USE BreakerAssumption, CallsAssumption DEF Init, NewCircuitBreaker
<1>1. TypeOK
  <2>1. <<>> \in Seq(Backends)
    OBVIOUS
  <2>2. BreakerTypeOK
    <3>1. failures \in 0 .. Threshold /\ elapsed \in 0 .. Cooldown
      OBVIOUS
    <3>2. QED
      BY <3>1 DEF BreakerTypeOK, Closed, Open, HalfOpen
  <2>3. targets \in [Requests -> Seq(Backends)]
    BY <2>1
  <2>4. attempt \in [Requests -> 0 .. MaxAttempts]
    OBVIOUS
  <2>5. QED
    BY <2>2, <2>3, <2>4 DEF TypeOK, Kinds, NoResult
<1>2. BreakerConsistent /\ OneProbe /\ ReportedOnce
  BY DEF BreakerConsistent, OneProbe, ReportedOnce, InCall, Closed, HalfOpen
<1>3. QED
  BY <1>1, <1>2 DEF CallsInv

\* Reporting a result leaves the breaker well-typed, consistent and not
\* half-open: whichever call or health check reports, the episode is over.
LEMMA ReportStep ==
  ASSUME BreakerTypeOK, BreakerConsistent, ~Enabled => state = Closed,
         RecordSuccess \/ RecordFailure
  PROVE  /\ BreakerTypeOK'
         /\ BreakerConsistent'
         /\ state' # HalfOpen
         /\ ~Enabled => state' = Closed
<1> USE BreakerAssumption DEF Closed, Open, HalfOpen
<1>1. CASE ~Enabled
  <2>1. UNCHANGED breakerVars
    BY <1>1 DEF RecordSuccess, RecordFailure
  <2>2. BreakerTypeOK' /\ BreakerConsistent' /\ state' = state
    BY <2>1 DEF BreakerTypeOK, BreakerConsistent, breakerVars
  <2>3. QED
    BY <1>1, <2>2
<1>2. CASE Enabled
  <2>1. probeActive' = FALSE
    BY <1>2 DEF RecordSuccess, RecordFailure
  <2>2. state \in {Closed, Open, HalfOpen} /\ (state = Closed <=> failures < Threshold)
    BY DEF BreakerTypeOK, BreakerConsistent
  <2>3. failures \in 0 .. Threshold /\ elapsed \in 0 .. Cooldown
    BY DEF BreakerTypeOK
  <2>4. /\ state' \in {Closed, Open}
        /\ failures' \in 0 .. Threshold
        /\ elapsed' \in 0 .. Cooldown
        /\ state' = Closed <=> failures' < Threshold
    <3>1. CASE RecordSuccess
      <4>1. failures' = 0 /\ state' = Closed /\ elapsed' = elapsed
        BY <1>2, <3>1 DEF RecordSuccess
      <4>2. QED
        BY <2>3, <4>1
    <3>2. CASE RecordFailure
      <4>1. /\ failures' = OneMoreFailure
            /\ state' = IF Trips THEN Open ELSE state
            /\ elapsed' = IF Trips THEN 0 ELSE elapsed
        BY <1>2, <3>2 DEF RecordFailure
      <4>2. QED
        BY <2>2, <2>3, <4>1 DEF Trips, OneMoreFailure
    <3>3. QED
      BY <3>1, <3>2
  <2>5. state' # HalfOpen
    BY <2>4
  <2>6. BreakerTypeOK'
    BY <2>1, <2>4 DEF BreakerTypeOK
  <2>7. BreakerConsistent'
    BY <2>1, <2>4, <2>5 DEF BreakerConsistent
  <2>8. QED
    BY <1>2, <2>5, <2>6, <2>7
<1>3. QED
  BY <1>1, <1>2

\* Allow keeps the breaker well-typed and consistent; when it grants a call the
\* circuit is closed or has just become half-open; when it refuses, nothing
\* changes.
LEMMA AllowStep ==
  ASSUME BreakerTypeOK, BreakerConsistent, ~Enabled => state = Closed, Allow
  PROVE  /\ BreakerTypeOK'
         /\ BreakerConsistent'
         /\ Granted => \/ state = Closed /\ state' = Closed
                       \/ state = Open /\ state' = HalfOpen
         /\ ~Granted => UNCHANGED breakerVars
         /\ ~Enabled => state' = Closed
<1> USE BreakerAssumption DEF Closed, Open, HalfOpen
<1>1. state \in {Closed, Open, HalfOpen}
  BY DEF BreakerTypeOK
<1>2. failures' = failures /\ elapsed' = elapsed
  BY DEF Allow, breakerVars
<1>3. probeActive \in BOOLEAN /\ (state = HalfOpen <=> probeActive)
  BY DEF BreakerTypeOK, BreakerConsistent
<1>4. CASE ~Enabled \/ ~CooledDown
  <2>1. UNCHANGED <<state, probeActive>>
    <3>1. CASE ~Enabled
      BY <3>1 DEF Allow, breakerVars
    <3>2. CASE Enabled /\ ~CooledDown
      <4>1. state' = state /\ probeActive' = (probeActive \/ state = HalfOpen)
        BY <3>2 DEF Allow, StateAtAllow, ProbeAtAllow
      <4>2. QED
        BY <1>3, <4>1
    <3>3. QED
      BY <1>4, <3>1, <3>2
  <2>2. Granted => state = Closed
    <3>1. CASE ~Enabled
      BY <3>1
    <3>2. CASE Enabled /\ ~CooledDown
      BY <1>3, <3>2 DEF Granted, StateAtAllow, ProbeAtAllow
    <3>3. QED
      BY <1>4, <3>1, <3>2
  <2>3. BreakerTypeOK' /\ BreakerConsistent'
    BY <1>2, <2>1 DEF BreakerTypeOK, BreakerConsistent
  <2>4. QED
    BY <1>2, <2>1, <2>2, <2>3 DEF breakerVars
<1>5. CASE Enabled /\ CooledDown
  <2>1. state = Open /\ state' = HalfOpen /\ probeActive' = TRUE
    BY <1>5 DEF Allow, StateAtAllow, ProbeAtAllow, CooledDown
  <2>2. Granted
    BY <1>5 DEF Granted, StateAtAllow, ProbeAtAllow
  <2>3. BreakerTypeOK'
    BY <1>2, <2>1 DEF BreakerTypeOK
  <2>4. ~(failures < Threshold)
    BY <2>1 DEF BreakerConsistent
  <2>5. BreakerConsistent'
    BY <1>2, <2>1, <2>4 DEF BreakerConsistent
  <2>6. QED
    BY <1>5, <2>1, <2>2, <2>3, <2>5
<1>6. QED
  BY <1>4, <1>5

\* The loop's decision keeps the request's own fields well-typed.
LEMMA AdvanceType ==
  ASSUME TypeOK, NEW r \in Requests, NEW a \in Answers \cup {Refused}, Advance(r, a)
  PROVE  /\ pc' \in [Requests -> {"idle", "ready", "inflight", "backoff", "done"}]
         /\ idx' \in [Requests -> Nat]
         /\ result' \in [Requests -> Answers \cup {NoResult, Refused}]
<1> DEFINE On == Failover /\ idx[r] < Len(targets[r]) /\ MovesOn(kind[r], a)
<1>1. CASE On
  <2>1. /\ pc' = [pc EXCEPT ![r] = "ready"]
        /\ idx' = [idx EXCEPT ![r] = @ + 1]
        /\ result' = result
    BY <1>1 DEF Advance
  <2>2. QED
    BY <2>1 DEF TypeOK
<1>2. CASE ~On
  <2>1. /\ pc' = [pc EXCEPT ![r] = "done"]
        /\ idx' = idx
        /\ result' = [result EXCEPT ![r] = a]
    BY <1>2 DEF Advance
  <2>2. QED
    BY <2>1 DEF TypeOK
<1>3. QED
  BY <1>1, <1>2

\* Every step keeps the invariant.
LEMMA StepInv == CallsInv /\ [Next]_vars => CallsInv'
<1> SUFFICES ASSUME CallsInv, [Next]_vars PROVE CallsInv'
  OBVIOUS
<1> USE BreakerAssumption, CallsAssumption
<1>0. /\ TypeOK /\ BreakerTypeOK /\ BreakerConsistent /\ OneProbe
      /\ ReportedOnce
      /\ \A r \in Requests : pc[r] = "backoff" => attempt[r] < MaxAttempts
      /\ ~Enabled => state = Closed
  BY DEF CallsInv, TypeOK
<1>1. ASSUME NEW r \in Requests, Arrive(r) PROVE CallsInv'
  <2>1. TypeOK'
    BY <1>0, <1>1 DEF Arrive, Accept, TypeOK, BreakerTypeOK, breakerVars
  <2>2. BreakerConsistent'
    BY <1>0, <1>1 DEF Arrive, Accept, BreakerConsistent, breakerVars
  <2>3. OneProbe'
    BY <1>0, <1>1 DEF Arrive, Accept, OneProbe, InCall, breakerVars, TypeOK
  <2>4. ReportedOnce'
    BY <1>0, <1>1 DEF Arrive, Accept, ReportedOnce, InCall, TypeOK
  <2>5. QED
    BY <1>0, <1>1, <2>1, <2>2, <2>3, <2>4 DEF Arrive, Accept, CallsInv, TypeOK, breakerVars
<1>2. ASSUME NEW r \in Requests, Admit(r) PROVE CallsInv'
  <2>1. /\ BreakerTypeOK' /\ BreakerConsistent'
        /\ \/ state = Closed /\ state' = Closed
           \/ state = Open /\ state' = HalfOpen
        /\ ~Enabled => state' = Closed
    BY <1>0, <1>2, AllowStep DEF Admit
  <2>2. TypeOK'
    BY <1>0, <1>2, <2>1 DEF Admit, TypeOK, ProbesAfter
  <2>3. probes = {} /\ probes' = IF state' = HalfOpen THEN {r} ELSE {}
    BY <1>0, <1>2, <2>1 DEF Admit, OneProbe, ProbesAfter, Closed, Open, HalfOpen
  <2>4. OneProbe'
    BY <1>0, <1>2, <2>3 DEF Admit, OneProbe, InCall, TypeOK
  <2>5. ReportedOnce'
    BY <1>0, <1>2 DEF Admit, ReportedOnce, InCall, TypeOK
  <2>6. QED
    BY <1>0, <1>2, <2>1, <2>2, <2>4, <2>5 DEF Admit, CallsInv, TypeOK
<1>3. ASSUME NEW r \in Requests, Refuse(r) PROVE CallsInv'
  <2>1. UNCHANGED breakerVars
    BY <1>0, <1>3, AllowStep DEF Refuse
  <2>2. probes' = probes
    BY <1>0, <1>3, <2>1 DEF Refuse, OneProbe, ProbesAfter, breakerVars
  <2>3. TypeOK'
    BY <1>0, <1>3, <2>1, <2>2, AdvanceType
    DEF Refuse, TypeOK, BreakerTypeOK, breakerVars
  <2>4. OneProbe'
    BY <1>0, <1>3, <2>1, <2>2
    DEF Refuse, Advance, OneProbe, InCall, TypeOK, breakerVars
  <2>5. ReportedOnce'
    BY <1>0, <1>3 DEF Refuse, Advance, ReportedOnce, InCall, TypeOK
  <2>6. BreakerConsistent' /\ (~Enabled => state' = Closed)
    BY <1>0, <2>1 DEF BreakerConsistent, breakerVars
  <2>7. \A s \in Requests : pc'[s] = "backoff" => attempt'[s] < MaxAttempts
    BY <1>0, <1>3 DEF Refuse, Advance, TypeOK
  <2>8. QED
    BY <2>3, <2>4, <2>5, <2>6, <2>7 DEF CallsInv
<1>4. ASSUME NEW r \in Requests, Answer(r) PROVE CallsInv'
  <2>1. PICK a \in Answers : pc[r] = "inflight" /\ (Retry(r, a) \/ Conclude(r, a))
    BY <1>4, MayAnswerType DEF Answer
  <2>2. CASE Retry(r, a)
    <3>1. TypeOK'
      BY <1>0, <2>1, <2>2 DEF Retry, TypeOK, BreakerTypeOK, breakerVars
    <3>2. OneProbe'
      BY <1>0, <2>1, <2>2 DEF Retry, OneProbe, InCall, breakerVars, TypeOK
    <3>3. ReportedOnce'
      BY <1>0, <2>1, <2>2 DEF Retry, ReportedOnce, InCall, TypeOK
    <3>4. \A s \in Requests : pc'[s] = "backoff" => attempt'[s] < MaxAttempts
      BY <1>0, <2>2 DEF Retry, AttemptsOf, TypeOK
    <3>5. QED
      BY <1>0, <2>2, <3>1, <3>2, <3>3, <3>4
      DEF Retry, CallsInv, BreakerConsistent, breakerVars
  <2>3. CASE Conclude(r, a)
    <3>1. /\ BreakerTypeOK' /\ BreakerConsistent' /\ state' # HalfOpen
          /\ ~Enabled => state' = Closed
      BY <1>0, <2>3, ReportStep DEF Conclude, Report
    <3>2. owed[r] = 1
      BY <1>0, <2>1 DEF ReportedOnce, InCall
    <3>3. TypeOK'
      BY <1>0, <2>3, <3>1, <3>2, AdvanceType DEF Conclude, TypeOK, ProbesAfter
    <3>4. OneProbe'
      BY <2>3, <3>1 DEF Conclude, OneProbe, ProbesAfter
    <3>5. ReportedOnce'
      BY <1>0, <2>3, <3>2 DEF Conclude, Advance, ReportedOnce, InCall, TypeOK
    <3>6. \A s \in Requests : pc'[s] = "backoff" => attempt'[s] < MaxAttempts
      BY <1>0, <2>3 DEF Conclude, Advance, TypeOK
    <3>7. QED
      BY <3>1, <3>3, <3>4, <3>5, <3>6 DEF CallsInv
  <2>4. QED
    BY <2>1, <2>2, <2>3
<1>5. ASSUME NEW r \in Requests, Resume(r) PROVE CallsInv'
  <2>1. TypeOK'
    BY <1>0, <1>5 DEF Resume, TypeOK, BreakerTypeOK, breakerVars
  <2>2. OneProbe'
    BY <1>0, <1>5 DEF Resume, OneProbe, InCall, breakerVars, TypeOK
  <2>3. ReportedOnce'
    BY <1>0, <1>5 DEF Resume, ReportedOnce, InCall, TypeOK
  <2>4. QED
    BY <1>0, <1>5, <2>1, <2>2, <2>3
    DEF Resume, CallsInv, BreakerConsistent, breakerVars, TypeOK
<1>6. ASSUME NEW r \in Requests, Reply(r) PROVE CallsInv'
  <2>1. TypeOK'
    <3>1. <<>> \in Seq(Backends)
      OBVIOUS
    <3>2. QED
      BY <1>0, <1>6, <3>1
      DEF Reply, TypeOK, BreakerTypeOK, breakerVars, Kinds, NoResult
  <2>2. OneProbe'
    BY <1>0, <1>6 DEF Reply, OneProbe, InCall, breakerVars, TypeOK
  <2>3. ReportedOnce'
    BY <1>0, <1>6 DEF Reply, ReportedOnce, InCall, TypeOK
  <2>4. QED
    BY <1>0, <1>6, <2>1, <2>2, <2>3
    DEF Reply, CallsInv, BreakerConsistent, breakerVars, TypeOK
<1>7. ASSUME NEW b \in Backends, EndCheck(b) PROVE CallsInv'
  <2>1. /\ BreakerTypeOK' /\ BreakerConsistent' /\ state' # HalfOpen
        /\ ~Enabled => state' = Closed
    BY <1>0, <1>7, ReportStep DEF EndCheck
  <2>2. TypeOK'
    BY <1>0, <1>7, <2>1 DEF EndCheck, TypeOK, ProbesAfter, requestVars
  <2>3. QED
    BY <1>0, <1>7, <2>1, <2>2
    DEF EndCheck, CallsInv, OneProbe, ReportedOnce, ProbesAfter, requestVars
<1>8. ASSUME NEW b \in Backends, StartCheck(b) \/ Break(b) \/ Repair(b)
      PROVE  CallsInv'
  <2>1. TypeOK' /\ UNCHANGED <<breakerVars, requestVars, owed, probes>>
    BY <1>0, <1>8 DEF StartCheck, Break, Repair, TypeOK, BreakerTypeOK,
                      breakerVars, requestVars
  <2>2. QED
    BY <1>0, <2>1 DEF CallsInv, BreakerConsistent, OneProbe, ReportedOnce,
                      breakerVars, requestVars
<1>9. CASE Tick
  <2>1. TypeOK' /\ UNCHANGED <<state, failures, probeActive, requestVars, owed, probes>>
    BY <1>0, <1>9 DEF Tick, ClockTick, TypeOK, BreakerTypeOK, requestVars
  <2>2. QED
    BY <1>0, <2>1 DEF CallsInv, BreakerConsistent, OneProbe, ReportedOnce,
                      requestVars
<1>10. CASE UNCHANGED vars
  BY <1>10 DEF CallsInv, TypeOK, BreakerTypeOK, BreakerConsistent, OneProbe,
               ReportedOnce, vars, breakerVars, requestVars
<1>11. QED
  BY <1>1, <1>2, <1>3, <1>4, <1>5, <1>6, <1>7, <1>8, <1>9, <1>10
  DEF Next, HandlerStep, EnvironmentStep

\* Breaker, calls at work and health checks hang together in every state: the
\* invariant that the theorems below take their conclusions from.
THEOREM CallsInvariant == Spec => []CallsInv
BY InitInv, StepInv, PTL DEF Spec

\* Type correctness (BackendCalls as a whole): the attempt counter stays within
\* its bound, and the history counter owed is never negative.
THEOREM TypeCorrect == Spec => []TypeOK
<1>1. CallsInv => TypeOK
  BY DEF CallsInv
<1>2. QED
  BY <1>1, CallsInvariant, PTL

\* The three fields of the breaker agree whatever the interleaving.
THEOREM BreakerConsistency == Spec => []BreakerConsistent
<1>1. CallsInv => BreakerConsistent
  BY DEF CallsInv
<1>2. QED
  BY <1>1, CallsInvariant, PTL

\* A half-open circuit has exactly one probe, and it is on its way.
THEOREM SingleProbe == Spec => []OneProbe
<1>1. CallsInv => OneProbe
  BY DEF CallsInv
<1>2. QED
  BY <1>1, CallsInvariant, PTL

\* Every admitted call owes exactly one report until it ends, and then none.
THEOREM ReportExactlyOnce == Spec => []ReportedOnce
<1>1. CallsInv => ReportedOnce
  BY DEF CallsInv
<1>2. QED
  BY <1>1, CallsInvariant, PTL

(*****************************************************************************)
(* The failover loops.  That a failed target is final only as the last one   *)
(* needs that the loop never runs past its candidates.                       *)
(*****************************************************************************)
WithinCandidates ==
  \A r \in Requests : pc[r] # "idle" => idx[r] \in 1 .. Len(targets[r])

LoopInv == TypeOK /\ WithinCandidates /\ ExhaustsCandidates

\* The loop's decision keeps to the candidates, and ends early only with an
\* answer that does not move on.
LEMMA AdvanceStep ==
  ASSUME LoopInv, NEW r \in Requests, NEW a, pc[r] # "idle", Advance(r, a),
         UNCHANGED <<kind, targets>>
  PROVE  WithinCandidates' /\ ExhaustsCandidates'
<1> USE DEF LoopInv, TypeOK
<1>1. idx[r] \in 1 .. Len(targets[r]) /\ Len(targets[r]) \in Nat
  BY DEF WithinCandidates
<1> DEFINE On == Failover /\ idx[r] < Len(targets[r]) /\ MovesOn(kind[r], a)
<1>2. CASE On
  <2>1. /\ pc' = [pc EXCEPT ![r] = "ready"]
        /\ idx' = [idx EXCEPT ![r] = @ + 1]
        /\ result' = result
    BY <1>2 DEF Advance
  <2>2. idx[r] + 1 \in 1 .. Len(targets[r])
    BY <1>1, <1>2
  <2>3. QED
    BY <2>1, <2>2 DEF WithinCandidates, ExhaustsCandidates, MovesOn
<1>3. CASE ~On
  <2>1. /\ pc' = [pc EXCEPT ![r] = "done"]
        /\ idx' = idx
        /\ result' = [result EXCEPT ![r] = a]
    BY <1>3 DEF Advance
  <2>2. Failover /\ MovesOn(kind[r], a) => idx[r] = Len(targets[r])
    BY <1>1, <1>3
  <2>3. QED
    BY <2>1, <2>2 DEF WithinCandidates, ExhaustsCandidates, MovesOn
<1>4. QED
  BY <1>2, <1>3

\* Every step keeps the loops within their candidates; type correctness of the
\* next state is taken from CallsInv.
LEMMA LoopStep == LoopInv /\ TypeOK' /\ [Next]_vars => LoopInv'
<1> SUFFICES ASSUME LoopInv, TypeOK', [Next]_vars
             PROVE  WithinCandidates' /\ ExhaustsCandidates'
  BY DEF LoopInv
<1> USE CallsAssumption
<1>0. TypeOK /\ WithinCandidates /\ ExhaustsCandidates
  BY DEF LoopInv
<1>1. ASSUME NEW r \in Requests, Arrive(r)
      PROVE  WithinCandidates' /\ ExhaustsCandidates'
  <2>1. PICK k \in Kinds, ts \in Orders : /\ kind' = [kind EXCEPT ![r] = k]
                                          /\ targets' = [targets EXCEPT ![r] = ts]
    BY <1>1 DEF Arrive, Accept
  <2>2. ts \in Seq(Backends) /\ ts # <<>>
    OBVIOUS
  <2>3. 1 \in 1 .. Len(ts)
    BY <2>2
  <2>4. QED
    BY <1>0, <1>1, <2>1, <2>3
    DEF Arrive, Accept, TypeOK, WithinCandidates, ExhaustsCandidates, MovesOn
<1>2. ASSUME NEW r \in Requests, Refuse(r)
      PROVE  WithinCandidates' /\ ExhaustsCandidates'
  BY <1>2, AdvanceStep DEF Refuse
<1>3. ASSUME NEW r \in Requests, Answer(r)
      PROVE  WithinCandidates' /\ ExhaustsCandidates'
  <2>1. PICK a \in MayAnswer(Target(r)) :
          pc[r] = "inflight" /\ (Retry(r, a) \/ Conclude(r, a))
    BY <1>3 DEF Answer
  <2>2. CASE Retry(r, a)
    BY <1>0, <2>1, <2>2 DEF Retry, TypeOK, WithinCandidates, ExhaustsCandidates, MovesOn
  <2>3. CASE Conclude(r, a)
    BY <2>1, <2>3, AdvanceStep DEF Conclude
  <2>4. QED
    BY <2>1, <2>2, <2>3
<1>4. ASSUME NEW r \in Requests, Admit(r) \/ Resume(r) \/ Reply(r)
      PROVE  WithinCandidates' /\ ExhaustsCandidates'
  <2>1. CASE Admit(r) \/ Resume(r)
    BY <1>0, <2>1 DEF Admit, Resume, TypeOK, WithinCandidates, ExhaustsCandidates, MovesOn
  <2>2. CASE Reply(r)
    BY <1>0, <2>2 DEF Reply, TypeOK, WithinCandidates, ExhaustsCandidates, MovesOn
  <2>3. QED
    BY <1>4, <2>1, <2>2
<1>5. CASE \/ \E b \in Backends : StartCheck(b) \/ EndCheck(b) \/ Break(b) \/ Repair(b)
           \/ Tick \/ UNCHANGED vars
  <2>1. UNCHANGED <<pc, kind, targets, idx, result>>
    BY <1>5 DEF StartCheck, EndCheck, Break, Repair, Tick, requestVars, vars
  <2>2. QED
    BY <1>0, <2>1 DEF WithinCandidates, ExhaustsCandidates, MovesOn
<1>6. QED
  BY <1>1, <1>2, <1>3, <1>4, <1>5 DEF Next, HandlerStep, EnvironmentStep

\* With failover on, a client sees a failed target only when no candidate is
\* left, for any candidate lists and any mix of errors, failover statuses,
\* poisoned streams and refusals (backend.go:94-162).
THEOREM ExhaustsAllCandidates == Spec => []ExhaustsCandidates
<1>1. Init => LoopInv
  <2>1. Init => TypeOK
    BY InitInv DEF CallsInv
  <2>2. QED
    BY <2>1 DEF Init, LoopInv, WithinCandidates, ExhaustsCandidates
<1>2. CallsInv => TypeOK
  BY DEF CallsInv
<1>3. LoopInv => ExhaustsCandidates
  BY DEF LoopInv
<1>4. QED
  BY InitInv, StepInv, LoopStep, <1>1, <1>2, <1>3, PTL DEF Spec

-------------------------------------------------------------------------------
(* Sets in order. *)

\* before ranks any two elements of S, and consistently.
Ranks(S, before) ==
  /\ \A x \in S : <<x, x>> \notin before
  /\ \A x, y \in S : x = y \/ <<x, y>> \in before \/ <<y, x>> \in before
  /\ \A x, y, z \in S : <<x, y>> \in before /\ <<y, z>> \in before => <<x, z>> \in before

\* A finite set has an enumeration in the order of any such relation: each
\* element stands behind as many as are before it.
LEMMA InOrderExists ==
  ASSUME NEW S, IsFiniteSet(S), NEW before, Ranks(S, before)
  PROVE  \E s \in SetToSeqs(S) :
           \A i, j \in DOMAIN s : i < j => <<s[i], s[j]>> \in before
<1> DEFINE lower(x) == {y \in S : <<y, x>> \in before}
           n == Cardinality(S)
           rank == [x \in S |-> Cardinality(lower(x))]
<1>1. n \in Nat
  BY FS_CardinalityType
<1>2. ASSUME NEW x \in S
      PROVE  IsFiniteSet(lower(x)) /\ rank[x] \in 0 .. n - 1
  <2>1. lower(x) \in SUBSET S /\ lower(x) # S
    BY DEF Ranks
  <2> HIDE DEF lower
  <2>2. IsFiniteSet(lower(x)) /\ Cardinality(lower(x)) <= n /\ n # Cardinality(lower(x))
    BY <2>1, FS_Subset
  <2>3. Cardinality(lower(x)) \in Nat
    BY <2>2, FS_CardinalityType
  <2>4. QED
    BY <1>1, <2>2, <2>3
<1>3. ASSUME NEW x \in S, NEW y \in S, <<x, y>> \in before
      PROVE  rank[x] < rank[y]
  <2>1. lower(x) \in SUBSET lower(y) /\ lower(x) # lower(y)
    BY <1>3, Zenon DEF Ranks
  <2>2. rank[x] = Cardinality(lower(x)) /\ rank[y] = Cardinality(lower(y))
    OBVIOUS
  <2>3. IsFiniteSet(lower(y))
    BY <1>2
  <2>4. rank[x] \in Int /\ rank[y] \in Int
    BY <1>1, <1>2
  <2> HIDE DEF lower, rank
  <2>5. Cardinality(lower(x)) <= Cardinality(lower(y)) /\ Cardinality(lower(y)) # Cardinality(lower(x))
    BY <2>1, <2>3, FS_Subset
  <2>6. QED
    BY <2>2, <2>4, <2>5
<1>4. \A x, y \in S : rank[x] = rank[y] => x = y
  <2> SUFFICES ASSUME NEW x \in S, NEW y \in S, rank[x] = rank[y], x # y PROVE FALSE
    OBVIOUS
  <2>1. <<x, y>> \in before \/ <<y, x>> \in before
    BY DEF Ranks
  <2>2. rank[x] < rank[y] \/ rank[y] < rank[x]
    BY <1>3, <2>1
  <2>3. rank[x] \in Int /\ rank[y] \in Int
    BY <1>1, <1>2
  <2> HIDE DEF rank
  <2>4. QED
    BY <2>2, <2>3
<1>5. \A k \in 0 .. n - 1 : \E x \in S : rank[x] = k
  <2>1. rank \in Injection(S, 0 .. n - 1)
    <3>1. rank \in [S -> 0 .. n - 1]
      BY <1>2
    <3>2. DOMAIN rank = S
      OBVIOUS
    <3> HIDE DEF rank
    <3>3. QED
      BY <1>4, <3>1, <3>2 DEF Injection, IsInjective
  <2>2. IsFiniteSet(0 .. n - 1) /\ Cardinality(0 .. n - 1) = n
    <3>1. 0 \in Int /\ n - 1 \in Int
      BY <1>1
    <3> DEFINE top == n - 1
    <3>2. top \in Int /\ (0 > top => n = 0) /\ top - 0 + 1 = n
      BY <1>1
    <3>3. IsFiniteSet(0 .. top) /\ Cardinality(0 .. top) = IF 0 > top THEN 0 ELSE top - 0 + 1
      <4> HIDE DEF top
      <4>1. QED
        BY <3>2, FS_Interval
    <3>4. QED
      BY <3>2, <3>3
  <2>3. rank \in Surjection(S, 0 .. n - 1)
    <3> HIDE DEF rank
    <3>1. QED
      BY <2>1, <2>2, FS_Injection
  <2>4. QED
    BY <2>3 DEF Surjection
<1> HIDE DEF lower, rank
<1> DEFINE s == [k \in 1 .. n |-> CHOOSE x \in S : rank[x] = k - 1]
<1>6. \A k \in 1 .. n : s[k] \in S /\ rank[s[k]] = k - 1
  <2> SUFFICES ASSUME NEW k \in 1 .. n PROVE s[k] \in S /\ rank[s[k]] = k - 1
    OBVIOUS
  <2>1. k - 1 \in 0 .. n - 1
    BY <1>1
  <2>2. \E x \in S : rank[x] = k - 1
    BY <1>5, <2>1
  <2>3. QED
    BY <2>2
<1>7. s \in [1 .. n -> S] /\ DOMAIN s = 1 .. n
  BY <1>6
<1> HIDE DEF s
<1>8. \A i, j \in 1 .. n : i # j => s[i] # s[j]
  <2> SUFFICES ASSUME NEW i \in 1 .. n, NEW j \in 1 .. n, s[i] = s[j] PROVE i = j
    OBVIOUS
  <2>1. i - 1 = j - 1
    BY <1>6
  <2>2. QED
    BY <1>1, <2>1
<1>9. \A i, j \in 1 .. n : i < j => <<s[i], s[j]>> \in before
  <2> SUFFICES ASSUME NEW i \in 1 .. n, NEW j \in 1 .. n, i < j PROVE <<s[i], s[j]>> \in before
    OBVIOUS
  <2>1. rank[s[i]] = i - 1 /\ rank[s[j]] = j - 1 /\ s[i] \in S /\ s[j] \in S
    BY <1>6
  <2>2. i \in Int /\ j \in Int
    BY <1>1
  <2>3. ~ (<<s[j], s[i]>> \in before)
    <3>1. SUFFICES ASSUME <<s[j], s[i]>> \in before PROVE FALSE
      OBVIOUS
    <3>2. rank[s[j]] < rank[s[i]]
      BY <1>3, <2>1, <3>1
    <3>3. QED
      BY <2>1, <2>2, <3>2
  <2>4. s[i] # s[j]
    BY <1>8, <2>2
  <2>5. QED
    BY <2>1, <2>3, <2>4 DEF Ranks
<1>10. s \in SetToSeqs(S)
  BY <1>7, <1>8 DEF SetToSeqs
<1>11. QED
  BY <1>7, <1>9, <1>10

\* What InOrder gives: each element once, in order.
Enumerates(s, S, before) ==
  /\ s \in [1 .. Cardinality(S) -> S]
  /\ \A i, j \in 1 .. Cardinality(S) : s[i] = s[j] => i = j
  /\ \A x \in S : \E k \in 1 .. Cardinality(S) : s[k] = x
  /\ \A i, j \in 1 .. Cardinality(S) : i < j => <<s[i], s[j]>> \in before

LEMMA InOrderEnumerates ==
  ASSUME NEW S, IsFiniteSet(S), NEW before, Ranks(S, before)
  PROVE  Enumerates(InOrder(S, before), S, before)
<1> DEFINE n == Cardinality(S)
           s == InOrder(S, before)
<1>1. n \in Nat
  BY FS_CardinalityType
<1>2. s \in SetToSeqs(S) /\ \A i, j \in DOMAIN s : i < j => <<s[i], s[j]>> \in before
  BY InOrderExists, Zenon DEF InOrder
<1> HIDE DEF s
<1>3. s \in [1 .. n -> S] /\ DOMAIN s = 1 .. n /\ \A i, j \in 1 .. n : i # j => s[i] # s[j]
  BY <1>2 DEF SetToSeqs
<1>4. \A x \in S : \E k \in 1 .. n : s[k] = x
  <2>1. s \in Injection(1 .. n, S)
    BY <1>3 DEF Injection, IsInjective
  <2>2. IsFiniteSet(1 .. n) /\ Cardinality(1 .. n) = n
    <3>1. IsFiniteSet(1 .. n) /\ Cardinality(1 .. n) = IF 1 > n THEN 0 ELSE n - 1 + 1
      BY <1>1, FS_Interval
    <3>2. QED
      BY <1>1, <3>1
  <2>3. s \in Surjection(1 .. n, S)
    <3> HIDE DEF n
    <3>1. Cardinality(S) = n
      BY DEF n
    <3>2. QED
      BY <2>1, <2>2, <3>1, FS_Injection
  <2>4. QED
    BY <2>3 DEF Surjection
<1>5. QED
  BY <1>2, <1>3, <1>4 DEF Enumerates, s

-------------------------------------------------------------------------------
(* The lists before they are turned. *)

\* Kept leaves the chosen positions in their order: each once, the first first.
LEMMA KeptElements ==
  ASSUME NEW X, NEW s \in Seq(X), NEW keep \in SUBSET DOMAIN s
  PROVE  /\ Kept(s, keep) \in Seq(X)
         /\ ToSet(Kept(s, keep)) = {s[i] : i \in keep}
         /\ (\A i, j \in keep : s[i] = s[j] => i = j) => IsInjective(Kept(s, keep))
         /\ 1 \in keep => Kept(s, keep)[1] = s[1]
         /\ keep # {} => Kept(s, keep) # <<>>
<1> DEFINE before == {p \in keep \X keep : p[1] < p[2]}
           order == InOrder(keep, before)
           n == Cardinality(keep)
<1>1. DOMAIN s = 1 .. Len(s) /\ Len(s) \in Nat /\ \A i \in keep : i \in Int /\ i >= 1 /\ s[i] \in X
  BY ElementOfSeq, LenProperties
<1>2. IsFiniteSet(keep) /\ n \in Nat
  <2>1. IsFiniteSet(1 .. Len(s))
    BY <1>1, FS_Interval
  <2>2. QED
    BY <1>1, <2>1, FS_Subset, FS_CardinalityType
<1>3. \A x, y \in keep : <<x, y>> \in before <=> x < y
  OBVIOUS
<1> HIDE DEF before
<1>4. Ranks(keep, before)
  <2>1. \A x, y \in keep : x = y \/ x < y \/ y < x
    BY <1>1
  <2>2. \A x, y, z \in keep : x < y /\ y < z => x < z
    BY <1>1
  <2>3. \A x \in keep : ~(x < x)
    BY <1>1
  <2>4. QED
    BY <1>3, <2>1, <2>2, <2>3 DEF Ranks
<1>5. Enumerates(order, keep, before)
  BY <1>2, <1>4, InOrderEnumerates
<1>6. Kept(s, keep) = [k \in DOMAIN order |-> s[order[k]]]
  BY DEF Kept, before
<1> HIDE DEF order
<1>7. DOMAIN order = 1 .. n /\ \A k \in 1 .. n : order[k] \in keep
  BY <1>5 DEF Enumerates
<1>8. Kept(s, keep) = [k \in 1 .. n |-> s[order[k]]]
  BY <1>6, <1>7
<1> DEFINE r == Kept(s, keep)
<1>9. DOMAIN r = 1 .. n /\ \A k \in 1 .. n : r[k] = s[order[k]]
  BY <1>8
<1>10. r \in Seq(X)
  <2>1. r \in [1 .. n -> X]
    BY <1>1, <1>7, <1>8
  <2>2. QED
    BY <1>2, <2>1, IsASeq
<1>11. Len(r) = n
  BY <1>2, <1>9, <1>10, LenProperties
<1> HIDE DEF r
<1>12. ToSet(r) = {s[i] : i \in keep}
  <2>1. \A k \in 1 .. n : r[k] \in {s[i] : i \in keep}
    BY <1>7, <1>9
  <2>2. \A i \in keep : \E k \in 1 .. n : r[k] = s[i]
    BY <1>5, <1>9 DEF Enumerates
  <2>3. QED
    BY <1>9, <2>1, <2>2 DEF ToSet
<1>13. ASSUME \A i, j \in keep : s[i] = s[j] => i = j PROVE IsInjective(r)
  <2> SUFFICES ASSUME NEW a \in 1 .. n, NEW b \in 1 .. n, r[a] = r[b] PROVE a = b
    BY <1>9 DEF IsInjective
  <2>1. order[a] = order[b]
    BY <1>7, <1>9, <1>13
  <2>2. QED
    BY <1>5, <2>1 DEF Enumerates
<1>14. ASSUME 1 \in keep PROVE r[1] = s[1]
  <2>1. PICK k \in 1 .. n : order[k] = 1
    BY <1>5, <1>14 DEF Enumerates
  <2>2. k = 1
    <3> SUFFICES ASSUME k # 1 PROVE FALSE
      OBVIOUS
    <3>1. 1 \in 1 .. n /\ 1 < k
      BY <1>2
    <3>2. <<order[1], order[k]>> \in before
      BY <1>5, <3>1 DEF Enumerates
    <3>3. order[1] < 1 /\ order[1] \in keep
      BY <1>3, <1>7, <1>14, <2>1, <3>1, <3>2
    <3>4. QED
      BY <1>1, <3>3
  <2>3. QED
    BY <1>9, <2>1, <2>2
<1>15. ASSUME keep # {} PROVE r # <<>>
  <2>1. n # 0
    BY <1>2, <1>15, FS_EmptySet
  <2>2. QED
    BY <1>11, <2>1
<1>16. QED
  BY <1>10, <1>12, <1>13, <1>14, <1>15 DEF r

ServedBackends(m) ==
  {Configured[i] : i \in {j \in DOMAIN Configured :
     Configured[j].enabled /\ Matches(Configured[j], m)}}

\* No two backends of the configuration have one name.
LEMMA NamesTell ==
  /\ DOMAIN Configured = 1 .. Len(Configured) /\ Len(Configured) \in Nat
  /\ \A i \in DOMAIN Configured : Configured[i] \in ToSet(Configured)
  /\ \A b, c \in ToSet(Configured) : b.name = c.name => b = c
  /\ \A b \in ToSet(Configured) : b.weight \in Int
  BY RouterAssumption, LenProperties DEF ToSet

\* NewRouter keeps the enabled backends, each once.
LEMMA RuntimesElements ==
  /\ Runtimes \in Seq(ToSet(Configured))
  /\ IsInjective(Runtimes)
  /\ ToSet(Runtimes) = {Configured[i] : i \in EnabledPositions}
<1> DEFINE before == {p \in EnabledPositions \X EnabledPositions : Before(p[1], p[2])}
           order == InOrder(EnabledPositions, before)
           n == Cardinality(EnabledPositions)
<1>1. \A i \in EnabledPositions : /\ i \in DOMAIN Configured /\ i \in Int
                                  /\ Configured[i].priority \in Int
  BY NamesTell, RouterAssumption DEF EnabledPositions
<1>2. IsFiniteSet(EnabledPositions) /\ n \in Nat
  <2>1. IsFiniteSet(1 .. Len(Configured))
    BY NamesTell, FS_Interval
  <2>2. EnabledPositions \in SUBSET (1 .. Len(Configured))
    BY NamesTell DEF EnabledPositions
  <2>3. QED
    BY <2>1, <2>2, FS_Subset, FS_CardinalityType
<1>3. \A x, y \in EnabledPositions : <<x, y>> \in before <=> Before(x, y)
  OBVIOUS
<1> HIDE DEF before
<1>4. Ranks(EnabledPositions, before)
  <2>1. \A x, y \in EnabledPositions : x = y \/ Before(x, y) \/ Before(y, x)
    BY <1>1 DEF Before
  <2>2. \A x, y, z \in EnabledPositions : Before(x, y) /\ Before(y, z) => Before(x, z)
    BY <1>1 DEF Before
  <2>3. \A x \in EnabledPositions : ~Before(x, x)
    BY <1>1 DEF Before
  <2>4. QED
    BY <1>3, <2>1, <2>2, <2>3 DEF Ranks
<1>5. Enumerates(order, EnabledPositions, before)
  BY <1>2, <1>4, InOrderEnumerates
<1>6. Runtimes = [k \in DOMAIN order |-> Configured[order[k]]]
  BY DEF Runtimes, before
<1> HIDE DEF order
<1>7. DOMAIN order = 1 .. n /\ \A k \in 1 .. n : order[k] \in EnabledPositions
  BY <1>5 DEF Enumerates
<1>8. Runtimes = [k \in 1 .. n |-> Configured[order[k]]]
  BY <1>6, <1>7
<1>9. DOMAIN Runtimes = 1 .. n /\ \A k \in 1 .. n : Runtimes[k] = Configured[order[k]]
  BY <1>8
<1>10. Runtimes \in Seq(ToSet(Configured))
  <2>1. Runtimes \in [1 .. n -> ToSet(Configured)]
    BY <1>1, <1>7, <1>8, NamesTell
  <2>2. QED
    BY <1>2, <2>1, IsASeq
<1>11. IsInjective(Runtimes)
  <2> SUFFICES ASSUME NEW a \in 1 .. n, NEW b \in 1 .. n, Runtimes[a] = Runtimes[b] PROVE a = b
    BY <1>9 DEF IsInjective
  <2>1. order[a] = order[b]
    BY <1>1, <1>7, <1>9, RouterAssumption
  <2>2. QED
    BY <1>5, <2>1 DEF Enumerates
<1>12. ToSet(Runtimes) = {Configured[i] : i \in EnabledPositions}
  <2>1. \A k \in 1 .. n : Runtimes[k] \in {Configured[i] : i \in EnabledPositions}
    BY <1>7, <1>9
  <2>2. \A i \in EnabledPositions : \E k \in 1 .. n : Runtimes[k] = Configured[i]
    BY <1>5, <1>9 DEF Enumerates
  <2>3. QED
    BY <1>9, <2>1, <2>2 DEF ToSet
<1>13. QED
  BY <1>10, <1>11, <1>12

\* Candidates offers a model the enabled backends that serve it, each once.
LEMMA MatchingElements ==
  ASSUME NEW m \in Models
  PROVE  /\ Matching[m] \in Seq(ToSet(Configured))
         /\ IsInjective(Matching[m])
         /\ ToSet(Matching[m]) = ServedBackends(m)
<1> DEFINE keep == {i \in DOMAIN Runtimes : Matches(Runtimes[i], m)}
<1>1. Matching[m] = Kept(Runtimes, keep)
  BY DEF Matching
<1>2. keep \in SUBSET DOMAIN Runtimes
  OBVIOUS
<1>3. {Runtimes[i] : i \in keep} = ServedBackends(m)
  <2>1. {Runtimes[i] : i \in keep} = {b \in ToSet(Runtimes) : Matches(b, m)}
    BY DEF ToSet
  <2>2. ServedBackends(m) = {b \in {Configured[i] : i \in EnabledPositions} : Matches(b, m)}
    BY DEF ServedBackends, EnabledPositions
  <2>3. QED
    BY <2>1, <2>2, RuntimesElements
<1> HIDE DEF keep
<1>4. \A i, j \in keep : Runtimes[i] = Runtimes[j] => i = j
  BY <1>2, RuntimesElements DEF IsInjective
<1>5. /\ Kept(Runtimes, keep) \in Seq(ToSet(Configured))
      /\ ToSet(Kept(Runtimes, keep)) = {Runtimes[i] : i \in keep}
      /\ IsInjective(Kept(Runtimes, keep))
  BY <1>2, <1>4, KeptElements, RuntimesElements
<1>6. QED
  BY <1>1, <1>3, <1>5

\* The first occurrences: every element once, the first one first.
LEMMA DistinctElements ==
  ASSUME NEW X, NEW s \in Seq(X)
  PROVE  /\ Distinct(s) \in Seq(X)
         /\ IsInjective(Distinct(s))
         /\ ToSet(Distinct(s)) = ToSet(s)
         /\ s # <<>> => Distinct(s)[1] = s[1] /\ Distinct(s) # <<>>
<1> DEFINE keep == {i \in DOMAIN s : \A j \in 1 .. i - 1 : s[j] # s[i]}
<1>1. Distinct(s) = Kept(s, keep) /\ keep \in SUBSET DOMAIN s
  BY DEF Distinct
<1>2. DOMAIN s = 1 .. Len(s) /\ Len(s) \in Nat
  BY LenProperties
<1>3. \A i, j \in keep : s[i] = s[j] => i = j
  <2> SUFFICES ASSUME NEW i \in keep, NEW j \in keep, s[i] = s[j], i # j PROVE FALSE
    OBVIOUS
  <2>1. i \in 1 .. j - 1 \/ j \in 1 .. i - 1
    BY <1>2
  <2>2. QED
    BY <2>1
<1>4. \A i \in DOMAIN s : \E k \in keep : s[k] = s[i]
  <2> SUFFICES ASSUME NEW i \in DOMAIN s PROVE \E k \in keep : s[k] = s[i]
    OBVIOUS
  <2> DEFINE T == {k \in DOMAIN s : s[k] = s[i]}
  <2>1. T \in SUBSET Nat /\ T # {} /\ T \subseteq DOMAIN s
    BY <1>2
  <2>2. PICK k \in T : \A y \in T : k <= y
    <3> HIDE DEF T
    <3>1. QED
      BY <2>1, Least
  <2>3. \A j \in 1 .. k - 1 : s[j] # s[k]
    <3> SUFFICES ASSUME NEW j \in 1 .. k - 1, s[j] = s[k] PROVE FALSE
      OBVIOUS
    <3>1. j \in DOMAIN s /\ ~(k <= j)
      BY <1>2
    <3>2. QED
      BY <2>2, <3>1
  <2>4. QED
    BY <2>3
<1>5. {s[i] : i \in keep} = ToSet(s)
  BY <1>4 DEF ToSet
<1>6. s # <<>> => 1 \in keep
  <2> SUFFICES ASSUME s # <<>> PROVE 1 \in keep
    OBVIOUS
  <2>1. 1 \in DOMAIN s
    BY <1>2, EmptySeq
  <2>2. QED
    BY <2>1
<1> HIDE DEF keep
<1>7. /\ Kept(s, keep) \in Seq(X)
      /\ ToSet(Kept(s, keep)) = {s[i] : i \in keep}
      /\ IsInjective(Kept(s, keep))
      /\ 1 \in keep => Kept(s, keep)[1] = s[1]
      /\ keep # {} => Kept(s, keep) # <<>>
  BY <1>1, <1>3, KeptElements
<1>8. QED
  BY <1>1, <1>5, <1>6, <1>7

-------------------------------------------------------------------------------
(* Weights. *)

Copies(t, x) == {p \in DOMAIN t : t[p] = x}

LEMMA CopiesFinite ==
  ASSUME NEW X, NEW t \in Seq(X), NEW x
  PROVE  IsFiniteSet(Copies(t, x)) /\ Cardinality(Copies(t, x)) \in Nat
<1>1. DOMAIN t = 1 .. Len(t) /\ Len(t) \in Nat
  BY LenProperties
<1>2. IsFiniteSet(1 .. Len(t))
  BY <1>1, FS_Interval
<1>3. Copies(t, x) \in SUBSET (1 .. Len(t))
  BY <1>1 DEF Copies
<1>4. QED
  BY <1>2, <1>3, FS_Subset, FS_CardinalityType

\* A concatenation has the copies of both parts.
LEMMA CopiesConcat ==
  ASSUME NEW X, NEW a \in Seq(X), NEW b \in Seq(X), NEW x
  PROVE  Cardinality(Copies(a \o b, x)) = Cardinality(Copies(a, x)) + Cardinality(Copies(b, x))
<1> DEFINE left == Copies(a, x)
           right == Copies(b, x)
           moved == {p \in 1 .. Len(a) + Len(b) : p > Len(a) /\ b[p - Len(a)] = x}
           f == [p \in right |-> p + Len(a)]
<1>1. /\ DOMAIN a = 1 .. Len(a) /\ Len(a) \in Nat
      /\ DOMAIN b = 1 .. Len(b) /\ Len(b) \in Nat
      /\ DOMAIN (a \o b) = 1 .. Len(a) + Len(b)
      /\ \A p \in 1 .. Len(a) + Len(b) :
           (a \o b)[p] = IF p <= Len(a) THEN a[p] ELSE b[p - Len(a)]
  BY LenProperties, ConcatProperties
<1>2. Copies(a \o b, x) = left \cup moved
  BY <1>1 DEF Copies
<1>3. left \cap moved = {}
  BY <1>1 DEF Copies
<1>4. IsFiniteSet(left) /\ IsFiniteSet(right) /\ Cardinality(left) \in Nat /\ Cardinality(right) \in Nat
  BY CopiesFinite
<1>5. f \in Bijection(right, moved)
  <2>1. f \in [right -> moved]
    BY <1>1 DEF Copies
  <2>2. \A p, q \in right : f[p] = f[q] => p = q
    BY <1>1 DEF Copies
  <2>3. \A q \in moved : \E p \in right : f[p] = q
    <3> SUFFICES ASSUME NEW q \in moved PROVE \E p \in right : f[p] = q
      OBVIOUS
    <3>1. q - Len(a) \in right /\ (q - Len(a)) + Len(a) = q
      BY <1>1 DEF Copies
    <3>2. QED
      BY <3>1
  <2>4. DOMAIN f = right
    OBVIOUS
  <2> HIDE DEF f
  <2>5. QED
    BY <2>1, <2>2, <2>3, <2>4 DEF Bijection, Injection, Surjection, IsInjective
<1>6. IsFiniteSet(moved) /\ Cardinality(moved) = Cardinality(right)
  <2> HIDE DEF f, moved, right
  <2>1. ExistsBijection(right, moved)
    BY <1>5 DEF ExistsBijection
  <2>2. QED
    BY <1>4, <2>1, FS_Bijection
<1> HIDE DEF left, right, moved
<1>7. Cardinality(left \cup moved) = Cardinality(left) + Cardinality(moved) - Cardinality({})
  BY <1>3, <1>4, <1>6, FS_Union
<1>8. QED
  BY <1>2, <1>4, <1>6, <1>7, FS_EmptySet DEF left, right

\* g is what is joined of the first n blocks.
Joined(g, blocks, n) ==
  g = [i \in 1 .. n |-> IF i = 1 THEN blocks[i] ELSE g[i - 1] \o blocks[i]]

LEMMA JoinedExists ==
  ASSUME NEW blocks, NEW n \in Nat
  PROVE  \E g : Joined(g, blocks, n)
<1> DEFINE T == {k \in Nat : \E g : Joined(g, blocks, k)}
<1>1. 0 \in T
  <2> DEFINE g == [i \in 1 .. 0 |-> blocks[1]]
  <2>1. g = [i \in 1 .. 0 |-> IF i = 1 THEN blocks[i] ELSE g[i - 1] \o blocks[i]]
    OBVIOUS
  <2> HIDE DEF g
  <2>2. Joined(g, blocks, 0)
    BY <2>1, Zenon DEF Joined
  <2>3. QED
    BY <2>2
<1>2. ASSUME NEW k \in T PROVE k + 1 \in T
  <2>1. PICK g : Joined(g, blocks, k)
    OBVIOUS
  <2> DEFINE last == IF k = 0 THEN blocks[1] ELSE g[k] \o blocks[k + 1]
             h == [m \in 1 .. k + 1 |-> IF m = k + 1 THEN last ELSE g[m]]
  <2>2. \A m \in 1 .. k : g[m] = IF m = 1 THEN blocks[m] ELSE g[m - 1] \o blocks[m]
    BY <2>1, Zenon DEF Joined
  <2> HIDE DEF last
  <2>3. \A m \in 1 .. k + 1 :
          h[m] = IF m = 1 THEN blocks[m] ELSE h[m - 1] \o blocks[m]
    <3> SUFFICES ASSUME NEW m \in 1 .. k + 1
                 PROVE  h[m] = IF m = 1 THEN blocks[m] ELSE h[m - 1] \o blocks[m]
      OBVIOUS
    <3>1. CASE m = k + 1
      <4>1. h[m] = last /\ (m # 1 => h[m - 1] = g[k])
        BY <3>1
      <4>2. QED
        BY <3>1, <4>1 DEF last
    <3>2. CASE m # k + 1
      <4>1. h[m] = g[m] /\ m \in 1 .. k /\ (m # 1 => h[m - 1] = g[m - 1])
        BY <3>2
      <4>2. QED
        BY <2>2, <4>1
    <3>3. QED
      BY <3>1, <3>2
  <2>4. Joined(h, blocks, k + 1)
    <3>1. h = [m \in 1 .. k + 1 |-> h[m]]
      OBVIOUS
    <3> HIDE DEF h
    <3>2. QED
      BY <2>3, <3>1, Zenon DEF Joined
  <2>5. QED
    BY <2>4
<1>3. T = Nat
  <2> HIDE DEF T
  <2>1. T \in SUBSET Nat
    BY DEF T
  <2>2. QED
    BY <1>1, <1>2, <2>1, NumbersByInduction
<1>4. QED
  BY <1>3

\* The list for the weighted strategy has each backend as often as its weight
\* says, and no other.
LEMMA ExpandedCopies ==
  ASSUME NEW X, NEW s \in Seq(X), IsInjective(s), \A x \in X : x.weight \in Int
  PROVE  /\ Expanded(s) \in Seq(X)
         /\ \A x \in X : Cardinality(Copies(Expanded(s), x)) =
                           IF x \in ToSet(s) THEN Weight(x) ELSE 0
<1> DEFINE n == Len(s)
           block(i) == [k \in 1 .. Weight(s[i]) |-> s[i]]
           blocks == [i \in DOMAIN s |-> block(i)]
<1>1. n \in Nat /\ DOMAIN s = 1 .. n /\ \A i \in 1 .. n : s[i] \in X
  BY LenProperties, ElementOfSeq
<1>2. \A x \in X : Weight(x) \in Nat /\ Weight(x) > 0
  BY DEF Weight
<1>3. Len(blocks) = n
  <2>1. blocks \in [1 .. n -> {block(i) : i \in 1 .. n}]
    BY <1>1
  <2>2. blocks \in Seq({block(i) : i \in 1 .. n}) /\ DOMAIN blocks = 1 .. n
    <3> HIDE DEF block, blocks
    <3>1. QED
      BY <1>1, <2>1, IsASeq
  <2> HIDE DEF block, blocks
  <2>3. QED
    BY <1>1, <2>2, LenProperties
<1>4. ASSUME NEW i \in 1 .. n
      PROVE  /\ blocks[i] \in Seq(X)
             /\ \A x \in X : Cardinality(Copies(blocks[i], x)) =
                               IF x = s[i] THEN Weight(x) ELSE 0
  <2> DEFINE w == Weight(s[i])
  <2>1. w \in Nat /\ w > 0 /\ s[i] \in X
    BY <1>1, <1>2
  <2>2. blocks[i] = [k \in 1 .. w |-> s[i]]
    BY <1>1
  <2> HIDE DEF blocks
  <2>3. blocks[i] \in Seq(X)
    BY <2>1, <2>2, IsASeq
  <2>4. ASSUME NEW x \in X
        PROVE  Cardinality(Copies(blocks[i], x)) = IF x = s[i] THEN Weight(x) ELSE 0
    <3>1. CASE x = s[i]
      <4>1. Copies(blocks[i], x) = 1 .. w
        BY <2>2, <3>1 DEF Copies
      <4>2. Cardinality(1 .. w) = IF 1 > w THEN 0 ELSE w - 1 + 1
        <5> HIDE DEF w
        <5>1. QED
          BY <2>1, FS_Interval
      <4>3. w = Weight(x)
        BY <3>1
      <4> HIDE DEF w
      <4>4. QED
        BY <2>1, <3>1, <4>1, <4>2, <4>3
    <3>2. CASE x # s[i]
      <4>1. Copies(blocks[i], x) = {}
        BY <2>2, <3>2 DEF Copies
      <4>2. QED
        BY <3>2, <4>1, FS_EmptySet
    <3>3. QED
      BY <3>1, <3>2
  <2>5. QED
    BY <2>3, <2>4
<1>5. CASE n = 0
  <2>1. Expanded(s) = blocks
    BY <1>3, <1>5 DEF Expanded, FlattenSeq
  <2>2. blocks = <<>> /\ s = <<>>
    BY <1>1, <1>5, EmptySeq
  <2>3. Copies(<<>>, 0) = {} /\ \A x : Copies(<<>>, x) = {}
    BY DEF Copies
  <2>4. ToSet(s) = {}
    BY <2>2 DEF ToSet
  <2> HIDE DEF blocks
  <2>5. QED
    BY <2>1, <2>2, <2>3, <2>4, FS_EmptySet, EmptySeq
<1>6. CASE n # 0
  <2> DEFINE g == CHOOSE g : Joined(g, blocks, n)
  <2>1. Joined(g, blocks, n)
    <3> HIDE DEF blocks
    <3>1. QED
      BY <1>1, JoinedExists, Zenon
  <2>2. Expanded(s) = g[n]
    <3>1. Expanded(s) = FlattenSeq(blocks)
      BY DEF Expanded
    <3> HIDE DEF blocks
    <3>2. FlattenSeq(blocks) = g[n]
      BY <1>3, <1>6 DEF FlattenSeq, Joined
    <3>3. QED
      BY <3>1, <3>2
  <2> HIDE DEF g, blocks
  <2>3. \A i \in 1 .. n : g[i] = IF i = 1 THEN blocks[i] ELSE g[i - 1] \o blocks[i]
    BY <2>1, Zenon DEF Joined
  <2> DEFINE seen(i, x) == \E j \in 1 .. i : s[j] = x
             right(i) == /\ g[i] \in Seq(X)
                         /\ \A x \in X : Cardinality(Copies(g[i], x)) =
                                           IF seen(i, x) THEN Weight(x) ELSE 0
             T == {i \in Nat : i + 1 <= n => right(i + 1)}
  <2>4. 0 \in T
    <3>1. g[1] = blocks[1] /\ 1 \in 1 .. n
      BY <1>1, <1>6, <2>3
    <3>2. \A x : seen(1, x) <=> x = s[1]
      OBVIOUS
    <3> HIDE DEF seen
    <3>3. right(1)
      BY <1>4, <3>1, <3>2
    <3>4. QED
      BY <3>3
  <2>5. ASSUME NEW k \in T PROVE k + 1 \in T
    <3> DEFINE i == k + 2
    <3> SUFFICES ASSUME i <= n PROVE right(i)
      OBVIOUS
    <3>1. i \in 1 .. n /\ i - 1 = k + 1 /\ i # 1 /\ i - 1 \in 1 .. n
      BY <1>1
    <3>2. right(i - 1)
      BY <1>1, <3>1
    <3>3. g[i] = g[i - 1] \o blocks[i]
      BY <2>3, <3>1
    <3>4. blocks[i] \in Seq(X)
      BY <1>4, <3>1
    <3> HIDE DEF i
    <3>5. g[i] \in Seq(X)
      BY <3>2, <3>3, <3>4, ConcatProperties
    <3>6. ASSUME NEW x \in X
          PROVE  Cardinality(Copies(g[i], x)) = IF seen(i, x) THEN Weight(x) ELSE 0
      <4>1. Cardinality(Copies(g[i], x)) =
              Cardinality(Copies(g[i - 1], x)) + Cardinality(Copies(blocks[i], x))
        BY <3>2, <3>3, <3>4, CopiesConcat
      <4>2. Cardinality(Copies(g[i - 1], x)) = IF seen(i - 1, x) THEN Weight(x) ELSE 0
        BY <3>2
      <4>3. Cardinality(Copies(blocks[i], x)) = IF x = s[i] THEN Weight(x) ELSE 0
        BY <1>4, <3>1
      <4>4. seen(i, x) <=> seen(i - 1, x) \/ x = s[i]
        BY <1>1, <3>1
      <4>5. ~(seen(i - 1, x) /\ x = s[i])
        <5> SUFFICES ASSUME NEW j \in 1 .. i - 1, s[j] = s[i] PROVE FALSE
          OBVIOUS
        <5>1. j \in DOMAIN s /\ i \in DOMAIN s /\ j # i
          BY <1>1, <3>1
        <5>2. QED
          BY <5>1 DEF IsInjective
      <4> HIDE DEF seen
      <4>6. QED
        BY <1>2, <4>1, <4>2, <4>3, <4>4, <4>5
    <3>7. QED
      BY <3>5, <3>6
  <2>6. T = Nat
    <3> HIDE DEF T
    <3>1. T \in SUBSET Nat
      BY DEF T
    <3>2. QED
      BY <2>4, <2>5, <3>1, NumbersByInduction
  <2>7. right(n)
    <3>1. n - 1 \in Nat /\ (n - 1) + 1 = n
      BY <1>1, <1>6
    <3>2. n - 1 \in T
      <4> HIDE DEF T
      <4>1. QED
        BY <2>6, <3>1
    <3>3. QED
      BY <1>1, <3>1, <3>2
  <2>8. \A x : seen(n, x) <=> x \in ToSet(s)
    BY <1>1 DEF ToSet
  <2> HIDE DEF seen
  <2>9. QED
    BY <2>2, <2>7, <2>8
<1>7. QED
  BY <1>5, <1>6

LEMMA ExpandedElements ==
  ASSUME NEW X, NEW s \in Seq(X), IsInjective(s), \A x \in X : x.weight \in Int
  PROVE  ToSet(Expanded(s)) = ToSet(s)
<1>1. /\ Expanded(s) \in Seq(X)
      /\ \A x \in X : Cardinality(Copies(Expanded(s), x)) =
                        IF x \in ToSet(s) THEN Weight(x) ELSE 0
  BY ExpandedCopies
<1>2. \A x \in X : Weight(x) # 0
  BY DEF Weight
<1>3. \A x \in X : x \in ToSet(Expanded(s)) <=> Copies(Expanded(s), x) # {}
  BY DEF Copies, ToSet
<1>4. \A x \in X : x \in ToSet(s) <=> x \in ToSet(Expanded(s))
  <2> TAKE x \in X
  <2>1. IsFiniteSet(Copies(Expanded(s), x))
    BY <1>1, CopiesFinite
  <2>2. Copies(Expanded(s), x) = {} <=> Cardinality(Copies(Expanded(s), x)) = 0
    BY <2>1, FS_EmptySet
  <2>3. QED
    BY <1>1, <1>2, <1>3, <2>2
<1>5. ToSet(s) \subseteq X /\ ToSet(Expanded(s)) \subseteq X
  <2>1. \A t \in Seq(X) : ToSet(t) \subseteq X
    BY ElementOfSeq, LenProperties DEF ToSet
  <2>2. QED
    BY <1>1, <2>1
<1>6. QED
  BY <1>4, <1>5

-------------------------------------------------------------------------------
(* The lists as they are offered. *)

\* Where the elements of a concatenation come from.
LEMMA ConcatElements ==
  ASSUME NEW S, NEW a \in Seq(S), NEW b \in Seq(S), NEW i \in 1 .. Len(a) + Len(b)
  PROVE  (a \o b)[i] = IF i <= Len(a) THEN a[i] ELSE b[i - Len(a)]
  OBVIOUS

\* Rotating a sequence from one of its positions keeps its elements: the
\* element at i is found start places earlier, around the end.
LEMMA RotatedElements ==
  ASSUME NEW S, NEW s \in Seq(S), NEW start \in 0 .. Len(s) - 1
  PROVE  /\ Len(Rotated(s, start)) = Len(s)
         /\ \A i \in 1 .. Len(s) :
              Rotated(s, start)[i] =
                s[IF i <= Len(s) - start THEN i + start ELSE i + start - Len(s)]
<1> DEFINE front == SubSeq(s, start + 1, Len(s))
           back  == SubSeq(s, 1, start)
<1>1. front \in Seq(S) /\ Len(front) = Len(s) - start
  OBVIOUS
<1>2. back \in Seq(S) /\ Len(back) = start
  OBVIOUS
<1>3. \A i \in 1 .. Len(s) - start : front[i] = s[i + start]
  OBVIOUS
<1>4. \A i \in 1 .. start : back[i] = s[i]
  OBVIOUS
<1>5. Rotated(s, start) = front \o back
  BY DEF Rotated
<1> HIDE DEF front, back
<1>6. Len(front \o back) = Len(s)
  BY <1>1, <1>2
<1>7. ASSUME NEW i \in 1 .. Len(s)
      PROVE  (front \o back)[i] =
               s[IF i <= Len(s) - start THEN i + start ELSE i + start - Len(s)]
  <2>1. (front \o back)[i] =
          IF i <= Len(front) THEN front[i] ELSE back[i - Len(front)]
    <3>1. i \in 1 .. Len(front) + Len(back)
      BY <1>1, <1>2
    <3>2. QED
      BY <1>1, <1>2, <3>1, ConcatElements, Zenon
  <2>2. CASE i <= Len(s) - start
    BY <1>1, <1>3, <2>1, <2>2
  <2>3. CASE ~(i <= Len(s) - start)
    <3>1. i - Len(front) \in 1 .. start /\ i - Len(front) = i + start - Len(s)
      BY <1>1, <2>3
    <3>2. QED
      BY <1>1, <1>4, <2>1, <2>3, <3>1
  <2>4. QED
    BY <2>2, <2>3
<1>8. QED
  BY <1>5, <1>6, <1>7

\* No backend is lost and none appears: the rotated list has the elements of
\* the list (router.go:175-184).
LEMMA RotatedSame ==
  ASSUME NEW S, NEW s \in Seq(S), NEW start \in 0 .. Len(s) - 1
  PROVE  ToSet(Rotated(s, start)) = ToSet(s)
<1> DEFINE pos(i) == IF i <= Len(s) - start THEN i + start ELSE i + start - Len(s)
<1> DEFINE inv(j) == IF j > start THEN j - start ELSE j - start + Len(s)
<1>0. Len(s) \in Nat /\ start \in Nat
  OBVIOUS
<1>1. /\ Len(Rotated(s, start)) = Len(s)
      /\ \A i \in 1 .. Len(s) : Rotated(s, start)[i] = s[pos(i)]
  BY RotatedElements
<1>2. DOMAIN Rotated(s, start) = 1 .. Len(s) /\ DOMAIN s = 1 .. Len(s)
  <2>1. Rotated(s, start) \in Seq(S)
    BY DEF Rotated
  <2>2. QED
    BY <1>1, <2>1
<1>3. \A i \in 1 .. Len(s) : pos(i) \in 1 .. Len(s)
  BY <1>0
<1>4. \A j \in 1 .. Len(s) : inv(j) \in 1 .. Len(s) /\ pos(inv(j)) = j
  BY <1>0
<1> HIDE DEF pos, inv
<1>5. ASSUME NEW j \in 1 .. Len(s)
      PROVE  \E i \in 1 .. Len(s) : Rotated(s, start)[i] = s[j]
  BY <1>1, <1>4
<1>6. ASSUME NEW i \in 1 .. Len(s)
      PROVE  \E j \in 1 .. Len(s) : Rotated(s, start)[i] = s[j]
  BY <1>1, <1>3
<1>7. ToSet(s) \subseteq ToSet(Rotated(s, start))
  BY <1>2, <1>5 DEF ToSet
<1>8. ToSet(Rotated(s, start)) \subseteq ToSet(s)
  BY <1>2, <1>6 DEF ToSet
<1>9. QED
  BY <1>7, <1>8

\* Turning a list of distinct backends repeats none.
LEMMA RotatedInjective ==
  ASSUME NEW S, NEW s \in Seq(S), NEW start \in 0 .. Len(s) - 1, IsInjective(s)
  PROVE  IsInjective(Rotated(s, start))
<1> DEFINE pos(i) == IF i <= Len(s) - start THEN i + start ELSE i + start - Len(s)
           t == Rotated(s, start)
<1>0. Len(s) \in Nat /\ start \in Nat /\ DOMAIN s = 1 .. Len(s)
  BY LenProperties
<1>1. /\ Len(t) = Len(s)
      /\ \A i \in 1 .. Len(s) : t[i] = s[pos(i)]
  BY RotatedElements
<1>2. t \in Seq(S)
  BY DEF Rotated
<1>3. DOMAIN t = 1 .. Len(s)
  <2> HIDE DEF t
  <2>1. QED
    BY <1>1, <1>2, LenProperties
<1>4. \A i \in 1 .. Len(s) : pos(i) \in 1 .. Len(s)
  BY <1>0
<1>5. \A i, j \in 1 .. Len(s) : pos(i) = pos(j) => i = j
  BY <1>0
<1> HIDE DEF pos, t
<1>6. \A i, j \in 1 .. Len(s) : t[i] = t[j] => i = j
  BY <1>0, <1>1, <1>4, <1>5 DEF IsInjective
<1>7. QED
  BY <1>3, <1>6 DEF IsInjective, t

\* Where the counter points on the wheel.
Start(m, n) == Offset(n) % Len(Wheel[m])

LEMMA WheelElements ==
  ASSUME NEW m \in Models
  PROVE  /\ Wheel[m] \in Seq(ToSet(Configured))
         /\ ToSet(Wheel[m]) = ServedBackends(m)
         /\ Matching[m] # <<>> => Wheel[m] # <<>>
         /\ Strategy # Weighted => IsInjective(Wheel[m])
<1> DEFINE X == ToSet(Configured)
           s == Matching[m]
<1>1. s \in Seq(X) /\ IsInjective(s) /\ ToSet(s) = ServedBackends(m)
  BY MatchingElements
<1>2. \A x \in X : x.weight \in Int
  BY NamesTell
<1>3. Wheel[m] = IF Strategy = Weighted THEN Expanded(s) ELSE s
  BY DEF Wheel
<1> HIDE DEF s, X
<1>4. Expanded(s) \in Seq(X) /\ ToSet(Expanded(s)) = ToSet(s)
  BY <1>1, <1>2, ExpandedCopies, ExpandedElements
<1>5. s # <<>> => Expanded(s) # <<>>
  <2> SUFFICES ASSUME s # <<>>, Expanded(s) = <<>> PROVE FALSE
    OBVIOUS
  <2>1. s[1] \in ToSet(s)
    <3>1. 1 \in DOMAIN s
      BY <1>1, EmptySeq, LenProperties
    <3>2. QED
      BY <3>1 DEF ToSet
  <2>2. ToSet(<<>>) = {}
    BY DEF ToSet
  <2>3. QED
    BY <1>4, <2>1, <2>2
<1>6. QED
  BY <1>1, <1>3, <1>4, <1>5 DEF s, X

\* A list that turns starts at the position of the wheel the counter points at;
\* every list has what serves the model, each once.
LEMMA OrderedElements ==
  ASSUME NEW m \in Models, NEW n \in Counter
  PROVE  /\ Ordered(m, n) \in Seq(ToSet(Configured))
         /\ IsInjective(Ordered(m, n))
         /\ ToSet(Ordered(m, n)) = ServedBackends(m)
         /\ Turns(m) => /\ Start(m, n) \in 0 .. Len(Wheel[m]) - 1
                        /\ Ordered(m, n)[1] = Wheel[m][Start(m, n) + 1]
<1> DEFINE X == ToSet(Configured)
<1>1. CASE ~Turns(m)
  <2>1. Ordered(m, n) = Matching[m]
    BY <1>1 DEF Ordered
  <2>2. QED
    BY <1>1, <2>1, MatchingElements
<1>2. CASE Turns(m)
  <2> DEFINE w == Wheel[m]
             start == Start(m, n)
             turned == Rotated(w, start)
  <2>1. /\ w \in Seq(X) /\ ToSet(w) = ServedBackends(m) /\ w # <<>>
        /\ Strategy # Weighted => IsInjective(w)
    <3>1. Matching[m] # <<>>
      BY <1>2 DEF Turns
    <3>2. QED
      BY <3>1, WheelElements
  <2>2. Len(w) \in Nat /\ Len(w) > 0 /\ DOMAIN w = 1 .. Len(w)
    <3> HIDE DEF w, X
    <3>1. QED
      BY <2>1, EmptySeq, LenProperties
  <2>3. start \in 0 .. Len(w) - 1
    <3>1. Offset(n) \in Int
      BY RouterAssumption DEF Offset, Counter
    <3>2. start = Offset(n) % Len(w)
      BY DEF Start
    <3> HIDE DEF w, start
    <3>3. \A x \in Int, y \in Nat : y > 0 => x % y \in 0 .. y - 1
      OBVIOUS
    <3>4. QED
      BY <2>2, <3>1, <3>2, <3>3
  <2>4. /\ Strategy = RoundRobin => Ordered(m, n) = turned
        /\ Strategy = Weighted => Ordered(m, n) = Distinct(turned)
        /\ Strategy \in {RoundRobin, Weighted}
    BY <1>2, RouterAssumption DEF Ordered, Turns, Start, RoundRobin, Weighted
  <2> HIDE DEF w, start, X
  <2>5. /\ turned \in Seq(X)
        /\ ToSet(turned) = ToSet(w)
        /\ Strategy # Weighted => IsInjective(turned)
        /\ turned # <<>>
        /\ turned[1] = w[start + 1]
    <3>1. turned \in Seq(X)
      BY <2>1, <2>2, <2>3 DEF Rotated
    <3>2. ToSet(turned) = ToSet(w)
      BY <2>1, <2>3, RotatedSame
    <3>3. Strategy # Weighted => IsInjective(turned)
      BY <2>1, <2>3, RotatedInjective
    <3>4. /\ Len(turned) = Len(w)
          /\ turned[1] = w[IF 1 <= Len(w) - start THEN 1 + start ELSE 1 + start - Len(w)]
      <4>1. 1 \in 1 .. Len(w)
        BY <2>2
      <4>2. QED
        BY <2>1, <2>3, <4>1, RotatedElements
    <3>5. turned[1] = w[start + 1]
      BY <2>2, <2>3, <3>4
    <3> HIDE DEF turned
    <3>6. turned # <<>>
      BY <2>2, <3>1, <3>4, EmptySeq
    <3>7. QED
      BY <3>1, <3>2, <3>3, <3>5, <3>6
  <2> HIDE DEF turned
  <2>6. CASE Strategy = RoundRobin
    <3>1. Strategy # Weighted
      BY <2>6 DEF RoundRobin, Weighted
    <3>2. QED
      BY <2>1, <2>3, <2>4, <2>5, <2>6, <3>1 DEF w, start, X
  <2>7. CASE Strategy = Weighted
    <3>1. /\ Distinct(turned) \in Seq(X)
          /\ IsInjective(Distinct(turned))
          /\ ToSet(Distinct(turned)) = ToSet(turned)
          /\ Distinct(turned)[1] = turned[1]
      BY <2>5, DistinctElements
    <3>2. QED
      BY <2>1, <2>3, <2>4, <2>5, <2>7, <3>1 DEF w, start, X
  <2>8. QED
    BY <2>4, <2>6, <2>7
<1>3. QED
  BY <1>1, <1>2

\* The list with the names, cut to the limit: no name twice, the first one kept,
\* and all of them without a limit.
LEMMA CandidatesElements ==
  ASSUME NEW m \in Models, NEW n \in Counter, Matching[m] # <<>>
  PROVE  LET s == Candidates[m][n]
             o == Ordered(m, n)
         IN /\ s \in Seq({b.name : b \in ServedBackends(m)})
            /\ IsInjective(s)
            /\ s # <<>>
            /\ s[1] = o[1].name
            /\ Limit = 0 => ToSet(s) = {b.name : b \in ServedBackends(m)}
<1> DEFINE o == Ordered(m, n)
           X == ServedBackends(m)
           cut == AtMost(Limit, o)
           s == Candidates[m][n]
<1>1. o \in Seq(ToSet(Configured)) /\ IsInjective(o) /\ ToSet(o) = X
  BY OrderedElements
<1>2. \A x \in X : x \in ToSet(Configured)
  BY NamesTell DEF ServedBackends
<1>3. \E x : x \in X
  <2>1. 1 \in DOMAIN Matching[m]
    BY MatchingElements, EmptySeq, LenProperties
  <2>2. Matching[m][1] \in ToSet(Matching[m])
    BY <2>1 DEF ToSet
  <2>3. QED
    BY <2>2, MatchingElements
<1>4. s = [k \in DOMAIN cut |-> cut[k].name]
  BY DEF Candidates
<1> HIDE DEF o, X
<1>5. DOMAIN o = 1 .. Len(o) /\ Len(o) \in Nat
  BY <1>1, LenProperties
<1>6. \A k \in 1 .. Len(o) : o[k] \in X
  BY <1>1, <1>5 DEF ToSet
<1>7. Len(o) # 0
  BY <1>1, <1>3, <1>5 DEF ToSet
<1> DEFINE size == IF Limit > 0 /\ Len(o) > Limit THEN Limit ELSE Len(o)
<1>8. size \in Nat /\ 1 <= size /\ size <= Len(o) /\ (Limit = 0 => size = Len(o))
  <2>1. Limit \in Nat
    BY RouterAssumption
  <2>2. Len(o) \in Nat /\ Len(o) # 0
    BY <1>5, <1>7
  <2>3. QED
    BY <2>1, <2>2
<1>9. cut = IF Limit > 0 /\ Len(o) > Limit THEN SubSeq(o, 1, Limit) ELSE o
  BY DEF AtMost
<1> HIDE DEF cut
<1>10. DOMAIN cut = 1 .. size /\ \A k \in 1 .. size : cut[k] = o[k]
  <2>1. Limit \in Nat
    BY RouterAssumption
  <2>2. CASE Limit > 0 /\ Len(o) > Limit
    <3>1. cut = SubSeq(o, 1, Limit) /\ size = Limit
      BY <1>9, <2>2
    <3>2. DOMAIN SubSeq(o, 1, Limit) = 1 .. Limit
      BY <1>1, <1>5, <2>1, <2>2, SubSeqProperties
    <3>3. \A k \in 1 .. Limit : SubSeq(o, 1, Limit)[k] = o[k]
      BY <1>1, <1>5, <2>1, <2>2, SubSeqProperties
    <3> HIDE DEF size
    <3>4. QED
      BY <3>1, <3>2, <3>3
  <2>3. CASE ~(Limit > 0 /\ Len(o) > Limit)
    <3>1. cut = o /\ size = Len(o)
      BY <1>9, <2>3
    <3> HIDE DEF size
    <3>2. QED
      BY <1>5, <3>1
  <2>4. QED
    BY <2>2, <2>3
<1> HIDE DEF s, size
<1>11. s = [k \in 1 .. size |-> o[k].name]
  BY <1>4, <1>10
<1>12. \A k \in 1 .. size : k \in 1 .. Len(o) /\ o[k] \in X
  <2> TAKE k \in 1 .. size
  <2>1. k \in 1 .. Len(o)
    <3>1. size \in Nat /\ size <= Len(o)
      BY <1>8
    <3>2. Len(o) \in Nat
      BY <1>5
    <3>3. QED
      BY <3>1, <3>2
  <2>2. QED
    BY <1>6, <2>1
<1>13. s \in Seq({b.name : b \in X})
  <2>1. s \in [1 .. size -> {b.name : b \in X}]
    BY <1>11, <1>12
  <2>2. QED
    BY <1>8, <2>1, IsASeq
<1>14. IsInjective(s)
  <2> SUFFICES ASSUME NEW a \in 1 .. size, NEW b \in 1 .. size, s[a] = s[b] PROVE a = b
    BY <1>11 DEF IsInjective
  <2>1. o[a].name = o[b].name
    BY <1>11
  <2>2. o[a] \in ToSet(Configured) /\ o[b] \in ToSet(Configured)
    BY <1>2, <1>12
  <2>3. o[a] = o[b]
    BY <2>1, <2>2, NamesTell
  <2>4. QED
    BY <1>1, <1>5, <1>12, <2>3 DEF IsInjective
<1>15. 1 \in 1 .. size
  BY <1>8
<1>16. s # <<>> /\ s[1] = o[1].name
  BY <1>11, <1>15
<1>17. ASSUME Limit = 0 PROVE ToSet(s) = {b.name : b \in X}
  <2>1. size = Len(o)
    BY <1>8, <1>17
  <2>2. \A b \in X : \E k \in 1 .. size : o[k] = b
    BY <1>1, <1>5, <2>1 DEF ToSet
  <2>3. \A b \in X : b.name \in ToSet(s)
    BY <1>11, <2>2 DEF ToSet
  <2>4. \A y \in ToSet(s) : y \in {b.name : b \in X}
    BY <1>11, <1>12 DEF ToSet
  <2>5. QED
    BY <2>3, <2>4
<1>18. QED
  BY <1>13, <1>14, <1>16, <1>17 DEF s, o, X

-------------------------------------------------------------------------------
(* The turns of a round. *)

LEMMA Division ==
  ASSUME NEW L \in Nat, L > 0, NEW x \in Int
  PROVE  x \div L \in Int /\ x % L \in 0 .. L - 1 /\ x = (L * (x \div L)) + (x % L)
<1>1. x \div L \in Int
  OBVIOUS
<1>2. x % L \in 0 .. L - 1
  OBVIOUS
<1>3. x = (L * (x \div L)) + (x % L)
  OBVIOUS
<1>4. QED
  BY <1>1, <1>2, <1>3

\* Two numbers less than L apart that leave the same remainder are the same.
LEMMA SameRemainder ==
  ASSUME NEW L \in Nat, L > 0, NEW x \in Int, NEW y \in Int,
         x % L = y % L, x - y < L, y - x < L
  PROVE  x = y
<1> DEFINE p == x \div L
           q == y \div L
           r == x % L
<1>1. p \in Int /\ q \in Int /\ r \in Int /\ x = (L * p) + r /\ y = (L * q) + r
  BY Division
<1> HIDE DEF p, q, r
<1>2. x - y = L * (p - q) /\ y - x = L * (q - p)
  BY <1>1
<1>3. \A d \in Int : d >= 1 => L * d >= L
  OBVIOUS
<1>4. CASE p > q
  BY <1>1, <1>2, <1>3, <1>4
<1>5. CASE q > p
  BY <1>1, <1>2, <1>3, <1>5
<1>6. CASE p = q
  BY <1>1, <1>6
<1>7. QED
  BY <1>1, <1>4, <1>5, <1>6

\* Any L numbers in a row leave every remainder.
LEMMA EveryRemainder ==
  ASSUME NEW L \in Nat, L > 0, NEW first \in Nat, NEW r \in 0 .. L - 1
  PROVE  \E n \in first .. first + L - 1 : n % L = r
<1> DEFINE q == first \div L
           s == first % L
           n == IF r >= s THEN first + (r - s) ELSE first + (r - s) + L
           k == IF r >= s THEN q ELSE q + 1
<1>1. q \in Int /\ s \in 0 .. L - 1 /\ first = (L * q) + s
  BY Division
<1> HIDE DEF q, s
<1>2. n \in first .. first + L - 1
  BY <1>1
<1>3. n = (L * k) + r /\ k \in Int
  <2>1. L * (q + 1) = (L * q) + L
    BY <1>1
  <2>2. QED
    BY <1>1, <2>1
<1> HIDE DEF n, k
<1>4. n \in Int
  BY <1>2
<1> DEFINE p == n \div L
           t == n % L
<1>5. p \in Int /\ t \in 0 .. L - 1 /\ n = (L * p) + t
  BY <1>4, Division
<1> HIDE DEF p, t
<1>6. t - r = L * (k - p) /\ r - t = L * (p - k)
  BY <1>3, <1>5
<1>7. \A d \in Int : d >= 1 => L * d >= L
  OBVIOUS
<1>8. k = p
  <2>1. CASE k > p
    BY <1>3, <1>5, <1>6, <1>7, <2>1
  <2>2. CASE p > k
    BY <1>3, <1>5, <1>6, <1>7, <2>2
  <2>3. QED
    BY <1>3, <1>5, <2>1, <2>2
<1>9. t = r
  BY <1>3, <1>5, <1>8
<1>10. QED
  BY <1>2, <1>9 DEF t

\* The wheel has each backend as often as its share.
LEMMA WheelShare ==
  ASSUME NEW m \in Models, NEW b \in ToSet(Matching[m])
  PROVE  Cardinality(Copies(Wheel[m], b)) = IF Strategy = Weighted THEN Weight(b) ELSE 1
<1> DEFINE X == ToSet(Configured)
           s == Matching[m]
<1>1. s \in Seq(X) /\ IsInjective(s)
  BY MatchingElements
<1>2. \A x \in X : x.weight \in Int
  BY NamesTell
<1>3. b \in X /\ b \in ToSet(s)
  <2> HIDE DEF X, s
  <2>1. QED
    BY <1>1, ElementOfSeq, LenProperties DEF ToSet, s
<1>4. CASE Strategy = Weighted
  <2>1. Wheel[m] = Expanded(s)
    BY <1>4 DEF Wheel
  <2> HIDE DEF X, s
  <2>2. QED
    BY <1>1, <1>2, <1>3, <1>4, <2>1, ExpandedCopies
<1>5. CASE Strategy # Weighted
  <2>1. Wheel[m] = s
    BY <1>5 DEF Wheel
  <2> HIDE DEF X, s
  <2>2. PICK p \in DOMAIN s : s[p] = b
    BY <1>3 DEF ToSet
  <2>3. Copies(s, b) = {p}
    BY <1>1, <2>2 DEF Copies, IsInjective
  <2>4. QED
    BY <1>5, <2>1, <2>3, FS_Singleton
<1>6. QED
  BY <1>4, <1>5

\* In a round in which the counter does not wrap, as many requests lead with a
\* backend as the wheel has copies of it.
LEMMA RoundShares ==
  ASSUME NEW m \in Models, NEW b \in ToSet(Matching[m]), Turns(m),
         NEW first \in Nat, first + Len(Wheel[m]) - 1 <= MaxInt
  PROVE  Cardinality({n \in first .. first + Len(Wheel[m]) - 1 :
                        Candidates[m][n][1] = b.name})
           = IF Strategy = Weighted THEN Weight(b) ELSE 1
<1> DEFINE w == Wheel[m]
           L == Len(w)
           round == first .. first + L - 1
           leads == {n \in round : Candidates[m][n][1] = b.name}
           copies == Copies(w, b)
           f == [n \in leads |-> (n % L) + 1]
<1>1. Matching[m] # <<>>
  BY DEF Turns
<1>2. w \in Seq(ToSet(Configured)) /\ w # <<>>
  BY <1>1, WheelElements
<1> HIDE DEF w
<1>3. L \in Nat /\ L > 0 /\ DOMAIN w = 1 .. L
  BY <1>2, EmptySeq, LenProperties
<1>4. MaxInt \in Nat /\ first + L - 1 <= MaxInt
  BY RouterAssumption DEF w
<1> HIDE DEF L
<1>5. ASSUME NEW n \in round
      PROVE  Candidates[m][n][1] = w[(n % L) + 1].name
  <2>1. n \in Counter /\ Offset(n) = n
    BY <1>3, <1>4 DEF Counter, Offset
  <2>2. Start(m, n) = n % L
    BY <2>1 DEF Start, w, L
  <2>3. Ordered(m, n)[1] = w[(n % L) + 1]
    BY <2>1, <2>2, OrderedElements DEF w, L
  <2>4. Candidates[m][n][1] = Ordered(m, n)[1].name
    BY <1>1, <2>1, CandidatesElements
  <2>5. QED
    BY <2>3, <2>4
<1>6. \A n \in round : n \in Int /\ (n % L) + 1 \in 1 .. L
  <2> TAKE n \in round
  <2>1. n \in Int
    BY <1>3
  <2>2. n % L \in 0 .. L - 1
    BY <1>3, <2>1, Division
  <2>3. QED
    BY <1>3, <2>1, <2>2
<1>7. \A p \in 1 .. L : w[p].name = b.name <=> w[p] = b
  <2> TAKE p \in 1 .. L
  <2>1. w[p] \in ToSet(Configured)
    BY <1>2, <1>3, ElementOfSeq
  <2>2. b \in ToSet(Configured)
    <3>1. Matching[m] \in Seq(ToSet(Configured))
      BY MatchingElements
    <3>2. QED
      BY <3>1, ElementOfSeq, LenProperties DEF ToSet
  <2>3. QED
    BY <2>1, <2>2, NamesTell
<1>8. \A n \in round : n \in leads <=> (n % L) + 1 \in copies
  BY <1>3, <1>5, <1>6, <1>7 DEF Copies
<1>9. copies \in SUBSET (1 .. L) /\ IsFiniteSet(copies)
  BY <1>2, <1>3, CopiesFinite DEF Copies
<1>10. leads \in SUBSET round
  OBVIOUS
<1> HIDE DEF leads, copies
<1>11. \A n, k \in round : n % L = k % L => n = k
  <2> SUFFICES ASSUME NEW n \in round, NEW k \in round, n % L = k % L PROVE n = k
    OBVIOUS
  <2>1. n \in Int /\ k \in Int /\ n - k < L /\ k - n < L
    BY <1>3
  <2>2. QED
    BY <1>3, <2>1, SameRemainder
<1>12. \A p \in copies : \E n \in round : (n % L) + 1 = p
  <2> TAKE p \in copies
  <2>1. p \in 1 .. L
    BY <1>9
  <2>2. p - 1 \in 0 .. L - 1
    BY <1>3, <2>1
  <2>3. PICK n \in round : n % L = p - 1
    <3> DEFINE r == p - 1
    <3>1. r \in 0 .. L - 1
      BY <2>2
    <3> HIDE DEF r
    <3>2. \E n \in round : n % L = r
      BY <1>3, <3>1, EveryRemainder
    <3>3. QED
      BY <3>2 DEF r
  <2>4. QED
    BY <2>1, <2>3
<1> HIDE DEF round
<1>13. f \in Bijection(leads, copies)
  <2>1. f \in [leads -> copies] /\ DOMAIN f = leads
    BY <1>8, <1>10
  <2>2. \A n, k \in leads : f[n] = f[k] => n = k
    <3> SUFFICES ASSUME NEW n \in leads, NEW k \in leads, f[n] = f[k] PROVE n = k
      OBVIOUS
    <3>1. (n % L) + 1 = (k % L) + 1 /\ (n % L) + 1 \in 1 .. L /\ (k % L) + 1 \in 1 .. L
      BY <1>6, <1>10
    <3>2. n % L \in Int /\ k % L \in Int
      BY <1>3, <1>6, <1>10, Division
    <3>3. n % L = k % L
      BY <3>1, <3>2
    <3>4. QED
      BY <1>10, <1>11, <3>3
  <2>3. \A p \in copies : \E n \in leads : f[n] = p
    BY <1>8, <1>12
  <2> HIDE DEF f
  <2>4. QED
    BY <2>1, <2>2, <2>3 DEF Bijection, Injection, Surjection, IsInjective
<1>14. Cardinality(leads) = Cardinality(copies)
  <2>1. f \in Injection(leads, copies) /\ f \in Surjection(leads, copies)
    BY <1>13 DEF Bijection
  <2> HIDE DEF f
  <2>2. Cardinality(leads) = Cardinality(copies) <=> f \in Surjection(leads, copies)
    BY <1>9, <2>1, FS_Injection
  <2>3. QED
    BY <2>1, <2>2
<1>15. Cardinality(copies) = IF Strategy = Weighted THEN Weight(b) ELSE 1
  BY WheelShare DEF copies, w
<1>16. QED
  BY <1>14, <1>15 DEF leads, round, L, w

-------------------------------------------------------------------------------
(* What the calls are given. *)

\* However far a list is turned, and whatever the strategy, it has the enabled
\* backends that serve the model (router.go:93-178).
THEOREM TurnKeepsBackends ==
  ASSUME NEW m \in Models, NEW n \in Counter
  PROVE  ToSet(Ordered(m, n)) = ToSet(Matching[m])
  BY OrderedElements, MatchingElements

\* Every list the router can make names some backend, none twice, and all that
\* serve the model if no limit cuts it: what BackendCalls is given to work on.
THEOREM EveryListComplete == AllListsComplete
<1> SUFFICES ASSUME NEW m \in Models, NEW n \in Counter, Matching[m] # <<>>, ~Panics(m, n)
             PROVE  /\ Candidates[m][n] \in Orders
                    /\ Limit = 0 => ToSet(Candidates[m][n]) = Serving(m)
  BY DEF AllListsComplete, ListComplete
<1> DEFINE s == Candidates[m][n]
           T == ToSet(s)
           k == Len(s)
<1>1. {b.name : b \in ServedBackends(m)} = Serving(m)
  BY DEF ServedBackends, Serving
<1>2. /\ s \in Seq(Serving(m)) /\ IsInjective(s) /\ s # <<>>
      /\ Limit = 0 => ToSet(s) = Serving(m)
  BY <1>1, CandidatesElements
<1>3. Serving(m) \subseteq Backends
  BY RoutedAssumption DEF Serving
<1> HIDE DEF s
<1>4. k \in Nat /\ DOMAIN s = 1 .. k
  BY <1>2, LenProperties
<1>5. s \in [1 .. k -> T] /\ T \subseteq Serving(m)
  <2>1. s = [i \in 1 .. k |-> s[i]]
    BY <1>2, <1>4, LenProperties
  <2>2. \A i \in 1 .. k : s[i] \in Serving(m)
    BY <1>2, ElementOfSeq
  <2>3. QED
    BY <1>4, <2>1, <2>2 DEF ToSet
<1>6. s \in Bijection(1 .. k, T)
  BY <1>2, <1>4, <1>5 DEF Bijection, Injection, Surjection, IsInjective, ToSet
<1>7. Cardinality(T) = k
  <2> HIDE DEF T, k
  <2>1. ExistsBijection(1 .. k, T)
    BY <1>6 DEF ExistsBijection
  <2>2. QED
    BY <1>4, <2>1, FS_CountingElements
<1>8. s \in SetToSeqs(T)
  <2> HIDE DEF T, k
  <2>1. \A i, j \in 1 .. Cardinality(T) : i # j => s[i] # s[j]
    BY <1>2, <1>4, <1>7 DEF IsInjective
  <2>2. QED
    BY <1>5, <1>7, <2>1 DEF SetToSeqs
<1>9. s \in SetToAllKPermutations(Backends)
  <2> HIDE DEF T, k
  <2>1. T \in SUBSET Backends
    BY <1>3, <1>5
  <2>2. QED
    BY <1>8, <2>1 DEF SetToAllKPermutations
<1>10. s \in Orders
  BY <1>2, <1>9, RoutedAssumption
<1>11. QED
  BY <1>2, <1>10 DEF s

\* The requests at work hold a list the router made for what they asked.
RoutingInv ==
  /\ RoutedTypeOK
  /\ \A r \in Requests :
       pc[r] # "idle" =>
         \E m \in Models, n \in Counter :
           /\ Matching[m] # <<>>
           /\ ~Panics(m, n)
           /\ asked[r] = m
           /\ targets[r] = Candidates[m][n]

\* No step leaves the counter outside the range of its width.
LEMMA CounterStays == ASSUME NEW m, NEW n \in Counter PROVE CounterAfter(m, n) \in Counter
<1>1. MaxInt \in Nat
  BY RouterAssumption
<1> DEFINE size == 2 * MaxInt + 2
<1>2. size \in Nat /\ size > 0 /\ n + 1 \in Nat
  BY <1>1 DEF Counter
<1>3. (n + 1) % size \in 0 .. size - 1
  <2>1. \A x \in Nat, y \in Nat : y > 0 => x % y \in 0 .. y - 1
    OBVIOUS
  <2>2. QED
    BY <1>2, <2>1
<1>4. (n + 1) % size \in Counter
  BY <1>1, <1>3 DEF Counter
<1>5. CASE Turns(m)
  BY <1>4, <1>5 DEF CounterAfter
<1>6. CASE ~Turns(m)
  BY <1>6 DEF CounterAfter
<1>7. QED
  BY <1>5, <1>6

\* A request that arrives takes a list of the router; every other step leaves
\* the lists alone or ends the request.
LEMMA RoutingStep ==
  TypeOK /\ WithinCandidates /\ RoutingInv /\ [RoutedNext]_routedVars => RoutingInv'
<1> SUFFICES ASSUME TypeOK, WithinCandidates, RoutingInv, [RoutedNext]_routedVars PROVE RoutingInv'
  OBVIOUS
<1>0. /\ pc \in [Requests -> {"idle", "ready", "inflight", "backoff", "done"}]
      /\ targets \in [Requests -> Seq(Backends)]
  BY DEF TypeOK
<1>1. ASSUME NEW r \in Requests, RoutedArrive(r) PROVE RoutingInv'
  <2>1. PICK k \in Kinds, m \in Models :
          /\ Matching[m] # <<>>
          /\ ~Panics(m, next)
          /\ Accept(r, k, Candidates[m][next])
          /\ next' = CounterAfter(m, next)
          /\ asked' = [asked EXCEPT ![r] = m]
          /\ UNCHANGED <<called, turnedAway>>
    BY <1>1 DEF RoutedArrive
  <2>2. RoutedTypeOK'
    BY <2>1, CounterStays DEF RoutingInv, RoutedTypeOK
  <2>3. next \in Counter
    BY DEF RoutingInv, RoutedTypeOK
  <2>4. SUFFICES ASSUME NEW q \in Requests, pc'[q] # "idle"
                 PROVE \E p \in Models, n \in Counter :
                         /\ Matching[p] # <<>>
                         /\ ~Panics(p, n)
                         /\ asked'[q] = p
                         /\ targets'[q] = Candidates[p][n]
    BY <2>2 DEF RoutingInv
  <2>5. asked \in [Requests -> Models \cup {NoModel}]
    BY DEF RoutingInv, RoutedTypeOK
  <2>6. CASE q = r
    <3>1. asked'[q] = m
      BY <2>1, <2>5, <2>6
    <3>2. targets'[q] = Candidates[m][next]
      BY <1>0, <2>1, <2>6 DEF Accept
    <3>3. QED
      BY <2>1, <2>3, <3>1, <3>2
  <2>7. CASE q # r
    <3>1. asked'[q] = asked[q]
      BY <2>1, <2>5, <2>7
    <3>2. targets'[q] = targets[q] /\ pc'[q] = pc[q]
      BY <1>0, <2>1, <2>7 DEF Accept
    <3>3. QED
      BY <2>4, <3>1, <3>2 DEF RoutingInv
  <2>8. QED
    BY <2>6, <2>7
<1>2. ASSUME NEW r \in Requests, PanickingArrive(r) PROVE RoutingInv'
  <2>1. next' \in Counter
    BY <1>2, CounterStays DEF PanickingArrive, RoutingInv, RoutedTypeOK
  <2>2. QED
    BY <1>2, <2>1 DEF PanickingArrive, RoutingInv, RoutedTypeOK, vars, requestVars, history
<1>3. ASSUME NEW r \in Requests, RoutedStep(r) PROVE RoutingInv'
  <2>0. called' \in [Requests -> SUBSET Backends] /\ turnedAway' \in [Requests -> SUBSET Backends]
    <3>1. /\ called \in [Requests -> SUBSET Backends]
          /\ turnedAway \in [Requests -> SUBSET Backends]
      BY DEF RoutingInv, RoutedTypeOK
    <3>2. pc[r] # "idle" => Target(r) \in Backends
      <4>1. ASSUME pc[r] # "idle" PROVE targets[r] \in Seq(Backends) /\ idx[r] \in DOMAIN targets[r]
        BY <1>0, <4>1 DEF WithinCandidates
      <4>2. QED
        BY <4>1, ElementOfSeq DEF Target
    <3>3. Noted(called, r, IF CallOver(r) THEN {Target(r)} ELSE {}) \in SUBSET Backends
      BY <3>1, <3>2 DEF Noted, CallOver
    <3>4. Noted(turnedAway, r, IF Barred(r) THEN {Target(r)} ELSE {}) \in SUBSET Backends
      BY <3>1, <3>2 DEF Noted, Barred
    <3>5. QED
      BY <1>3, <3>1, <3>3, <3>4 DEF RoutedStep
  <2>1. CASE pc'[r] = "idle"
    <3>1. /\ \A q \in Requests \ {r} : /\ pc'[q] = pc[q]
                                       /\ targets'[q] = targets[q]
                                       /\ asked'[q] = asked[q]
          /\ next' = next
          /\ asked' \in [Requests -> Models \cup {NoModel}]
      BY <1>0, <1>3, <2>1 DEF RoutedStep, HandlerStep, Admit, Refuse, Answer, Retry,
         Conclude, Resume, Reply, Advance, RoutingInv, RoutedTypeOK
    <3>2. QED
      BY <2>0, <2>1, <3>1 DEF RoutingInv, RoutedTypeOK
  <2>2. CASE pc'[r] # "idle"
    <3>1. /\ UNCHANGED <<targets, next>>
          /\ asked' = asked
          /\ pc[r] # "idle"
          /\ \A q \in Requests \ {r} : pc'[q] = pc[q]
      BY <1>0, <1>3, <2>2 DEF RoutedStep, HandlerStep, Admit, Refuse, Answer, Retry,
         Conclude, Resume, Reply, Advance, RoutingInv, RoutedTypeOK
    <3>2. QED
      BY <2>0, <3>1 DEF RoutingInv, RoutedTypeOK
  <2>3. QED
    BY <2>1, <2>2
<1>4. CASE EnvironmentStep /\ UNCHANGED <<next, history>>
  BY <1>4 DEF EnvironmentStep, StartCheck, EndCheck, Break, Repair, Tick,
     requestVars, RoutingInv, RoutedTypeOK, history
<1>5. CASE UNCHANGED routedVars
  BY <1>5 DEF routedVars, vars, requestVars, RoutingInv, RoutedTypeOK, history
<1>6. QED
  BY <1>1, <1>2, <1>3, <1>4, <1>5 DEF RoutedNext

\* A step of the routed calls is a step of BackendCalls, or none.
LEMMA RoutedStepMaps ==
  ASSUME RoutedTypeOK, [RoutedNext]_routedVars PROVE [Next]_vars
<1>1. ASSUME NEW r \in Requests, RoutedArrive(r) PROVE Arrive(r)
  <2>1. PICK k \in Kinds, m \in Models :
          Matching[m] # <<>> /\ ~Panics(m, next) /\ Accept(r, k, Candidates[m][next])
    BY <1>1 DEF RoutedArrive
  <2>2. Candidates[m][next] \in Orders
    BY <2>1, EveryListComplete DEF AllListsComplete, ListComplete, RoutedTypeOK
  <2>3. QED
    BY <2>1, <2>2 DEF Arrive
<1>2. ASSUME NEW r \in Requests, PanickingArrive(r) PROVE UNCHANGED vars
  BY <1>2 DEF PanickingArrive
<1>3. ASSUME NEW r \in Requests, RoutedStep(r) PROVE HandlerStep(r)
  BY <1>3 DEF RoutedStep
<1>4. CASE UNCHANGED routedVars
  BY <1>4 DEF routedVars
<1>5. QED
  BY <1>1, <1>2, <1>3, <1>4 DEF RoutedNext, Next

\* What is known of the routed calls: the invariant of the calls, the loops'
\* bounds, and the lists.
RoutedInv == CallsInv /\ LoopInv /\ RoutingInv

LEMMA RoutedInitInv == RoutedInit => Init /\ RoutedInv
<1> SUFFICES ASSUME RoutedInit PROVE Init /\ RoutedInv
  OBVIOUS
<1>1. Init /\ CallsInv
  BY InitInv DEF RoutedInit
<1>2. LoopInv
  BY <1>1 DEF Init, CallsInv, LoopInv, WithinCandidates, ExhaustsCandidates
<1>3. RoutingInv
  BY RouterAssumption DEF RoutedInit, Init, RoutingInv, RoutedTypeOK, Counter
<1>4. QED
  BY <1>1, <1>2, <1>3 DEF RoutedInv

LEMMA RoutedInvStep ==
  RoutedInv /\ [RoutedNext]_routedVars => [Next]_vars /\ RoutedInv'
<1> SUFFICES ASSUME RoutedInv, [RoutedNext]_routedVars PROVE [Next]_vars /\ RoutedInv'
  OBVIOUS
<1>1. CallsInv /\ LoopInv /\ RoutingInv /\ TypeOK /\ RoutedTypeOK /\ WithinCandidates
  BY DEF RoutedInv, CallsInv, LoopInv, RoutingInv
<1>2. [Next]_vars
  BY <1>1, RoutedStepMaps
<1>3. CallsInv' /\ TypeOK'
  BY <1>1, <1>2, StepInv DEF CallsInv
<1>4. LoopInv'
  BY <1>1, <1>2, <1>3, LoopStep
<1>5. RoutingInv'
  BY <1>1, RoutingStep
<1>6. QED
  BY <1>2, <1>3, <1>4, <1>5 DEF RoutedInv

\* The calls of routed requests are calls of BackendCalls, for every
\* configuration, strategy, limit and width; so every invariant proved of
\* BackendCalls holds of the proxy with its router.
THEOREM RoutedRefinesCalls == RoutedSpec => Spec
<1>1. QED
  BY RoutedInitInv, RoutedInvStep, PTL DEF RoutedSpec, Spec

\* The targets a request is through with each failed a call or were refused,
\* none both.
Passed(r) == 1 .. (IF pc[r] = "done" THEN idx[r] ELSE idx[r] - 1)

MetInv ==
  Limit = 0 => \A r \in Requests :
    /\ called[r] \cup turnedAway[r] =
         IF pc[r] = "idle" THEN {} ELSE {targets[r][i] : i \in Passed(r)}
    /\ called[r] \cap turnedAway[r] = {}
    /\ pc[r] = "done" =>
         Target(r) \in IF result[r] = Refused THEN turnedAway[r] ELSE called[r]

\* What the loop's decision adds to the targets passed.
LEMMA PassedAfter ==
  ASSUME RoutedInv, NEW r \in Requests, NEW a, pc[r] \notin {"idle", "done"},
         Advance(r, a), UNCHANGED targets
  PROVE  /\ {targets'[r][i] : i \in Passed(r)'} =
              {targets[r][i] : i \in Passed(r)} \cup {Target(r)}
         /\ Target(r) \notin {targets[r][i] : i \in Passed(r)}
         /\ pc'[r] \in {"ready", "done"}
         /\ pc'[r] = "done" => result'[r] = a /\ Target(r)' = Target(r)
         /\ \A q \in Requests \ {r} :
              pc'[q] = pc[q] /\ idx'[q] = idx[q] /\ result'[q] = result[q]
<1>1. TypeOK /\ WithinCandidates /\ RoutingInv
  BY DEF RoutedInv, LoopInv
<1>2. /\ pc \in [Requests -> {"idle", "ready", "inflight", "backoff", "done"}]
      /\ idx \in [Requests -> Nat]
      /\ result \in [Requests -> Answers \cup {NoResult, Refused}]
      /\ targets \in [Requests -> Seq(Backends)]
  BY <1>1 DEF TypeOK
<1>3. idx[r] \in 1 .. Len(targets[r]) /\ Passed(r) = 1 .. idx[r] - 1 /\ idx[r] \in Nat
  BY <1>1, <1>2 DEF WithinCandidates, Passed
<1>4. \/ pc' = [pc EXCEPT ![r] = "ready"] /\ idx' = [idx EXCEPT ![r] = @ + 1] /\ result' = result
      \/ pc' = [pc EXCEPT ![r] = "done"] /\ idx' = idx /\ result' = [result EXCEPT ![r] = a]
  BY DEF Advance
<1>5. Passed(r)' = Passed(r) \cup {idx[r]}
  <2>1. Passed(r)' = 1 .. idx[r]
    <3>1. CASE pc' = [pc EXCEPT ![r] = "ready"] /\ idx' = [idx EXCEPT ![r] = @ + 1]
      <4>1. pc'[r] = "ready" /\ idx'[r] = idx[r] + 1
        BY <1>2, <3>1
      <4>2. Passed(r)' = 1 .. (idx[r] + 1) - 1
        BY <4>1 DEF Passed
      <4>3. QED
        BY <1>3, <4>2
    <3>2. CASE pc' = [pc EXCEPT ![r] = "done"] /\ idx' = idx
      BY <1>2, <3>2 DEF Passed
    <3>3. QED
      BY <1>4, <3>1, <3>2
  <2>2. QED
    BY <1>3, <2>1
<1>6. Target(r) \notin {targets[r][i] : i \in Passed(r)}
  <2>1. IsInjective(targets[r])
    BY <1>1, CandidatesElements DEF RoutingInv
  <2>2. \A i \in Passed(r) : i \in DOMAIN targets[r] /\ i # idx[r]
    BY <1>2, <1>3
  <2>3. idx[r] \in DOMAIN targets[r]
    BY <1>2, <1>3
  <2>4. QED
    BY <2>1, <2>2, <2>3 DEF IsInjective, Target
<1>7. QED
  BY <1>2, <1>4, <1>5, <1>6 DEF Target

LEMMA MetStep == RoutedInv /\ MetInv /\ [RoutedNext]_routedVars => MetInv'
<1> SUFFICES ASSUME RoutedInv, MetInv, [RoutedNext]_routedVars, Limit = 0 PROVE MetInv'
  BY DEF MetInv
<1>1. TypeOK /\ RoutedTypeOK /\ CallsInv
  BY DEF RoutedInv, LoopInv, RoutingInv
<1>2. /\ pc \in [Requests -> {"idle", "ready", "inflight", "backoff", "done"}]
      /\ idx \in [Requests -> Nat]
      /\ result \in [Requests -> Answers \cup {NoResult, Refused}]
      /\ targets \in [Requests -> Seq(Backends)]
      /\ called \in [Requests -> SUBSET Backends]
      /\ turnedAway \in [Requests -> SUBSET Backends]
  BY <1>1 DEF TypeOK, RoutedTypeOK
<1> DEFINE Met(q) ==
             /\ called[q] \cup turnedAway[q] =
                  IF pc[q] = "idle" THEN {} ELSE {targets[q][i] : i \in Passed(q)}
             /\ called[q] \cap turnedAway[q] = {}
             /\ pc[q] = "done" =>
                  Target(q) \in IF result[q] = Refused THEN turnedAway[q] ELSE called[q]
           Same(q) ==
             /\ pc'[q] = pc[q] /\ idx'[q] = idx[q] /\ targets'[q] = targets[q]
             /\ result'[q] = result[q]
             /\ called'[q] = called[q] /\ turnedAway'[q] = turnedAway[q]
<1>3. \A q \in Requests : Met(q)
  BY DEF MetInv
<1>4. ASSUME NEW q \in Requests, Same(q) PROVE Met(q)'
  BY <1>3, <1>4 DEF Passed, Target
<1>5. ASSUME NEW r \in Requests, RoutedArrive(r) PROVE MetInv'
  <2>1. /\ pc[r] = "idle" /\ pc' = [pc EXCEPT ![r] = "ready"] /\ idx' = [idx EXCEPT ![r] = 1]
        /\ UNCHANGED <<called, turnedAway, result>>
        /\ \A q \in Requests \ {r} : targets'[q] = targets[q]
    BY <1>2, <1>5 DEF RoutedArrive, Accept
  <2>2. \A q \in Requests \ {r} : Same(q)
    BY <1>2, <2>1
  <2>3. Met(r)'
    <3>1. called'[r] = {} /\ turnedAway'[r] = {} /\ pc'[r] = "ready" /\ idx'[r] = 1
      BY <1>2, <1>3, <2>1
    <3>2. Passed(r)' = {}
      BY <3>1 DEF Passed
    <3>3. QED
      BY <3>1, <3>2
  <2>4. QED
    BY <1>4, <2>2, <2>3 DEF MetInv
<1>6. ASSUME NEW r \in Requests, RoutedStep(r) PROVE MetInv'
  <2>1. /\ HandlerStep(r)
        /\ called' = [called EXCEPT ![r] = Noted(called, r, IF CallOver(r) THEN {Target(r)} ELSE {})]
        /\ turnedAway' = [turnedAway EXCEPT ![r] = Noted(turnedAway, r, IF Barred(r) THEN {Target(r)} ELSE {})]
    BY <1>6 DEF RoutedStep
  <2>2. \A q \in Requests \ {r} : called'[q] = called[q] /\ turnedAway'[q] = turnedAway[q]
    BY <1>2, <2>1
  <2>3. /\ called'[r] = Noted(called, r, IF CallOver(r) THEN {Target(r)} ELSE {})
        /\ turnedAway'[r] = Noted(turnedAway, r, IF Barred(r) THEN {Target(r)} ELSE {})
    BY <1>2, <2>1
  <2>4. SUFFICES (\A q \in Requests \ {r} : Same(q)) /\ Met(r)'
    BY <1>4 DEF MetInv
  <2>5. CASE Admit(r) \/ Resume(r) \/ \E a \in MayAnswer(Target(r)) : Retry(r, a) /\ pc[r] = "inflight"
    <3>1. /\ UNCHANGED <<targets, idx, result>>
          /\ \A q \in Requests \ {r} : pc'[q] = pc[q]
          /\ pc[r] \in {"ready", "inflight", "backoff"} /\ pc'[r] \in {"inflight", "backoff"}
          /\ ~CallOver(r) /\ ~Barred(r)
      BY <1>2, <2>5 DEF Admit, Resume, Retry, CallOver, Barred
    <3>2. called'[r] = called[r] /\ turnedAway'[r] = turnedAway[r]
      BY <2>3, <3>1 DEF Noted
    <3>3. Met(r)'
      BY <1>3, <3>1, <3>2 DEF Passed, Target
    <3>4. QED
      BY <2>2, <3>1, <3>3
  <2>6. CASE Reply(r)
    <3>1. /\ pc'[r] = "idle"
          /\ \A q \in Requests \ {r} : /\ pc'[q] = pc[q] /\ idx'[q] = idx[q]
                                        /\ targets'[q] = targets[q] /\ result'[q] = result[q]
      BY <1>2, <2>6 DEF Reply
    <3>2. called'[r] = {} /\ turnedAway'[r] = {}
      BY <2>3, <3>1 DEF Noted
    <3>3. QED
      BY <2>2, <3>1, <3>2
  <2>7. ASSUME NEW a, Advance(r, a), UNCHANGED targets, pc[r] \in {"ready", "inflight"},
               pc[r] = "ready" <=> a = Refused
        PROVE  (\A q \in Requests \ {r} : Same(q)) /\ Met(r)'
    <3>1. /\ {targets'[r][i] : i \in Passed(r)'} =
               {targets[r][i] : i \in Passed(r)} \cup {Target(r)}
          /\ Target(r) \notin {targets[r][i] : i \in Passed(r)}
          /\ pc'[r] \in {"ready", "done"}
          /\ pc'[r] = "done" => result'[r] = a /\ Target(r)' = Target(r)
          /\ \A q \in Requests \ {r} :
               pc'[q] = pc[q] /\ idx'[q] = idx[q] /\ result'[q] = result[q]
      BY <2>7, PassedAfter
    <3> DEFINE T == Target(r)
               P == {targets[r][i] : i \in Passed(r)}
    <3>2. called[r] \cup turnedAway[r] = P /\ called[r] \cap turnedAway[r] = {}
      BY <1>3, <2>7
    <3>3. /\ called'[r] = called[r] \cup (IF a = Refused THEN {} ELSE {T})
          /\ turnedAway'[r] = turnedAway[r] \cup (IF a = Refused THEN {T} ELSE {})
      BY <2>3, <2>7, <3>1 DEF Noted, CallOver, Barred
    <3>4. /\ called'[r] \cup turnedAway'[r] = P \cup {T}
          /\ called'[r] \cap turnedAway'[r] = {}
          /\ T \in IF a = Refused THEN turnedAway'[r] ELSE called'[r]
      <4> HIDE DEF T, P
      <4>1. T \notin P
        BY <3>1 DEF T, P
      <4>2. QED
        BY <3>2, <3>3, <4>1
    <3>5. Met(r)'
      BY <3>1, <3>4
    <3>6. QED
      BY <2>2, <2>7, <3>1, <3>5
  <2>8. CASE Refuse(r)
    BY <2>7, <2>8 DEF Refuse
  <2>9. CASE \E a \in MayAnswer(Target(r)) : Conclude(r, a) /\ pc[r] = "inflight"
    <3>1. PICK a \in MayAnswer(Target(r)) : Conclude(r, a) /\ pc[r] = "inflight"
      BY <2>9
    <3>2. a # Refused
      BY CallsAssumption DEF MayAnswer, Answers, Refused
    <3>3. QED
      BY <2>7, <3>1, <3>2 DEF Conclude
  <2>10. QED
    BY <2>1, <2>5, <2>6, <2>8, <2>9 DEF HandlerStep, Answer
<1>7. CASE \/ \E r \in Requests : PanickingArrive(r)
           \/ EnvironmentStep /\ UNCHANGED <<next, history>>
           \/ UNCHANGED routedVars
  <2>1. UNCHANGED <<pc, idx, targets, result, called, turnedAway>>
    BY <1>7 DEF PanickingArrive, EnvironmentStep, StartCheck, EndCheck, Break, Repair, Tick,
       requestVars, vars, history, routedVars
  <2>2. QED
    BY <1>4, <2>1 DEF MetInv
<1>8. QED
  BY <1>5, <1>6, <1>7 DEF RoutedNext

\* When a client of the routed proxy with failover and no limit gets an error, a
\* refusal, a failover status or a poisoned stream, each enabled backend that
\* serves its model failed a call of the request or was kept from it by the
\* breaker; what was kept from it was not contacted.
THEOREM NobodyLeftOut == RoutedSpec => []LastResort
<1>1. RoutedInit => RoutedInv /\ MetInv
  BY RoutedInitInv DEF RoutedInit, Init, MetInv
<1>2. RoutedInv /\ MetInv => LastResort
  <2> SUFFICES ASSUME RoutedInv, MetInv, NEW r \in Requests,
                      pc[r] = "done", Failover, Limit = 0, MovesOn(kind[r], result[r])
               PROVE  called[r] \cup turnedAway[r] = Serving(asked[r])
    BY DEF LastResort, MetInv
  <2>1. TypeOK /\ RoutingInv /\ ExhaustsCandidates
    BY DEF RoutedInv, LoopInv
  <2>2. PICK m \in Models, n \in Counter :
          /\ Matching[m] # <<>> /\ ~Panics(m, n)
          /\ asked[r] = m /\ targets[r] = Candidates[m][n]
    BY <2>1 DEF RoutingInv
  <2>3. ToSet(targets[r]) = Serving(asked[r])
    BY <2>2, EveryListComplete DEF AllListsComplete, ListComplete
  <2>4. Passed(r) = DOMAIN targets[r]
    BY <2>1 DEF ExhaustsCandidates, Passed, TypeOK
  <2>5. called[r] \cup turnedAway[r] = {targets[r][i] : i \in Passed(r)}
    BY DEF MetInv
  <2>6. QED
    BY <2>3, <2>4, <2>5 DEF ToSet
<1>3. RoutedInv /\ [RoutedNext]_routedVars => RoutedInv'
  BY RoutedInvStep
<1>4. QED
  BY <1>1, <1>2, <1>3, MetStep, PTL DEF RoutedSpec

\* The counter stays in its range, whatever moves it.
THEOREM RoutingHolds == RoutedSpec => []RoutingInv
<1>1. RoutedInv => RoutingInv
  BY DEF RoutedInv
<1>2. QED
  BY <1>1, RoutedInitInv, RoutedInvStep, PTL DEF RoutedSpec

\* Wherever requests for several models have left the shared counter, the next
\* list for each of them is complete.
THEOREM NextListsComplete == RoutedSpec => []ListsComplete
<1>1. RoutingInv => ListsComplete
  BY EveryListComplete DEF RoutingInv, RoutedTypeOK, AllListsComplete, ListsComplete
<1>2. QED
  BY <1>1, RoutingHolds, PTL

\* In every round in which the counter does not wrap, each backend leads as often
\* as its weight says, whatever the other models' requests did before.
THEOREM TurnsShared == RoutedSpec => []SharesFair
<1>1. RoutingInv => SharesFair
  <2> SUFFICES ASSUME RoutingInv, NEW m \in Models, Turns(m),
                      \A n \in next .. next + Len(Wheel[m]) - 1 : n <= MaxInt,
                      NEW b \in ToSet(Matching[m])
               PROVE  Cardinality({n \in next .. next + Len(Wheel[m]) - 1 :
                                     Candidates[m][n][1] = b.name})
                        = IF Strategy = Weighted THEN Weight(b) ELSE 1
    BY Zenon DEF SharesFair
  <2> DEFINE L == Len(Wheel[m])
  <2>1. next \in Nat
    BY RouterAssumption DEF RoutingInv, RoutedTypeOK, Counter
  <2>2. L \in Nat /\ L > 0
    <3>1. Wheel[m] \in Seq(ToSet(Configured)) /\ Wheel[m] # <<>>
      BY WheelElements DEF Turns
    <3>2. QED
      BY <3>1, EmptySeq, LenProperties
  <2> HIDE DEF L
  <2>3. next + L - 1 \in next .. next + L - 1
    BY <2>1, <2>2
  <2>4. next + L - 1 <= MaxInt
    BY <2>3 DEF L
  <2>5. QED
    BY <2>1, <2>4, RoundShares DEF L
<1>2. QED
  BY <1>1, RoutingHolds, PTL

===============================================================================
