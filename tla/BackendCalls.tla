----------------------------- MODULE BackendCalls -----------------------------
(*****************************************************************************)
(* How requests reach the backends: the failover loops of                    *)
(* internal/handler/backend.go, the retrying executor of                     *)
(* internal/reliability/retry.go for JSON calls, the single-shot streaming   *)
(* call of internal/handler/reliability.go and the health monitor of         *)
(* internal/reliability/health.go.  All of them report to the one circuit    *)
(* breaker that handler.New creates.                                         *)
(*                                                                           *)
(* Requests are goroutines: a step of one may fall between any two steps of  *)
(* another.  A call is in flight from Allow to the backend's answer, so      *)
(* answers arrive in any order and long after the circuit changed.           *)
(*****************************************************************************)
EXTENDS CircuitBreaker, Sequences

CONSTANTS
  Requests,       \* request slots: concurrent handler goroutines
  Backends,
  Orders,         \* candidate lists the router may produce
  MaxAttempts,    \* attempts of one executor call (1 when retry is off)
  Failover,       \* failover_enabled
  FailoverStatus, \* answers listed in failover_status_codes
  HealthTargets,  \* {} or the one backend the health monitor polls
  Reliable,       \* backends that never break (an environment choice)
  BadAnswers      \* what a broken backend answers (an environment choice)

\* Classes of answers a call may get; "busy" is 429, 502, 503 or 504, "error" a
\* transport error or timeout, "poisoned" a 2xx stream whose first bytes cannot
\* be read or hold one of failover_stream_error_patterns.
Answers == {"ok", "fail500", "busy", "poisoned", "error"}
Statuses == Answers \ {"error", "poisoned"}

Kinds == {"json", "stream"}
NoResult == "none"
Refused == "refused"       \* ErrCircuitOpen

ASSUME CallsAssumption ==
  /\ Orders \subseteq Seq(Backends) \ {<<>>}
  /\ MaxAttempts \in Nat \ {0}
  /\ Failover \in BOOLEAN
  /\ FailoverStatus \subseteq Statuses \ {"ok"}
  /\ HealthTargets \subseteq Backends
  /\ Reliable \subseteq Backends
  /\ BadAnswers \subseteq Answers \ {"ok"}
  /\ BadAnswers # {}

VARIABLES
  pc,         \* where each request is
  kind,       \* "json" or "stream"
  targets,    \* the candidate list of the request
  idx,        \* index of the target being called
  attempt,    \* attempt number within the executor call
  result,     \* what the failover loop returned
  checking,   \* health checks in flight
  up,         \* backends that currently work
  owed,       \* history: admissions not yet reported to the breaker
  probes      \* history: requests admitted in the current half-open episode

requestVars == <<pc, kind, targets, idx, attempt, result>>
vars == <<breakerVars, requestVars, checking, up, owed, probes>>

InCall == {"inflight", "backoff"}

TypeOK ==
  /\ BreakerTypeOK
  /\ pc \in [Requests -> {"idle", "ready", "inflight", "backoff", "done"}]
  /\ kind \in [Requests -> Kinds]
  /\ targets \in [Requests -> Seq(Backends)]
  /\ idx \in [Requests -> Nat]
  /\ attempt \in [Requests -> 0 .. MaxAttempts]
  /\ result \in [Requests -> Answers \cup {NoResult, Refused}]
  /\ checking \subseteq HealthTargets
  /\ up \subseteq Backends
  /\ owed \in [Requests -> Nat]
  /\ probes \subseteq Requests

Init ==
  /\ NewCircuitBreaker
  /\ pc = [r \in Requests |-> "idle"]
  /\ kind = [r \in Requests |-> "json"]
  /\ targets = [r \in Requests |-> <<>>]
  /\ idx = [r \in Requests |-> 0]
  /\ attempt = [r \in Requests |-> 0]
  /\ result = [r \in Requests |-> NoResult]
  /\ checking = {}
  /\ up = Backends
  /\ owed = [r \in Requests |-> 0]
  /\ probes = {}

(*****************************************************************************)
(* Classification of answers.                                                *)
(*****************************************************************************)
Retryable(a) == a \in {"busy", "error"}

\* What the two call paths report to the breaker once the call is over: the
\* executor counts every status outside retryableStatus, 500 included, as a
\* success; the streaming path counts every status >= 500 and 429 as a failure.
CountsAsFailure(k, a) ==
  IF k = "json" THEN Retryable(a) ELSE a \in {"busy", "error", "fail500"}

\* Whether the failover loop gives the request to the next target.
MovesOn(k, a) ==
  \/ a \in {"error", Refused}
  \/ a \in FailoverStatus
  \/ k = "stream" /\ a = "poisoned"

\* What backend b may answer at this moment.
MayAnswer(b) == IF b \in up THEN {"ok"} ELSE BadAnswers

Target(r) == targets[r][idx[r]]

(*****************************************************************************)
(* Steps of a request.                                                       *)
(*****************************************************************************)
\* The handler enters the failover loop of its kind with the list ts.
Accept(r, k, ts) ==
  /\ pc[r] = "idle"
  /\ kind' = [kind EXCEPT ![r] = k]
  /\ targets' = [targets EXCEPT ![r] = ts]
  /\ pc' = [pc EXCEPT ![r] = "ready"]
  /\ idx' = [idx EXCEPT ![r] = 1]
  /\ UNCHANGED <<breakerVars, attempt, result, checking, up, owed, probes>>

\* A request arrives and the router answers with some list.
Arrive(r) == \E k \in Kinds, ts \in Orders : Accept(r, k, ts)

\* Seeded fault: off by one, the last target is never tried.
AdvanceNotToLast(r, a) ==
  IF Failover /\ idx[r] + 1 < Len(targets[r]) /\ MovesOn(kind[r], a)
  THEN /\ pc' = [pc EXCEPT ![r] = "ready"]
       /\ idx' = [idx EXCEPT ![r] = @ + 1]
       /\ UNCHANGED result
  ELSE /\ pc' = [pc EXCEPT ![r] = "done"]
       /\ result' = [result EXCEPT ![r] = a]
       /\ UNCHANGED idx

\* The loop's continue/return decision after the target's final answer a.
Advance(r, a) ==
  IF Failover /\ idx[r] < Len(targets[r]) /\ MovesOn(kind[r], a)
  THEN /\ pc' = [pc EXCEPT ![r] = "ready"]
       /\ idx' = [idx EXCEPT ![r] = @ + 1]
       /\ UNCHANGED result
  ELSE /\ pc' = [pc EXCEPT ![r] = "done"]
       /\ result' = [result EXCEPT ![r] = a]
       /\ UNCHANGED idx

\* Requests admitted in this half-open episode, after a step of the breaker.
ProbesAfter(more) == IF state' = HalfOpen THEN probes \cup more ELSE {}

\* Allow answers true: the call goes out to the backend.
Admit(r) ==
  /\ pc[r] = "ready"
  /\ Granted
  /\ Allow
  /\ pc' = [pc EXCEPT ![r] = "inflight"]
  /\ attempt' = [attempt EXCEPT ![r] = 1]
  /\ owed' = [owed EXCEPT ![r] = @ + 1]
  /\ probes' = ProbesAfter({r})
  /\ UNCHANGED <<kind, targets, idx, result, checking, up>>

\* Allow answers false: ErrCircuitOpen, without contacting the backend.
Refuse(r) ==
  /\ pc[r] = "ready"
  /\ ~Granted
  /\ Allow
  /\ Advance(r, Refused)
  /\ probes' = ProbesAfter({})
  /\ UNCHANGED <<kind, targets, attempt, checking, up, owed>>

\* Seeded fault: off by one, retry_max_attempts counts the retries only.
AttemptsOfPlusOne(r) == IF kind[r] = "json" THEN MaxAttempts + 1 ELSE 1

\* Attempts of an executor call: only JSON calls retry.
AttemptsOf(r) == IF kind[r] = "json" THEN MaxAttempts ELSE 1

\* Seeded fault: the last attempt backs off as well.
RetryAlways(r, a) ==
  /\ Retryable(a)
  /\ kind[r] = "json"
  /\ pc' = [pc EXCEPT ![r] = "backoff"]
  /\ UNCHANGED <<breakerVars, kind, targets, idx, attempt, result,
                 checking, up, owed, probes>>

\* A JSON call retries: drain the answer and sleep; the breaker hears nothing.
Retry(r, a) ==
  /\ Retryable(a)
  /\ attempt[r] < AttemptsOf(r)
  /\ pc' = [pc EXCEPT ![r] = "backoff"]
  /\ UNCHANGED <<breakerVars, kind, targets, idx, attempt, result,
                 checking, up, owed, probes>>

\* What the end of a call reports to the breaker.
Report(r, a) ==
  IF CountsAsFailure(kind[r], a) THEN RecordFailure ELSE RecordSuccess

\* The last answer of the call: report it, then move on or return.
Conclude(r, a) ==
  /\ ~(Retryable(a) /\ attempt[r] < AttemptsOf(r))
  /\ Report(r, a)
  /\ Advance(r, a)
  /\ attempt' = [attempt EXCEPT ![r] = 0]
  /\ owed' = [owed EXCEPT ![r] = @ - 1]
  /\ probes' = ProbesAfter({})
  /\ UNCHANGED <<kind, targets, checking, up>>

Answer(r) ==
  /\ pc[r] = "inflight"
  /\ \E a \in MayAnswer(Target(r)) : Retry(r, a) \/ Conclude(r, a)

\* Seeded fault: each attempt asks Allow again.
ResumeAskingAgain(r) ==
  /\ pc[r] = "backoff"
  /\ Granted
  /\ Allow
  /\ pc' = [pc EXCEPT ![r] = "inflight"]
  /\ attempt' = [attempt EXCEPT ![r] = @ + 1]
  /\ owed' = [owed EXCEPT ![r] = @ + 1]
  /\ probes' = ProbesAfter({r})
  /\ UNCHANGED <<kind, targets, idx, result, checking, up>>

\* Seeded fault: the attempt is not counted.
ResumeNotCounting(r) ==
  /\ pc[r] = "backoff"
  /\ pc' = [pc EXCEPT ![r] = "inflight"]
  /\ UNCHANGED <<breakerVars, kind, targets, idx, attempt, result,
                 checking, up, owed, probes>>

\* The back-off is over: the next attempt goes out without asking the breaker.
Resume(r) ==
  /\ pc[r] = "backoff"
  /\ pc' = [pc EXCEPT ![r] = "inflight"]
  /\ attempt' = [attempt EXCEPT ![r] = @ + 1]
  /\ UNCHANGED <<breakerVars, kind, targets, idx, result,
                 checking, up, owed, probes>>

\* The handler has replied to its client; the slot is free again.
Reply(r) ==
  /\ pc[r] = "done"
  /\ pc' = [pc EXCEPT ![r] = "idle"]
  /\ kind' = [kind EXCEPT ![r] = "json"]
  /\ targets' = [targets EXCEPT ![r] = <<>>]
  /\ idx' = [idx EXCEPT ![r] = 0]
  /\ result' = [result EXCEPT ![r] = NoResult]
  /\ UNCHANGED <<breakerVars, attempt, checking, up, owed, probes>>

(*****************************************************************************)
(* The health monitor: Check sends GET /v1/models without asking Allow and   *)
(* reports the answer to the same breaker.                                   *)
(*****************************************************************************)
StartCheck(b) ==
  /\ b \in HealthTargets \ checking
  /\ checking' = checking \cup {b}
  /\ UNCHANGED <<breakerVars, requestVars, up, owed, probes>>

EndCheck(b) ==
  /\ b \in checking
  /\ checking' = checking \ {b}
  /\ IF b \in up THEN RecordSuccess ELSE RecordFailure
  /\ probes' = ProbesAfter({})
  /\ UNCHANGED <<requestVars, up, owed>>

(*****************************************************************************)
(* The environment.                                                          *)
(*****************************************************************************)
Tick ==
  /\ ClockTick
  /\ UNCHANGED <<requestVars, checking, up, owed, probes>>

Break(b) ==
  /\ b \in up \ Reliable
  /\ up' = up \ {b}
  /\ UNCHANGED <<breakerVars, requestVars, checking, owed, probes>>

Repair(b) ==
  /\ b \in Backends \ up
  /\ up' = up \cup {b}
  /\ UNCHANGED <<breakerVars, requestVars, checking, owed, probes>>

HandlerStep(r) == Admit(r) \/ Refuse(r) \/ Answer(r) \/ Resume(r) \/ Reply(r)

EnvironmentStep ==
  \/ \E b \in Backends : StartCheck(b) \/ EndCheck(b) \/ Break(b) \/ Repair(b)
  \/ Tick

Next ==
  \/ \E r \in Requests : Arrive(r) \/ HandlerStep(r)
  \/ EnvironmentStep

Spec == Init /\ [][Next]_vars

(*****************************************************************************)
(* Fairness.  Every goroutine is scheduled; http.Client has a timeout, so    *)
(* a call that is out is eventually answered; time passes; the monitor's     *)
(* ticker fires.  That clients keep sending requests is an assumption on     *)
(* the workload, needed only where the circuit must be given a probe.        *)
(*****************************************************************************)
HandlerFairness ==
  /\ \A r \in Requests : WF_vars(HandlerStep(r))
  /\ \A b \in Backends : WF_vars(StartCheck(b)) /\ WF_vars(EndCheck(b))
  /\ WF_vars(Tick)

WorkloadFairness == \A r \in Requests : WF_vars(Arrive(r))

FairSpec == Spec /\ HandlerFairness
BusySpec == FairSpec /\ WorkloadFairness

-------------------------------------------------------------------------------
(*****************************************************************************)
(* Properties.                                                               *)
(*****************************************************************************)

\* The breaker's redundant fields never disagree (circuit.go keeps state,
\* failures and probeActive separately and RecordFailure sets failures even on
\* an open circuit): the circuit is closed exactly while fewer than Threshold
\* failures stand, and half-open exactly while its probe is outstanding, so a
\* half-open circuit never waits for a probe nobody sends.
BreakerConsistent ==
  /\ state = Closed <=> failures < Threshold
  /\ state = HalfOpen <=> probeActive

\* A half-open circuit has admitted exactly one request, and that request is
\* still on its way to report; this holds although results of calls admitted
\* before the circuit opened, and health checks, arrive in between.  If it
\* failed, either two probes hit a recovering backend or the circuit would
\* refuse every request for good (Allow, circuit.go:62-66).
OneProbe ==
  IF state = HalfOpen
  THEN \E r \in Requests : probes = {r} /\ pc[r] \in InCall
  ELSE probes = {}

\* Every call that Allow admitted is reported to the breaker exactly once,
\* whatever mix of retries, failovers and errors ends it: a request owes one
\* report while its call is out and none otherwise.
ReportedOnce ==
  \A r \in Requests : owed[r] = IF pc[r] \in InCall THEN 1 ELSE 0

\* The invariant that carries these: a call waits in back-off only while it has
\* an attempt left (retry.go:89), and a disabled breaker never leaves closed.
CallsInv ==
  /\ TypeOK
  /\ BreakerConsistent
  /\ OneProbe
  /\ ReportedOnce
  /\ \A r \in Requests : pc[r] = "backoff" => attempt[r] < MaxAttempts
  /\ ~Enabled => state = Closed

\* With failover on, a client gets an error, a failover status or a poisoned
\* stream only when no candidate is left: three kinds of failed target, two
\* loops and the breaker's refusals all pass the request on until the last one
\* (backend.go:94-162).
ExhaustsCandidates ==
  \A r \in Requests :
    pc[r] = "done" /\ Failover /\ MovesOn(kind[r], result[r])
    => idx[r] = Len(targets[r])

\* A request that entered a handler is replied to: retries and failover are
\* bounded and no state of the breaker blocks a request.
RequestsComplete ==
  \A r \in Requests : pc[r] = "ready" ~> pc[r] = "idle"

\* Once the backends work for good the circuit closes for good, however many
\* stale failures were still on their way when they recovered.
CircuitRecovers ==
  <>[](up = Backends) => <>[](state = Closed)

\* What docs/archives/MULTI_BACKEND_SETUP_ID.md:394-399 promises: provider-a
\* answers 503, provider-b 200, the client gets 200 - so with a candidate that
\* never breaks, some request succeeds again and again.
FailoverKeepsServing ==
  []<>(\E r \in Requests : pc[r] = "done" /\ result[r] = "ok")

===============================================================================
