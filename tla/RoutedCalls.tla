------------------------------ MODULE RoutedCalls ------------------------------
(*****************************************************************************)
(* The backend calls of BackendCalls with the lists that the router of       *)
(* Router hands out: modelTargets (internal/handler/backend.go) asks         *)
(* Candidates once per request, and all handlers share its counter.          *)
(*****************************************************************************)
EXTENDS BackendCalls, Router

NoModel == "none"

\* The router only knows the backends of the configuration, which main.go has in
\* place before the first request.  The calls allow every list that names a
\* backend at most once.
ASSUME RoutedAssumption ==
  /\ \A i \in DOMAIN Configured : Configured[i].name \in Backends
  /\ HealthTargets \subseteq {Configured[1].name}
  /\ SetToAllKPermutations(Backends) \ {<<>>} \subseteq Orders
  /\ NoModel \notin Models

VARIABLES
  next,      \* the counter of the router, as many low bits as an int has
  asked,     \* history: the model each request at work asked for
  called,    \* history: the targets that answered each request or failed it
  turnedAway \* history: the targets the breaker kept each request from

history == <<asked, called, turnedAway>>
routedVars == <<vars, next, history>>

RoutedTypeOK ==
  /\ next \in Counter
  /\ asked \in [Requests -> Models \cup {NoModel}]
  /\ called \in [Requests -> SUBSET Backends]
  /\ turnedAway \in [Requests -> SUBSET Backends]

RoutedInit ==
  /\ Init
  /\ next = 0
  /\ asked = [r \in Requests |-> NoModel]
  /\ called = [r \in Requests |-> {}]
  /\ turnedAway = [r \in Requests |-> {}]

\* modelTargets finds candidates.  Without any the handler answers 502 and
\* nothing changes, so there is no step for that.
RoutedArrive(r) ==
  \E k \in Kinds, m \in Models :
    /\ Matching[m] # <<>>
    /\ ~Panics(m, next)
    /\ Accept(r, k, Candidates[m][next])
    /\ next' = CounterAfter(m, next)
    /\ asked' = [asked EXCEPT ![r] = m]
    /\ UNCHANGED <<called, turnedAway>>

\* The counter has moved when the slice expression panics; net/http drops the
\* connection and the handler's goroutine ends.
PanickingArrive(r) ==
  \E m \in Models :
    /\ pc[r] = "idle"
    /\ Panics(m, next)
    /\ next' = CounterAfter(m, next)
    /\ UNCHANGED <<vars, history>>

\* The breaker keeps a request from its target, or a call to it is over.
Barred(r) == pc[r] = "ready" /\ pc'[r] # "inflight"
CallOver(r) == pc[r] = "inflight" /\ pc'[r] # "backoff"

\* The targets met so far; nobody asks for them where a limit cuts the lists.
Noted(seen, r, more) ==
  IF Limit # 0 \/ pc'[r] = "idle" THEN {} ELSE seen[r] \cup more

\* A step of the handler; the request is forgotten with its reply.
RoutedStep(r) ==
  /\ HandlerStep(r)
  /\ asked' = [asked EXCEPT ![r] = IF pc'[r] = "idle" THEN NoModel ELSE @]
  /\ called' = [called EXCEPT ![r] =
                   Noted(called, r, IF CallOver(r) THEN {Target(r)} ELSE {})]
  /\ turnedAway' = [turnedAway EXCEPT ![r] =
                   Noted(turnedAway, r, IF Barred(r) THEN {Target(r)} ELSE {})]
  /\ UNCHANGED next

RoutedNext ==
  \/ \E r \in Requests : RoutedArrive(r) \/ PanickingArrive(r)
  \/ \E r \in Requests : RoutedStep(r)
  \/ EnvironmentStep /\ UNCHANGED <<next, history>>

RoutedSpec == RoutedInit /\ [][RoutedNext]_routedVars

RoutedBusySpec ==
  /\ RoutedSpec
  /\ HandlerFairness
  /\ \A r \in Requests : WF_routedVars(RoutedArrive(r) \/ PanickingArrive(r))

-------------------------------------------------------------------------------
\* The backends that are enabled and serve a model.
Serving(m) ==
  {Configured[i].name : i \in {j \in DOMAIN Configured :
     Configured[j].enabled /\ Matches(Configured[j], m)}}

\* The list for m at position n of the counter, where one is made, is one
\* BackendCalls may be given: it names some backend, none twice, and all that
\* serve m if no limit cuts it.
ListComplete(m, n) ==
  Matching[m] # <<>> /\ ~Panics(m, n) =>
    /\ Candidates[m][n] \in Orders
    /\ Limit = 0 => ToSet(Candidates[m][n]) = Serving(m)

\* Every list a router of this configuration can make is complete: a statement
\* about the constants, from which ListsComplete and LastResort are proved.
AllListsComplete == \A m \in Models, n \in Counter : ListComplete(m, n)

\* Wherever requests for several models have left the shared counter, the next
\* list for each model is complete: weights, rotation and the removal of
\* repeats neither lose a backend nor offer one twice (router.go:93-178).
ListsComplete == \A m \in Models : ListComplete(m, next)

\* With failover and no limit, when the client sees an error, a refusal, a
\* failover status or a poisoned stream, each enabled backend that serves its
\* model either failed a call of this request or was kept from it by the one
\* breaker, never both, and the target the client's answer speaks of is the one
\* that gave it.  A backend the breaker refuses is not contacted, working or
\* not (failover_outage); beyond that rotation, weights and the removal of
\* repeats lose no backend and add no disabled one, and the loop reaches the end
\* of the list (router.go:93-173, backend.go:94-162).
LastResort ==
  \A r \in Requests :
    pc[r] = "done" /\ Failover /\ Limit = 0 /\ MovesOn(kind[r], result[r])
    => /\ called[r] \cup turnedAway[r] = Serving(asked[r])
       /\ called[r] \cap turnedAway[r] = {}
       /\ Target(r) \in IF result[r] = Refused THEN turnedAway[r] ELSE called[r]

\* Wherever the counter stands, the next requests for a model lead with each
\* backend as often as its weight says, or once without weights: sharing the
\* counter costs a model its turns only when requests for others come between.
\* Only the wrap of the build's int breaks the round.
SharesFair ==
  \A m \in Models :
    LET round == next .. next + Len(Wheel[m]) - 1
        share(b) == IF Strategy = Weighted THEN Weight(b) ELSE 1
        leads(b) == {n \in round : Candidates[m][n][1] = b.name}
    IN Turns(m) /\ (\A n \in round : n <= MaxInt)
       => \A b \in ToSet(Matching[m]) : Cardinality(leads(b)) = share(b)

===============================================================================
