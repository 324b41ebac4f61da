-------------------------------- MODULE Router --------------------------------
(*****************************************************************************)
(* The model router of internal/backend/router.go: which backends a request  *)
(* is offered, and in which order.  One counter, `next` of the Router        *)
(* struct, turns the list for every model; it is an argument here and a      *)
(* variable of RoutedCalls.                                                  *)
(*                                                                           *)
(* Data abstraction: a backend's model patterns are the set of model names   *)
(* they match ({} when none are configured); URLs and keys are left out.     *)
(*****************************************************************************)
EXTENDS Integers, Sequences, SequencesExt

CONSTANTS
  Configured,  \* the backends of the configuration, in the order of the file
  Strategy,    \* load_balance_strategy, "" read as round_robin
  Limit,       \* failover_max_backends, 0 for no limit
  MaxInt,      \* largest int of the build, which the 64-bit counter is cut to
  Models       \* model names that clients ask for

RoundRobin       == "round_robin"
Weighted         == "weighted"
LeastConnections == "least_connections"

\* NormalizeBackends rejects two backends of one name.
ASSUME RouterAssumption ==
  /\ Configured \in Seq(ToSet(Configured))
  /\ \A i \in DOMAIN Configured :
       /\ Configured[i].weight \in Int
       /\ Configured[i].priority \in Int
       /\ Configured[i].enabled \in BOOLEAN
  /\ \A i, j \in DOMAIN Configured :
       Configured[i].name = Configured[j].name => i = j
  /\ Strategy \in {RoundRobin, Weighted, LeastConnections}
  /\ Limit \in Nat
  /\ MaxInt \in Nat

Weight(b) == IF b.weight <= 0 THEN 1 ELSE b.weight

Matches(b, m) == b.models = {} \/ m \in b.models

\* The elements of a finite set, each once, in the order of the pairs in before.
InOrder(S, before) ==
  CHOOSE s \in SetToSeqs(S) :
    \A i, j \in DOMAIN s : i < j => <<s[i], s[j]>> \in before

\* What stands in s at the positions in keep, in the order of s.
Kept(s, keep) ==
  LET order == InOrder(keep, {p \in keep \X keep : p[1] < p[2]})
  IN [k \in DOMAIN order |-> s[order[k]]]

EnabledPositions == {i \in DOMAIN Configured : Configured[i].enabled}

\* Lower priority first, and otherwise as configured.
Before(i, j) ==
  \/ Configured[i].priority < Configured[j].priority
  \/ Configured[i].priority = Configured[j].priority /\ i < j

\* The enabled backends in the order they are tried.
Runtimes ==
  LET order == InOrder(EnabledPositions,
        {p \in EnabledPositions \X EnabledPositions : Before(p[1], p[2])})
  IN [k \in DOMAIN order |-> Configured[order[k]]]

\* The backends that serve a model.
Matching ==
  [m \in Models |->
     Kept(Runtimes, {i \in DOMAIN Runtimes : Matches(Runtimes[i], m)})]

\* Seeded fault: every backend once, whatever its weight.
ExpandedUnweighted(s) == s

\* Each backend as often as its weight says.
Expanded(s) ==
  FlattenSeq([i \in DOMAIN s |-> [k \in 1 .. Weight(s[i]) |-> s[i]]])

\* Seeded fault: the part before the starting point is lost.
RotatedCut(s, start) == SubSeq(s, start + 1, Len(s))

Rotated(s, start) == SubSeq(s, start + 1, Len(s)) \o SubSeq(s, 1, start)

\* Seeded fault: a backend stays in the list once per unit of weight.
DistinctKept(s) == s

\* The first occurrence of every backend.
Distinct(s) == Kept(s, {i \in DOMAIN s : \A j \in 1 .. i - 1 : s[j] # s[i]})

\* The values of the counter, as far as int can tell them apart.
Counter == 0 .. 2 * MaxInt + 1

\* What the strategy rotates.
Wheel ==
  [m \in Models |->
     IF Strategy = Weighted THEN Expanded(Matching[m]) ELSE Matching[m]]

\* Whether the list for m depends on the counter, and moves it.
Turns(m) == Len(Matching[m]) > 1 /\ Strategy # LeastConnections

\* The counter after a request for m: uint64, of which the low bits matter.
CounterAfter(m, n) == IF Turns(m) THEN (n + 1) % (2 * MaxInt + 2) ELSE n

\* int(counter): the upper half of the range is negative.
Offset(n) == IF n <= MaxInt THEN n ELSE n - (2 * MaxInt + 2)

\* Go's remainder takes the sign of its dividend, so a negative offset that the
\* wheel does not divide is a slice index below zero: Candidates panics.
Panics(m, n) == Turns(m) /\ Offset(n) < 0 /\ Offset(n) % Len(Wheel[m]) # 0

\* With least_connections every backend has no active connections: IncActive
\* has no caller outside the tests, so the order by priority stands.
Ordered(m, n) ==
  LET turned == Rotated(Wheel[m], Offset(n) % Len(Wheel[m]))
  IN CASE ~Turns(m) -> Matching[m]
       [] Turns(m) /\ Strategy = RoundRobin -> turned
       [] Turns(m) /\ Strategy = Weighted -> Distinct(turned)

AtMost(limit, s) ==
  IF limit > 0 /\ Len(s) > limit THEN SubSeq(s, 1, limit) ELSE s

\* The names of the backends a request for m is offered while the counter is n.
Candidates ==
  [m \in Models |-> [n \in Counter |->
     LET offered == AtMost(Limit, Ordered(m, n))
     IN [k \in DOMAIN offered |-> offered[k].name]]]

===============================================================================
