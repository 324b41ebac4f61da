---------------------------- MODULE CircuitBreaker ----------------------------
(*****************************************************************************)
(* The circuit breaker of internal/reliability/circuit.go.  Every method     *)
(* holds the mutex from its first to its last read, so each is one step.     *)
(*                                                                           *)
(* Data abstraction: openedAt is kept as `elapsed`, the clock ticks since    *)
(* the circuit last opened, saturating at Cooldown; failures saturates at    *)
(* Threshold, the only value it is compared with; the timestamps and the     *)
(* error text that only Snapshot reports are left out.                       *)
(*****************************************************************************)
EXTENDS Naturals

CONSTANTS
  Enabled,    \* circuit_breaker_enabled
  Threshold,  \* consecutive failures that open the circuit
  Cooldown    \* ticks an open circuit waits before it lets a probe through

ASSUME BreakerAssumption ==
  /\ Enabled \in BOOLEAN
  /\ Threshold \in Nat \ {0}
  /\ Cooldown \in Nat \ {0}

VARIABLES
  state,        \* "closed", "open" or "half_open"
  failures,     \* consecutive recorded failures
  elapsed,      \* ticks since the circuit last opened
  probeActive   \* the half-open circuit has let its probe through

breakerVars == <<state, failures, elapsed, probeActive>>

Closed   == "closed"
Open     == "open"
HalfOpen == "half_open"

BreakerTypeOK ==
  /\ state \in {Closed, Open, HalfOpen}
  /\ failures \in 0 .. Threshold
  /\ elapsed \in 0 .. Cooldown
  /\ probeActive \in BOOLEAN

NewCircuitBreaker ==
  /\ state = Closed
  /\ failures = 0
  /\ elapsed = 0
  /\ probeActive = FALSE

(*****************************************************************************)
(* Allow first turns an open circuit whose cooldown is over half-open; a     *)
(* half-open circuit grants one call and marks the probe.                    *)
(*****************************************************************************)
CooledDown    == state = Open /\ elapsed >= Cooldown
StateAtAllow  == IF CooledDown THEN HalfOpen ELSE state
ProbeAtAllow  == probeActive /\ ~CooledDown

\* Seeded fault: a half-open circuit forgets that its probe is out.
GrantedToAll == ~Enabled \/ StateAtAllow # Open

\* The answer Allow returns to its caller.
Granted ==
  \/ ~Enabled
  \/ StateAtAllow = Closed
  \/ StateAtAllow = HalfOpen /\ ~ProbeAtAllow

\* What Allow leaves behind, whatever it answered.
Allow ==
  IF Enabled
  THEN /\ state' = StateAtAllow
       /\ probeActive' = (ProbeAtAllow \/ StateAtAllow = HalfOpen)
       /\ UNCHANGED <<failures, elapsed>>
  ELSE UNCHANGED breakerVars

\* Seeded fault: the count survives a success.
RecordSuccessKeepingCount ==
  IF Enabled
  THEN /\ state' = Closed
       /\ probeActive' = FALSE
       /\ UNCHANGED <<failures, elapsed>>
  ELSE UNCHANGED breakerVars

\* Seeded fault: a success resets the count and leaves the circuit as it is.
RecordSuccessNotClosing ==
  IF Enabled
  THEN /\ failures' = 0
       /\ probeActive' = FALSE
       /\ UNCHANGED <<state, elapsed>>
  ELSE UNCHANGED breakerVars

RecordSuccess ==
  IF Enabled
  THEN /\ failures' = 0
       /\ state' = Closed
       /\ probeActive' = FALSE
       /\ UNCHANGED elapsed
  ELSE UNCHANGED breakerVars

OneMoreFailure == IF failures < Threshold THEN failures + 1 ELSE failures

Trips == state = HalfOpen \/ OneMoreFailure >= Threshold

RecordFailure ==
  IF Enabled
  THEN /\ failures' = OneMoreFailure
       /\ probeActive' = FALSE
       /\ state' = IF Trips THEN Open ELSE state
       /\ elapsed' = IF Trips THEN 0 ELSE elapsed
  ELSE UNCHANGED breakerVars

\* One unit of wall-clock time, as far as the breaker can tell.
ClockTick ==
  /\ elapsed < Cooldown
  /\ elapsed' = elapsed + 1
  /\ UNCHANGED <<state, failures, probeActive>>

===============================================================================
