--------------------------- MODULE BreakerMachine ---------------------------
(***************************************************************************)
(* The state machine that the header of the circuit breaker's source draws *)
(* and its method comments describe: what CircuitBreaker promises a        *)
(* service that is called by one job at a time.                            *)
(***************************************************************************)
EXTENDS Naturals

CONSTANTS Caller, Threshold

VARIABLES
  mode,     \* the state of the circuit
  failed,   \* consecutive failures
  cooling,  \* is an open circuit still within its cooldown?
  calls     \* the callers let through, until their outcome is recorded

vars == <<mode, failed, cooling, calls>>

Init ==
  /\ mode = "CLOSED"
  /\ failed = 0
  /\ cooling = FALSE
  /\ calls = {}

\* A closed circuit lets every call through, a half-open one a single probe.
Admit(c) ==
  /\ c \notin calls
  /\ mode = "CLOSED" \/ (mode = "HALF_OPEN" /\ calls = {})
  /\ calls' = calls \union {c}
  /\ UNCHANGED <<mode, failed, cooling>>

CoolDown ==
  /\ mode = "OPEN"
  /\ cooling
  /\ cooling' = FALSE
  /\ UNCHANGED <<mode, failed, calls>>

\* The first call after the cooldown is the probe.
Probe(c) ==
  /\ mode = "OPEN"
  /\ ~cooling
  /\ mode' = "HALF_OPEN"
  /\ calls' = calls \union {c}
  /\ UNCHANGED <<failed, cooling>>

Succeed(c) ==
  /\ c \in calls
  /\ mode \in {"CLOSED", "HALF_OPEN"}
  /\ mode' = "CLOSED"
  /\ failed' = 0
  /\ calls' = calls \ {c}
  /\ UNCHANGED cooling

\* A failure of a closed circuit below the threshold is counted.
FailBelow(c) ==
  /\ c \in calls
  /\ mode = "CLOSED"
  /\ failed + 1 < Threshold
  /\ failed' = failed + 1
  /\ calls' = calls \ {c}
  /\ UNCHANGED <<mode, cooling>>

\* The Threshold-th failure in a row opens the circuit.
Trip(c) ==
  /\ c \in calls
  /\ mode = "CLOSED"
  /\ failed + 1 = Threshold
  /\ mode' = "OPEN"
  /\ failed' = Threshold
  /\ cooling' = TRUE
  /\ calls' = calls \ {c}

\* A failed probe opens it again.
Reopen(c) ==
  /\ c \in calls
  /\ mode = "HALF_OPEN"
  /\ mode' = "OPEN"
  /\ cooling' = TRUE
  /\ calls' = calls \ {c}
  /\ UNCHANGED failed

Next ==
  \/ CoolDown
  \/ \E c \in Caller :
       Admit(c) \/ Probe(c) \/ Succeed(c) \/ FailBelow(c) \/ Trip(c) \/ Reopen(c)

Spec == Init /\ [][Next]_vars
=============================================================================
