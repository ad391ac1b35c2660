---------------------- MODULE CircuitBreakerRefinement ----------------------
(* For one caller at a time, CircuitBreaker implements BreakerMachine.      *)
EXTENDS CircuitBreaker

At(labels) == {c \in Caller : pc[c] \in labels}

\* The count that a success has cleared, or that a failure is about to act on,
\* is the one before or after the commands still to come.
FailedCount ==
  IF At({"delFailures"}) # {} THEN 0
  ELSE IF state = "CLOSED" /\ At({"setOpen"}) # {} THEN Threshold - 1
  ELSE failures

\* The cooldown starts when the circuit opens, not when the time is written.
Cooling == state = "OPEN" /\ (openedAt = "recent" \/ At({"setOpenedAt"}) # {})

Calls == At({"calling", "setClosed", "getFailedState", "incr", "setOpen"})

Machine == INSTANCE BreakerMachine WITH
  mode <- state, failed <- FailedCount, cooling <- Cooling, calls <- Calls

\* Called by one job at a time and undisturbed, the three keys behave as the
\* documented state machine: the circuit opens on the Threshold-th failure in a
\* row and on a failed probe, lets a probe through after the cooldown and
\* closes on its success.
ImplementsMachine == Machine!Spec
=============================================================================
