--------------------------- MODULE CircuitBreaker ---------------------------
(***************************************************************************)
(* The circuit breaker of one downstream service and the ResilienceService *)
(* that calls the service through it.  The breaker's state is three Redis  *)
(* keys shared by every instance of the worker; a step is one Redis        *)
(* command of one caller, so a caller acts on what it has read while the   *)
(* others change the keys.                                                 *)
(*                                                                         *)
(* Time is kept as far as the breaker sees it: whether cooldownMs have     *)
(* passed since opened_at.                                                 *)
(***************************************************************************)
EXTENDS Naturals

CONSTANTS
  Caller,          \* jobs under way, of all instances of the worker
  Threshold,       \* failureThreshold
  MaxDisturbances  \* how many crashes, Redis errors and manual resets happen

ASSUME CircuitBreakerAssumption ==
  /\ Threshold \in Nat \ {0}
  /\ MaxDisturbances \in Nat

VARIABLES
  state,     \* cb:{service}:state; an absent key reads as CLOSED
  failures,  \* cb:{service}:failures, counted up to Threshold; absent is 0
  openedAt,  \* cb:{service}:opened_at: "absent", or less ("recent") or at least
             \* ("past") cooldownMs ago
  pc,        \* pc[c]: the command caller c sends next
  up,        \* does the downstream service answer in time?
  disturbed  \* how many disturbances there have been

vars == <<state, failures, openedAt, pc, up, disturbed>>

CircuitState == {"CLOSED", "OPEN", "HALF_OPEN"}

PC == {"idle", "getState", "getOpenedAt", "setHalfOpen", "calling",
       "setClosed", "delFailures", "delOpenedAt",
       "getFailedState", "incr", "setOpen", "setOpenedAt"}

Init ==
  /\ state = "CLOSED"
  /\ failures = 0
  /\ openedAt = "absent"
  /\ pc = [c \in Caller |-> "idle"]
  /\ up \in BOOLEAN
  /\ disturbed = 0

\* c sends its command and goes on to `next`.
Goto(c, next) == pc' = [pc EXCEPT ![c] = next]

-----------------------------------------------------------------------------
(* The world around the callers. *)

\* The service fails or recovers.
Turn ==
  /\ up' = ~up
  /\ UNCHANGED <<state, failures, openedAt, pc, disturbed>>

\* cooldownMs have passed since opened_at.
Elapse ==
  /\ openedAt = "recent"
  /\ openedAt' = "past"
  /\ UNCHANGED <<state, failures, pc, up, disturbed>>

\* A job makes its call.
Start(c) ==
  /\ pc[c] = "idle"
  /\ Goto(c, "getState")
  /\ UNCHANGED <<state, failures, openedAt, up, disturbed>>

Disturb ==
  /\ disturbed < MaxDisturbances
  /\ disturbed' = disturbed + 1

\* The worker dies in the middle.
Crash(c) ==
  /\ Disturb
  /\ pc[c] # "idle"
  /\ Goto(c, "idle")
  /\ UNCHANGED <<state, failures, openedAt, up>>

\* Redis rejects a command of c, or its reply is lost.  In isAllowed and in
\* recordFailure the error ends the call; in recordSuccess, which the try block
\* covers, it is taken for a failed call and recorded as one, and the commands
\* of the Promise.all that are on their way may still take effect.
RedisError(c) ==
  /\ Disturb
  /\ \/ /\ pc[c] \in {"setClosed", "delFailures", "delOpenedAt"}
        /\ Goto(c, "getFailedState")
        /\ failures' = failures \/ (pc[c] # "delOpenedAt" /\ failures' = 0)
        /\ openedAt' \in {openedAt, "absent"}
     \/ /\ pc[c] \in {"getState", "getOpenedAt", "setHalfOpen",
                      "getFailedState", "incr", "setOpen", "setOpenedAt"}
        /\ Goto(c, "idle")
        /\ UNCHANGED <<failures, openedAt>>
  /\ UNCHANGED <<state, up>>

\* reset(), by hand: its three DELs leave together.
Reset ==
  /\ Disturb
  /\ state' = "CLOSED"
  /\ failures' = 0
  /\ openedAt' = "absent"
  /\ UNCHANGED <<pc, up>>

-----------------------------------------------------------------------------
(* isAllowed *)

Admits == {"CLOSED", "HALF_OPEN"}

GetState(c) ==
  /\ pc[c] = "getState"
  /\ Goto(c, IF state \in Admits THEN "calling" ELSE "getOpenedAt")
  /\ UNCHANGED <<state, failures, openedAt, up, disturbed>>

\* Number(null) is 0, so a circuit without opened_at has cooled down.
CooledDownIfStamped == openedAt = "past"

CooledDown == openedAt # "recent"

\* Within the cooldown CircuitOpenError ends the call; no failure is recorded.
GetOpenedAt(c) ==
  /\ pc[c] = "getOpenedAt"
  /\ Goto(c, IF CooledDown THEN "setHalfOpen" ELSE "idle")
  /\ UNCHANGED <<state, failures, openedAt, up, disturbed>>

SetHalfOpen(c) ==
  /\ pc[c] = "setHalfOpen"
  /\ state' = "HALF_OPEN"
  /\ Goto(c, "calling")
  /\ UNCHANGED <<failures, openedAt, up, disturbed>>

-----------------------------------------------------------------------------
(* The call. *)

\* It succeeds only while the service is up, and fails or times out while it is
\* down.
Call(c) ==
  /\ pc[c] = "calling"
  /\ Goto(c, IF up THEN "setClosed" ELSE "getFailedState")
  /\ UNCHANGED <<state, failures, openedAt, up, disturbed>>

-----------------------------------------------------------------------------
(* recordSuccess.  Its first read serves the log only.  The three writes of  *)
(* the Promise.all leave on one connection, in order.                        *)

\* A closed circuit loses its failure count, too.
AfterCloseKeepsCount == "delOpenedAt"

AfterClose == "delFailures"

SetClosed(c) ==
  /\ pc[c] = "setClosed"
  /\ state' = "CLOSED"
  /\ Goto(c, AfterClose)
  /\ UNCHANGED <<failures, openedAt, up, disturbed>>

DelFailures(c) ==
  /\ pc[c] = "delFailures"
  /\ failures' = 0
  /\ Goto(c, "delOpenedAt")
  /\ UNCHANGED <<state, openedAt, up, disturbed>>

DelOpenedAt(c) ==
  /\ pc[c] = "delOpenedAt"
  /\ openedAt' = "absent"
  /\ Goto(c, "idle")
  /\ UNCHANGED <<state, failures, up, disturbed>>

-----------------------------------------------------------------------------
(* recordFailure *)

\* What a failure does, by the state it finds.
AfterFailedStateNoReopen == [CLOSED |-> "incr", HALF_OPEN |-> "idle", OPEN |-> "idle"]

AfterFailedState == [CLOSED |-> "incr", HALF_OPEN |-> "setOpen", OPEN |-> "idle"]

GetFailedState(c) ==
  /\ pc[c] = "getFailedState"
  /\ Goto(c, AfterFailedState[state])
  /\ UNCHANGED <<state, failures, openedAt, up, disturbed>>

ReachesLate(count) == count > Threshold

Reaches(count) == count >= Threshold

Incr(c) ==
  /\ pc[c] = "incr"
  /\ failures' = IF Reaches(failures) THEN failures ELSE failures + 1
  /\ Goto(c, IF Reaches(failures') THEN "setOpen" ELSE "idle")
  /\ UNCHANGED <<state, openedAt, up, disturbed>>

SetOpen(c) ==
  /\ pc[c] = "setOpen"
  /\ state' = "OPEN"
  /\ Goto(c, "setOpenedAt")
  /\ UNCHANGED <<failures, openedAt, up, disturbed>>

SetOpenedAt(c) ==
  /\ pc[c] = "setOpenedAt"
  /\ openedAt' = "recent"
  /\ Goto(c, "idle")
  /\ UNCHANGED <<state, failures, up, disturbed>>

-----------------------------------------------------------------------------
Step(c) ==
  \/ GetState(c) \/ GetOpenedAt(c) \/ SetHalfOpen(c) \/ Call(c)
  \/ SetClosed(c) \/ DelFailures(c) \/ DelOpenedAt(c)
  \/ GetFailedState(c) \/ Incr(c) \/ SetOpen(c) \/ SetOpenedAt(c)

Next ==
  \/ Turn \/ Elapse \/ Reset
  \/ \E c \in Caller : Start(c) \/ Step(c) \/ Crash(c) \/ RedisError(c)

Spec == Init /\ [][Next]_vars

\* Time passes, a call under way goes on, and jobs keep coming.
FairSpec ==
  /\ Spec
  /\ WF_vars(Elapse)
  /\ \A c \in Caller : WF_vars(Step(c)) /\ WF_vars(Start(c))

-----------------------------------------------------------------------------
(* Properties. *)

\* Every variable holds a value of its kind.
TypeOK ==
  /\ state \in CircuitState
  /\ failures \in 0 .. Threshold
  /\ openedAt \in {"absent", "recent", "past"}
  /\ pc \in [Caller -> PC]
  /\ up \in BOOLEAN
  /\ disturbed \in 0 .. MaxDisturbances

\* However the callers' commands interleave, the circuit is not left closed with
\* the threshold reached: somebody is about to open it, or to clear the count
\* because of a success.  (Until something is disturbed: a caller that dies
\* after its INCR leaves that to the next failure.)
ThresholdEnforced ==
  disturbed = 0 /\ state = "CLOSED" /\ Reaches(failures) =>
    \E c \in Caller : pc[c] \in {"setOpen", "delFailures"}

\* A half-open circuit is never left to itself: a call that was let through is
\* still to close it or to open it again, however many callers probe at once
\* and whatever they have read of one another's commands.
HalfOpenIsDecided ==
  disturbed = 0 /\ state = "HALF_OPEN" =>
    \E c \in Caller : pc[c] \in {"calling", "setClosed", "getFailedState", "setOpen"}

\* The breaker gets out of the way: once the service stays up, the circuit
\* closes for good, whatever state crashes, lost commands and stale reads have
\* left it in.
Recovers == <>[]up => <>[](state = "CLOSED")

\* The breaker protects: while the service stays down, the circuit opens again
\* and again.
Protects == <>[](~up) => []<>(state = "OPEN")

\* "OPEN: denied UNLESS cooldown has expired": no call is let through by a
\* circuit that opened less than cooldownMs ago.  (A caller that looks between
\* SET state OPEN and SET opened_at finds no time stamp or an old one, and one
\* that finds the cooldown expired sets HALF_OPEN later, when another's probe may
\* have failed and opened the circuit anew.)
CooldownRespected ==
  [][state = "OPEN" /\ state' = "HALF_OPEN" => CooledDown]_vars
=============================================================================
