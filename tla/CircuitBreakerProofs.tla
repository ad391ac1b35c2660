------------------------ MODULE CircuitBreakerProofs ------------------------
(* Proofs about the circuit breaker, for any number of callers and any      *)
(* threshold.                                                               *)
EXTENDS CircuitBreaker, TLAPS

LEMMA TypeInit == Init => TypeOK
BY CircuitBreakerAssumption DEF Init, TypeOK, CircuitState, PC

LEMMA TypeNext == TypeOK /\ [Next]_vars => TypeOK'
<1> SUFFICES ASSUME TypeOK, [Next]_vars PROVE TypeOK'
  OBVIOUS
<1> USE CircuitBreakerAssumption DEF TypeOK, CircuitState, PC, Goto
<1>1. CASE UNCHANGED vars
  BY <1>1 DEF vars
<1>2. CASE Turn \/ Elapse
  BY <1>2 DEF Turn, Elapse
<1>3. ASSUME NEW c \in Caller, Start(c) PROVE TypeOK'
  BY <1>3 DEF Start
<1>4. Disturb => disturbed' \in 0 .. MaxDisturbances
  BY DEF Disturb
<1>5. CASE Reset \/ \E c \in Caller : Crash(c) \/ RedisError(c)
  <2>1. disturbed' \in 0 .. MaxDisturbances
    BY <1>4, <1>5 DEF Crash, RedisError, Reset
  <2> QED
    BY <1>5, <2>1 DEF Crash, RedisError, Reset
<1>6. ASSUME NEW c \in Caller, Step(c) PROVE TypeOK'
  <2>1. CASE GetState(c) \/ GetOpenedAt(c) \/ SetHalfOpen(c) \/ Call(c)
    BY <2>1 DEF GetState, GetOpenedAt, SetHalfOpen, Call
  <2>2. CASE SetClosed(c) \/ DelFailures(c) \/ DelOpenedAt(c)
    BY <2>2 DEF SetClosed, DelFailures, DelOpenedAt, AfterClose
  <2>3. CASE GetFailedState(c)
    BY <2>3 DEF GetFailedState, AfterFailedState
  <2>4. CASE Incr(c)
    BY <2>4 DEF Incr, Reaches
  <2>5. CASE SetOpen(c) \/ SetOpenedAt(c)
    BY <2>5 DEF SetOpen, SetOpenedAt
  <2> QED
    BY <1>6, <2>1, <2>2, <2>3, <2>4, <2>5 DEF Step
<1> QED
  BY <1>1, <1>2, <1>3, <1>5, <1>6 DEF Next

(* Every variable holds a value of its kind. *)
THEOREM TypeCorrect == Spec => []TypeOK
BY TypeInit, TypeNext, PTL DEF Spec

-----------------------------------------------------------------------------
(* A caller that moves on leaves the others where they are. *)
LEMMA GotoMoves ==
  ASSUME TypeOK, NEW c \in Caller, NEW next, Goto(c, next)
  PROVE  \A d \in Caller : pc'[d] = IF d = c THEN next ELSE pc[d]
BY DEF TypeOK, Goto

LEMMA ThresholdNext == TypeOK /\ ThresholdEnforced /\ [Next]_vars => ThresholdEnforced'
<1> SUFFICES ASSUME TypeOK, ThresholdEnforced, [Next]_vars PROVE ThresholdEnforced'
  OBVIOUS
<1> USE CircuitBreakerAssumption
<1> USE DEF ThresholdEnforced, Reaches
<1>1. CASE UNCHANGED vars
  BY <1>1 DEF vars
<1>2. CASE Turn \/ Elapse
  BY <1>2 DEF Turn, Elapse
<1>3. ASSUME NEW c \in Caller, Start(c) PROVE ThresholdEnforced'
  BY <1>3, GotoMoves DEF Start
<1>4. CASE Reset \/ \E c \in Caller : Crash(c) \/ RedisError(c)
  <2>1. disturbed' # 0
    BY <1>4 DEF Crash, RedisError, Reset, Disturb, TypeOK
  <2> QED
    BY <2>1
<1>5. ASSUME NEW c \in Caller, Step(c) PROVE ThresholdEnforced'
  <2>1. CASE GetState(c) \/ GetOpenedAt(c) \/ SetHalfOpen(c) \/ Call(c)
    <3>1. /\ pc[c] \notin {"setOpen", "delFailures"}
          /\ state' = state \/ state' = "HALF_OPEN"
          /\ UNCHANGED <<failures, disturbed>>
          /\ \E next : Goto(c, next)
      BY <2>1 DEF GetState, GetOpenedAt, SetHalfOpen, Call
    <3> QED
      BY <3>1, GotoMoves
  <2>2. CASE SetClosed(c)
    BY <2>2, GotoMoves DEF SetClosed, AfterClose
  <2>3. CASE DelFailures(c)
    BY <2>3 DEF DelFailures
  <2>4. CASE DelOpenedAt(c) \/ GetFailedState(c) \/ SetOpenedAt(c)
    <3>1. /\ pc[c] \notin {"setOpen", "delFailures"}
          /\ UNCHANGED <<state, failures, disturbed>>
          /\ \E next : Goto(c, next)
      BY <2>4 DEF DelOpenedAt, GetFailedState, SetOpenedAt
    <3> QED
      BY <3>1, GotoMoves
  <2>5. CASE Incr(c)
    <3>1. CASE failures' >= Threshold
      BY <2>5, <3>1, GotoMoves DEF Incr
    <3>2. CASE ~(failures' >= Threshold)
      BY <3>2
    <3> QED
      BY <3>1, <3>2
  <2>6. CASE SetOpen(c)
    BY <2>6 DEF SetOpen
  <2> QED
    BY <1>5, <2>1, <2>2, <2>3, <2>4, <2>5, <2>6 DEF Step
<1> QED
  BY <1>1, <1>2, <1>3, <1>4, <1>5 DEF Next

(* The circuit is never left closed with the threshold reached: the caller *)
(* that reached it opens it, or a success has yet to clear the count.      *)
THEOREM ThresholdEnforcedHolds == Spec => []ThresholdEnforced
<1>1. Init => ThresholdEnforced
  BY CircuitBreakerAssumption DEF Init, ThresholdEnforced, Reaches
<1> QED
  BY TypeCorrect, ThresholdNext, <1>1, PTL DEF Spec

-----------------------------------------------------------------------------
LEMMA HalfOpenNext == TypeOK /\ HalfOpenIsDecided /\ [Next]_vars => HalfOpenIsDecided'
<1> SUFFICES ASSUME TypeOK, HalfOpenIsDecided, [Next]_vars PROVE HalfOpenIsDecided'
  OBVIOUS
<1> USE DEF HalfOpenIsDecided
<1>1. CASE UNCHANGED vars
  BY <1>1 DEF vars
<1>2. CASE Turn \/ Elapse
  BY <1>2 DEF Turn, Elapse
<1>3. ASSUME NEW c \in Caller, Start(c) PROVE HalfOpenIsDecided'
  BY <1>3, GotoMoves DEF Start
<1>4. CASE Reset \/ \E c \in Caller : Crash(c) \/ RedisError(c)
  <2>1. disturbed' # 0
    BY <1>4 DEF Crash, RedisError, Reset, Disturb, TypeOK
  <2> QED
    BY <2>1
<1>5. ASSUME NEW c \in Caller, Step(c) PROVE HalfOpenIsDecided'
  <2>1. CASE GetState(c) \/ GetOpenedAt(c) \/ DelFailures(c) \/ DelOpenedAt(c)
             \/ Incr(c) \/ SetOpenedAt(c)
    <3>1. /\ pc[c] \notin {"calling", "setClosed", "getFailedState", "setOpen"}
          /\ UNCHANGED <<state, disturbed>>
          /\ \E next : Goto(c, next)
      BY <2>1 DEF GetState, GetOpenedAt, DelFailures, DelOpenedAt, Incr, SetOpenedAt
    <3> QED
      BY <3>1, GotoMoves
  <2>2. CASE SetHalfOpen(c)
    BY <2>2, GotoMoves DEF SetHalfOpen
  <2>3. CASE Call(c)
    BY <2>3, GotoMoves DEF Call
  <2>4. CASE GetFailedState(c)
    BY <2>4, GotoMoves DEF GetFailedState, AfterFailedState
  <2>5. CASE SetClosed(c) \/ SetOpen(c)
    BY <2>5 DEF SetClosed, SetOpen
  <2> QED
    BY <1>5, <2>1, <2>2, <2>3, <2>4, <2>5 DEF Step
<1> QED
  BY <1>1, <1>2, <1>3, <1>4, <1>5 DEF Next

(* Undisturbed, a half-open circuit always has a call under way that will   *)
(* close it or open it again, however many callers take themselves for the  *)
(* probe.                                                                   *)
THEOREM HalfOpenIsDecidedHolds == Spec => []HalfOpenIsDecided
<1>1. Init => HalfOpenIsDecided
  BY DEF Init, HalfOpenIsDecided
<1> QED
  BY TypeCorrect, HalfOpenNext, <1>1, PTL DEF Spec

-----------------------------------------------------------------------------
(* What it takes to let a probe through within the cooldown.               *)

(* One caller opens the circuit anew while another, which has read the      *)
(* circuit's older time stamp, is about to set it half-open.                *)
Race == \E c, d \in Caller : pc[c] = "setHalfOpen" /\ SetOpenedAt(d)

(* What a caller has read of the cooldown still holds when it acts on it.   *)
ReadHolds == \A c \in Caller : pc[c] = "setHalfOpen" => CooledDown

LEMMA ReadHoldsNext == TypeOK /\ ReadHolds /\ [Next /\ ~Race]_vars => ReadHolds'
<1> SUFFICES ASSUME TypeOK, ReadHolds, [Next /\ ~Race]_vars PROVE ReadHolds'
  OBVIOUS
<1> USE DEF ReadHolds, CooledDown
<1>1. CASE UNCHANGED vars
  BY <1>1 DEF vars
<1>2. CASE Turn \/ Elapse
  BY <1>2 DEF Turn, Elapse
<1>3. CASE Reset
  BY <1>3 DEF Reset
<1>4. ASSUME NEW c \in Caller, Start(c) \/ Crash(c) \/ RedisError(c) PROVE ReadHolds'
  <2>1. /\ openedAt' \in {openedAt, "absent"}
        /\ \E next \in PC \ {"setHalfOpen"} : Goto(c, next)
    BY <1>4 DEF Start, Crash, RedisError, PC
  <2> QED
    BY <2>1, GotoMoves
<1>5. ASSUME NEW c \in Caller, Step(c), ~Race PROVE ReadHolds'
  <2>1. CASE GetState(c) \/ SetHalfOpen(c) \/ Call(c)
    BY <2>1, GotoMoves DEF GetState, SetHalfOpen, Call
  <2>2. CASE GetOpenedAt(c)
    BY <2>2, GotoMoves DEF GetOpenedAt
  <2>3. CASE SetClosed(c) \/ DelFailures(c) \/ DelOpenedAt(c)
    BY <2>3, GotoMoves DEF SetClosed, DelFailures, DelOpenedAt, AfterClose
  <2>4. CASE GetFailedState(c)
    <3>1. \E next \in {"incr", "setOpen", "idle"} : Goto(c, next)
      BY <2>4 DEF GetFailedState, AfterFailedState, TypeOK, CircuitState
    <3> QED
      BY <2>4, <3>1, GotoMoves DEF GetFailedState
  <2>5. CASE Incr(c) \/ SetOpen(c)
    BY <2>5, GotoMoves DEF Incr, SetOpen
  <2>6. CASE SetOpenedAt(c)
    BY <1>5, <2>6, GotoMoves DEF SetOpenedAt, Race
  <2> QED
    BY <1>5, <2>1, <2>2, <2>3, <2>4, <2>5, <2>6 DEF Step
<1> QED
  BY <1>1, <1>2, <1>3, <1>4, <1>5 DEF Next

(* Whatever the callers do, die of or reset, the race is the only way to    *)
(* break the cooldown: a behaviour in which a probe is let through too      *)
(* early has a step in which another caller writes a new time stamp between *)
(* the probe's GET opened_at and its SET HALF_OPEN.                         *)
THEOREM EarlyProbeHasRace == Spec => CooldownRespected \/ <><<Race>>_vars
<1>1. Init => ReadHolds
  BY DEF Init, ReadHolds
<1>2. ReadHolds /\ [Next]_vars => [state = "OPEN" /\ state' = "HALF_OPEN" => CooledDown]_vars
  <2> SUFFICES ASSUME ReadHolds, Next, state = "OPEN", state' = "HALF_OPEN"
               PROVE  CooledDown
    OBVIOUS
  <2>1. ASSUME NEW c \in Caller, Step(c), ~SetHalfOpen(c) PROVE state' = state \/ state' # "HALF_OPEN"
    BY <2>1 DEF Step, GetState, GetOpenedAt, Call, SetClosed, DelFailures, DelOpenedAt,
       GetFailedState, Incr, SetOpen, SetOpenedAt
  <2>2. ASSUME NEW c \in Caller, SetHalfOpen(c) PROVE CooledDown
    BY <2>2 DEF SetHalfOpen, ReadHolds
  <2> QED
    BY <2>1, <2>2 DEF Next, Turn, Elapse, Reset, Start, Crash, RedisError
<1>3. TypeOK /\ ReadHolds /\ [Next]_vars /\ [~Race]_vars => ReadHolds'
  BY ReadHoldsNext
<1>4. Spec /\ [][~Race]_vars => CooldownRespected
  BY TypeCorrect, <1>1, <1>2, <1>3, PTL DEF Spec, CooldownRespected
<1> QED
  BY <1>4, PTL
=============================================================================
