------------------------- MODULE ResilientCallProofs -------------------------
(* Proofs about the call inside the circuit breaker, for any number of      *)
(* callers.                                                                 *)
EXTENDS ResilientCall, CircuitBreakerProofs

allVars == <<vars, callVars>>

(* The breaker takes part in every step, or does not notice it. *)
LEMMA CallStep == [CallNext]_allVars => [Next]_vars
<1> SUFFICES ASSUME [CallNext]_allVars PROVE [Next]_vars
  OBVIOUS
<1>1. CASE UNCHANGED allVars
  BY <1>1 DEF allVars
<1>2. CASE Around
  BY <1>2 DEF Around, Next
<1>3. ASSUME NEW c \in Caller, Enter(c) PROVE Next
  BY <1>3 DEF Enter, Next, Step
<1>4. ASSUME NEW c \in Caller, GoOn(c) PROVE [Next]_vars
  <2>1. CASE Proceed(c)
    BY <2>1 DEF Proceed
  <2>2. CASE Answer(c) \/ Throw(c) \/ TimeOut(c)
    BY <2>2 DEF Answer, Throw, TimeOut, Settle, Next, Step
  <2> QED
    BY <1>4, <2>1, <2>2 DEF GoOn
<1>5. ASSUME NEW c \in Caller, Record(c) PROVE Next
  BY <1>5 DEF Record, Next, Step
<1>6. ASSUME NEW c \in Caller, RejectForeign(c) \/ WakeLate(c) PROVE UNCHANGED vars
  BY <1>6 DEF RejectForeign, WakeLate
<1> QED
  BY <1>1, <1>2, <1>3, <1>4, <1>5, <1>6 DEF CallNext

(* A call that is raced against its timeout is the call CircuitBreaker has *)
(* in mind: whatever is shown of the breaker holds for it.                 *)
THEOREM CallImplementsBreaker == CallSpec => Spec
<1>1. CallInit => Init
  BY DEF CallInit
<1> QED
  BY <1>1, CallStep, PTL DEF CallSpec, Spec, allVars

-----------------------------------------------------------------------------
LEMMA CallTypeInit == CallInit => CallTypeOK
BY TypeInit DEF CallInit, CallTypeOK

LEMMA CallTypeNext == CallTypeOK /\ [CallNext]_allVars => CallTypeOK'
<1> SUFFICES ASSUME CallTypeOK, [CallNext]_allVars PROVE CallTypeOK'
  OBVIOUS
<1>1. TypeOK'
  BY CallStep, TypeNext DEF CallTypeOK
<1> USE <1>1 DEF CallTypeOK
<1>2. CASE UNCHANGED allVars
  BY <1>2 DEF allVars, callVars
<1>3. CASE Around \/ \E c \in Caller : Record(c)
  BY <1>3 DEF Around, Record, callVars
<1>4. ASSUME NEW c \in Caller, Enter(c) PROVE CallTypeOK'
  BY <1>4 DEF Enter, Arm, Entry, Suspension
<1>5. ASSUME NEW c \in Caller, Answer(c) \/ Throw(c) PROVE CallTypeOK'
  BY <1>5 DEF Answer, Throw, Settle, Disarm
<1>6. ASSUME NEW c \in Caller, Proceed(c) PROVE CallTypeOK'
  BY <1>6 DEF Proceed, Suspension
<1>7. ASSUME NEW c \in Caller, TimeOut(c) PROVE CallTypeOK'
  BY <1>7 DEF TimeOut, Survives
<1>8. ASSUME NEW c \in Caller, RejectForeign(c) PROVE CallTypeOK'
  BY <1>8 DEF RejectForeign, Disarm
<1>9. ASSUME NEW c \in Caller, WakeLate(c) PROVE CallTypeOK'
  BY <1>9 DEF WakeLate, LateDisarm
<1> QED
  BY <1>2, <1>3, <1>4, <1>5, <1>6, <1>7, <1>8, <1>9 DEF CallNext, GoOn

(* Every variable of the call and of the breaker inside it holds a value of *)
(* its kind.                                                                *)
THEOREM CallTypeCorrect == CallSpec => []CallTypeOK
BY CallTypeInit, CallTypeNext, PTL DEF CallSpec, allVars

(* Only the steps that enter or settle a call take a caller to "calling"    *)
(* or away from it.                                                         *)
LEMMA OthersDoNotCall ==
  ASSUME TypeOK, NEW c \in Caller, Record(c) \/ Start(c)
  PROVE  \A d \in Caller : pc[d] = "calling" <=> pc'[d] = "calling"
<1>1. \E next \in PC \ {"calling"} : Goto(c, next) /\ pc[c] # "calling"
  BY CircuitBreakerAssumption
     DEF Record, Start, GetOpenedAt, SetClosed, DelFailures, DelOpenedAt, GetFailedState,
         AfterFailedState, AfterClose, Incr, SetOpen, SetOpenedAt, PC, TypeOK, CircuitState
<1> QED
  BY <1>1, GotoMoves

TimerInvariant == TimerMatchesCall /\ MethodHasCall

LEMMA TimerInit == CallInit => TimerInvariant
BY DEF CallInit, Init, TimerInvariant, TimerMatchesCall, MethodHasCall, Hung

LEMMA TimerNext == CallTypeOK /\ TimerInvariant /\ [CallNext]_allVars => TimerInvariant'
<1> SUFFICES ASSUME CallTypeOK, TimerInvariant, [CallNext]_allVars PROVE TimerInvariant'
  OBVIOUS
<1> USE DEF TimerInvariant, TimerMatchesCall, MethodHasCall, Hung, CallTypeOK
<1>1. CASE UNCHANGED allVars
  BY <1>1 DEF allVars, callVars, vars
<1>2. CASE Around
  <2>1. CASE Turn \/ Elapse
    BY <1>2, <2>1 DEF Around, Turn, Elapse, callVars
  <2>2. ASSUME NEW c \in Caller, Start(c) PROVE TimerInvariant'
    BY <1>2, <2>2, OthersDoNotCall DEF Around, callVars
  <2> QED
    BY <1>2, <2>1, <2>2 DEF Around
<1>3. ASSUME NEW c \in Caller, Record(c) PROVE TimerInvariant'
  BY <1>3, OthersDoNotCall DEF Record, callVars
<1>4. ASSUME NEW c \in Caller, Enter(c) PROVE TimerInvariant'
  <2>1. pc[c] # "calling" /\ \E next : Goto(c, next)
    BY <1>4 DEF Enter, GetState, SetHalfOpen
  <2>2. \A d \in Caller : d # c => pc'[d] = pc[d]
    BY <2>1, GotoMoves
  <2> QED
    BY <1>4, <2>1, <2>2 DEF Enter, Arm, Entry
<1>5. ASSUME NEW c \in Caller, Call(c) PROVE pc'[c] # "calling" /\ \A d \in Caller : d # c => pc'[d] = pc[d]
  BY <1>5, GotoMoves DEF Call
<1>6. ASSUME NEW c \in Caller, Answer(c) \/ Throw(c) PROVE TimerInvariant'
  BY <1>5, <1>6 DEF Answer, Throw, Settle, Disarm
<1>7. ASSUME NEW c \in Caller, TimeOut(c) PROVE TimerInvariant'
  BY <1>5, <1>7 DEF TimeOut
<1>8. ASSUME NEW c \in Caller, Proceed(c) PROVE TimerInvariant'
  BY <1>8 DEF Proceed, Entry, vars
<1>9. ASSUME NEW c \in Caller, RejectForeign(c) PROVE TimerInvariant'
  BY <1>9 DEF RejectForeign, Disarm, Suspension, vars
<1>10. ASSUME NEW c \in Caller, WakeLate(c) PROVE TimerInvariant'
  BY <1>10 DEF WakeLate, LateDisarm, vars
<1> QED
  BY <1>1, <1>2, <1>3, <1>4, <1>6, <1>7, <1>8, <1>9, <1>10 DEF CallNext, GoOn

(* A timer runs exactly as long as its call is undecided. *)
THEOREM TimerMatchesCallHolds == CallSpec => []TimerMatchesCall
<1>1. TimerInvariant => TimerMatchesCall
  BY DEF TimerInvariant
<1> QED
  BY CallTypeCorrect, TimerInit, TimerNext, <1>1, PTL DEF CallSpec, allVars

-----------------------------------------------------------------------------
NoneHangs == \A c \in Caller : ~Hung(c)

LEMMA HangsNext ==
  ASSUME ~ForeignAbort, CallTypeOK, NoneHangs, [CallNext]_allVars
  PROVE  NoneHangs'
<1> USE DEF NoneHangs, Hung, CallTypeOK
<1>1. CASE UNCHANGED allVars
  BY <1>1 DEF allVars, callVars, vars
<1>2. CASE Around
  BY <1>2, OthersDoNotCall DEF Around, Turn, Elapse, callVars
<1>3. ASSUME NEW c \in Caller, Record(c) PROVE NoneHangs'
  BY <1>3, OthersDoNotCall DEF Record, callVars
<1>4. ASSUME NEW c \in Caller, Enter(c) PROVE NoneHangs'
  <2>1. \E next : Goto(c, next)
    BY <1>4 DEF Enter, GetState, SetHalfOpen
  <2>2. \A d \in Caller : d # c => pc'[d] = pc[d]
    BY <2>1, GotoMoves
  <2> QED
    BY <1>4, <2>2 DEF Enter, Entry
<1>5. ASSUME NEW c \in Caller, Call(c)
      PROVE  pc'[c] # "calling" /\ \A d \in Caller : d # c => pc'[d] = pc[d]
  BY <1>5, GotoMoves DEF Call
<1>6. ASSUME NEW c \in Caller, Answer(c) \/ Throw(c) \/ TimeOut(c) PROVE NoneHangs'
  BY <1>5, <1>6 DEF Answer, Throw, Settle, TimeOut
<1>7. ASSUME NEW c \in Caller, Proceed(c) \/ WakeLate(c) PROVE NoneHangs'
  BY <1>7 DEF Proceed, WakeLate, vars
<1> QED
  BY <1>1, <1>2, <1>3, <1>4, <1>6, <1>7 DEF CallNext, GoOn, RejectForeign

(* The safe half of CallEnds: unless a service method rejects with an       *)
(* AbortError of its own, every call that is undecided has its method still *)
(* under way and its timer running.                                         *)
THEOREM UndecidedIsTimed ==
  ASSUME ~ForeignAbort
  PROVE  CallSpec => [](\A c \in Caller :
                          pc[c] = "calling" => method[c] # "none" /\ c \in deadline)
<1>1. CallInit => NoneHangs
  BY DEF CallInit, Init, NoneHangs, Hung
<1>2. CallTypeOK /\ NoneHangs /\ [CallNext]_allVars => NoneHangs'
  BY HangsNext
<1>3. NoneHangs /\ TimerMatchesCall =>
        \A c \in Caller : pc[c] = "calling" => method[c] # "none" /\ c \in deadline
  BY DEF NoneHangs, TimerMatchesCall, Hung
<1> QED
  BY CallTypeCorrect, TimerMatchesCallHolds, <1>1, <1>2, <1>3, PTL DEF CallSpec, allVars
=============================================================================
