---------------------------- MODULE ResilientCall ----------------------------
(***************************************************************************)
(* ResilienceService.execute with the call inside it: the circuit breaker, *)
(* withTimeout, and the service method that is suspended on sleep().       *)
(* CircuitBreaker knows of a call only that it ends; here it is the race   *)
(* of the method against the timer, with the abort signal between them.    *)
(*                                                                         *)
(* Node runs a timer's callback and everything it resumes before the next  *)
(* one, so a step is one callback with all its continuations, up to the    *)
(* next Redis command.  The worker processes stay up here.                 *)
(***************************************************************************)
EXTENDS CircuitBreakerRefinement

CONSTANT ForeignAbort  \* may a method reject with an AbortError of its own?

ASSUME ResilientCallAssumption == ForeignAbort \in BOOLEAN

\* Where a method may be suspended: in a stall (of the transcription service
\* only) or in the work proper.
Suspension == {"stalling", "working"}

\* A method that does not stall decides at once whether it fails.
Entry == {"stalling", "deciding"}

VARIABLES
  heeds,     \* the suspensions in which the methods pass the signal on
  method,    \* method[c]: where the method is that c awaits
  deadline,  \* the callers whose withTimeout has its timer running
  orphans    \* orphans[c]: where methods are suspended whose call timed out

callVars == <<heeds, method, deadline, orphans>>

CallInit ==
  /\ Init
  /\ heeds \in SUBSET Suspension
  /\ method = [c \in Caller |-> "none"]
  /\ deadline = {}
  /\ orphans = [c \in Caller |-> {}]

\* A call whose promise nothing will settle any more.
Hung(c) == pc[c] = "calling" /\ method[c] = "none"

-----------------------------------------------------------------------------
(* withTimeout *)

\* The timer is set first, and runs while the promise is pending.
Arm(c) == deadline \union {c}

\* The circuit admits the call, and the method is entered.
Enter(c) ==
  /\ GetState(c) \/ SetHalfOpen(c)
  /\ \/ /\ pc'[c] = "calling"
        /\ deadline' = Arm(c)
        /\ \E at \in Entry : method' = [method EXCEPT ![c] = at]
     \/ /\ pc'[c] # "calling"
        /\ UNCHANGED <<deadline, method>>
  /\ UNCHANGED <<heeds, orphans>>

DisarmNone(c) == deadline

\* clearTimeout
Disarm(c) == deadline \ {c}

\* The method resolves or rejects in time: its outcome is the call's.
Settle(c) ==
  /\ Call(c)
  /\ method' = [method EXCEPT ![c] = "none"]
  /\ deadline' = Disarm(c)
  /\ UNCHANGED <<heeds, orphans>>

\* A suspension that was given the signal does not survive it.
Survives == Suspension \ heeds

\* The timer fires: it aborts the signal, whose listener clears the method's own
\* timer, and rejects the promise.  The AbortError that follows is swallowed.
TimeOut(c) ==
  /\ c \in deadline
  /\ method[c] \in Suspension
  /\ ~up
  /\ Call(c)
  /\ deadline' = deadline \ {c}
  /\ method' = [method EXCEPT ![c] = "none"]
  /\ orphans' = [orphans EXCEPT ![c] = @ \union ({method[c]} \intersect Survives)]
  /\ UNCHANGED heeds

\* An AbortError that the timer did not cause is swallowed as well, and the timer
\* is cleared.
RejectForeign(c) ==
  /\ ForeignAbort
  /\ method[c] \in Suspension
  /\ method' = [method EXCEPT ![c] = "none"]
  /\ deadline' = Disarm(c)
  /\ UNCHANGED <<vars, heeds, orphans>>

-----------------------------------------------------------------------------
(* The service methods. *)

\* The work is done and the result returned.
Answer(c) ==
  /\ method[c] = "working"
  /\ up
  /\ Settle(c)

\* The service is down: an error, at once or after the stall.
Throw(c) ==
  /\ method[c] \in Entry
  /\ ~up
  /\ Settle(c)

\* No error (so far): the work proper begins.
Proceed(c) ==
  /\ method[c] \in Entry
  /\ method' = [method EXCEPT ![c] = "working"]
  /\ UNCHANGED <<vars, heeds, deadline, orphans>>

\* A method that settles after its call has timed out clears a timer, too.
LateDisarmShared(c) == deadline \ {c}

\* It is the timer of the call that has timed out, not one that c has set since.
LateDisarm(c) == deadline

\* Past the stall a late method looks at the signal and returns, and so it does
\* past its work; nobody listens to its answer.
WakeLate(c) ==
  \E at \in orphans[c] :
    /\ orphans' = [orphans EXCEPT ![c] = @ \ {at}]
    /\ deadline' = LateDisarm(c)
    /\ UNCHANGED <<vars, heeds, method>>

-----------------------------------------------------------------------------
\* How a call under way goes on: the service answers or the timer fires.
GoOn(c) == Answer(c) \/ Throw(c) \/ Proceed(c) \/ TimeOut(c)

\* The commands of the breaker before and after a call.
Record(c) ==
  /\ \/ GetOpenedAt(c) \/ SetClosed(c) \/ DelFailures(c) \/ DelOpenedAt(c)
     \/ GetFailedState(c) \/ Incr(c) \/ SetOpen(c) \/ SetOpenedAt(c)
  /\ UNCHANGED callVars

Around == (Turn \/ Elapse \/ \E c \in Caller : Start(c)) /\ UNCHANGED callVars

CallNext ==
  \/ Around
  \/ \E c \in Caller :
       Enter(c) \/ GoOn(c) \/ Record(c) \/ RejectForeign(c) \/ WakeLate(c)

CallSpec == CallInit /\ [][CallNext]_<<vars, callVars>>

\* A call is not promised an answer: a method may be suspended for ever.
FairCallSpec ==
  /\ CallSpec
  /\ \A c \in Caller : WF_<<vars, callVars>>(GoOn(c))

-----------------------------------------------------------------------------
(* Properties. *)

\* Every variable holds a value of its kind.
CallTypeOK ==
  /\ TypeOK
  /\ heeds \subseteq Suspension
  /\ method \in [Caller -> Suspension \union {"deciding", "none"}]
  /\ deadline \subseteq Caller
  /\ orphans \in [Caller -> SUBSET Suspension]

\* A timer runs exactly as long as its call is undecided: it is never left to
\* fire into a later call, and no call that may still be decided lacks one, when
\* methods settle late that earlier calls have given up, too.
TimerMatchesCall ==
  \A c \in Caller : c \in deadline <=> pc[c] = "calling" /\ ~Hung(c)

\* Every call ends, whether the service answers, fails or never comes back.  One
\* thing can leave a call hanging: a rejection with an AbortError that is not the
\* timer's doing.
CallEnds ==
  \A c \in Caller : pc[c] = "calling" ~> pc[c] # "calling" \/ Hung(c)

\* A method is under way only for a call that is.
MethodHasCall == \A c \in Caller : method[c] # "none" => pc[c] = "calling"
=============================================================================
