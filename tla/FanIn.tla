------------------------------- MODULE FanIn -------------------------------
(***************************************************************************)
(* The join at the end of the pipeline.  The cleaning worker fans one      *)
(* meeting out to the summary and the deadlines queue; each insights       *)
(* worker extracts its part, caches it, writes it into the meeting         *)
(* document, publishes its fan-in keys and looks for the other's: whoever  *)
(* finds the other done writes the final status.                           *)
(*                                                                         *)
(* One step is one Redis command, one API call or one decision of the job  *)
(* queue, so every interleaving of the two worker applications, and of two *)
(* deliveries of the same job, is a behaviour.  All keys carry the meeting *)
(* id: one meeting is modelled.                                            *)
(*                                                                         *)
(* No other writer of the document takes part: late `failed` handlers of   *)
(* the stages before, a second POST, and jobs that a late add starts anew  *)
(* after they were completed and removed are in Pipeline.                  *)
(***************************************************************************)
EXTENDS Naturals, MeetingState

CONSTANTS
  Slot,        \* the processor slots of a worker: deliveries of its job under way
  MaxAttempts, \* `attempts` of a fan-out job
  MaxStalls,   \* how often the queue hands a stalled job out again
  LocksLapse,  \* the workers whose locks may lapse while the processor still runs
  KeysExpire,  \* can 24 hours pass between two steps, so that keys expire?
  Degrading,   \* the workers whose API may fail, so that they use the fallback
  FirstStatus  \* the status of the meeting at the fan-out

Worker == {"summary", "deadlines"}

ASSUME FanInAssumption ==
  /\ None \notin Slot
  /\ MaxAttempts \in Nat \ {0}
  /\ MaxStalls \in Nat
  /\ LocksLapse \subseteq Worker
  /\ KeysExpire \in BOOLEAN
  /\ Degrading \subseteq Worker
  /\ FirstStatus \in {"PROCESSING", "FAILED"}

Other(w) == IF w = "summary" THEN "deadlines" ELSE "summary"

JobState == {"absent", "waiting", "active", "completed", "failed"}

VARIABLES
  \* the queues
  job,       \* job[w]: state of the job {meetingId}-{w}
  attempts,  \* attempts[w]: failed attempts so far
  stalls,    \* stalls[w]: times the job was found stalled
  holder,    \* holder[w]: the slot whose delivery holds the job's lock
  \* Redis
  cache,     \* cache[w]: idempotency:{w}:{idempotencyKey}
  result,    \* result[w]: fan-in:{meetingId}:{w}:result
  done,      \* done[w]: whether fan-in:{meetingId}:{w}:done exists
  meeting,   \* meeting:{meetingId}
  \* the processors
  pc,        \* pc[w][s]: the step the delivery in slot s takes next
  res,       \* res[w][s]: its result
  copy,      \* copy[w][s]: the meeting document it has read
  sumFallback, \* sumFallback[w][s]: the summary's fallback flag it has read
  \* history, read by the properties only
  answered   \* answered[w]: the kinds of result the extractions of w ended with

queue   == <<job, attempts, stalls, holder>>
keys    == <<cache, result, done>>
locals  == <<pc, res, copy, sumFallback>>
vars    == <<queue, keys, meeting, locals, answered>>

PC == {"idle", "lookup", "extract", "store", "persistGet", "persistSet",
       "putResult", "putDone", "check", "readSummary", "completeGet",
       "completeSet", "return"}

\* What an unused copy holds, so that finished deliveries leave no trace.
NoCopy == [status |-> "PENDING", pipeline |-> [w \in Worker |-> None]]

-----------------------------------------------------------------------------
(* A meeting reaches the fan-out as PROCESSING, or as FAILED when an       *)
(* earlier attempt of the cleaning job failed after it had cached its      *)
(* result: the attempt that finds the cache does not mark the meeting      *)
(* PROCESSING again.                                                       *)
Init ==
  /\ job = [w \in Worker |-> "absent"]
  /\ attempts = [w \in Worker |-> 0]
  /\ stalls = [w \in Worker |-> 0]
  /\ holder = [w \in Worker |-> None]
  /\ cache = [w \in Worker |-> None]
  /\ result = [w \in Worker |-> None]
  /\ done = [w \in Worker |-> FALSE]
  /\ meeting = [NoCopy EXCEPT !.status = FirstStatus]
  /\ pc = [w \in Worker |-> [s \in Slot |-> "idle"]]
  /\ res = [w \in Worker |-> [s \in Slot |-> None]]
  /\ copy = [w \in Worker |-> [s \in Slot |-> NoCopy]]
  /\ sumFallback = [w \in Worker |-> [s \in Slot |-> FALSE]]
  /\ answered = [w \in Worker |-> {}]

-----------------------------------------------------------------------------
(* The job queue (BullMQ), as the worker applications use it. *)

\* The cleaning worker adds the two jobs in one Promise.all: they appear in
\* either order, and adding a job that exists is ignored (the job ids are fixed;
\* that a completed job may have been removed is in Pipeline).
\* Here both adds succeed; Pipeline has the ones that do not.
FanOut(w) ==
  /\ job[w] = "absent"
  /\ job' = [job EXCEPT ![w] = "waiting"]
  /\ UNCHANGED <<attempts, stalls, holder, keys, meeting, locals, answered>>

Deliver(w, s) ==
  /\ job[w] = "waiting"
  /\ pc[w][s] = "idle"
  /\ job' = [job EXCEPT ![w] = "active"]
  /\ holder' = [holder EXCEPT ![w] = s]
  /\ pc' = [pc EXCEPT ![w][s] = "lookup"]
  /\ UNCHANGED <<attempts, stalls, keys, meeting, res, copy, sumFallback, answered>>

\* The delivery in slot s ends, by returning, throwing or dying.
Leave(w, s) ==
  /\ pc' = [pc EXCEPT ![w][s] = "idle"]
  /\ res' = [res EXCEPT ![w][s] = None]
  /\ copy' = [copy EXCEPT ![w][s] = NoCopy]
  /\ sumFallback' = [sumFallback EXCEPT ![w][s] = FALSE]
  /\ UNCHANGED <<keys, meeting, answered>>

\* process() returns.  A delivery that lost the lock has nothing to complete.
Return(w, s) ==
  /\ pc[w][s] = "return"
  /\ Leave(w, s)
  /\ \/ /\ holder[w] = s
        /\ job' = [job EXCEPT ![w] = "completed"]
        /\ holder' = [holder EXCEPT ![w] = None]
     \/ /\ holder[w] # s
        /\ UNCHANGED <<job, holder>>
  /\ UNCHANGED <<attempts, stalls>>

\* Does the job get another attempt when the one under way fails?
RetriesOffByOne(w) == attempts[w] < MaxAttempts

Retries(w) == attempts[w] + 1 < MaxAttempts

\* A Redis command is rejected, or its reply is lost, and process() throws.  The
\* extraction itself never throws: SummaryService and DeadlinesService catch
\* every error.  The job waits for its next attempt or, after the last one, is
\* dead-lettered; onFailed of these two workers only logs.
Throw(w, s) ==
  /\ pc[w][s] \notin {"idle", "extract"}
  /\ Leave(w, s)
  /\ \/ /\ holder[w] = s
        /\ attempts' = [attempts EXCEPT ![w] = @ + 1]
        /\ job' = [job EXCEPT ![w] = IF Retries(w) THEN "waiting" ELSE "failed"]
        /\ holder' = [holder EXCEPT ![w] = None]
     \/ /\ holder[w] # s
        /\ UNCHANGED <<attempts, job, holder>>
  /\ UNCHANGED stalls

\* The worker process dies; the queue learns of it through the lock alone.
Crash(w, s) ==
  /\ pc[w][s] # "idle"
  /\ Leave(w, s)
  /\ UNCHANGED queue

\* The lock of an active job has expired: its processor died or, with
\* LocksLapse, was too busy to renew it and still runs.
Stall(w) ==
  /\ job[w] = "active"
  /\ w \in LocksLapse \/ pc[w][holder[w]] = "idle"
  /\ holder' = [holder EXCEPT ![w] = None]
  /\ \/ /\ stalls[w] < MaxStalls
        /\ stalls' = [stalls EXCEPT ![w] = @ + 1]
        /\ job' = [job EXCEPT ![w] = "waiting"]
     \/ /\ stalls[w] = MaxStalls
        /\ job' = [job EXCEPT ![w] = "failed"]
        /\ UNCHANGED stalls
  /\ UNCHANGED <<attempts, keys, meeting, locals, answered>>

\* The TTL of one of the keys runs out.
Expire(w) ==
  /\ KeysExpire
  /\ \/ /\ cache[w] # None
        /\ cache' = [cache EXCEPT ![w] = None]
        /\ UNCHANGED <<result, done>>
     \/ /\ result[w] # None
        /\ result' = [result EXCEPT ![w] = None]
        /\ UNCHANGED <<cache, done>>
     \/ /\ done[w]
        /\ done' = [done EXCEPT ![w] = FALSE]
        /\ UNCHANGED <<cache, result>>
  /\ UNCHANGED <<queue, meeting, locals, answered>>

-----------------------------------------------------------------------------
(* process() of the summary and deadlines processors, command by command.  *)
(* MeetingStateService returns early when the meeting does not exist; the  *)
(* gateway creates it before the first job, and no code deletes it.        *)

Goto(w, s, label) == pc' = [pc EXCEPT ![w][s] = label]

\* Where a delivery goes that finds its result in the cache: on to the fan-in.
HitReturns == "return"
HitPersists == "persistGet"
HitExtracts == "extract"

OnHit == "putResult"

\* Step 1: the idempotency cache.
Lookup(w, s) ==
  /\ pc[w][s] = "lookup"
  /\ \/ /\ cache[w] # None
        /\ res' = [res EXCEPT ![w][s] = cache[w]]
        /\ Goto(w, s, OnHit)
     \/ /\ cache[w] = None
        /\ Goto(w, s, "extract")
        /\ UNCHANGED res
  /\ UNCHANGED <<queue, keys, meeting, copy, sumFallback, answered>>

\* Step 2: the API answered, or the call fails and the fallback is returned.
Extract(w, s) ==
  /\ pc[w][s] = "extract"
  /\ \E r \in Result :
       /\ r = "degraded" => w \in Degrading
       /\ res' = [res EXCEPT ![w][s] = r]
       /\ answered' = [answered EXCEPT ![w] = @ \union {r}]
  /\ Goto(w, s, "store")
  /\ UNCHANGED <<queue, keys, meeting, copy, sumFallback>>

\* Step 3: cache the result, then read and rewrite the meeting document.
Store(w, s) ==
  /\ pc[w][s] = "store"
  /\ cache' = [cache EXCEPT ![w] = res[w][s]]
  /\ Goto(w, s, "persistGet")
  /\ UNCHANGED <<queue, result, done, meeting, res, copy, sumFallback, answered>>

PersistGet(w, s) ==
  /\ pc[w][s] = "persistGet"
  /\ copy' = [copy EXCEPT ![w][s] = meeting]
  /\ Goto(w, s, "persistSet")
  /\ UNCHANGED <<queue, keys, meeting, res, sumFallback, answered>>

PersistSet(w, s) ==
  /\ pc[w][s] = "persistSet"
  /\ meeting' = AddPipelineResult(copy[w][s], w, res[w][s])
  /\ copy' = [copy EXCEPT ![w][s] = NoCopy]
  /\ Goto(w, s, "putResult")
  /\ UNCHANGED <<queue, keys, res, sumFallback, answered>>

\* Step 4, fanIn: publish the result, raise the own flag, look at the other's.
PutResult(w, s) ==
  /\ pc[w][s] = "putResult"
  /\ result' = [result EXCEPT ![w] = res[w][s]]
  /\ Goto(w, s, "putDone")
  /\ UNCHANGED <<queue, cache, done, meeting, res, copy, sumFallback, answered>>

PutDone(w, s) ==
  /\ pc[w][s] = "putDone"
  /\ done' = [done EXCEPT ![w] = TRUE]
  /\ Goto(w, s, "check")
  /\ UNCHANGED <<queue, cache, result, meeting, res, copy, sumFallback, answered>>

\* EXISTS of the other worker's flag.
OtherDoneOwnKey(w) == done[w]

OtherDone(w) == done[Other(w)]

Check(w, s) ==
  /\ pc[w][s] = "check"
  /\ \/ OtherDone(w) /\ w = "summary" /\ Goto(w, s, "completeGet")
     \/ OtherDone(w) /\ w = "deadlines" /\ Goto(w, s, "readSummary")
     \/ ~OtherDone(w) /\ Goto(w, s, "return")
  /\ UNCHANGED <<queue, keys, meeting, res, copy, sumFallback, answered>>

\* The deadlines worker reads the summary's flag; an expired summary has none.
ReadSummary(w, s) ==
  /\ pc[w][s] = "readSummary"
  /\ sumFallback' = [sumFallback EXCEPT ![w][s] = (result["summary"] = "degraded")]
  /\ Goto(w, s, "completeGet")
  /\ UNCHANGED <<queue, keys, meeting, res, copy, answered>>

\* The summary worker takes its own fallback flag for the meeting's.
HasPartialOwnOnly(w, s) == res[w][s] = "degraded"

HasPartial(w, s) ==
  \/ res[w][s] = "degraded"
  \/ w = "deadlines" /\ sumFallback[w][s]

CompleteGet(w, s) ==
  /\ pc[w][s] = "completeGet"
  /\ copy' = [copy EXCEPT ![w][s] = meeting]
  /\ Goto(w, s, "completeSet")
  /\ UNCHANGED <<queue, keys, meeting, res, sumFallback, answered>>

CompleteSet(w, s) ==
  /\ pc[w][s] = "completeSet"
  /\ meeting' = SetCompleted(copy[w][s], HasPartial(w, s))
  /\ copy' = [copy EXCEPT ![w][s] = NoCopy]
  /\ Goto(w, s, "return")
  /\ UNCHANGED <<queue, keys, res, sumFallback, answered>>

\* One step of process().
Step(w, s) ==
  \/ Lookup(w, s) \/ Extract(w, s) \/ Store(w, s)
  \/ PersistGet(w, s) \/ PersistSet(w, s)
  \/ PutResult(w, s) \/ PutDone(w, s) \/ Check(w, s) \/ ReadSummary(w, s)
  \/ CompleteGet(w, s) \/ CompleteSet(w, s) \/ Return(w, s)

Next ==
  \E w \in Worker :
    \/ FanOut(w) \/ Stall(w) \/ Expire(w)
    \/ \E s \in Slot :
         Deliver(w, s) \/ Step(w, s) \/ Throw(w, s) \/ Crash(w, s)

Spec == Init /\ [][Next]_vars

\* A worker that is up runs its deliveries to their end, a waiting job is
\* delivered and a lost lock is noticed.  Throwing, crashing, lapsing locks and
\* expiring keys are possible, never owed.
FairSpec ==
  /\ Spec
  /\ \A w \in Worker :
       /\ WF_vars(FanOut(w))
       /\ WF_vars(\E s \in Slot : Deliver(w, s))
       /\ WF_vars(Stall(w) /\ pc[w][holder[w]] = "idle")
       /\ \A s \in Slot : WF_vars(Step(w, s))

-----------------------------------------------------------------------------
(* Properties. *)

\* Every variable holds a value of its kind.
TypeOK ==
  /\ job \in [Worker -> JobState]
  /\ attempts \in [Worker -> 0 .. MaxAttempts]
  /\ stalls \in [Worker -> 0 .. MaxStalls]
  /\ holder \in [Worker -> Slot \union {None}]
  /\ cache \in [Worker -> Result \union {None}]
  /\ result \in [Worker -> Result \union {None}]
  /\ done \in [Worker -> BOOLEAN]
  /\ meeting \in Meeting(Worker)
  /\ pc \in [Worker -> [Slot -> PC]]
  /\ res \in [Worker -> [Slot -> Result \union {None}]]
  /\ copy \in [Worker -> [Slot -> Meeting(Worker)]]
  /\ sumFallback \in [Worker -> [Slot -> BOOLEAN]]
  /\ answered \in [Worker -> SUBSET Result]
=============================================================================
