------------------------------ MODULE Pipeline ------------------------------
(***************************************************************************)
(* The way of one meeting from the gateway to the insights workers: POST   *)
(* requests create it and add the transcription job, the transcription     *)
(* worker adds the cleaning job, and the cleaning worker fans out to the   *)
(* two insights workers.  Every attempt of a stage that fails also starts  *)
(* the `failed` handler of the worker, which runs beside the retries and   *)
(* rewrites the meeting document on its own.                               *)
(*                                                                         *)
(* A step is one Redis command, one API call or one decision of the job    *)
(* queue.  The insights workers are here only as the writers of the        *)
(* document that they are when nothing fails: FanIn has the rest.          *)
(*                                                                         *)
(* A job id protects from a second add as long as the queue holds the job: *)
(* completed jobs are removed when enough others have been completed.      *)
(***************************************************************************)
EXTENDS Naturals, FiniteSets, MeetingState

CONSTANTS
  Request,     \* POST requests with the same meetingId
  Concurrent,  \* may they overlap?
  MaxAttempts, \* `attempts` of a job
  MaxStalls,   \* how often the queue hands a stalled job out again
  MaxFaults,   \* how many commands and calls fail and workers die: a bound of the model
  Removing     \* queues in which a completed job may be gone when its id comes again
Stage == {"transcription", "cleaning"}
Insight == {"summary", "deadlines"}
Queue == Stage \union Insight

ASSUME PipelineAssumption ==
  /\ Concurrent \in BOOLEAN
  /\ MaxAttempts \in Nat \ {0}
  /\ MaxStalls \in Nat
  /\ MaxFaults \in Nat
  /\ Removing \subseteq Queue

\* The queues to which a worker hands the meeting over.
Successors(q) ==
  CASE q = "transcription" -> {"cleaning"}
    [] q = "cleaning" -> Insight
    [] OTHER -> {}

JobState == {"absent", "waiting", "active", "completed", "failed"}

\* The stages whose results a job of queue q carries in its payload.
Before(q) ==
  CASE q = "transcription" -> {}
    [] q = "cleaning" -> {"transcription"}
    [] OTHER -> Stage

\* The result of a stage is known by the number of the delivery that called its
\* API: two calls give two results.
NoResult == 0
Results == [Stage -> 0 .. MaxAttempts + MaxStalls]

NoResults == [st \in Stage |-> NoResult]

VARIABLES
  request,   \* request[r]: the step of submit() that request r takes next, or its answer
  \* Redis
  meeting,   \* meeting:{meetingId}, Blank before it exists
  cache,     \* cache[st]: idempotency:{st}:{idempotencyKey}
  done,      \* the insights workers whose fan-in flag is up
  \* the queues
  job,       \* job[q]: state of the meeting's job in queue q
  data,      \* data[q]: the results in its payload
  attempts,  \* attempts[q]: failed attempts of the job
  stalls,    \* stalls[q]: times it was found stalled
  adding,    \* the add() calls under way: queue, payload and who sent it
  \* the workers
  pc,        \* pc[q]: the step the worker of q takes next
  copy,      \* copy[q]: the document it has read and changed
  result,    \* result[q]: the result process() holds
  failures,  \* failures[st]: failures and stalls so far, of this job and removed ones
  handler,   \* handler[st][n]: the `failed` handler of the n-th failure
  handlerCopy, \* handlerCopy[st][n]: the document it has read and changed
  faults     \* what has failed so far

counts == <<attempts, stalls>>
queue == <<job, data, counts>>
locals == <<copy, result>>
handlers == <<failures, handler, handlerCopy>>
vars == <<request, meeting, cache, done, queue, adding, pc, locals, handlers, faults>>

UnderWay == {"find", "save", "add"}
Answer == {"accepted", "duplicate", "error"}

StageStep == {"idle", "lookup", "markGet", "markSet", "call", "store", "persistGet",
              "persistSet", "handOver", "await", "return"}
InsightStep == {"idle", "persistGet", "persistSet", "check", "completeGet",
                "completeSet", "return"}

\* The failures of a stage: each has its fault.
Failure == 1 .. MaxFaults

Fresh == [status |-> "PENDING", pipeline |-> NoResults]

\* No document; also what an unused copy holds.
Blank == [status |-> None, pipeline |-> NoResults]

Document == [status : Status \union {None}, pipeline : Results]

Init ==
  /\ request = [r \in Request |-> "idle"]
  /\ meeting = Blank
  /\ cache = NoResults
  /\ done = {}
  /\ job = [q \in Queue |-> "absent"]
  /\ data = [q \in Queue |-> NoResults]
  /\ attempts = [q \in Stage |-> 0]
  /\ stalls = [q \in Stage |-> 0]
  /\ adding = {}
  /\ pc = [q \in Queue |-> "idle"]
  /\ copy = [q \in Queue |-> Blank]
  /\ result = [q \in Queue |-> NoResult]
  /\ failures = [q \in Stage |-> 0]
  /\ handler = [q \in Stage |-> [n \in Failure |-> "none"]]
  /\ handlerCopy = [q \in Stage |-> [n \in Failure |-> Blank]]
  /\ faults = 0

\* Something fails that need not.
Fault ==
  /\ faults < MaxFaults
  /\ faults' = faults + 1

-----------------------------------------------------------------------------
(* MeetingsService.submit *)

Respond(r, step) == request' = [request EXCEPT ![r] = step]

Post(r) ==
  /\ request[r] = "idle"
  /\ Concurrent \/ \A other \in Request : request[other] \notin UnderWay
  /\ Respond(r, "find")
  /\ UNCHANGED <<meeting, cache, done, queue, adding, pc, locals, handlers, faults>>

Find(r) ==
  /\ request[r] = "find"
  /\ Respond(r, IF meeting = Blank THEN "save" ELSE "duplicate")
  /\ UNCHANGED <<meeting, cache, done, queue, adding, pc, locals, handlers, faults>>

Save(r) ==
  /\ request[r] = "save"
  /\ meeting' = Fresh
  /\ Respond(r, "add")
  /\ UNCHANGED <<cache, done, queue, adding, pc, locals, handlers, faults>>

\* removeOnComplete: a completed job may be gone by now, a failed one never.
Gone(q) == job[q] = "absent" \/ (job[q] = "completed" /\ q \in Removing)

Zeroed(counter, q) == [st \in Stage |-> IF st = q THEN 0 ELSE counter[st]]

\* An id that the queue holds is not added again, nor is its payload replaced.
AddJob(q, payload) ==
  \/ /\ Gone(q)
     /\ job' = [job EXCEPT ![q] = "waiting"]
     /\ data' = [data EXCEPT ![q] = payload]
     /\ attempts' = Zeroed(attempts, q)
     /\ stalls' = Zeroed(stalls, q)
  \/ /\ job[q] # "absent"
     /\ UNCHANGED queue

Add(r) ==
  /\ request[r] = "add"
  /\ AddJob("transcription", NoResults)
  /\ Respond(r, "accepted")
  /\ UNCHANGED <<meeting, cache, done, adding, pc, locals, handlers, faults>>

\* The answer to a request whose add() fails: the error is thrown again.
AfterFailedAddSwallowed == "accepted"

AfterFailedAdd == "error"

\* Redis rejects a command of the request, or its reply to the add is lost.
RequestFails(r) ==
  /\ \/ /\ request[r] \in {"find", "save"}
        /\ Respond(r, "error")
        /\ UNCHANGED queue
     \/ /\ request[r] = "add"
        /\ Respond(r, AfterFailedAdd)
        /\ AddJob("transcription", NoResults) \/ UNCHANGED queue
  /\ UNCHANGED <<meeting, cache, done, adding, pc, locals, handlers>>
  /\ Fault

-----------------------------------------------------------------------------
(* The job queue (BullMQ). *)

Goto(q, step) == pc' = [pc EXCEPT ![q] = step]

\* An add() that was sent arrives.
Land(add) ==
  /\ AddJob(add.queue, add.payload)
  /\ adding' = adding \ {add}
  /\ UNCHANGED <<request, meeting, cache, done, pc, locals, handlers, faults>>

\* An insights worker whose flag is up finds its result cached: it goes to the
\* fan-in without persisting again.
FirstStep(q) ==
  CASE q \in Stage -> "lookup"
    [] q \in Insight \ done -> "persistGet"
    [] q \in Insight \intersect done -> "check"

Deliver(q) ==
  /\ job[q] = "waiting"
  /\ pc[q] = "idle"
  /\ job' = [job EXCEPT ![q] = "active"]
  /\ Goto(q, FirstStep(q))
  /\ UNCHANGED <<request, meeting, cache, done, data, counts, adding, locals, handlers, faults>>

\* A delivery is over.
Leave(q) ==
  /\ Goto(q, "idle")
  /\ copy' = [copy EXCEPT ![q] = Blank]
  /\ result' = [result EXCEPT ![q] = NoResult]

\* The adds it has sent, and not an attempt before it.
AddsOf(q) == {add \in adding : add.queue \in Successors(q) /\ add.attempt = failures[q]}

\* It fails; the adds it has sent may still arrive, or not.
BreakOff(q) ==
  /\ Leave(q)
  /\ \E lost \in SUBSET AddsOf(q) : adding' = adding \ lost

Return(q) ==
  /\ pc[q] = "return"
  /\ job' = [job EXCEPT ![q] = "completed"]
  /\ Leave(q)
  /\ UNCHANGED <<request, meeting, cache, done, data, counts, adding, handlers, faults>>

RetriesOffByOne(q) == attempts[q] < MaxAttempts

Retries(q) == attempts[q] + 1 < MaxAttempts

\* The worker emits `failed` for every failure, not only for the last one.
EmitFailed(q) ==
  /\ handler' = [handler EXCEPT ![q][failures[q] + 1] = "pending"]
  /\ UNCHANGED handlerCopy

CountFailure(q) == failures' = [failures EXCEPT ![q] = @ + 1]

\* The call fails (ResilienceService rethrows), or Redis rejects a command or
\* its reply is lost: process() throws.
Throw(q) ==
  /\ pc[q] # "idle"
  /\ Fault
  /\ BreakOff(q)
  /\ EmitFailed(q)
  /\ CountFailure(q)
  /\ attempts' = [attempts EXCEPT ![q] = @ + 1]
  /\ job' = [job EXCEPT ![q] = IF Retries(q) THEN "waiting" ELSE "failed"]
  /\ UNCHANGED <<request, meeting, cache, done, data, stalls>>

Handling == {"pending", "writing"}

\* The worker process dies, and its handlers with it.
Crash(q) ==
  /\ pc[q] # "idle"
  /\ BreakOff(q)
  /\ handler' = [handler EXCEPT ![q] =
       [n \in Failure |-> IF @[n] \in Handling THEN "lost" ELSE @[n]]]
  /\ handlerCopy' = [handlerCopy EXCEPT ![q] = [n \in Failure |-> Blank]]
  /\ UNCHANGED <<request, meeting, cache, done, queue, failures>>
  /\ Fault

\* The queue finds the lock of a dead worker's job expired.
Stall(q) ==
  /\ job[q] = "active"
  /\ pc[q] = "idle"
  /\ \/ /\ stalls[q] < MaxStalls
        /\ stalls' = [stalls EXCEPT ![q] = @ + 1]
        /\ job' = [job EXCEPT ![q] = "waiting"]
        /\ UNCHANGED <<handler, handlerCopy>>
     \/ /\ stalls[q] = MaxStalls
        /\ job' = [job EXCEPT ![q] = "failed"]
        /\ EmitFailed(q)
        /\ UNCHANGED stalls
  /\ CountFailure(q)
  /\ UNCHANGED <<request, meeting, cache, done, data, attempts, adding, pc, locals, faults>>

-----------------------------------------------------------------------------
(* process() of the transcription and cleaning processors, command by        *)
(* command.  setJobState, addPipelineResult, setFailed and setCompleted each *)
(* read the whole document, change their copy and write that back.           *)

ReadAndChange(q, doc) ==
  /\ copy' = [copy EXCEPT ![q] = doc]
  /\ UNCHANGED meeting

WriteBack(q) ==
  /\ meeting' = copy[q]
  /\ copy' = [copy EXCEPT ![q] = Blank]

\* Where an attempt goes that finds its result in the cache.
HitCalls == "markGet"

OnHit == "handOver"

Lookup(q) ==
  /\ pc[q] = "lookup"
  /\ \/ /\ cache[q] # NoResult
        /\ result' = [result EXCEPT ![q] = cache[q]]
        /\ Goto(q, OnHit)
     \/ /\ cache[q] = NoResult
        /\ Goto(q, "markGet")
        /\ UNCHANGED result
  /\ UNCHANGED <<request, meeting, cache, done, queue, adding, copy, handlers, faults>>

\* markProcessing
MarkProcessing(q) ==
  /\ \/ /\ pc[q] = "markGet"
        /\ ReadAndChange(q, SetStatus(meeting, "PROCESSING"))
        /\ Goto(q, "markSet")
     \/ /\ pc[q] = "markSet"
        /\ WriteBack(q)
        /\ Goto(q, "call")
  /\ UNCHANGED <<request, cache, done, queue, adding, result, handlers, faults>>

Delivery(q) == attempts[q] + stalls[q] + 1

\* The call of the API answers.
Call(q) ==
  /\ pc[q] = "call"
  /\ result' = [result EXCEPT ![q] = Delivery(q)]
  /\ Goto(q, "store")
  /\ UNCHANGED <<request, meeting, cache, done, queue, adding, copy, handlers, faults>>

\* The order of what follows the call: cache, persist, hand over, return.
HandsOverFirst(step) ==
  CASE step = "store" -> "handOver"
    [] step = "await" -> "persistGet"
    [] step = "persistSet" -> "return"

Then(step) ==
  CASE step = "store" -> "persistGet"
    [] step = "persistSet" -> "handOver"
    [] step = "await" -> "return"

Store(q) ==
  /\ pc[q] = "store"
  /\ cache' = [cache EXCEPT ![q] = result[q]]
  /\ Goto(q, Then("store"))
  /\ UNCHANGED <<request, meeting, done, queue, adding, locals, handlers, faults>>

\* addPipelineResult.  An insights worker's own result is FanIn's subject.
Persist(q) ==
  /\ \/ /\ pc[q] = "persistGet"
        /\ ReadAndChange(q,
             IF q \in Stage THEN AddPipelineResult(meeting, q, result[q]) ELSE meeting)
        /\ Goto(q, "persistSet")
     \/ /\ pc[q] = "persistSet"
        /\ WriteBack(q)
        /\ Goto(q, IF q \in Stage THEN Then("persistSet") ELSE "check")
  /\ UNCHANGED <<request, cache, done, queue, adding, result, handlers, faults>>

\* enqueueCleaning, fanOut: the adds leave together, with the job's own payload
\* and the result, and are awaited.
HandOver(q) ==
  /\ pc[q] = "handOver"
  /\ adding' = adding \union
       {[queue |-> next, payload |-> [data[q] EXCEPT ![q] = result[q]],
         attempt |-> failures[q]] : next \in Successors(q)}
  /\ Goto(q, "await")
  /\ UNCHANGED <<request, meeting, cache, done, queue, locals, handlers, faults>>

AwaitsAny(q) == Cardinality(AddsOf(q)) < Cardinality(Successors(q))

AwaitsAll(q) == AddsOf(q) = {}

Await(q) ==
  /\ pc[q] = "await"
  /\ AwaitsAll(q)
  /\ Goto(q, Then("await"))
  /\ UNCHANGED <<request, meeting, cache, done, queue, adding, locals, handlers, faults>>

-----------------------------------------------------------------------------
(* The insights workers, as far as the meeting document goes. *)

\* The fan-in.  FanIn has its commands apart, and what may happen between them.
Check(q) ==
  /\ pc[q] = "check"
  /\ done' = done \union {q}
  /\ Goto(q, IF done' = Insight THEN "completeGet" ELSE "return")
  /\ UNCHANGED <<request, meeting, cache, queue, adding, locals, handlers, faults>>

\* setCompleted.  Which of the two final statuses it is, is FanIn's subject.
Complete(q) ==
  /\ \/ /\ pc[q] = "completeGet"
        /\ ReadAndChange(q, SetCompleted(meeting, FALSE))
        /\ Goto(q, "completeSet")
     \/ /\ pc[q] = "completeSet"
        /\ WriteBack(q)
        /\ Goto(q, "return")
  /\ UNCHANGED <<request, cache, done, queue, adding, result, handlers, faults>>

-----------------------------------------------------------------------------
(* onFailed: markFailed reads and rewrites the document on its own. *)

FailedKeepsStatus(doc) == doc

SetFailed(doc) == SetStatus(doc, "FAILED")

OnFailed(q, n) ==
  /\ \/ /\ handler[q][n] = "pending"
        /\ handler' = [handler EXCEPT ![q][n] = "writing"]
        /\ handlerCopy' = [handlerCopy EXCEPT ![q][n] = SetFailed(meeting)]
        /\ UNCHANGED meeting
     \/ /\ handler[q][n] = "writing"
        /\ handler' = [handler EXCEPT ![q][n] = "none"]
        /\ handlerCopy' = [handlerCopy EXCEPT ![q][n] = Blank]
        /\ meeting' = handlerCopy[q][n]
  /\ UNCHANGED <<request, cache, done, queue, adding, pc, locals, failures, faults>>

\* Redis rejects its command; nothing repeats the handler.
OnFailedFails(q, n) ==
  /\ handler[q][n] \in Handling
  /\ handler' = [handler EXCEPT ![q][n] = "lost"]
  /\ handlerCopy' = [handlerCopy EXCEPT ![q][n] = Blank]
  /\ UNCHANGED <<request, meeting, cache, done, queue, adding, pc, locals, failures>>
  /\ Fault

-----------------------------------------------------------------------------
Submit(r) == Find(r) \/ Save(r) \/ Add(r)

Process(q) ==
  \/ Lookup(q) \/ MarkProcessing(q) \/ Call(q) \/ Store(q) \/ Persist(q)
  \/ HandOver(q) \/ Await(q) \/ Check(q) \/ Complete(q) \/ Return(q)

\* What the worker of q or its queue does with the job next.
Work(q) == Deliver(q) \/ Process(q) \/ (q \in Stage /\ Stall(q))

\* What goes on without a client's or a fault's doing.
Progress ==
  \/ \E r \in Request : Submit(r)
  \/ \E q \in Queue : Work(q)
  \/ \E add \in adding : Land(add)
  \/ \E q \in Stage, n \in Failure : OnFailed(q, n)

Next ==
  \/ Progress
  \/ \E r \in Request : Post(r) \/ RequestFails(r)
  \/ \E q \in Stage : Throw(q) \/ Crash(q) \/ \E n \in Failure : OnFailedFails(q, n)

Spec == Init /\ [][Next]_vars

\* Requests and handlers under way, adds on their way, workers and queues go on,
\* one or the other of them: attempts, stalls and faults are bounded, so none of
\* them can keep another waiting for ever.
FairSpec == Spec /\ WF_vars(Progress)

-----------------------------------------------------------------------------
(* Properties. *)

\* Its worker is dead, and its lock has not expired yet.
Orphaned(q) == job[q] = "active" /\ pc[q] = "idle"

FailuresHaveFaults ==
  \A q \in Stage : failures[q] + (IF Orphaned(q) THEN 1 ELSE 0) \leq faults

\* Every variable holds a value of its kind, a job that may still run has an
\* attempt left, and no failure is counted without its fault.
TypeOK ==
  /\ request \in [Request -> {"idle"} \union UnderWay \union Answer]
  /\ meeting \in Document
  /\ cache \in Results
  /\ done \subseteq Insight
  /\ job \in [Queue -> JobState]
  /\ data \in [Queue -> Results]
  /\ attempts \in [Stage -> 0 .. MaxAttempts]
  /\ \A q \in Stage : job[q] \notin {"completed", "failed"} => attempts[q] < MaxAttempts
  /\ stalls \in [Stage -> 0 .. MaxStalls]
  /\ adding \subseteq [queue : Queue, payload : Results, attempt : 0 .. MaxFaults]
  /\ pc \in [Queue -> StageStep \union InsightStep]
  /\ \A q \in Queue : pc[q] \in IF q \in Stage THEN StageStep ELSE InsightStep
  /\ copy \in [Queue -> Document]
  /\ result \in [Queue -> 0 .. MaxAttempts + MaxStalls]
  /\ failures \in [Stage -> 0 .. MaxFaults]
  /\ FailuresHaveFaults
  /\ handler \in [Stage -> [Failure -> {"none", "lost"} \union Handling]]
  /\ handlerCopy \in [Stage -> [Failure -> Document]]
  /\ faults \in 0 .. MaxFaults

\* A worker works on an active job; with TypeOK this is inductive.
WorksOnActive == \A q \in Queue : pc[q] # "idle" => job[q] = "active"

Settled == meeting.status \in Final

Failed == meeting.status = "FAILED"

\* Nothing is under way in the workers and queues.
Quiet ==
  /\ adding = {}
  /\ \A q \in Queue : job[q] \in {"absent", "completed", "failed"} /\ pc[q] = "idle"
  /\ \A q \in Stage, n \in Failure : handler[q][n] \notin Handling

\* A completed stage has handed the meeting over: a fan-out of which one half
\* failed is repeated until both insights jobs exist, or the cleaning job fails.
HandedOver ==
  \A q \in Stage : job[q] = "completed" =>
    \A next \in Successors(q) : job[next] # "absent"

\* The stage is given up, and no failure of it has lost its handler.
Dead(q) ==
  /\ job[q] = "failed"
  /\ \A next \in Successors(q) : job[next] = "absent"
  /\ \A n \in Failure : handler[q][n] # "lost"

\* A stage that is given up before its successors exist is reported as FAILED:
\* whatever retries and handlers interleave, neither an attempt's late write nor
\* an earlier handler's hides it.  (Unless a handler is lost with its process or
\* to a Redis error: nothing repeats it.)
DeadStageReported == \A q \in Stage : Quiet /\ Dead(q) => Failed

\* The results in a copy of the document or in a payload, against the cache.
Fits(results) == \A st \in Stage : results[st] \in {NoResult, cache[st]}

Equips(payload, q) ==
  \A st \in Before(q) : payload[st] = cache[st] /\ cache[st] # NoResult

\* One result per stage: the document, the cache and the payloads of the jobs
\* that follow hold the same one, whichever delivery made the call and however
\* often the hand-over was repeated; and a job carries all it needs.
ResultsAgree ==
  /\ Fits(meeting.pipeline)
  /\ \A q \in Queue : job[q] # "absent" => Equips(data[q], q)

Failing(q) == failures[q] > 0

\* A failure that may cost the document the result of q.
Harmed(q) == \E st \in Before(q) \union {q} : Failing(st)

\* The document shows the result of every completed stage, unless it or the stage
\* before failed on the way: then a retry may have skipped the persist, or a
\* `failed` handler written back the copy it had read earlier.
LostResultHasFailure ==
  \A q \in Stage : job[q] = "completed" /\ ~Harmed(q) => meeting.pipeline[q] # NoResult

\* No worker calls its API for a result that is cached.
CacheShields == [][\A q \in Stage : Call(q) => cache[q] = NoResult]_vars

\* Only a report of a failure takes a final status back: no late or repeated
\* delivery of an earlier stage and no second POST rewrites a settled meeting.
FinalOnlyFails == [][Settled => Settled' \/ Failed']_vars

Accepted == \E r \in Request : request[r] = "accepted"

\* Once nothing is under way any more, a client that was told 202 has not been
\* forgotten: the meeting is settled or FAILED, or one of its jobs is in the
\* failed set, wherever the chain of jobs was broken or taken up again.
QuietIsDecided ==
  Quiet /\ Accepted => Settled \/ Failed \/ \E q \in Queue : job[q] = "failed"

\* A client that was told 202 sees the meeting settled or FAILED in the end, or
\* an operator finds one of its jobs in the failed set.
AcceptedIsDecided ==
  <>[](Accepted => Settled \/ Failed \/ \E q \in Queue : job[q] = "failed")

-----------------------------------------------------------------------------
(* What the repository says and the code does not do. *)

\* "Called ONLY when BullMQ exhausts ALL outer retry attempts", says onFailed:
\* a FAILED meeting has a job in the failed set.
FailedMeansExhausted == Failed => \E q \in Stage : job[q] = "failed"

\* "If meetingId is provided and already exists, returns existing state": a
\* repeated POST does not start a meeting anew that is being processed.
ProgressKept ==
  [][meeting.status \notin {None, "PENDING"} => meeting'.status # "PENDING"]_vars
=============================================================================
