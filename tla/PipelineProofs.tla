--------------------------- MODULE PipelineProofs ---------------------------
(* Proofs about the pipeline up to the fan-out, for any number of requests,  *)
(* attempts, stalls and faults.                                              *)
EXTENDS Pipeline, TLAPS

(* The cleaning worker's successors are not the transcription worker's,      *)
(* nobody hands over to the first queue, and a job needs the results its     *)
(* predecessor needed and the predecessor's own.                             *)
LEMMA SuccessorsType ==
  /\ \A q \in Queue : Successors(q) \subseteq Queue
  /\ \A p, q \in Stage : Successors(p) \intersect Successors(q) # {} => p = q
  /\ \A q \in Queue : Before(q) \subseteq Stage
  /\ \A q \in Stage, next \in Queue :
       next \in Successors(q) => Before(next) = Before(q) \union {q}
BY DEF Successors, Before, Queue, Stage, Insight

LEMMA StageInQueue == Stage \subseteq Queue
BY DEF Queue

Version == 0 .. MaxAttempts + MaxStalls

LEMMA NoResultsType == NoResults \in Results /\ Blank \in Document /\ Fresh \in Document
BY PipelineAssumption DEF NoResults, Results, NoResult, Blank, Fresh, Document, Status, None

LEMMA DocumentType ==
  ASSUME NEW doc \in Document
  PROVE  /\ \A status \in Status : SetStatus(doc, status) \in Document
         /\ SetFailed(doc) \in Document
         /\ SetCompleted(doc, FALSE) \in Document
         /\ \A st \in Stage, n \in Version : AddPipelineResult(doc, st, n) \in Document
BY DEF Document, Results, Version, SetStatus, SetFailed, SetCompleted, AddPipelineResult, Status

LEMMA CopyType ==
  ASSUME TypeOK, NEW q \in Queue, NEW doc \in Document, ReadAndChange(q, doc) \/ WriteBack(q)
  PROVE  meeting' \in Document /\ copy' \in [Queue -> Document]
<1>1. \E new \in Document : copy' = [copy EXCEPT ![q] = new]
  BY NoResultsType DEF ReadAndChange, WriteBack
<1>2. copy' \in [Queue -> Document]
  BY <1>1 DEF TypeOK
<1> QED
  BY <1>2 DEF ReadAndChange, WriteBack, TypeOK

(* The actions, by the one that takes them. *)
LEMMA NextCases ==
  ASSUME [Next]_vars
  PROVE  \/ UNCHANGED vars
         \/ \E r \in Request : Post(r) \/ Submit(r) \/ RequestFails(r)
         \/ \E q \in Queue : Deliver(q) \/ Process(q)
         \/ \E q \in Stage : Stall(q) \/ Throw(q) \/ Crash(q)
         \/ \E add \in adding : Land(add)
         \/ \E q \in Stage, n \in Failure : OnFailed(q, n) \/ OnFailedFails(q, n)
BY DEF Next, Progress, Work

(* What requests leave alone, and what an add() does to the queues.          *)
LEMMA RequestEffect ==
  ASSUME NEW r \in Request, Post(r) \/ Submit(r) \/ RequestFails(r)
  PROVE  /\ UNCHANGED <<cache, done, adding, pc, copy, result, failures, handler, handlerCopy>>
         /\ UNCHANGED <<job, data, attempts, stalls>> \/ AddJob("transcription", NoResults)
BY DEF Post, Submit, Find, Save, Add, RequestFails, locals, handlers, queue, counts

LEMMA AddJobEffect ==
  ASSUME job \in [Queue -> JobState], data \in [Queue -> Results],
         NEW q \in Queue, NEW payload, AddJob(q, payload)
  PROVE  /\ job'[q] # "absent"
         /\ \A p \in Queue : job'[p] # job[p] =>
              p = q /\ job[p] \in {"absent", "completed"} /\ job'[p] = "waiting"
         /\ \A p \in Queue : data'[p] # data[p] => p = q /\ data'[p] = payload
         /\ job[q] = "absent" => data'[q] = payload
BY DEF AddJob, Gone, queue

LEMMA TypeInit == Init => TypeOK /\ WorksOnActive
<1> SUFFICES ASSUME Init PROVE TypeOK /\ WorksOnActive
  OBVIOUS
<1> USE PipelineAssumption DEF Init
<1>1. cache \in Results /\ data \in [Queue -> Results] /\ meeting \in Document
  BY NoResultsType
<1>2. copy \in [Queue -> Document] /\ handlerCopy \in [Stage -> [Failure -> Document]]
  BY NoResultsType
<1>3. result \in [Queue -> 0 .. MaxAttempts + MaxStalls]
  BY DEF NoResult
<1>4. pc \in [Queue -> StageStep \union InsightStep]
      /\ \A q \in Queue : pc[q] \in IF q \in Stage THEN StageStep ELSE InsightStep
  BY DEF StageStep, InsightStep
<1>5. FailuresHaveFaults
  BY StageInQueue DEF FailuresHaveFaults, Orphaned
<1> QED
  BY <1>1, <1>2, <1>3, <1>4, <1>5, StageInQueue DEF TypeOK, WorksOnActive, JobState

(* A failure that is counted was a fault, or the stall that follows a crash. *)
LEMMA FailuresNext ==
  ASSUME TypeOK, WorksOnActive, [Next]_vars
  PROVE  FailuresHaveFaults'
<1> USE PipelineAssumption, StageInQueue DEF TypeOK
<1>1. ASSUME UNCHANGED failures, faults' \in Nat, faults \leq faults',
             \A q \in Stage : Orphaned(q)' => Orphaned(q)
      PROVE  FailuresHaveFaults'
  BY <1>1 DEF FailuresHaveFaults
<1>2. CASE UNCHANGED vars
  BY <1>1, <1>2 DEF vars, queue, handlers, Orphaned
<1>3. ASSUME NEW r \in Request, Post(r) \/ Submit(r) \/ RequestFails(r)
      PROVE  FailuresHaveFaults'
  <2>1. /\ UNCHANGED <<pc, failures>> /\ faults' \in {faults, faults + 1}
        /\ UNCHANGED queue \/ AddJob("transcription", NoResults)
    BY <1>3 DEF Post, Submit, Find, Save, Add, RequestFails, Fault, handlers
  <2> QED
    BY <1>1, <2>1 DEF AddJob, Orphaned, queue
<1>4. ASSUME NEW add \in adding, Land(add) PROVE FailuresHaveFaults'
  BY <1>1, <1>4 DEF Land, AddJob, Orphaned, handlers, queue
<1>5. ASSUME NEW q \in Queue, Deliver(q) PROVE FailuresHaveFaults'
  BY <1>1, <1>5 DEF Deliver, Goto, FirstStep, Orphaned, handlers
<1>6. ASSUME NEW q \in Queue, Process(q) PROVE FailuresHaveFaults'
  <2>1. UNCHANGED <<failures, faults>>
    BY <1>6 DEF Process, Lookup, MarkProcessing, Call, Store, Persist, HandOver, Await,
       Check, Complete, Return, handlers
  <2>2. CASE Return(q)
    BY <1>1, <2>1, <2>2 DEF Return, Leave, Goto, Orphaned
  <2>3. CASE ~Return(q)
    <3>1. UNCHANGED job /\ \E next : next # "idle" /\ Goto(q, next)
      BY <1>6, <2>3 DEF Process, Lookup, OnHit, MarkProcessing, Call, Store, Persist, HandOver,
         Await, Then, Check, Complete, queue
    <3> QED
      BY <1>1, <2>1, <3>1 DEF Goto, Orphaned
  <2> QED
    BY <2>2, <2>3
<1>7. ASSUME NEW q \in Stage, Stall(q) PROVE FailuresHaveFaults'
  <2>1. Orphaned(q) /\ ~Orphaned(q)' /\ \A p \in Stage : p # q => (Orphaned(p)' <=> Orphaned(p))
    BY <1>7 DEF Stall, Orphaned
  <2>2. failures' = [failures EXCEPT ![q] = @ + 1] /\ UNCHANGED faults
    BY <1>7 DEF Stall, CountFailure
  <2> QED
    BY <2>1, <2>2 DEF FailuresHaveFaults
<1>8. ASSUME NEW q \in Stage, Throw(q) PROVE FailuresHaveFaults'
  <2>1. ~Orphaned(q)' /\ \A p \in Stage : p # q => (Orphaned(p)' => Orphaned(p))
    BY <1>8 DEF Throw, BreakOff, Leave, Goto, Orphaned
  <2>2. failures' = [failures EXCEPT ![q] = @ + 1] /\ faults' = faults + 1
    BY <1>8 DEF Throw, CountFailure, Fault
  <2> QED
    BY <2>1, <2>2 DEF FailuresHaveFaults
<1>9. ASSUME NEW q \in Stage, Crash(q) PROVE FailuresHaveFaults'
  <2>1. ~Orphaned(q) /\ \A p \in Stage : p # q => (Orphaned(p)' => Orphaned(p))
    BY <1>9 DEF Crash, BreakOff, Leave, Goto, Orphaned, queue
  <2>2. UNCHANGED failures /\ faults' = faults + 1
    BY <1>9 DEF Crash, Fault
  <2> QED
    BY <2>1, <2>2 DEF FailuresHaveFaults
<1>10. ASSUME NEW q \in Stage, NEW n \in Failure, OnFailed(q, n) \/ OnFailedFails(q, n)
       PROVE  FailuresHaveFaults'
  BY <1>1, <1>10 DEF OnFailed, OnFailedFails, Fault, Orphaned, queue
<1> QED
  BY <1>2, <1>3, <1>4, <1>5, <1>6, <1>7, <1>8, <1>9, <1>10, NextCases

(* A job that may still run has an attempt left, and a failure its slot.      *)
LEMMA AttemptLeft ==
  ASSUME TypeOK, NEW q \in Stage, job[q] \notin {"completed", "failed"}
  PROVE  attempts[q] \in Nat /\ attempts[q] < MaxAttempts
BY DEF TypeOK

LEMMA SlotLeft ==
  ASSUME TypeOK, NEW q \in Stage, faults < MaxFaults \/ Orphaned(q)
  PROVE  failures[q] \in Nat /\ failures[q] + 1 \in Failure /\ failures[q] + 1 \leq MaxFaults
<1>1. /\ failures[q] \in Nat /\ faults \in Nat /\ faults \leq MaxFaults
      /\ failures[q] + (IF Orphaned(q) THEN 1 ELSE 0) \leq faults
  BY PipelineAssumption DEF TypeOK, FailuresHaveFaults
<1> QED
  BY <1>1, PipelineAssumption DEF Failure

(* Where the first step of a delivery is.                                    *)
LEMMA FirstStepType ==
  ASSUME NEW q \in Queue
  PROVE  /\ q \in Stage => FirstStep(q) = "lookup"
         /\ q \notin Stage => FirstStep(q) \in {"persistGet", "check"}
         /\ q \notin Stage => (FirstStep(q) = "check" <=> q \in done)
BY DEF FirstStep, Queue, Stage, Insight

LEMMA TypeNext == TypeOK /\ WorksOnActive /\ [Next]_vars => TypeOK'
<1> SUFFICES ASSUME TypeOK, WorksOnActive, [Next]_vars PROVE TypeOK'
  OBVIOUS
<1>0. FailuresHaveFaults'
  BY FailuresNext
<1> USE PipelineAssumption, StageInQueue, NoResultsType DEF TypeOK
<1> USE <1>0
<1>1. CASE UNCHANGED vars
  BY <1>1 DEF vars, queue, counts, locals, handlers
<1>2. ASSUME NEW q \in Queue, NEW payload \in Results, AddJob(q, payload) \/ UNCHANGED queue
      PROVE  /\ job' \in [Queue -> JobState]
             /\ data' \in [Queue -> Results]
             /\ attempts' \in [Stage -> 0 .. MaxAttempts]
             /\ \A p \in Stage : job'[p] \notin {"completed", "failed"} =>
                                   attempts'[p] < MaxAttempts
             /\ stalls' \in [Stage -> 0 .. MaxStalls]
  <2>1. CASE UNCHANGED queue
    BY <2>1 DEF queue, counts
  <2>2. CASE /\ job' = [job EXCEPT ![q] = "waiting"] /\ data' = [data EXCEPT ![q] = payload]
             /\ attempts' = Zeroed(attempts, q) /\ stalls' = Zeroed(stalls, q)
    BY <2>2 DEF Zeroed, JobState
  <2> QED
    BY <1>2, <2>1, <2>2 DEF AddJob
<1>3. ASSUME NEW r \in Request, Post(r) \/ Submit(r) \/ RequestFails(r) PROVE TypeOK'
  <2> USE DEF Respond, UnderWay, Answer, queue, counts, locals, handlers
  <2>0. "transcription" \in Queue
    BY DEF Queue, Stage
  <2>1. CASE Post(r)
    BY <2>1 DEF Post
  <2>2. CASE Find(r) \/ Save(r)
    BY <2>2 DEF Find, Save
  <2>3. CASE Add(r)
    BY <2>0, <2>3, <1>2 DEF Add
  <2>4. CASE RequestFails(r)
    <3>1. faults' \in 0 .. MaxFaults
      BY <2>4 DEF RequestFails, Fault
    <3>2. UNCHANGED queue \/ AddJob("transcription", NoResults)
      BY <2>4 DEF RequestFails
    <3> HIDE DEF queue
    <3>3. /\ job' \in [Queue -> JobState]
          /\ data' \in [Queue -> Results]
          /\ attempts' \in [Stage -> 0 .. MaxAttempts]
          /\ \A p \in Stage : job'[p] \notin {"completed", "failed"} =>
                                attempts'[p] < MaxAttempts
          /\ stalls' \in [Stage -> 0 .. MaxStalls]
      BY <2>0, <3>2, <1>2
    <3> QED
      BY <2>4, <3>1, <3>3 DEF RequestFails, AfterFailedAdd
  <2> QED
    BY <1>3, <2>1, <2>2, <2>3, <2>4 DEF Submit
<1>4. ASSUME NEW q \in Queue, Deliver(q) PROVE TypeOK'
  <2>1. FirstStep(q) \in IF q \in Stage THEN StageStep ELSE InsightStep
    BY FirstStepType DEF StageStep, InsightStep
  <2> QED
    BY <1>4, <2>1 DEF Deliver, Goto, JobState, counts, locals, handlers
<1>5. ASSUME NEW q \in Queue, Process(q) PROVE TypeOK'
  <2> USE DEF Goto, StageStep, InsightStep, queue, counts, locals, handlers
  <2>1. CASE Lookup(q)
    <3>1. q \in Stage
      BY <2>1 DEF Lookup
    <3> QED
      BY <2>1, <3>1 DEF Lookup, OnHit, Results
  <2>2. CASE MarkProcessing(q)
    <3>1. SetStatus(meeting, "PROCESSING") \in Document
      BY DocumentType DEF Status
    <3>2. meeting' \in Document /\ copy' \in [Queue -> Document]
      BY <2>2, <3>1, CopyType DEF MarkProcessing
    <3>3. q \in Stage
      BY <2>2 DEF MarkProcessing
    <3> QED
      BY <2>2, <3>2, <3>3 DEF MarkProcessing
  <2>3. CASE Call(q)
    <3>1. q \in Stage /\ job[q] = "active"
      BY <2>3 DEF Call, WorksOnActive
    <3>2. attempts[q] < MaxAttempts /\ attempts[q] \in Nat /\ stalls[q] \in 0 .. MaxStalls
      BY <3>1
    <3>3. Delivery(q) \in 0 .. MaxAttempts + MaxStalls
      BY <3>2 DEF Delivery
    <3> QED
      BY <2>3, <3>1, <3>3 DEF Call
  <2>4. CASE Store(q)
    <3>1. q \in Stage
      BY <2>4 DEF Store
    <3> QED
      BY <2>4, <3>1 DEF Store, Then, Results
  <2>5. CASE Persist(q)
    <3>1. q \in Stage => AddPipelineResult(meeting, q, result[q]) \in Document
      BY DocumentType DEF Version
    <3>2. meeting' \in Document /\ copy' \in [Queue -> Document]
      BY <2>5, <3>1, CopyType DEF Persist
    <3>3. \E next \in {"persistSet", "handOver", "check"} :
            Goto(q, next) /\ (q \in Stage => next \in StageStep) /\ (q \notin Stage => next \in InsightStep)
      BY <2>5 DEF Persist, Then
    <3> QED
      BY <2>5, <3>2, <3>3 DEF Persist
  <2>6. CASE HandOver(q)
    <3>1. q \in Stage
      BY <2>6 DEF HandOver
    <3>2. [data[q] EXCEPT ![q] = result[q]] \in Results
      BY <3>1 DEF Results
    <3> DEFINE payload == [data[q] EXCEPT ![q] = result[q]]
               Sending == {[queue |-> next, payload |-> payload, attempt |-> failures[q]] :
                             next \in Successors(q)}
    <3>3. ASSUME NEW add \in Sending PROVE add \in [queue : Queue, payload : Results, attempt : 0 .. MaxFaults]
      <4>1. payload \in Results
        BY <3>2
      <4> HIDE DEF payload
      <4>2. PICK next \in Successors(q) :
              add = [queue |-> next, payload |-> payload, attempt |-> failures[q]]
        OBVIOUS
      <4>3. failures[q] \in 0 .. MaxFaults
        BY <3>1
      <4> QED
        BY <4>1, <4>2, <4>3, SuccessorsType
    <3>4. adding' = adding \union Sending
      BY <2>6 DEF HandOver
    <3> HIDE DEF Sending
    <3>5. adding' \subseteq [queue : Queue, payload : Results, attempt : 0 .. MaxFaults]
      BY <3>3, <3>4
    <3> QED
      BY <2>6, <3>1, <3>5 DEF HandOver
  <2>7. CASE Await(q)
    BY <2>7 DEF Await, Then
  <2>8. CASE Check(q)
    BY <2>8 DEF Check, Queue
  <2>9. CASE Complete(q)
    <3>1. SetCompleted(meeting, FALSE) \in Document
      BY DocumentType
    <3>2. meeting' \in Document /\ copy' \in [Queue -> Document]
      BY <2>9, <3>1, CopyType DEF Complete
    <3>3. q \notin Stage
      BY <2>9 DEF Complete
    <3> QED
      BY <2>9, <3>2, <3>3 DEF Complete
  <2>10. CASE Return(q)
    BY <2>10 DEF Return, Leave, JobState, NoResult
  <2> QED
    BY <1>5, <2>1, <2>2, <2>3, <2>4, <2>5, <2>6, <2>7, <2>8, <2>9, <2>10 DEF Process
<1>6. ASSUME NEW q \in Stage, Stall(q) PROVE TypeOK'
  <2>2. failures[q] \in Nat /\ failures[q] + 1 \in Failure /\ failures[q] + 1 \leq MaxFaults
    BY <1>6, SlotLeft DEF Stall, Orphaned
  <2>3. handler' \in [Stage -> [Failure -> {"none", "lost"} \union Handling]] /\ UNCHANGED handlerCopy
    <3>1. CASE UNCHANGED <<handler, handlerCopy>>
      BY <3>1
    <3>2. CASE EmitFailed(q)
      BY <2>2, <3>2 DEF EmitFailed, Handling
    <3> QED
      BY <1>6, <3>1, <3>2 DEF Stall
  <2>4. failures' \in [Stage -> 0 .. MaxFaults]
    BY <1>6, <2>2 DEF Stall, CountFailure
  <2>5. stalls' \in [Stage -> 0 .. MaxStalls]
    BY <1>6 DEF Stall
  <2> QED
    BY <1>6, <2>3, <2>4, <2>5 DEF Stall, JobState, locals
<1>7. ASSUME NEW q \in Stage, BreakOff(q)
      PROVE  /\ pc' \in [Queue -> StageStep \union InsightStep]
             /\ \A p \in Queue : pc'[p] \in IF p \in Stage THEN StageStep ELSE InsightStep
             /\ copy' \in [Queue -> Document]
             /\ result' \in [Queue -> 0 .. MaxAttempts + MaxStalls]
             /\ adding' \subseteq adding
  BY <1>7 DEF BreakOff, Leave, Goto, StageStep, NoResult
<1>8. ASSUME NEW q \in Stage, Throw(q) PROVE TypeOK'
  <2>1. attempts[q] \in Nat /\ attempts[q] < MaxAttempts
    BY <1>8, AttemptLeft DEF Throw, WorksOnActive
  <2>2. faults' \in 0 .. MaxFaults
    BY <1>8 DEF Throw, Fault
  <2>3. /\ handler' \in [Stage -> [Failure -> {"none", "lost"} \union Handling]]
        /\ UNCHANGED handlerCopy
        /\ failures' \in [Stage -> 0 .. MaxFaults]
    <3>1. failures[q] \in Nat /\ failures[q] + 1 \in Failure /\ failures[q] + 1 \leq MaxFaults
      BY <1>8, SlotLeft DEF Throw, Fault
    <3>2. failures' \in [Stage -> 0 .. MaxFaults]
      BY <1>8, <3>1 DEF Throw, CountFailure
    <3> QED
      BY <1>8, <3>1, <3>2 DEF Throw, EmitFailed, Handling
  <2>4. /\ attempts' \in [Stage -> 0 .. MaxAttempts]
        /\ job' \in [Queue -> JobState]
        /\ \A p \in Stage : job'[p] \notin {"completed", "failed"} => attempts'[p] < MaxAttempts
    BY <1>8, <2>1 DEF Throw, Retries, JobState
  <2> QED
    BY <1>7, <1>8, <2>2, <2>3, <2>4 DEF Throw
<1>9. ASSUME NEW q \in Stage, Crash(q) PROVE TypeOK'
  <2>1. faults' \in 0 .. MaxFaults
    BY <1>9 DEF Crash, Fault
  <2>2. /\ handler' \in [Stage -> [Failure -> {"none", "lost"} \union Handling]]
        /\ handlerCopy' \in [Stage -> [Failure -> Document]]
    BY <1>9 DEF Crash, Handling
  <2> QED
    BY <1>7, <1>9, <2>1, <2>2 DEF Crash, queue, counts
<1>10. ASSUME NEW add \in adding, Land(add) PROVE TypeOK'
  <2>1. add.queue \in Queue /\ add.payload \in Results
    OBVIOUS
  <2> QED
    BY <1>10, <2>1, <1>2 DEF Land, counts, locals, handlers
<1>11. ASSUME NEW q \in Stage, NEW n \in Failure, OnFailed(q, n) \/ OnFailedFails(q, n)
       PROVE  TypeOK'
  <2>1. faults' \in 0 .. MaxFaults
    BY <1>11 DEF OnFailed, OnFailedFails, Fault
  <2>2. handler' \in [Stage -> [Failure -> {"none", "lost"} \union Handling]]
    <3>1. \E h \in {"none", "lost"} \union Handling : handler' = [handler EXCEPT ![q][n] = h]
      BY <1>11 DEF OnFailed, OnFailedFails, Handling
    <3> QED
      BY <3>1
  <2>3. meeting' \in Document /\ handlerCopy' \in [Stage -> [Failure -> Document]]
    <3>0. handlerCopy[q] \in [Failure -> Document]
      OBVIOUS
    <3>1. SetFailed(meeting) \in Document /\ handlerCopy[q][n] \in Document
      BY <3>0, DocumentType
    <3>2. \E doc \in Document : handlerCopy' = [handlerCopy EXCEPT ![q][n] = doc]
      BY <1>11, <3>1 DEF OnFailed, OnFailedFails
    <3>3. meeting' \in Document
      BY <1>11, <3>1 DEF OnFailed, OnFailedFails
    <3> QED
      BY <3>2, <3>3
  <2> QED
    BY <1>11, <2>1, <2>2, <2>3 DEF OnFailed, OnFailedFails, queue, counts, locals
<1> QED
  BY <1>1, <1>3, <1>4, <1>5, <1>6, <1>8, <1>9, <1>10, <1>11, NextCases

LEMMA WorksOnActiveNext == TypeOK /\ WorksOnActive /\ [Next]_vars => WorksOnActive'
<1> SUFFICES ASSUME TypeOK, WorksOnActive, [Next]_vars PROVE WorksOnActive'
  OBVIOUS
<1> USE StageInQueue DEF TypeOK, WorksOnActive, queue
<1>1. CASE UNCHANGED vars
  BY <1>1 DEF vars
<1>2. ASSUME NEW r \in Request, Post(r) \/ Submit(r) \/ RequestFails(r)
      PROVE  WorksOnActive'
  <2>1. UNCHANGED pc /\ (UNCHANGED job \/ AddJob("transcription", NoResults))
    BY <1>2, RequestEffect
  <2>2. "transcription" \in Queue
    BY DEF Queue, Stage
  <2> QED
    BY <2>1, <2>2, AddJobEffect
<1>3. ASSUME NEW add \in adding, Land(add) PROVE WorksOnActive'
  BY <1>3, AddJobEffect DEF Land
<1>4. ASSUME NEW q \in Queue, Deliver(q) PROVE WorksOnActive'
  BY <1>4 DEF Deliver, Goto
<1>5. ASSUME NEW q \in Queue, Process(q) PROVE WorksOnActive'
  <2>1. CASE Return(q)
    BY <2>1 DEF Return, Leave, Goto
  <2>2. CASE ~Return(q)
    <3>1. UNCHANGED job /\ pc[q] # "idle" /\ \E next : Goto(q, next)
      BY <1>5, <2>2 DEF Process, Lookup, MarkProcessing, Call, Store, Persist,
         HandOver, Await, Check, Complete
    <3> QED
      BY <3>1 DEF Goto
  <2> QED
    BY <2>1, <2>2
<1>6. ASSUME NEW q \in Stage, Stall(q) PROVE WorksOnActive'
  BY <1>6 DEF Stall
<1>7. ASSUME NEW q \in Stage, Throw(q) \/ Crash(q) PROVE WorksOnActive'
  BY <1>7 DEF Throw, Crash, BreakOff, Leave, Goto
<1>8. ASSUME NEW q \in Stage, NEW n \in Failure, OnFailed(q, n) \/ OnFailedFails(q, n)
      PROVE  WorksOnActive'
  BY <1>8 DEF OnFailed, OnFailedFails
<1> QED
  BY <1>1, <1>2, <1>3, <1>4, <1>5, <1>6, <1>7, <1>8, NextCases

(* Every variable holds a value of its kind, a job that may still run has an *)
(* attempt left, and a worker works on an active job.                        *)
THEOREM TypeCorrect == Spec => [](TypeOK /\ WorksOnActive)
BY TypeInit, TypeNext, WorksOnActiveNext, PTL DEF Spec

-----------------------------------------------------------------------------
(* No action leaves a queue without a job that it had: one that is removed is *)
(* only seen when its id comes again.                                        *)
LEMMA JobsStay ==
  ASSUME TypeOK, WorksOnActive, [Next]_vars
  PROVE  \A q \in Queue : job[q] # "absent" => job'[q] # "absent"
<1> USE StageInQueue DEF TypeOK, queue
<1> DEFINE Stays == \A q \in Queue : job[q] # "absent" => job'[q] # "absent"
<1>1. ASSUME UNCHANGED vars PROVE Stays
  BY <1>1 DEF vars
<1>2. ASSUME NEW r \in Request, Post(r) \/ Submit(r) \/ RequestFails(r) PROVE Stays
  <2>1. UNCHANGED job \/ AddJob("transcription", NoResults)
    BY <1>2, RequestEffect
  <2>2. "transcription" \in Queue
    BY DEF Queue, Stage
  <2> QED
    BY <2>1, <2>2, AddJobEffect
<1>3. ASSUME NEW add \in adding, Land(add) PROVE Stays
  BY <1>3, AddJobEffect DEF Land
<1>4. ASSUME NEW p \in Queue, Deliver(p) PROVE Stays
  BY <1>4 DEF Deliver
<1>5. ASSUME NEW p \in Queue, Process(p) PROVE Stays
  <2>1. CASE Return(p)
    BY <2>1 DEF Return
  <2>2. CASE ~Return(p)
    BY <1>5, <2>2 DEF Process, Lookup, MarkProcessing, Call, Store, Persist,
       HandOver, Await, Check, Complete
  <2> QED
    BY <2>1, <2>2
<1>6. ASSUME NEW p \in Stage, Stall(p) \/ Throw(p) \/ Crash(p) PROVE Stays
  BY <1>6 DEF Stall, Throw, Crash
<1>7. ASSUME NEW p \in Stage, NEW n \in Failure, OnFailed(p, n) \/ OnFailedFails(p, n)
      PROVE  Stays
  BY <1>7 DEF OnFailed, OnFailedFails
<1> HIDE DEF Stays
<1>8. Stays
  BY <1>1, <1>2, <1>3, <1>4, <1>5, <1>6, <1>7, NextCases
<1> QED
  BY <1>8 DEF Stays

Sent(q) == \E add \in adding : add.queue = q

Awaited(q, next) == \E add \in adding : add.queue = next /\ add.attempt = failures[q]

(* What makes HandedOver inductive: an add that is awaited is on its way   *)
(* or has arrived, and a worker that returns has awaited all of them.      *)
AwaitInvariant ==
  \A q \in Stage, next \in Queue : next \in Successors(q) =>
    /\ pc[q] = "await" => Awaited(q, next) \/ job[next] # "absent"
    /\ pc[q] = "return" => job[next] # "absent"

LEMMA AwaitInit == Init => AwaitInvariant /\ HandedOver
BY StageInQueue DEF Init, AwaitInvariant, HandedOver

LEMMA AwaitNext ==
  TypeOK /\ WorksOnActive /\ AwaitInvariant /\ HandedOver /\ [Next]_vars => AwaitInvariant' /\ HandedOver'
<1> SUFFICES ASSUME TypeOK, WorksOnActive, AwaitInvariant, HandedOver, [Next]_vars
             PROVE  AwaitInvariant' /\ HandedOver'
  OBVIOUS
<1> DEFINE Kept(q) ==
      /\ pc'[q] = "await" => \A next \in Successors(q) : Awaited(q, next)' \/ job'[next] # "absent"
      /\ pc'[q] = "return" => \A next \in Successors(q) : job'[next] # "absent"
      /\ job'[q] = "completed" => \A next \in Successors(q) : job'[next] # "absent"
<1>1. SUFFICES ASSUME NEW q \in Stage PROVE Kept(q)
  BY SuccessorsType, StageInQueue DEF AwaitInvariant, HandedOver
<1>2. /\ Successors(q) \subseteq Queue
      /\ \A next \in Successors(q) : job[next] # "absent" => job'[next] # "absent"
  BY SuccessorsType, StageInQueue, JobsStay
<1>3. /\ pc[q] = "await" => \A next \in Successors(q) : Awaited(q, next) \/ job[next] # "absent"
      /\ pc[q] = "return" => \A next \in Successors(q) : job[next] # "absent"
      /\ job[q] = "completed" => \A next \in Successors(q) : job[next] # "absent"
  BY <1>2 DEF AwaitInvariant, HandedOver
\* What an action has to show when it leaves q where it is.
<1>4. ASSUME pc'[q] = pc[q], job'[q] = "completed" => job[q] = "completed",
             pc[q] = "await" =>
               \A next \in Successors(q) : Awaited(q, next) => Awaited(q, next)' \/ job'[next] # "absent"
      PROVE  Kept(q)
  BY <1>2, <1>3, <1>4
<1>5. ASSUME adding \subseteq adding', failures'[q] = failures[q]
      PROVE  \A next \in Queue : Awaited(q, next) => Awaited(q, next)'
  BY <1>5 DEF Awaited
<1>6. CASE UNCHANGED vars
  BY <1>2, <1>4, <1>5, <1>6 DEF vars, queue, handlers
<1>7. ASSUME NEW r \in Request, Post(r) \/ Submit(r) \/ RequestFails(r)
      PROVE  Kept(q)
  <2>1. UNCHANGED <<pc, adding, failures>> /\ (UNCHANGED job \/ AddJob("transcription", NoResults))
    BY <1>7, RequestEffect
  <2>2. job'[q] = "completed" => job[q] = "completed"
    <3>1. "transcription" \in Queue
      BY DEF Queue, Stage
    <3> QED
      BY <2>1, <3>1, StageInQueue, AddJobEffect DEF TypeOK
  <2>3. UNCHANGED <<pc, adding, failures>>
    BY <2>1
  <2> QED
    BY <1>2, <1>4, <1>5, <2>2, <2>3
<1>8. ASSUME NEW p \in Stage, NEW n \in Failure, OnFailed(p, n) \/ OnFailedFails(p, n)
      PROVE  Kept(q)
  BY <1>2, <1>4, <1>5, <1>8 DEF OnFailed, OnFailedFails, queue
<1>9. ASSUME NEW add \in adding, Land(add) PROVE Kept(q)
  <2>1. add.queue \in Queue
    BY DEF TypeOK
  <2>2. /\ job'[add.queue] # "absent"
        /\ job'[q] = "completed" => job[q] = "completed"
    BY <1>9, <2>1, AddJobEffect, StageInQueue DEF Land, TypeOK
  <2>4. pc' = pc /\ failures' = failures
    BY <1>9 DEF Land, handlers
  <2>3. \A next \in Queue : Awaited(q, next) => Awaited(q, next)' \/ next = add.queue
    BY <1>9, <2>4 DEF Land, Awaited
  <2> QED
    BY <1>2, <1>4, <2>2, <2>3, <2>4
<1>10. ASSUME NEW p \in Queue, Deliver(p) PROVE Kept(q)
  <2>1. UNCHANGED <<adding, failures>> /\ (job'[q] = "completed" => job[q] = "completed")
    BY <1>10, StageInQueue DEF Deliver, TypeOK, handlers
  <2>2. pc'[q] = pc[q] \/ pc'[q] = "lookup"
    BY <1>10, FirstStepType, StageInQueue DEF Deliver, Goto, TypeOK
  <2> QED
    BY <1>2, <1>3, <1>4, <1>5, <2>1, <2>2
<1>11. ASSUME NEW p \in Stage, Stall(p) PROVE Kept(q)
  <2>1. /\ UNCHANGED <<pc, adding>> /\ pc[p] = "idle"
        /\ job'[q] = "completed" => job[q] = "completed"
        /\ p # q => failures'[q] = failures[q]
    BY <1>11, StageInQueue DEF Stall, CountFailure, TypeOK
  <2> QED
    BY <1>2, <1>4, <1>5, <2>1
<1>12. ASSUME NEW p \in Queue, Process(p) PROVE Kept(q)
  <2> DEFINE Steps == Lookup(p) \/ MarkProcessing(p) \/ Call(p) \/ Store(p) \/ Persist(p)
                      \/ Check(p) \/ Complete(p)
  <2>1. CASE p # q
    <3>0. UNCHANGED failures
      BY <1>12 DEF Process, Lookup, MarkProcessing, Call, Store, Persist, HandOver, Await,
         Check, Complete, Return, handlers
    <3>1. pc'[q] = pc[q] /\ adding \subseteq adding'
      BY <1>12, <2>1, StageInQueue DEF Process, Lookup, MarkProcessing, Call, Store, Persist,
         HandOver, Await, Check, Complete, Return, Leave, Goto, TypeOK
    <3>2. job'[q] = job[q]
      BY <1>12, <2>1, StageInQueue DEF Process, Lookup, MarkProcessing, Call, Store, Persist,
         HandOver, Await, Check, Complete, Return, queue, TypeOK
    <3> QED
      BY <1>2, <1>4, <1>5, <3>0, <3>1, <3>2
  <2>2. CASE p = q /\ HandOver(q)
    <3>1. ASSUME NEW next \in Successors(q) PROVE Awaited(q, next)'
      <4> DEFINE add == [queue |-> next, payload |-> [data[q] EXCEPT ![q] = result[q]],
                         attempt |-> failures[q]]
      <4>1. add \in adding' /\ UNCHANGED failures
        BY <2>2 DEF HandOver, handlers
      <4>2. add.queue = next /\ add.attempt = failures[q]
        OBVIOUS
      <4> HIDE DEF add
      <4> QED
        BY <4>1, <4>2 DEF Awaited
    <3> QED
      BY <1>2, <1>3, <2>2, <3>1, StageInQueue DEF HandOver, Goto, queue, TypeOK
  <2>3. CASE p = q /\ Await(q)
    <3>1. \A next \in Successors(q) : ~Awaited(q, next)
      BY <2>3 DEF Await, AwaitsAll, AddsOf, Awaited
    <3> QED
      BY <1>2, <1>3, <2>3, <3>1, StageInQueue DEF Await, Then, Goto, queue, TypeOK
  <2>4. CASE p = q /\ Return(q)
    BY <1>2, <1>3, <2>4, StageInQueue DEF Return, Leave, Goto, TypeOK
  <2>5. CASE p = q /\ Steps
    <3>1. pc[q] \notin {"check", "completeGet", "completeSet"}
      BY StageInQueue DEF TypeOK, StageStep
    <3>2. pc'[q] \notin {"await", "return"} /\ UNCHANGED <<job, adding>>
      BY <2>5, <3>1, StageInQueue DEF Lookup, OnHit, MarkProcessing, Call,
         Store, Persist, Then, Check, Complete, Goto, queue, TypeOK
    <3> QED
      BY <1>3, <3>2
  <2> QED
    BY <1>12, <2>1, <2>2, <2>3, <2>4, <2>5 DEF Process
<1>13. ASSUME NEW p \in Stage, Throw(p) \/ Crash(p) PROVE Kept(q)
  <2>1. (job'[q] = "completed" => job[q] = "completed") /\ BreakOff(p)
    BY <1>13, StageInQueue DEF Throw, Crash, queue, TypeOK
  <2>2. CASE p = q
    <3>1. pc'[q] = "idle"
      BY <2>1, <2>2, StageInQueue DEF BreakOff, Leave, Goto, TypeOK
    <3> QED
      BY <1>2, <1>3, <2>1, <3>1
  <2>3. CASE p # q
    <3>1. pc'[q] = pc[q] /\ failures'[q] = failures[q]
      BY <1>13, <2>1, <2>3, StageInQueue
         DEF Throw, Crash, CountFailure, BreakOff, Leave, Goto, TypeOK
    <3>2. \A next \in Successors(q) : Awaited(q, next) => Awaited(q, next)'
      BY <2>1, <2>3, <3>1, SuccessorsType DEF BreakOff, AddsOf, Awaited
    <3> QED
      BY <1>4, <2>1, <3>1, <3>2
  <2> QED
    BY <2>2, <2>3
<1> QED
  BY <1>6, <1>7, <1>8, <1>9, <1>10, <1>11, <1>12, <1>13, NextCases

LEMMA AwaitAlways == Spec => [](AwaitInvariant /\ HandedOver)
BY TypeCorrect, AwaitInit, AwaitNext, PTL DEF Spec

(* Whatever fails, a completed stage has handed the meeting over.            *)
THEOREM HandedOverHolds == Spec => []HandedOver
BY AwaitAlways, PTL

-----------------------------------------------------------------------------
(* What makes ResultsAgree inductive: every copy of the document holds the *)
(* cached results or none, every payload under way the cached ones, and a  *)
(* worker has an empty cache before it stores and its result in the cache  *)
(* from then on.                                                           *)
ResultsInvariant ==
  /\ Fits(meeting.pipeline)
  /\ \A q \in Queue : Fits(copy[q].pipeline)
  /\ \A q \in Stage, n \in Failure : Fits(handlerCopy[q][n].pipeline)
  /\ \A q \in Queue : job[q] # "absent" => Equips(data[q], q)
  /\ \A add \in adding : Equips(add.payload, add.queue)
  /\ \A q \in Stage :
       /\ pc[q] \in {"markGet", "markSet", "call", "store"} => cache[q] = NoResult
       /\ pc[q] = "store" => result[q] # NoResult
       /\ pc[q] \in {"persistGet", "persistSet", "handOver"} =>
            result[q] = cache[q] /\ cache[q] # NoResult

LEMMA ResultsInit == Init => ResultsInvariant
BY StageInQueue DEF Init, ResultsInvariant, Fits, Equips, Blank, NoResults

(* A result that is cached stays as it is, so what fits the cache before a   *)
(* step still does after it.                                                 *)
LEMMA CacheNext ==
  ASSUME TypeOK, ResultsInvariant, [Next]_vars
  PROVE  /\ \A st \in Stage : cache[st] # NoResult => cache'[st] = cache[st]
         /\ \A results :
              Fits(results) => \A st \in Stage : results[st] \in {NoResult, cache'[st]}
         /\ \A payload : \A q \in Queue :
              Equips(payload, q) =>
                \A st \in Before(q) : payload[st] = cache'[st] /\ cache'[st] # NoResult
<1>1. \A st \in Stage : cache[st] # NoResult => cache'[st] = cache[st]
  <2>1. ASSUME NEW q \in Queue, Store(q)
        PROVE  \A st \in Stage : cache[st] # NoResult => cache'[st] = cache[st]
    BY <2>1 DEF Store, ResultsInvariant, TypeOK, Results
  <2>2. (\E q \in Queue : Store(q)) \/ UNCHANGED cache
    BY NextCases DEF vars, Post, Submit, Find, Save, Add, RequestFails, Deliver, Process,
       Lookup, MarkProcessing, Call, Persist, HandOver, Await, Check, Complete, Return,
       Stall, Throw, Crash, Land, OnFailed, OnFailedFails
  <2> QED
    BY <2>1, <2>2
<1>2. ASSUME NEW results, Fits(results)
      PROVE  \A st \in Stage : results[st] \in {NoResult, cache'[st]}
  BY <1>1, <1>2 DEF Fits
<1>3. ASSUME NEW payload, NEW q \in Queue, Equips(payload, q)
      PROVE  \A st \in Before(q) : payload[st] = cache'[st] /\ cache'[st] # NoResult
  BY <1>1, <1>3, SuccessorsType DEF Equips
<1> QED
  BY <1>1, <1>2, <1>3

(* Changing a copy keeps its results, but for the one that is added.         *)
LEMMA ChangesFit ==
  ASSUME NEW doc \in Document, Fits(doc.pipeline)
  PROVE  /\ \A status : Fits(SetStatus(doc, status).pipeline)
         /\ Fits(SetCompleted(doc, FALSE).pipeline)
         /\ Fits(SetFailed(doc).pipeline)
         /\ \A q \in Stage : Fits(AddPipelineResult(doc, q, cache[q]).pipeline)
<1>1. /\ \A status : SetStatus(doc, status).pipeline = doc.pipeline
      /\ SetCompleted(doc, FALSE).pipeline = doc.pipeline
      /\ SetFailed(doc).pipeline = doc.pipeline
  BY DEF Document, SetStatus, SetCompleted, SetFailed
<1>2. ASSUME NEW q \in Stage
      PROVE  Fits(AddPipelineResult(doc, q, cache[q]).pipeline)
  <2>1. AddPipelineResult(doc, q, cache[q]).pipeline = [doc.pipeline EXCEPT ![q] = cache[q]]
    BY DEF Document, AddPipelineResult
  <2> QED
    BY <2>1 DEF Fits, Document, Results
<1> QED
  BY <1>1, <1>2

DocumentsFit ==
  /\ Fits(meeting.pipeline)
  /\ \A q \in Queue : Fits(copy[q].pipeline)
  /\ \A q \in Stage, n \in Failure : Fits(handlerCopy[q][n].pipeline)

LEMMA DocumentsNext ==
  ASSUME TypeOK, ResultsInvariant, [Next]_vars
  PROVE  DocumentsFit'
<1> USE StageInQueue
<1>1. DocumentsFit /\ Fits(Blank.pipeline) /\ Fits(Fresh.pipeline)
  BY DEF ResultsInvariant, DocumentsFit, Fits, Blank, Fresh, NoResults
\* It is enough that every document after the step fits the cache before it.
<1>2. SUFFICES /\ Fits(meeting'.pipeline)
               /\ \A q \in Queue : Fits(copy'[q].pipeline)
               /\ \A q \in Stage, n \in Failure : Fits(handlerCopy'[q][n].pipeline)
  BY <1>2, CacheNext DEF DocumentsFit, Fits
<1> DEFINE Kept == UNCHANGED <<meeting, copy, handlerCopy>>
<1>3. CASE Kept
  BY <1>1, <1>3 DEF DocumentsFit
<1>4. ASSUME NEW r \in Request, Post(r) \/ Submit(r) \/ RequestFails(r)
      PROVE  Kept \/ (meeting' = Fresh /\ UNCHANGED <<copy, handlerCopy>>)
  BY <1>4 DEF Post, Submit, Find, Save, Add, RequestFails, locals, handlers
<1>5. ASSUME NEW q \in Queue, NEW doc, Fits(doc.pipeline), ReadAndChange(q, doc) \/ WriteBack(q)
      PROVE  Fits(meeting'.pipeline) /\ \A p \in Queue : Fits(copy'[p].pipeline)
  BY <1>1, <1>5 DEF ReadAndChange, WriteBack, DocumentsFit, TypeOK
<1>6. ASSUME NEW q \in Queue, Process(q)
      PROVE  \/ Kept
             \/ /\ UNCHANGED handlerCopy
                /\ \E doc : Fits(doc.pipeline) /\ (ReadAndChange(q, doc) \/ WriteBack(q))
             \/ Leave(q) /\ UNCHANGED <<meeting, handlerCopy>>
  <2> USE DEF locals, handlers
  <2>1. CASE Lookup(q) \/ Call(q) \/ Store(q) \/ HandOver(q) \/ Await(q) \/ Check(q)
    BY <2>1 DEF Lookup, Call, Store, HandOver, Await, Check
  <2>2. CASE MarkProcessing(q)
    <3>1. Fits(SetStatus(meeting, "PROCESSING").pipeline)
      BY <1>1, ChangesFit DEF TypeOK, DocumentsFit
    <3> QED
      BY <2>2, <3>1 DEF MarkProcessing
  <2>3. CASE Persist(q)
    <3> DEFINE doc == IF q \in Stage THEN AddPipelineResult(meeting, q, result[q]) ELSE meeting
    <3>1. CASE pc[q] = "persistGet"
      <4>1. q \in Stage => result[q] = cache[q]
        BY <3>1 DEF ResultsInvariant
      <4>2. Fits(doc.pipeline)
        BY <1>1, <4>1, ChangesFit DEF TypeOK, DocumentsFit
      <4> QED
        BY <2>3, <3>1, <4>2 DEF Persist
    <3>2. CASE pc[q] # "persistGet"
      BY <1>1, <2>3, <3>2 DEF Persist
    <3> QED
      BY <3>1, <3>2
  <2>4. CASE Complete(q)
    <3>1. Fits(SetCompleted(meeting, FALSE).pipeline)
      BY <1>1, ChangesFit DEF TypeOK, DocumentsFit
    <3> QED
      BY <2>4, <3>1 DEF Complete
  <2>5. CASE Return(q)
    BY <2>5 DEF Return
  <2> QED
    BY <1>6, <2>1, <2>2, <2>3, <2>4, <2>5 DEF Process
<1>7. ASSUME NEW q \in Queue, Leave(q) PROVE \A p \in Queue : Fits(copy'[p].pipeline)
  BY <1>1, <1>7 DEF Leave, DocumentsFit, TypeOK
<1>8. ASSUME NEW q \in Stage, Throw(q) \/ Crash(q)
      PROVE  /\ UNCHANGED meeting
             /\ Leave(q)
             /\ \A p \in Stage, n \in Failure :
                  handlerCopy'[p][n] \in {handlerCopy[p][n], Blank}
  <2>1. UNCHANGED meeting /\ Leave(q)
    BY <1>8 DEF Throw, Crash, BreakOff
  <2>2. CASE Throw(q)
    BY <2>1, <2>2 DEF Throw, EmitFailed
  <2>3. CASE Crash(q)
    BY <2>1, <2>3 DEF Crash, TypeOK
  <2> QED
    BY <1>8, <2>1, <2>2, <2>3
<1>9. ASSUME NEW q \in Stage, Stall(q) PROVE Kept
  BY <1>9 DEF Stall, EmitFailed, locals, handlers
<1>10. ASSUME NEW q \in Stage, NEW n \in Failure, OnFailed(q, n) \/ OnFailedFails(q, n)
       PROVE  /\ UNCHANGED copy
              /\ meeting' \in {meeting, handlerCopy[q][n]}
              /\ \A p \in Stage, m \in Failure :
                   handlerCopy'[p][m] \in {handlerCopy[p][m], Blank, SetFailed(meeting)}
  <2>1. \E doc \in {Blank, SetFailed(meeting)} :
          handlerCopy' = [handlerCopy EXCEPT ![q][n] = doc]
    BY <1>10 DEF OnFailed, OnFailedFails
  <2>2. \A p \in Stage, m \in Failure :
          handlerCopy'[p][m] \in {handlerCopy[p][m], Blank, SetFailed(meeting)}
    BY <2>1 DEF TypeOK
  <2>3. UNCHANGED copy /\ meeting' \in {meeting, handlerCopy[q][n]}
    BY <1>10 DEF OnFailed, OnFailedFails, locals
  <2> QED
    BY <2>2, <2>3
<1>11. Fits(SetFailed(meeting).pipeline)
  BY <1>1, ChangesFit DEF TypeOK, DocumentsFit
<1>12. ASSUME NEW add \in adding, Land(add) PROVE Kept
  BY <1>12 DEF Land, locals, handlers
<1>13. ASSUME NEW q \in Queue, Deliver(q) PROVE Kept
  BY <1>13 DEF Deliver, locals, handlers
<1>14. CASE UNCHANGED vars
  BY <1>3, <1>14 DEF vars, locals, handlers
<1>15. CASE \E q \in Queue : Process(q)
  BY <1>1, <1>3, <1>5, <1>6, <1>7, <1>15 DEF DocumentsFit
<1>16. CASE \E q \in Stage : Throw(q) \/ Crash(q)
  BY <1>1, <1>7, <1>8, <1>16 DEF DocumentsFit
<1>17. CASE \E q \in Stage, n \in Failure : OnFailed(q, n) \/ OnFailedFails(q, n)
  BY <1>1, <1>10, <1>11, <1>17 DEF DocumentsFit
<1>18. CASE \E r \in Request : Post(r) \/ Submit(r) \/ RequestFails(r)
  BY <1>1, <1>3, <1>4, <1>18 DEF DocumentsFit
<1> QED
  BY <1>3, <1>9, <1>12, <1>13, <1>14, <1>15, <1>16, <1>17, <1>18, NextCases

PayloadsFit ==
  /\ \A q \in Queue : job[q] # "absent" => Equips(data[q], q)
  /\ \A add \in adding : Equips(add.payload, add.queue)

LEMMA PayloadsNext ==
  ASSUME TypeOK, WorksOnActive, ResultsInvariant, [Next]_vars
  PROVE  PayloadsFit'
<1> USE StageInQueue
<1>1. PayloadsFit
  BY DEF ResultsInvariant, PayloadsFit
\* As before, with the cache before the step.
<1>2. SUFFICES /\ \A q \in Queue : job'[q] # "absent" => Equips(data'[q], q)
               /\ \A add \in adding' : Equips(add.payload, add.queue) /\ add.queue \in Queue
  BY <1>2, CacheNext DEF PayloadsFit, Equips
<1>3. \A add \in adding : add.queue \in Queue
  BY DEF TypeOK
<1>4. ASSUME NEW q \in Queue, NEW payload, AddJob(q, payload), Equips(payload, q)
      PROVE  \A p \in Queue : job'[p] # "absent" => Equips(data'[p], p)
  BY <1>1, <1>4, AddJobEffect DEF PayloadsFit, TypeOK
<1>5. ASSUME UNCHANGED data, \A p \in Queue : job'[p] # "absent" => job[p] # "absent"
      PROVE  \A p \in Queue : job'[p] # "absent" => Equips(data'[p], p)
  BY <1>1, <1>5 DEF PayloadsFit
<1>6. CASE UNCHANGED vars
  BY <1>1, <1>3, <1>6 DEF vars, queue, PayloadsFit
<1>7. ASSUME NEW r \in Request, Post(r) \/ Submit(r) \/ RequestFails(r)
      PROVE  /\ UNCHANGED adding
             /\ \A p \in Queue : job'[p] # "absent" => Equips(data'[p], p)
  <2>1. UNCHANGED adding /\ (UNCHANGED <<job, data>> \/ AddJob("transcription", NoResults))
    BY <1>7, RequestEffect
  <2>2. "transcription" \in Queue /\ Equips(NoResults, "transcription")
    BY DEF Queue, Stage, Equips, Before
  <2> QED
    BY <1>4, <1>5, <2>1, <2>2
<1>8. ASSUME NEW add \in adding, Land(add)
      PROVE  /\ adding' \subseteq adding
             /\ \A p \in Queue : job'[p] # "absent" => Equips(data'[p], p)
  BY <1>1, <1>3, <1>4, <1>8 DEF Land, PayloadsFit
<1>9. ASSUME NEW q \in Queue, Deliver(q)
      PROVE  UNCHANGED <<adding, data>> /\ \A p \in Queue : job'[p] # "absent" => job[p] # "absent"
  BY <1>9 DEF Deliver, TypeOK
<1>10. ASSUME NEW q \in Queue, HandOver(q)
       PROVE  /\ UNCHANGED <<job, data>>
              /\ \A add \in adding' : Equips(add.payload, add.queue) /\ add.queue \in Queue
  <2>1. q \in Stage /\ job[q] = "active"
    BY <1>10 DEF HandOver, WorksOnActive, TypeOK, InsightStep
  <2>2. Equips(data[q], q) /\ result[q] = cache[q] /\ cache[q] # NoResult
    BY <1>1, <1>10, <2>1 DEF HandOver, ResultsInvariant, PayloadsFit
  <2> DEFINE payload == [data[q] EXCEPT ![q] = result[q]]
  <2>3. \A st \in Before(q) \union {q} : payload[st] = cache[st] /\ cache[st] # NoResult
    BY <2>1, <2>2, SuccessorsType DEF Equips, TypeOK, Results
  <2>4. \A next \in Successors(q) : next \in Queue /\ Equips(payload, next)
    BY <2>1, <2>3, SuccessorsType DEF Equips
  <2>5. \A add \in adding' :
          \/ add \in adding
          \/ \E next \in Successors(q) :
               add = [queue |-> next, payload |-> payload, attempt |-> failures[q]]
    BY <1>10 DEF HandOver
  <2>6. UNCHANGED <<job, data>>
    BY <1>10 DEF HandOver, queue
  <2> HIDE DEF payload
  <2> QED
    BY <1>1, <1>3, <2>4, <2>5, <2>6 DEF PayloadsFit
<1>11. ASSUME NEW q \in Queue, Process(q), ~HandOver(q)
       PROVE  UNCHANGED <<adding, data>> /\ \A p \in Queue : job'[p] # "absent" => job[p] # "absent"
  <2>1. CASE Return(q)
    BY <2>1 DEF Return, WorksOnActive, TypeOK
  <2>2. CASE ~Return(q)
    BY <1>11, <2>2 DEF Process, Lookup, MarkProcessing, Call, Store, Persist, Await,
       Check, Complete, queue
  <2> QED
    BY <2>1, <2>2
<1>12. ASSUME NEW q \in Stage, Stall(q) \/ Throw(q) \/ Crash(q)
       PROVE  /\ adding' \subseteq adding /\ UNCHANGED data
              /\ \A p \in Queue : job'[p] # "absent" => job[p] # "absent"
  <2>1. CASE Stall(q)
    BY <2>1 DEF Stall, TypeOK
  <2>2. CASE Throw(q) \/ Crash(q)
    BY <2>2 DEF Throw, Crash, BreakOff, AddsOf, WorksOnActive, TypeOK, queue
  <2> QED
    BY <1>12, <2>1, <2>2
<1>13. ASSUME NEW q \in Stage, NEW n \in Failure, OnFailed(q, n) \/ OnFailedFails(q, n)
       PROVE  UNCHANGED <<adding, job, data>>
  BY <1>13 DEF OnFailed, OnFailedFails, queue
<1> QED
  BY <1>1, <1>3, <1>5, <1>6, <1>7, <1>8, <1>9, <1>10, <1>11, <1>12, <1>13, NextCases DEF PayloadsFit

WorkersFit ==
  \A q \in Stage :
    /\ pc[q] \in {"markGet", "markSet", "call", "store"} => cache[q] = NoResult
    /\ pc[q] = "store" => result[q] # NoResult
    /\ pc[q] \in {"persistGet", "persistSet", "handOver"} =>
         result[q] = cache[q] /\ cache[q] # NoResult

LEMMA WorkersNext ==
  ASSUME TypeOK, ResultsInvariant, [Next]_vars
  PROVE  WorkersFit'
<1> USE StageInQueue
<1>1. WorkersFit
  BY DEF ResultsInvariant, WorkersFit
<1>2. CASE UNCHANGED <<pc, cache, result>>
  BY <1>1, <1>2 DEF WorkersFit
<1>3. ASSUME NEW p \in Queue, pc'[p] \in {"idle", "lookup", "await", "return", "check", "completeGet", "completeSet"}
                              \/ p \notin Stage,
             \A q \in Queue : q # p => pc'[q] = pc[q] /\ result'[q] = result[q],
             UNCHANGED cache
      PROVE  WorkersFit'
  BY <1>1, <1>3 DEF WorkersFit
<1>4. ASSUME NEW p \in Queue, Process(p) PROVE WorkersFit'
  <2> USE DEF Goto, locals, TypeOK
  <2>1. CASE Lookup(p)
    BY <1>1, <2>1 DEF Lookup, OnHit, WorkersFit
  <2>2. CASE MarkProcessing(p)
    BY <1>1, <2>2 DEF MarkProcessing, WorkersFit
  <2>3. CASE Call(p)
    <3>1. p \in Stage
      BY <2>3 DEF Call, InsightStep
    <3>2. attempts[p] \in Nat /\ stalls[p] \in Nat
      BY <3>1
    <3>3. Delivery(p) # NoResult
      BY <3>2 DEF Delivery, NoResult
    <3> QED
      BY <1>1, <2>3, <3>3 DEF Call, WorkersFit
  <2>4. CASE Store(p)
    BY <1>1, <2>4 DEF Store, Then, WorkersFit, Results
  <2>5. CASE Persist(p)
    BY <1>1, <2>5 DEF Persist, Then, WorkersFit
  <2>6. CASE HandOver(p) \/ Await(p) \/ Check(p) \/ Complete(p)
    BY <1>3, <2>6 DEF HandOver, Await, Then, Check, Complete
  <2>7. CASE Return(p)
    BY <1>3, <2>7 DEF Return, Leave
  <2> QED
    BY <1>4, <2>1, <2>2, <2>3, <2>4, <2>5, <2>6, <2>7 DEF Process
<1>5. ASSUME NEW p \in Queue, Deliver(p) PROVE WorkersFit'
  <2>1. pc'[p] = "lookup" \/ p \notin Stage
    BY <1>5, FirstStepType DEF Deliver, Goto, TypeOK
  <2> QED
    BY <1>3, <1>5, <2>1 DEF Deliver, Goto, locals, TypeOK
<1>6. ASSUME NEW p \in Stage, Throw(p) \/ Crash(p) PROVE WorkersFit'
  BY <1>3, <1>6 DEF Throw, Crash, BreakOff, Leave, Goto, TypeOK
<1>7. ASSUME NEW p \in Stage, Stall(p) PROVE WorkersFit'
  BY <1>2, <1>7 DEF Stall, locals
<1>8. ASSUME NEW r \in Request, Post(r) \/ Submit(r) \/ RequestFails(r) PROVE WorkersFit'
  BY <1>2, <1>8 DEF Post, Submit, Find, Save, Add, RequestFails, locals
<1>9. ASSUME NEW add \in adding, Land(add) PROVE WorkersFit'
  BY <1>2, <1>9 DEF Land, locals
<1>10. ASSUME NEW p \in Stage, NEW n \in Failure, OnFailed(p, n) \/ OnFailedFails(p, n)
       PROVE  WorkersFit'
  BY <1>2, <1>10 DEF OnFailed, OnFailedFails, locals
<1>11. CASE UNCHANGED vars
  BY <1>2, <1>11 DEF vars, locals
<1> QED
  BY <1>4, <1>5, <1>6, <1>7, <1>8, <1>9, <1>10, <1>11, NextCases

LEMMA ResultsNext ==
  TypeOK /\ WorksOnActive /\ ResultsInvariant /\ [Next]_vars => ResultsInvariant'
BY DocumentsNext, PayloadsNext, WorkersNext
   DEF ResultsInvariant, DocumentsFit, PayloadsFit, WorkersFit

LEMMA ResultsAlways == Spec => []ResultsInvariant
BY TypeCorrect, ResultsInit, ResultsNext, PTL DEF Spec

(* One result per stage in the document, the cache and the payloads; and no  *)
(* call for a result that is cached.                                         *)
THEOREM ResultsAgreeHolds == Spec => []ResultsAgree /\ CacheShields
<1>1. ResultsInvariant => ResultsAgree
  BY DEF ResultsInvariant, ResultsAgree
<1>2. ResultsInvariant => [\A q \in Stage : Call(q) => cache[q] = NoResult]_vars
  BY DEF ResultsInvariant, Call
<1> QED
  BY ResultsAlways, <1>1, <1>2, PTL DEF CacheShields

-----------------------------------------------------------------------------
(* A dead stage is reported, as long as requests do not overlap.             *)

(* What makes DeadStageReported inductive while requests do not overlap.   *)
(* The meeting is saved before there is any job, and once;                 *)
Begun == meeting.status # None

SavedFirst ==
  /\ \A r, other \in Request :
       request[r] \in UnderWay /\ request[other] \in UnderWay => r = other
  /\ \A r \in Request : (request[r] = "save" => ~Begun) /\ (request[r] = "add" => Begun)
  /\ ~Begun => adding = {} /\ \A q \in Queue : job[q] = "absent"

(* a stage writes the document before it hands the meeting over, and never *)
(* after;                                                                  *)
Preparing == {"markGet", "markSet", "call", "store", "persistGet", "persistSet"}

WritesFirst ==
  \A q \in Stage, next \in Queue : next \in Successors(q) =>
    /\ job[next] # "absent" \/ Sent(next) => job[q] # "absent"
    /\ pc[q] \in Preparing => job[next] = "absent" /\ ~Sent(next)

Writing == {"markSet", "persistSet", "completeSet"}

(* and what is written back is a document, FAILED if a handler writes it.  *)
WritesDocuments ==
  /\ \A q \in Queue : pc[q] \in Writing => copy[q].status # None
  /\ \A q \in Stage, n \in Failure : handler[q][n] \in Handling =>
       /\ job[q] # "absent"
       /\ handler[q][n] = "writing" => handlerCopy[q][n].status = "FAILED"

(* So nobody is left to write for a dead stage but handlers.               *)
ReportInvariant ==
  /\ SavedFirst
  /\ WritesFirst
  /\ WritesDocuments
  /\ \A q \in Stage : Dead(q) => Failed \/ \E n \in Failure : handler[q][n] \in Handling

(* Who changes the document: a request that saves it, a worker or a handler  *)
(* that writes its copy back.                                                *)
LEMMA MeetingWrites ==
  ASSUME TypeOK, WritesDocuments, [Next]_vars
  PROVE  \/ UNCHANGED meeting
         \/ \E r \in Request : Save(r)
         \/ \E q \in Queue : pc[q] \in Writing /\ meeting' = copy[q]
         \/ \E q \in Stage, n \in Failure :
              handler[q][n] = "writing" /\ meeting' = handlerCopy[q][n] /\ Failed'
<1> USE StageInQueue DEF Writing
<1>1. CASE UNCHANGED vars
  BY <1>1 DEF vars
<1>2. ASSUME NEW r \in Request, Post(r) \/ Submit(r) \/ RequestFails(r)
      PROVE  UNCHANGED meeting \/ Save(r)
  BY <1>2 DEF Post, Submit, Find, Add, RequestFails
<1>3. ASSUME NEW q \in Queue, Process(q)
      PROVE  UNCHANGED meeting \/ (pc[q] \in Writing /\ meeting' = copy[q])
  BY <1>3 DEF Process, Lookup, MarkProcessing, Call, Store, Persist, HandOver, Await,
     Check, Complete, Return, ReadAndChange, WriteBack
<1>4. ASSUME NEW q \in Stage, Stall(q) \/ Throw(q) \/ Crash(q) PROVE UNCHANGED meeting
  BY <1>4 DEF Stall, Throw, Crash
<1>5. ASSUME NEW q \in Stage, NEW n \in Failure, OnFailed(q, n) \/ OnFailedFails(q, n)
      PROVE  \/ UNCHANGED meeting
             \/ handler[q][n] = "writing" /\ meeting' = handlerCopy[q][n] /\ Failed'
  BY <1>5 DEF OnFailed, OnFailedFails, WritesDocuments, Handling, Failed
<1>6. ASSUME NEW q \in Queue, Deliver(q) PROVE UNCHANGED meeting
  BY <1>6 DEF Deliver
<1>7. ASSUME NEW add \in adding, Land(add) PROVE UNCHANGED meeting
  BY <1>7 DEF Land
<1> QED
  BY <1>1, <1>2, <1>3, <1>4, <1>5, <1>6, <1>7, NextCases

LEMMA BegunStays ==
  ASSUME TypeOK, WritesDocuments, [Next]_vars, Begun
  PROVE  Begun'
<1>1. \A r \in Request : Save(r) => Begun'
  BY DEF Save, Begun, Fresh, None
<1>2. \A q \in Queue : pc[q] \in Writing => copy[q].status # None
  BY DEF WritesDocuments, Writing
<1>3. Failed' => Begun'
  BY DEF Failed, Begun, None
<1> QED
  BY <1>1, <1>2, <1>3, MeetingWrites DEF Begun

(* Where jobs and adds come from.                                            *)
LEMMA JobsArise ==
  ASSUME TypeOK, WorksOnActive, [Next]_vars, NEW p \in Queue
  PROVE  /\ job'[p] # "absent" => job[p] # "absent" \/ p = "transcription" \/ Sent(p)
         /\ Sent(p)' => Sent(p) \/ \E q \in Stage : pc[q] = "handOver" /\ p \in Successors(q)
<1> USE StageInQueue DEF queue, Sent
<1>1. CASE UNCHANGED vars
  BY <1>1 DEF vars
<1>2. ASSUME NEW r \in Request, Post(r) \/ Submit(r) \/ RequestFails(r)
      PROVE  /\ UNCHANGED adding
             /\ job'[p] # "absent" => job[p] # "absent" \/ p = "transcription"
  <2>1. UNCHANGED adding /\ (UNCHANGED job \/ AddJob("transcription", NoResults))
    BY <1>2, RequestEffect
  <2>2. "transcription" \in Queue
    BY DEF Queue, Stage
  <2> QED
    BY <2>1, <2>2, AddJobEffect DEF TypeOK
<1>3. ASSUME NEW add \in adding, Land(add)
      PROVE  adding' \subseteq adding /\ (job'[p] # "absent" => job[p] # "absent" \/ Sent(p))
  <2>1. add.queue \in Queue
    BY DEF TypeOK
  <2> QED
    BY <1>3, <2>1, AddJobEffect DEF Land, TypeOK
<1>4. ASSUME NEW q \in Queue, Deliver(q)
      PROVE  UNCHANGED adding /\ (job'[p] # "absent" => job[p] # "absent")
  BY <1>4 DEF Deliver, TypeOK
<1>5. ASSUME NEW q \in Queue, HandOver(q)
      PROVE  /\ UNCHANGED job
             /\ Sent(p)' => Sent(p) \/ (q \in Stage /\ pc[q] = "handOver" /\ p \in Successors(q))
  <2>1. q \in Stage
    BY <1>5 DEF HandOver, TypeOK, InsightStep
  <2> DEFINE payload == [data[q] EXCEPT ![q] = result[q]]
  <2>2. \A add \in adding' :
          \/ add \in adding
          \/ \E next \in Successors(q) :
               add = [queue |-> next, payload |-> payload, attempt |-> failures[q]]
    BY <1>5 DEF HandOver
  <2>3. UNCHANGED job /\ pc[q] = "handOver"
    BY <1>5 DEF HandOver
  <2> HIDE DEF payload
  <2> QED
    BY <2>1, <2>2, <2>3
<1>6. ASSUME NEW q \in Queue, Process(q), ~HandOver(q)
      PROVE  UNCHANGED adding /\ (job'[p] # "absent" => job[p] # "absent")
  <2>1. CASE Return(q)
    BY <2>1 DEF Return, WorksOnActive, TypeOK
  <2>2. CASE ~Return(q)
    BY <1>6, <2>2 DEF Process, Lookup, MarkProcessing, Call, Store, Persist, Await,
       Check, Complete
  <2> QED
    BY <2>1, <2>2
<1>7. ASSUME NEW q \in Stage, Stall(q) \/ Throw(q) \/ Crash(q)
      PROVE  adding' \subseteq adding /\ (job'[p] # "absent" => job[p] # "absent")
  <2>1. CASE Stall(q)
    BY <2>1 DEF Stall, TypeOK
  <2>2. CASE Throw(q) \/ Crash(q)
    BY <2>2 DEF Throw, Crash, BreakOff, AddsOf, WorksOnActive, TypeOK
  <2> QED
    BY <1>7, <2>1, <2>2
<1>8. ASSUME NEW q \in Stage, NEW n \in Failure, OnFailed(q, n) \/ OnFailedFails(q, n)
      PROVE  UNCHANGED <<adding, job>>
  BY <1>8 DEF OnFailed, OnFailedFails
<1> QED
  BY <1>1, <1>2, <1>3, <1>4, <1>5, <1>6, <1>7, <1>8, NextCases

(* What is done without a request is done for a meeting that is saved.       *)
LEMMA WorkIsBegun ==
  ASSUME TypeOK, WorksOnActive, SavedFirst, WritesDocuments
  PROVE  /\ \A q \in Queue : Deliver(q) \/ Process(q) => Begun
         /\ \A q \in Stage : Stall(q) \/ Throw(q) \/ Crash(q) => Begun
         /\ \A add \in adding : Begun
         /\ \A q \in Stage, n \in Failure : OnFailed(q, n) \/ OnFailedFails(q, n) => Begun
<1> USE StageInQueue
<1>1. ASSUME NEW q \in Queue, job[q] # "absent" PROVE Begun
  BY <1>1 DEF SavedFirst
<1>2. ASSUME NEW q \in Queue, Process(q) PROVE pc[q] # "idle"
  BY <1>2 DEF Process, Lookup, MarkProcessing, Call, Store, Persist, HandOver, Await,
     Check, Complete, Return
<1>3. ASSUME NEW q \in Queue, Deliver(q) PROVE Begun
  BY <1>1, <1>3 DEF Deliver
<1>4. ASSUME NEW q \in Stage, Stall(q) \/ Throw(q) \/ Crash(q) PROVE Begun
  BY <1>1, <1>4 DEF Stall, Throw, Crash, WorksOnActive
<1>5. ASSUME NEW add \in adding PROVE Begun
  BY DEF SavedFirst
<1>6. ASSUME NEW q \in Stage, NEW n \in Failure, OnFailed(q, n) \/ OnFailedFails(q, n)
      PROVE  Begun
  BY <1>1, <1>6 DEF OnFailed, OnFailedFails, WritesDocuments, Handling
<1> QED
  BY <1>1, <1>2, <1>3, <1>4, <1>5, <1>6 DEF WorksOnActive

LEMMA SavedFirstNext ==
  ASSUME ~Concurrent, TypeOK, WorksOnActive, SavedFirst, WritesDocuments, [Next]_vars
  PROVE  SavedFirst'
<1> USE StageInQueue DEF queue
<1>1. ASSUME UNCHANGED request, Begun PROVE SavedFirst'
  <2>1. Begun'
    BY <1>1, BegunStays
  <2> QED
    BY <1>1, <2>1 DEF SavedFirst
<1>2. CASE UNCHANGED vars
  BY <1>2 DEF vars, SavedFirst, Begun
<1>3. ASSUME NEW r \in Request, Post(r) PROVE SavedFirst'
  BY <1>3 DEF Post, Respond, SavedFirst, Begun, TypeOK, UnderWay
<1>4. ASSUME NEW r \in Request, Find(r) PROVE SavedFirst'
  BY <1>4 DEF Find, Respond, SavedFirst, Begun, TypeOK, UnderWay, Blank
<1>5. ASSUME NEW r \in Request, Save(r) PROVE SavedFirst'
  BY <1>5 DEF Save, Respond, SavedFirst, Begun, TypeOK, UnderWay, Fresh, None
<1>6. ASSUME NEW r \in Request, Add(r) PROVE SavedFirst'
  BY <1>6 DEF Add, Respond, SavedFirst, Begun, TypeOK, UnderWay
<1>7. ASSUME NEW r \in Request, RequestFails(r) PROVE SavedFirst'
  <2>1. CASE request[r] \in {"find", "save"}
    BY <1>7, <2>1 DEF RequestFails, Respond, SavedFirst, Begun, TypeOK, UnderWay
  <2>2. CASE request[r] = "add"
    BY <1>7, <2>2 DEF RequestFails, AfterFailedAdd, Respond, SavedFirst, Begun, TypeOK, UnderWay
  <2> QED
    BY <1>7, <2>1, <2>2 DEF RequestFails
<1>8. ASSUME NEW q \in Queue, Deliver(q) \/ Process(q) PROVE SavedFirst'
  <2>1. UNCHANGED request
    BY <1>8 DEF Deliver, Process, Lookup, MarkProcessing, Call, Store, Persist, HandOver,
       Await, Check, Complete, Return
  <2> QED
    BY <1>1, <1>8, <2>1, WorkIsBegun
<1>9. ASSUME NEW q \in Stage, Stall(q) \/ Throw(q) \/ Crash(q) PROVE SavedFirst'
  <2>1. UNCHANGED request
    BY <1>9 DEF Stall, Throw, Crash
  <2> QED
    BY <1>1, <1>9, <2>1, WorkIsBegun
<1>10. ASSUME NEW add \in adding, Land(add) PROVE SavedFirst'
  <2>1. UNCHANGED request
    BY <1>10 DEF Land
  <2> QED
    BY <1>1, <2>1, WorkIsBegun
<1>11. ASSUME NEW q \in Stage, NEW n \in Failure, OnFailed(q, n) \/ OnFailedFails(q, n)
       PROVE  SavedFirst'
  <2>1. UNCHANGED request
    BY <1>11 DEF OnFailed, OnFailedFails
  <2> QED
    BY <1>1, <1>11, <2>1, WorkIsBegun
<1> QED
  BY <1>2, <1>3, <1>4, <1>5, <1>6, <1>7, <1>8, <1>9, <1>10, <1>11, NextCases DEF Submit

(* A worker that writes the document before its hand-over has found no       *)
(* result in the cache.                                                      *)
LEMMA PreparingStep ==
  ASSUME TypeOK, WorksOnActive, [Next]_vars, NEW q \in Stage, pc'[q] \in Preparing
  PROVE  pc[q] \in Preparing \/ (pc[q] = "lookup" /\ cache[q] = NoResult)
<1> USE StageInQueue DEF Preparing, Goto, TypeOK
<1>1. CASE UNCHANGED pc
  BY <1>1
<1>2. ASSUME NEW r \in Request, Post(r) \/ Submit(r) \/ RequestFails(r) PROVE UNCHANGED pc
  BY <1>2 DEF Post, Submit, Find, Save, Add, RequestFails
<1>3. ASSUME NEW p \in Queue, Deliver(p) PROVE pc[q] \in Preparing
  BY <1>3, FirstStepType DEF Deliver
<1>4. ASSUME NEW p \in Queue, Process(p)
      PROVE  pc[q] \in Preparing \/ (pc[q] = "lookup" /\ cache[q] = NoResult)
  <2>1. CASE p # q
    <3>1. \E next : Goto(p, next)
      BY <1>4 DEF Process, Lookup, MarkProcessing, Call, Store, Persist, HandOver, Await,
         Check, Complete, Return, Leave
    <3> QED
      BY <2>1, <3>1
  <2>2. CASE p = q
    BY <1>4, <2>2 DEF Process, Lookup, OnHit, MarkProcessing, Call, Store, Persist, Then,
       HandOver, Await, Check, Complete, Return, Leave, StageStep
  <2> QED
    BY <2>1, <2>2
<1>5. ASSUME NEW p \in Stage, Stall(p) \/ Throw(p) \/ Crash(p) PROVE pc[q] \in Preparing
  BY <1>5 DEF Stall, Throw, Crash, BreakOff, Leave
<1>6. ASSUME NEW add \in adding, Land(add) PROVE UNCHANGED pc
  BY <1>6 DEF Land
<1>7. ASSUME NEW p \in Stage, NEW n \in Failure, OnFailed(p, n) \/ OnFailedFails(p, n)
      PROVE  UNCHANGED pc
  BY <1>7 DEF OnFailed, OnFailedFails
<1>8. CASE UNCHANGED vars
  BY <1>8 DEF vars
<1> QED
  BY <1>1, <1>2, <1>3, <1>4, <1>5, <1>6, <1>7, <1>8, NextCases

LEMMA WritesFirstNext ==
  ASSUME TypeOK, WorksOnActive, ResultsInvariant, WritesFirst, [Next]_vars
  PROVE  WritesFirst'
<1> USE StageInQueue
<1> SUFFICES ASSUME NEW q \in Stage, NEW next \in Queue, next \in Successors(q)
             PROVE  /\ job'[next] # "absent" \/ Sent(next)' => job'[q] # "absent"
                    /\ pc'[q] \in Preparing => job'[next] = "absent" /\ ~Sent(next)'
  BY DEF WritesFirst
<1>1. next # "transcription"
  BY DEF Successors, Insight
<1>2. ASSUME NEW p \in Stage, next \in Successors(p) PROVE p = q
  BY <1>2, SuccessorsType
<1>3. /\ job'[next] # "absent" => job[next] # "absent" \/ Sent(next)
      /\ Sent(next)' => Sent(next) \/ pc[q] = "handOver"
  BY <1>1, <1>2, JobsArise
<1>4. ASSUME job'[next] # "absent" \/ Sent(next)' PROVE job'[q] # "absent"
  <2>1. job[q] # "absent"
    BY <1>3, <1>4 DEF WritesFirst, WorksOnActive
  <2> QED
    BY <2>1, JobsStay
<1>5. ASSUME pc'[q] \in Preparing PROVE job'[next] = "absent" /\ ~Sent(next)'
  <2>1. CASE pc[q] \in Preparing
    <3>1. job[next] = "absent" /\ ~Sent(next) /\ pc[q] # "handOver"
      BY <2>1 DEF WritesFirst, Preparing
    <3> QED
      BY <1>3, <3>1
  <2>2. CASE pc[q] = "lookup" /\ cache[q] = NoResult
    <3>1. q \in Before(next)
      BY SuccessorsType
    <3>2. job[next] = "absent"
      BY <2>2, <3>1 DEF ResultsInvariant, Equips
    <3>3. ~Sent(next)
      BY <2>2, <3>1 DEF ResultsInvariant, Equips, Sent
    <3> QED
      BY <1>3, <2>2, <3>2, <3>3
  <2> QED
    BY <1>5, <2>1, <2>2, PreparingStep
<1> QED
  BY <1>4, <1>5

LEMMA WritesDocumentsNext ==
  ASSUME TypeOK, WorksOnActive, SavedFirst, WritesDocuments, [Next]_vars
  PROVE  WritesDocuments'
<1> USE StageInQueue
<1> DEFINE Copies ==
      \A q \in Queue : pc'[q] \in Writing => copy'[q].status # None
    Handlers ==
      \A q \in Stage, n \in Failure : handler'[q][n] \in Handling =>
        /\ job'[q] # "absent"
        /\ handler'[q][n] = "writing" => handlerCopy'[q][n].status = "FAILED"
<1>1. \A q \in Queue : pc[q] \in Writing => copy[q].status # None
  BY DEF WritesDocuments, Writing
<1>2. \A q \in Stage, n \in Failure : handler[q][n] \in Handling =>
        /\ job[q] # "absent"
        /\ handler[q][n] = "writing" => handlerCopy[q][n].status = "FAILED"
  BY DEF WritesDocuments
<1>3. ASSUME NEW p \in Queue,
             \A q \in Queue : q # p => pc'[q] = pc[q] /\ copy'[q] = copy[q],
             pc'[p] \notin Writing \/ copy'[p].status # None
      PROVE  Copies
  BY <1>1, <1>3
<1>4. UNCHANGED <<pc, copy>> => Copies
  BY <1>1
<1>5. UNCHANGED <<handler, handlerCopy>> => Handlers
  BY <1>2, JobsStay
<1>6. ASSUME NEW q \in Stage, job[q] # "absent", EmitFailed(q) PROVE Handlers
  <2>1. \A p \in Stage, n \in Failure :
          \/ handler'[p][n] = handler[p][n]
          \/ p = q /\ handler'[p][n] = "pending"
    BY <1>6 DEF EmitFailed, TypeOK
  <2>2. UNCHANGED handlerCopy
    BY <1>6 DEF EmitFailed
  <2>3. \A p \in Stage : job[p] # "absent" => job'[p] # "absent"
    BY JobsStay
  <2> QED
    BY <1>2, <1>6, <2>1, <2>2, <2>3
<1>7. ASSUME NEW q \in Queue, Process(q) PROVE Copies /\ Handlers
  <2>1. UNCHANGED <<handler, handlerCopy>>
    BY <1>7 DEF Process, Lookup, MarkProcessing, Call, Store, Persist, HandOver, Await,
       Check, Complete, Return, handlers
  <2>2. Begun /\ meeting \in Document
    BY <1>7, WorkIsBegun DEF TypeOK
  <2>3. /\ SetStatus(meeting, "PROCESSING").status # None
        /\ SetCompleted(meeting, FALSE).status # None
        /\ \A st \in Stage, n \in Version : AddPipelineResult(meeting, st, n).status # None
    BY <2>2 DEF SetStatus, SetCompleted, AddPipelineResult, Document, Begun, None
  <2> USE DEF TypeOK, Goto, Writing
  <2>4. CASE MarkProcessing(q)
    <3>1. pc'[q] \notin Writing \/ copy'[q].status # None
      BY <2>3, <2>4 DEF MarkProcessing, ReadAndChange
    <3> QED
      BY <1>3, <1>5, <2>1, <2>4, <3>1 DEF MarkProcessing, ReadAndChange, WriteBack
  <2>5. CASE Persist(q)
    <3>1. pc'[q] \notin Writing \/ copy'[q].status # None
      BY <2>2, <2>3, <2>5 DEF Persist, ReadAndChange, Begun, Then, Version
    <3> QED
      BY <1>3, <1>5, <2>1, <2>5, <3>1 DEF Persist, ReadAndChange, WriteBack
  <2>6. CASE Complete(q)
    <3>1. pc'[q] \notin Writing \/ copy'[q].status # None
      BY <2>3, <2>6 DEF Complete, ReadAndChange
    <3> QED
      BY <1>3, <1>5, <2>1, <2>6, <3>1 DEF Complete, ReadAndChange, WriteBack
  <2>7. CASE Lookup(q) \/ Call(q) \/ Store(q) \/ HandOver(q) \/ Await(q) \/ Check(q)
    BY <1>3, <1>5, <2>1, <2>7 DEF Lookup, OnHit, Call, Store, HandOver, Await, Check, Then, locals
  <2>8. CASE Return(q)
    BY <1>3, <1>5, <2>1, <2>8 DEF Return, Leave
  <2> QED
    BY <1>7, <2>4, <2>5, <2>6, <2>7, <2>8 DEF Process
<1>8. ASSUME NEW q \in Queue, Deliver(q) PROVE Copies /\ Handlers
  <2>1. UNCHANGED <<copy, handler, handlerCopy>>
    BY <1>8 DEF Deliver, locals, handlers
  <2>2. FirstStep(q) \notin Writing
    BY FirstStepType DEF Writing
  <2> QED
    BY <1>3, <1>5, <1>8, <2>1, <2>2 DEF Deliver, Goto, TypeOK
<1>9. ASSUME NEW q \in Stage, Throw(q) PROVE Copies /\ Handlers
  <2>1. job[q] # "absent" /\ EmitFailed(q)
    BY <1>9 DEF Throw, WorksOnActive
  <2>2. Copies
    BY <1>3, <1>9 DEF Throw, BreakOff, Leave, Goto, TypeOK, Writing
  <2> QED
    BY <1>6, <2>1, <2>2
<1>10. ASSUME NEW q \in Stage, Crash(q) PROVE Copies /\ Handlers
  <2>1. Copies
    BY <1>3, <1>10 DEF Crash, BreakOff, Leave, Goto, TypeOK, Writing
  <2>2. \A p \in Stage, n \in Failure : handler'[p][n] \in Handling =>
          handler'[p][n] = handler[p][n] /\ handlerCopy'[p][n] = handlerCopy[p][n]
    BY <1>10 DEF Crash, Handling, TypeOK
  <2>3. UNCHANGED job
    BY <1>10 DEF Crash, queue
  <2> QED
    BY <1>2, <2>1, <2>2, <2>3
<1>11. ASSUME NEW q \in Stage, Stall(q) PROVE Copies /\ Handlers
  <2>1. UNCHANGED <<handler, handlerCopy>> \/ EmitFailed(q)
    BY <1>11 DEF Stall
  <2>2. job[q] # "absent" /\ UNCHANGED <<pc, copy>>
    BY <1>11 DEF Stall, locals
  <2> QED
    BY <1>4, <1>5, <1>6, <2>1, <2>2
<1>12. ASSUME NEW q \in Stage, NEW n \in Failure, OnFailed(q, n) \/ OnFailedFails(q, n)
       PROVE  Copies /\ Handlers
  <2>1. UNCHANGED <<pc, copy, job>> /\ handler[q][n] \in Handling
    BY <1>12 DEF OnFailed, OnFailedFails, locals, queue, Handling
  <2>2. \E h, doc : /\ handler' = [handler EXCEPT ![q][n] = h]
                    /\ handlerCopy' = [handlerCopy EXCEPT ![q][n] = doc]
                    /\ h \in Handling => doc.status = "FAILED"
    <3>1. SetFailed(meeting).status = "FAILED"
      BY DEF SetFailed, SetStatus, TypeOK, Document
    <3> QED
      BY <1>12, <3>1 DEF OnFailed, OnFailedFails, Handling
  <2>3. \A p \in Stage, m \in Failure :
          \/ handler'[p][m] = handler[p][m] /\ handlerCopy'[p][m] = handlerCopy[p][m]
          \/ p = q /\ (handler'[p][m] \in Handling => handlerCopy'[p][m].status = "FAILED")
    BY <2>2 DEF TypeOK
  <2>4. job[q] # "absent"
    BY <1>2, <2>1
  <2> QED
    BY <1>2, <1>4, <2>1, <2>3, <2>4
<1>13. ASSUME NEW r \in Request, Post(r) \/ Submit(r) \/ RequestFails(r)
       PROVE  Copies /\ Handlers
  BY <1>4, <1>5, <1>13, RequestEffect
<1>14. ASSUME NEW add \in adding, Land(add) PROVE Copies /\ Handlers
  BY <1>4, <1>5, <1>14 DEF Land, locals, handlers
<1>15. ASSUME UNCHANGED vars PROVE Copies /\ Handlers
  BY <1>4, <1>5, <1>15 DEF vars, locals, handlers
<1> HIDE DEF Copies, Handlers
<1>16. Copies /\ Handlers
  BY <1>7, <1>8, <1>9, <1>10, <1>11, <1>12, <1>13, <1>14, <1>15, NextCases
<1> QED
  BY <1>16 DEF Copies, Handlers, WritesDocuments, Writing

(* For a dead stage no worker is left that would write.                      *)
LEMMA DeadIsNotRewritten ==
  ASSUME TypeOK, WorksOnActive, WritesFirst, NEW q \in Stage, Dead(q),
         NEW p \in Queue, pc[p] \in Writing
  PROVE  FALSE
<1> USE StageInQueue DEF Writing
<1>1. job[p] = "active"
  BY DEF WorksOnActive
<1>2. job[q] = "failed" /\ \A next \in Successors(q) : job[next] = "absent"
  BY DEF Dead
<1>3. "cleaning" \in Queue /\ "cleaning" \in Stage /\ "transcription" \in Stage
  BY DEF Queue, Stage
<1>4. /\ "cleaning" \in Successors("transcription")
      /\ \A next \in Insight : next \in Successors("cleaning")
  BY DEF Successors
<1>5. CASE p \in Stage
  <2>1. pc[p] \in Preparing
    BY <1>5 DEF TypeOK, StageStep, Preparing
  <2>2. \A next \in Queue : next \in Successors(p) => job[next] = "absent"
    BY <1>5, <2>1 DEF WritesFirst
  <2>3. p # q
    BY <1>1, <1>2
  <2> QED
    BY <1>1, <1>2, <1>3, <1>4, <1>5, <2>2, <2>3 DEF Stage
<1>6. CASE p \in Insight
  <2>1. job["cleaning"] # "absent"
    BY <1>1, <1>3, <1>4, <1>6 DEF WritesFirst
  <2> QED
    BY <1>1, <1>2, <1>4, <1>6, <2>1 DEF Stage
<1> QED
  BY <1>5, <1>6 DEF Queue

(* Every failure that gives a stage up starts a handler, and a handler that  *)
(* is not lost ends with FAILED in the document.                             *)
LEMMA HandlersNext ==
  ASSUME TypeOK, WorksOnActive, WritesDocuments, [Next]_vars, NEW q \in Stage, Dead(q)'
  PROVE  /\ Dead(q) \/ \E n \in Failure : handler'[q][n] \in Handling
         /\ (\E n \in Failure : handler[q][n] \in Handling) =>
              Failed' \/ \E n \in Failure : handler'[q][n] \in Handling
<1> DEFINE Handled == \E n \in Failure : handler'[q][n] \in Handling
<1> USE StageInQueue
<1>1. /\ job'[q] = "failed"
      /\ \A next \in Successors(q) : job[next] = "absent"
      /\ \A n \in Failure : handler'[q][n] # "lost"
  BY JobsStay, SuccessorsType DEF Dead
<1>2. ASSUME UNCHANGED handler, job'[q] = job[q]
      PROVE  Dead(q) /\ ((\E n \in Failure : handler[q][n] \in Handling) => Handled)
  BY <1>1, <1>2 DEF Dead
<1>3. ASSUME NEW p \in Stage, failures[p] + 1 \in Failure, EmitFailed(p),
             \A other \in Stage : other # p => job'[other] = job[other]
      PROVE  Handled \/ (job'[q] = job[q] /\ \A n \in Failure : handler'[q][n] = handler[q][n])
  <2>2. CASE p = q
    <3>1. handler'[q][failures[q] + 1] = "pending"
      BY <1>3, <2>2 DEF EmitFailed, TypeOK
    <3> QED
      BY <1>3, <2>2, <3>1 DEF Handling
  <2>3. CASE p # q
    BY <1>3, <2>3 DEF EmitFailed, TypeOK
  <2> QED
    BY <2>2, <2>3
<1> DEFINE Goal == /\ Dead(q) \/ Handled
                   /\ (\E n \in Failure : handler[q][n] \in Handling) => Failed' \/ Handled
<1>4. ASSUME NEW p \in Stage, Stall(p) \/ Throw(p) PROVE Goal
  <2>1. job[p] = "active" /\ failures[p] + 1 \in Failure
    <3>1. job[p] = "active" /\ (faults < MaxFaults \/ Orphaned(p))
      BY <1>4 DEF Stall, Throw, Fault, Orphaned, WorksOnActive
    <3> QED
      BY <3>1, SlotLeft
  <2>2. /\ EmitFailed(p) \/ (UNCHANGED handler /\ job'[p] = "waiting")
        /\ \A other \in Stage : other # p => job'[other] = job[other]
    BY <1>4 DEF Stall, Throw, handlers, TypeOK
  <2>3. CASE EmitFailed(p)
    BY <1>1, <1>3, <2>1, <2>2, <2>3 DEF Dead
  <2>4. CASE UNCHANGED handler /\ job'[p] = "waiting"
    BY <1>1, <1>2, <2>2, <2>4
  <2> QED
    BY <2>2, <2>3, <2>4
<1>5. ASSUME NEW p \in Stage, Crash(p) PROVE Goal
  <2>1. UNCHANGED job /\ pc[p] # "idle"
    BY <1>5 DEF Crash, queue
  <2>2. p # q
    BY <1>1, <2>1 DEF WorksOnActive
  <2>3. \A n \in Failure : handler'[q][n] = handler[q][n]
    BY <1>5, <2>2 DEF Crash, TypeOK
  <2> QED
    BY <1>1, <2>1, <2>3 DEF Dead
<1>6. ASSUME NEW p \in Stage, NEW m \in Failure, OnFailed(p, m) PROVE Goal
  <2>1. UNCHANGED job
    BY <1>6 DEF OnFailed, queue
  <2>2. \A n \in Failure : handler'[q][n] = handler[q][n] \/ handler[q][n] \in Handling
    <3>1. handler[p][m] \in Handling /\ \E h : handler' = [handler EXCEPT ![p][m] = h]
      BY <1>6 DEF OnFailed, Handling
    <3> QED
      BY <3>1 DEF TypeOK
  <2>3. Dead(q)
    BY <1>1, <2>1, <2>2 DEF Dead, Handling
  <2>4. CASE handler[p][m] = "pending"
    <3>1. handler' = [handler EXCEPT ![p][m] = "writing"]
      BY <1>6, <2>4 DEF OnFailed
    <3>2. \A n \in Failure : handler[q][n] \in Handling => handler'[q][n] \in Handling
      BY <3>1 DEF TypeOK, Handling
    <3> QED
      BY <2>3, <3>2
  <2>5. CASE handler[p][m] = "writing"
    <3>1. Failed'
      BY <1>6, <2>5 DEF OnFailed, WritesDocuments, Handling, Failed
    <3> QED
      BY <2>3, <3>1
  <2> QED
    BY <1>6, <2>4, <2>5 DEF OnFailed
<1>7. ASSUME NEW p \in Stage, NEW m \in Failure, OnFailedFails(p, m) PROVE Goal
  <2>1. UNCHANGED job /\ handler' = [handler EXCEPT ![p][m] = "lost"]
    BY <1>7 DEF OnFailedFails, queue
  <2>2. p # q
    BY <1>1, <2>1 DEF TypeOK
  <2>3. \A n \in Failure : handler'[q][n] = handler[q][n]
    BY <2>1, <2>2 DEF TypeOK
  <2> QED
    BY <1>1, <2>1, <2>3 DEF Dead
<1>8. ASSUME NEW r \in Request, Post(r) \/ Submit(r) \/ RequestFails(r) PROVE Goal
  <2>1. UNCHANGED handler /\ (UNCHANGED job \/ AddJob("transcription", NoResults))
    BY <1>8, RequestEffect
  <2>2. "transcription" \in Queue
    BY DEF Queue, Stage
  <2>3. job'[q] = job[q]
    BY <1>1, <2>1, <2>2, AddJobEffect DEF TypeOK
  <2> QED
    BY <1>2, <2>1, <2>3
<1>9. ASSUME NEW add \in adding, Land(add) PROVE Goal
  <2>1. job'[q] = job[q]
    BY <1>1, <1>9, AddJobEffect DEF Land, TypeOK
  <2> QED
    BY <1>2, <1>9, <2>1 DEF Land, handlers
<1>10. ASSUME NEW p \in Queue, Deliver(p) \/ Process(p) PROVE Goal
  <2>1. UNCHANGED handler
    BY <1>10 DEF Deliver, Process, Lookup, MarkProcessing, Call, Store, Persist, HandOver,
       Await, Check, Complete, Return, handlers
  <2>2. UNCHANGED job \/ Deliver(p) \/ Return(p)
    BY <1>10 DEF Process, Lookup, MarkProcessing, Call, Store, Persist, HandOver, Await,
       Check, Complete, queue
  <2>3. job'[q] = job[q]
    BY <1>1, <2>2 DEF Deliver, Return, TypeOK
  <2> QED
    BY <1>2, <2>1, <2>3
<1>11. CASE UNCHANGED vars
  BY <1>2, <1>11 DEF vars, handlers, queue
<1>12. Goal
  BY <1>4, <1>5, <1>6, <1>7, <1>8, <1>9, <1>10, <1>11, NextCases
<1> QED
  BY <1>12

LEMMA ReportInit == Init => ReportInvariant
<1> SUFFICES ASSUME Init PROVE ReportInvariant
  OBVIOUS
<1> USE StageInQueue DEF Init
<1>1. SavedFirst
  BY DEF SavedFirst, UnderWay, Begun, Blank
<1>2. WritesFirst
  BY DEF WritesFirst, Preparing, Sent
<1>3. WritesDocuments
  BY DEF WritesDocuments, Writing, Handling
<1>4. \A q \in Stage : ~Dead(q)
  BY DEF Dead
<1> QED
  BY <1>1, <1>2, <1>3, <1>4 DEF ReportInvariant

LEMMA ReportNext ==
  ASSUME ~Concurrent, TypeOK, WorksOnActive, ResultsInvariant, ReportInvariant, [Next]_vars
  PROVE  ReportInvariant'
<1> USE DEF ReportInvariant
<1>1. SavedFirst' /\ WritesFirst' /\ WritesDocuments'
  BY SavedFirstNext, WritesFirstNext, WritesDocumentsNext
<1>2. ASSUME NEW q \in Stage, Dead(q)'
      PROVE  (Failed \/ \E n \in Failure : handler[q][n] \in Handling)'
  <2>1. CASE ~Dead(q) \/ \E n \in Failure : handler[q][n] \in Handling
    BY <1>2, <2>1, HandlersNext
  <2>2. CASE Dead(q) /\ Failed
    <3>1. \A r \in Request : ~Save(r)
      BY <2>2, StageInQueue DEF Save, SavedFirst, Dead
    <3>2. \A p \in Queue : pc[p] \notin Writing
      BY <2>2, DeadIsNotRewritten
    <3>3. UNCHANGED meeting \/ Failed'
      BY <3>1, <3>2, MeetingWrites
    <3> QED
      BY <2>2, <3>3 DEF Failed
  <2> QED
    BY <2>1, <2>2
<1> QED
  BY <1>1, <1>2

LEMMA ReportAlways == ASSUME ~Concurrent PROVE Spec => []ReportInvariant
<1>1. TypeOK /\ WorksOnActive /\ ResultsInvariant /\ ReportInvariant /\ [Next]_vars
        => ReportInvariant'
  BY ReportNext
<1> QED
  BY TypeCorrect, ResultsAlways, ReportInit, <1>1, PTL DEF Spec

(* While requests do not overlap, a stage that is given up before its        *)
(* successors exist leaves a FAILED document: nobody's late write hides it.  *)
THEOREM DeadStageReportedHolds == ASSUME ~Concurrent PROVE Spec => []DeadStageReported
<1>1. ReportInvariant => DeadStageReported
  BY DEF ReportInvariant, DeadStageReported, Quiet
<1> QED
  BY ReportAlways, <1>1, PTL

-----------------------------------------------------------------------------
(* A result is lost to a failure only, as long as requests do not overlap.   *)

(* What makes LostResultHasFailure inductive while requests do not         *)
(* overlap: a stage that nothing has harmed has persisted its result when  *)
(* it goes on, and whoever reads the document later reads and writes back  *)
(* the result.                                                             *)
PastPersist(q) ==
  \/ pc[q] \in {"handOver", "await", "return"}
  \/ job[q] = "completed"
  \/ \E next \in Successors(q) : job[next] # "absent" \/ Sent(next)

Unbegun(q) == job[q] \in {"absent", "waiting"} \/ pc[q] = "lookup"

(* A job that runs again has handed over before.                           *)
Overtaken(q) == \E next \in Successors(q) : job[next] # "absent"

PersistedInvariant ==
  /\ \A q \in Stage, n \in Failure : handler[q][n] \in Handling => Failing(q)
  /\ \A q \in Stage : ~Failing(q) =>
       (Unbegun(q) => cache[q] = NoResult \/ Overtaken(q))
  /\ \A q \in Stage : ~Harmed(q) =>
       /\ PastPersist(q) => meeting.pipeline[q] # NoResult
       /\ pc[q] = "persistSet" => copy[q].pipeline[q] # NoResult
       /\ \A p \in Queue : q \in Before(p) /\ pc[p] \in Writing =>
            copy[p].pipeline[q] # NoResult
       /\ \A p \in Stage, n \in Failure : q \in Before(p) /\ handler[p][n] = "writing" =>
            handlerCopy[p][n].pipeline[q] # NoResult

LEMMA FailingStays ==
  ASSUME TypeOK, WorksOnActive, [Next]_vars, NEW q \in Stage, Failing(q)
  PROVE  Failing(q)'
<1>1. ASSUME NEW p \in Stage, CountFailure(p) PROVE Failing(q)'
  BY <1>1, PipelineAssumption DEF CountFailure, Failing, TypeOK
<1>2. ASSUME UNCHANGED failures PROVE Failing(q)'
  BY <1>2 DEF Failing
<1>3. UNCHANGED failures \/ \E p \in Stage : CountFailure(p)
  <2>1. ASSUME NEW r \in Request, Post(r) \/ Submit(r) \/ RequestFails(r) PROVE UNCHANGED failures
    BY <2>1, RequestEffect
  <2>2. ASSUME NEW p \in Queue, Deliver(p) \/ Process(p) PROVE UNCHANGED failures
    BY <2>2 DEF Deliver, Process, Lookup, MarkProcessing, Call, Store, Persist, HandOver,
       Await, Check, Complete, Return, handlers
  <2>3. ASSUME NEW p \in Stage, Stall(p) \/ Throw(p) PROVE CountFailure(p)
    BY <2>3 DEF Stall, Throw
  <2>4. ASSUME NEW p \in Stage, Crash(p) PROVE UNCHANGED failures
    BY <2>4 DEF Crash
  <2>5. ASSUME NEW add \in adding, Land(add) PROVE UNCHANGED failures
    BY <2>5 DEF Land, handlers
  <2>6. ASSUME NEW p \in Stage, NEW n \in Failure, OnFailed(p, n) \/ OnFailedFails(p, n)
        PROVE  UNCHANGED failures
    BY <2>6 DEF OnFailed, OnFailedFails
  <2>7. CASE UNCHANGED vars
    BY <2>7 DEF vars, handlers
  <2> QED
    BY <2>1, <2>2, <2>3, <2>4, <2>5, <2>6, <2>7, NextCases
<1> QED
  BY <1>1, <1>2, <1>3

(* Who counts a failure has failed.                                          *)
LEMMA CountedFails ==
  ASSUME TypeOK, NEW q \in Stage, CountFailure(q)
  PROVE  Failing(q)'
BY PipelineAssumption DEF CountFailure, Failing, TypeOK

(* Where a copy that is about to be written back comes from.                 *)
LEMMA CopyReads ==
  ASSUME TypeOK, [Next]_vars, NEW p \in Queue, pc'[p] \in Writing
  PROVE  \/ pc'[p] = pc[p] /\ copy'[p] = copy[p]
         \/ /\ pc[p] # "idle"
            /\ \A st \in Stage : st # p => copy'[p].pipeline[st] = meeting.pipeline[st]
            /\ p \in Stage /\ pc'[p] = "persistSet" =>
                 pc[p] = "persistGet" /\ copy'[p].pipeline[p] = result[p]
<1> USE StageInQueue DEF Writing, Goto, TypeOK
<1> DEFINE Kept == pc'[p] = pc[p] /\ copy'[p] = copy[p]
           Read == /\ pc[p] # "idle"
                   /\ \A st \in Stage : st # p => copy'[p].pipeline[st] = meeting.pipeline[st]
                   /\ p \in Stage /\ pc'[p] = "persistSet" =>
                        pc[p] = "persistGet" /\ copy'[p].pipeline[p] = result[p]
<1>1. /\ SetStatus(meeting, "PROCESSING").pipeline = meeting.pipeline
      /\ SetCompleted(meeting, FALSE).pipeline = meeting.pipeline
      /\ \A st \in Stage : AddPipelineResult(meeting, st, result[st]).pipeline =
                             [meeting.pipeline EXCEPT ![st] = result[st]]
  BY DEF SetStatus, SetCompleted, AddPipelineResult, Document
<1>2. ASSUME NEW q \in Queue, Process(q) PROVE Kept \/ Read
  <2>1. CASE q # p
    <3>1. /\ \E next : Goto(q, next)
          /\ UNCHANGED copy \/ \E doc : copy' = [copy EXCEPT ![q] = doc]
      BY <1>2 DEF Process, Lookup, MarkProcessing, Call, Store, Persist, HandOver, Await,
         Check, Complete, Return, Leave, ReadAndChange, WriteBack, locals
    <3> QED
      BY <2>1, <3>1
  <2>2. CASE q = p /\ MarkProcessing(q)
    BY <1>1, <2>2 DEF MarkProcessing, ReadAndChange
  <2>3. CASE q = p /\ Persist(q)
    <3>1. meeting.pipeline \in Results
      BY DEF Document
    <3>2. pc[p] = "persistGet"
      BY <2>3 DEF Persist, Then
    <3>3. CASE p \in Stage
      <4>1. copy'[p].pipeline = [meeting.pipeline EXCEPT ![p] = result[p]]
        BY <1>1, <2>3, <3>2, <3>3 DEF Persist, ReadAndChange
      <4> QED
        BY <3>1, <3>2, <3>3, <4>1 DEF Results
    <3>4. CASE p \notin Stage
      BY <2>3, <3>2, <3>4 DEF Persist, ReadAndChange
    <3> QED
      BY <3>3, <3>4
  <2>4. CASE q = p /\ Complete(q)
    BY <1>1, <2>4 DEF Complete, ReadAndChange
  <2>5. CASE q = p /\ ~MarkProcessing(q) /\ ~Persist(q) /\ ~Complete(q)
    BY <1>2, <2>5 DEF Process, Lookup, OnHit, Call, Store, Then, HandOver, Await, Check,
       Return, Leave
  <2> QED
    BY <2>1, <2>2, <2>3, <2>4, <2>5
<1>3. ASSUME NEW q \in Queue, Deliver(q) PROVE Kept
  BY <1>3, FirstStepType DEF Deliver, locals
<1>4. ASSUME NEW q \in Stage, Stall(q) \/ Throw(q) \/ Crash(q) PROVE Kept
  BY <1>4 DEF Stall, Throw, Crash, BreakOff, Leave, locals
<1>5. ASSUME NEW r \in Request, Post(r) \/ Submit(r) \/ RequestFails(r) PROVE Kept
  BY <1>5 DEF Post, Submit, Find, Save, Add, RequestFails, locals
<1>6. ASSUME NEW add \in adding, Land(add) PROVE Kept
  BY <1>6 DEF Land, locals
<1>7. ASSUME NEW q \in Stage, NEW n \in Failure, OnFailed(q, n) \/ OnFailedFails(q, n)
      PROVE  Kept
  BY <1>7 DEF OnFailed, OnFailedFails, locals
<1>8. UNCHANGED vars => Kept
  BY DEF vars, locals
<1> HIDE DEF Kept, Read
<1>9. Kept \/ Read
  BY <1>2, <1>3, <1>4, <1>5, <1>6, <1>7, <1>8, NextCases
<1> QED
  BY <1>9 DEF Kept, Read

(* Where a handler, and the copy it is about to write back, come from.       *)
LEMMA HandlerReads ==
  ASSUME TypeOK, WorksOnActive, [Next]_vars,
         NEW q \in Stage, NEW n \in Failure, handler'[q][n] \in Handling
  PROVE  /\ handler[q][n] \in Handling \/ Failing(q)'
         /\ handler'[q][n] = "writing" =>
              \/ handler[q][n] = "writing" /\ handlerCopy'[q][n] = handlerCopy[q][n]
              \/ handler[q][n] = "pending" /\ handlerCopy'[q][n].pipeline = meeting.pipeline
<1> USE StageInQueue DEF Handling, TypeOK
<1> DEFINE Kept == /\ handler'[q][n] = handler[q][n]
                   /\ handlerCopy'[q][n] = handlerCopy[q][n]
           Emitted == handler'[q][n] = "pending" /\ Failing(q)'
           Read == /\ handler[q][n] = "pending"
                   /\ handlerCopy'[q][n].pipeline = meeting.pipeline
<1>1. UNCHANGED <<handler, handlerCopy>> => Kept
  OBVIOUS
<1>2. ASSUME NEW p \in Stage, Throw(p) PROVE Kept \/ Emitted
  <2>1. Failing(p)'
    BY <1>2, CountedFails DEF Throw
  <2> QED
    BY <1>2, <2>1 DEF Throw, EmitFailed
<1>3. ASSUME NEW p \in Stage, Stall(p) PROVE Kept \/ Emitted
  <2>1. CASE UNCHANGED <<handler, handlerCopy>>
    BY <1>1, <2>1
  <2>2. CASE EmitFailed(p)
    <3>1. Failing(p)'
      BY <1>3, CountedFails DEF Stall
    <3> QED
      BY <2>2, <3>1 DEF EmitFailed
  <2> QED
    BY <1>3, <2>1, <2>2 DEF Stall
<1>4. ASSUME NEW p \in Stage, Crash(p) PROVE Kept
  BY <1>4 DEF Crash
<1>5. ASSUME NEW p \in Stage, NEW m \in Failure, OnFailed(p, m) PROVE Kept \/ Read
  <2>1. SetFailed(meeting).pipeline = meeting.pipeline
    BY DEF SetFailed, SetStatus, Document
  <2>2. CASE p = q /\ m = n
    BY <1>5, <2>1, <2>2 DEF OnFailed
  <2>3. CASE p # q \/ m # n
    <3>1. \E h, doc : /\ handler' = [handler EXCEPT ![p][m] = h]
                      /\ handlerCopy' = [handlerCopy EXCEPT ![p][m] = doc]
      BY <1>5 DEF OnFailed
    <3> QED
      BY <2>3, <3>1
  <2> QED
    BY <2>2, <2>3
<1>6. ASSUME NEW p \in Stage, NEW m \in Failure, OnFailedFails(p, m) PROVE Kept
  <2>1. p # q \/ m # n
    BY <1>6 DEF OnFailedFails
  <2> QED
    BY <1>6, <2>1 DEF OnFailedFails
<1>7. ASSUME NEW r \in Request, Post(r) \/ Submit(r) \/ RequestFails(r) PROVE Kept
  BY <1>1, <1>7, RequestEffect
<1>8. ASSUME NEW p \in Queue, Deliver(p) \/ Process(p) PROVE Kept
  BY <1>1, <1>8 DEF Deliver, Process, Lookup, MarkProcessing, Call, Store, Persist, HandOver,
     Await, Check, Complete, Return, handlers
<1>9. ASSUME NEW add \in adding, Land(add) PROVE Kept
  BY <1>1, <1>9 DEF Land, handlers
<1>10. UNCHANGED vars => Kept
  BY <1>1 DEF vars, handlers
<1> HIDE DEF Kept, Emitted, Read
<1>11. Kept \/ Emitted \/ Read
  BY <1>2, <1>3, <1>4, <1>5, <1>6, <1>7, <1>8, <1>9, <1>10, NextCases
<1> QED
  BY <1>11 DEF Kept, Emitted, Read

(* Who passes its persist has persisted, or has found its result cached.     *)
LEMMA PastPersistArises ==
  ASSUME TypeOK, WorksOnActive, [Next]_vars, NEW q \in Stage, PastPersist(q)'
  PROVE  \/ PastPersist(q)
         \/ pc[q] = "lookup" /\ cache[q] # NoResult
         \/ pc[q] = "persistSet" /\ meeting' = copy[q]
<1> USE StageInQueue
<1> DEFINE Past == {"handOver", "await", "return"}
           Goal == \/ PastPersist(q)
                   \/ pc[q] = "lookup" /\ cache[q] # NoResult
                   \/ pc[q] = "persistSet" /\ meeting' = copy[q]
<1>1. ASSUME NEW next \in Successors(q), job'[next] # "absent" \/ Sent(next)' PROVE PastPersist(q)
  <2>1. next \in Queue /\ next # "transcription"
    BY SuccessorsType DEF Successors, Insight, Queue, Stage
  <2>2. ASSUME NEW p \in Stage, next \in Successors(p) PROVE p = q
    BY <2>2, SuccessorsType
  <2>3. job[next] # "absent" \/ Sent(next) \/ pc[q] = "handOver"
    BY <1>1, <2>1, <2>2, JobsArise
  <2> QED
    BY <2>3 DEF PastPersist
<1>2. ASSUME UNCHANGED pc, job'[q] # "completed" \/ job[q] = "completed" PROVE Goal
  BY <1>1, <1>2 DEF PastPersist
<1>3. ASSUME NEW p \in Queue, Process(p) PROVE Goal
  <2> USE DEF Goto, TypeOK
  <2>1. CASE p # q
    <3>1. \E next : Goto(p, next)
      BY <1>3 DEF Process, Lookup, MarkProcessing, Call, Store, Persist, HandOver, Await,
         Check, Complete, Return, Leave
    <3>2. UNCHANGED job \/ job' = [job EXCEPT ![p] = "completed"]
      BY <1>3 DEF Process, Lookup, MarkProcessing, Call, Store, Persist, HandOver, Await,
         Check, Complete, Return, queue
    <3>3. pc'[q] = pc[q] /\ job'[q] = job[q]
      BY <2>1, <3>1, <3>2
    <3> QED
      BY <1>1, <3>3 DEF PastPersist
  <2>2. CASE p = q
    <3>1. CASE Return(q)
      BY <3>1 DEF Return, PastPersist
    <3>2. CASE ~Return(q)
      <4>1. UNCHANGED job
        BY <1>3, <2>2, <3>2 DEF Process, Lookup, MarkProcessing, Call, Store, Persist,
           HandOver, Await, Check, Complete, queue
      <4>2. pc'[q] \in Past =>
              \/ pc[q] \in Past
              \/ pc[q] = "lookup" /\ cache[q] # NoResult
              \/ pc[q] = "persistSet" /\ meeting' = copy[q]
        BY <1>3, <2>2, <3>2 DEF Process, Lookup, OnHit, MarkProcessing, Call, Store, Persist,
           Then, HandOver, Await, Check, Complete, WriteBack, StageStep
      <4> QED
        BY <1>1, <4>1, <4>2 DEF PastPersist
    <3> QED
      BY <3>1, <3>2
  <2> QED
    BY <2>1, <2>2
<1>4. ASSUME NEW p \in Queue, Deliver(p) PROVE Goal
  <2>1. /\ pc'[q] \in Past => pc[q] \in Past
        /\ job'[q] # "completed" \/ job[q] = "completed"
    BY <1>4, FirstStepType DEF Deliver, Goto, TypeOK
  <2> QED
    BY <1>1, <2>1 DEF PastPersist
<1>5. ASSUME NEW p \in Stage, Throw(p) \/ Crash(p) PROVE Goal
  <2>1. /\ pc'[q] \in Past => pc[q] \in Past
        /\ job'[q] # "completed" \/ job[q] = "completed"
    BY <1>5 DEF Throw, Crash, BreakOff, Leave, Goto, TypeOK, queue
  <2> QED
    BY <1>1, <2>1 DEF PastPersist
<1>6. ASSUME NEW p \in Stage, Stall(p) PROVE Goal
  BY <1>2, <1>6 DEF Stall, TypeOK
<1>7. ASSUME NEW r \in Request, Post(r) \/ Submit(r) \/ RequestFails(r) PROVE Goal
  <2>1. UNCHANGED pc /\ (UNCHANGED job \/ AddJob("transcription", NoResults))
    BY <1>7, RequestEffect
  <2>2. "transcription" \in Queue
    BY DEF Queue, Stage
  <2> QED
    BY <1>2, <2>1, <2>2, AddJobEffect DEF TypeOK
<1>8. ASSUME NEW add \in adding, Land(add) PROVE Goal
  BY <1>2, <1>8, AddJobEffect DEF Land, TypeOK
<1>9. ASSUME NEW p \in Stage, NEW n \in Failure, OnFailed(p, n) \/ OnFailedFails(p, n)
      PROVE  Goal
  BY <1>2, <1>9 DEF OnFailed, OnFailedFails, queue
<1>10. ASSUME UNCHANGED vars PROVE Goal
  BY <1>2, <1>10 DEF vars, queue
<1> HIDE DEF Goal
<1>11. Goal
  BY <1>3, <1>4, <1>5, <1>6, <1>7, <1>8, <1>9, <1>10, NextCases
<1> QED
  BY <1>11 DEF Goal

(* A stage finds its result cached only after a failure, or when it has      *)
(* handed over before.                                                       *)
LEMMA CacheFirst ==
  ASSUME TypeOK, WorksOnActive, HandedOver, [Next]_vars, NEW q \in Stage, ~Failing(q)',
         Unbegun(q) => cache[q] = NoResult \/ Overtaken(q),
         Unbegun(q)'
  PROVE  cache'[q] = NoResult \/ Overtaken(q)'
<1>a. Overtaken(q) => Overtaken(q)'
  BY JobsStay, StageInQueue, SuccessorsType DEF Overtaken
<1>b. job[q] = "completed" => Overtaken(q)
  BY DEF HandedOver, Overtaken, Successors, Stage, Insight
<1> USE StageInQueue DEF TypeOK, Goto, Unbegun
<1> DEFINE Goal == cache'[q] = NoResult \/ Overtaken(q)'
<1>1. ASSUME Unbegun(q) \/ job[q] = "completed", UNCHANGED cache PROVE Goal
  BY <1>a, <1>b, <1>1
<1>2. ASSUME NEW p \in Queue, Process(p) PROVE Goal
  <2>1. CASE p = q
    <3>1. job[q] = "active" /\ pc[q] # "idle"
      BY <1>2, <2>1 DEF Process, Lookup, MarkProcessing, Call, Store, Persist, HandOver, Await,
         Check, Complete, Return, WorksOnActive
    <3>2. job'[q] \notin {"absent", "waiting"} /\ pc'[q] # "lookup"
      BY <1>2, <2>1, <3>1 DEF Process, Lookup, OnHit, MarkProcessing, Call, Store, Persist,
         Then, HandOver, Await, Check, Complete, Return, Leave, queue
    <3> QED
      BY <3>2
  <2>2. CASE p # q
    <3>1. /\ \E next : Goto(p, next)
          /\ UNCHANGED cache \/ \E n : cache' = [cache EXCEPT ![p] = n]
          /\ UNCHANGED job \/ job' = [job EXCEPT ![p] = "completed"]
      BY <1>2 DEF Process, Lookup, MarkProcessing, Call, Store, Persist, HandOver, Await,
         Check, Complete, Return, Leave, queue
    <3>2. pc'[q] = pc[q] /\ job'[q] = job[q] /\ cache'[q] = cache[q]
      BY <2>2, <3>1 DEF Results
    <3> QED
      BY <1>a, <3>2
  <2> QED
    BY <2>1, <2>2
<1>3. ASSUME NEW p \in Queue, Deliver(p) PROVE Unbegun(q) /\ UNCHANGED cache
  BY <1>3 DEF Deliver
<1>4. ASSUME NEW p \in Stage, Throw(p) PROVE Unbegun(q) /\ UNCHANGED cache
  <2>3. p # q
    BY <1>4, CountedFails DEF Throw
  <2> QED
    BY <1>4, <2>3 DEF Throw, BreakOff, Leave
<1>5. ASSUME NEW p \in Stage, Stall(p) PROVE Unbegun(q) /\ UNCHANGED cache
  <2>3. p # q
    BY <1>5, CountedFails DEF Stall
  <2> QED
    BY <1>5, <2>3 DEF Stall
<1>6. ASSUME NEW p \in Stage, Crash(p) PROVE Unbegun(q) /\ UNCHANGED cache
  BY <1>6 DEF Crash, BreakOff, Leave, queue
<1>7. ASSUME NEW r \in Request, Post(r) \/ Submit(r) \/ RequestFails(r)
      PROVE  (Unbegun(q) \/ job[q] = "completed") /\ UNCHANGED cache
  <2>1. UNCHANGED <<pc, cache>> /\ (UNCHANGED job \/ AddJob("transcription", NoResults))
    BY <1>7, RequestEffect
  <2>2. "transcription" \in Queue
    BY DEF Queue, Stage
  <2> QED
    BY <2>1, <2>2, AddJobEffect
<1>8. ASSUME NEW add \in adding, Land(add)
      PROVE  (Unbegun(q) \/ job[q] = "completed") /\ UNCHANGED cache
  BY <1>8, AddJobEffect DEF Land
<1>9. ASSUME NEW p \in Stage, NEW n \in Failure, OnFailed(p, n) \/ OnFailedFails(p, n)
      PROVE  Unbegun(q) /\ UNCHANGED cache
  BY <1>9 DEF OnFailed, OnFailedFails, queue
<1>10. ASSUME UNCHANGED vars PROVE Unbegun(q) /\ UNCHANGED cache
  BY <1>10 DEF vars, queue
<1> HIDE DEF Goal, Unbegun
<1>11. Goal
  BY <1>1, <1>2, <1>3, <1>4, <1>5, <1>6, <1>7, <1>8, <1>9, <1>10, NextCases
<1> QED
  BY <1>11 DEF Goal

LEMMA PersistedInit == Init => PersistedInvariant
<1> SUFFICES ASSUME Init PROVE PersistedInvariant
  OBVIOUS
<1> USE StageInQueue DEF Init
<1>1. \A q \in Stage, n \in Failure : handler[q][n] = "none"
  OBVIOUS
<1>2. \A q \in Stage : cache[q] = NoResult
  BY DEF NoResults
<1>3. \A q \in Queue : pc[q] = "idle" /\ job[q] = "absent"
  OBVIOUS
<1>4. \A q \in Stage : ~PastPersist(q)
  BY <1>3, SuccessorsType DEF PastPersist, Sent
<1> QED
  BY <1>1, <1>2, <1>3, <1>4 DEF PersistedInvariant, Handling, Writing

LEMMA PersistedNext ==
  ASSUME TypeOK, WorksOnActive, HandedOver, ResultsInvariant, ReportInvariant,
         PersistedInvariant, [Next]_vars
  PROVE  PersistedInvariant'
<1> USE StageInQueue
<1>1. SavedFirst /\ WritesFirst /\ WritesDocuments
  BY DEF ReportInvariant
<1>2. ASSUME NEW q \in Stage, NEW n \in Failure, handler'[q][n] \in Handling
      PROVE  Failing(q)'
  BY <1>2, HandlerReads, FailingStays DEF PersistedInvariant
<1>3. ASSUME NEW q \in Stage, ~Failing(q)', Unbegun(q)'
      PROVE  cache'[q] = NoResult \/ Overtaken(q)'
  <2>1. ~Failing(q)
    BY <1>3, FailingStays
  <2> QED
    BY <1>3, <2>1, CacheFirst DEF PersistedInvariant
\* Whoever comes after a stage finds it past its persist.
<1>4. ASSUME NEW q \in Stage, NEW p \in Queue, q \in Before(p), job[p] # "absent"
      PROVE  PastPersist(q)
  <2>1. /\ "cleaning" \in Stage /\ "cleaning" \in Queue
        /\ "cleaning" \in Successors("transcription")
        /\ \A next \in Insight : next \in Successors("cleaning")
    BY DEF Stage, Queue, Successors
  <2>2. CASE p \in Successors(q)
    BY <1>4, <2>2 DEF PastPersist
  <2>3. CASE p \notin Successors(q)
    <3>1. q = "transcription" /\ p \in Insight
      BY <1>4, <2>3 DEF Before, Successors, Stage, Queue, Insight
    <3>2. job["cleaning"] # "absent"
      BY <1>1, <1>4, <2>1, <3>1 DEF WritesFirst
    <3> QED
      BY <2>1, <3>1, <3>2 DEF PastPersist
  <2> QED
    BY <2>2, <2>3
\* Whoever writes while a stage is past its persist comes after it.
<1>5. ASSUME NEW q \in Stage, PastPersist(q), NEW p \in Queue, pc[p] \in Writing
      PROVE  q \in Before(p)
  <2>1. job[q] # "absent"
    BY <1>1, <1>5, SuccessorsType DEF PastPersist, WorksOnActive, WritesFirst
  <2>2. CASE p = q
    <3>1. pc[q] \in Preparing
      BY <1>5, <2>2 DEF TypeOK, StageStep, Writing, Preparing
    <3>2. job[q] = "active" /\ pc[q] \notin {"handOver", "await", "return"}
      BY <3>1 DEF WorksOnActive, Preparing
    <3> QED
      BY <1>1, <1>5, <3>1, <3>2, SuccessorsType DEF PastPersist, WritesFirst
  <2>3. CASE p = "transcription" /\ q = "cleaning"
    <3>1. pc[p] \in Preparing /\ p \in Stage
      BY <1>5, <2>3 DEF TypeOK, Stage, StageStep, Writing, Preparing
    <3>2. q \in Successors(p)
      BY <2>3 DEF Successors
    <3> QED
      BY <1>1, <2>1, <3>1, <3>2 DEF WritesFirst
  <2> QED
    BY <2>2, <2>3 DEF Before, Stage, Insight, Queue
<1>6. ASSUME NEW q \in Stage, PastPersist(q) PROVE Begun
  <2>1. \/ \E p \in Queue : job[p] # "absent"
        \/ adding # {}
    BY <1>6, SuccessorsType DEF PastPersist, WorksOnActive, Sent
  <2> QED
    BY <1>1, <2>1 DEF SavedFirst
<1>7. ASSUME NEW q \in Stage, ~Harmed(q)'
      PROVE  /\ PastPersist(q)' => meeting'.pipeline[q] # NoResult
             /\ pc'[q] = "persistSet" => copy'[q].pipeline[q] # NoResult
             /\ \A p \in Queue : q \in Before(p) /\ pc'[p] \in Writing =>
                  copy'[p].pipeline[q] # NoResult
             /\ \A p \in Stage, n \in Failure : q \in Before(p) /\ handler'[p][n] = "writing" =>
                  handlerCopy'[p][n].pipeline[q] # NoResult
  <2>1. \A st \in Before(q) \union {q} : ~Failing(st)
    BY <1>7, FailingStays, SuccessorsType DEF Harmed
  <2>2. ~Harmed(q)
    BY <2>1 DEF Harmed
  <2>3. ASSUME PastPersist(q) PROVE meeting'.pipeline[q] # NoResult
    <3>1. meeting.pipeline[q] # NoResult
      BY <2>2, <2>3 DEF PersistedInvariant
    <3>2. \A r \in Request : ~Save(r)
      BY <1>1, <1>6, <2>3 DEF Save, SavedFirst
    <3>3. ASSUME NEW p \in Queue, pc[p] \in Writing, meeting' = copy[p]
          PROVE  meeting'.pipeline[q] # NoResult
      BY <1>5, <2>2, <2>3, <3>3 DEF PersistedInvariant
    <3>4. ASSUME NEW p \in Stage, NEW n \in Failure, handler[p][n] = "writing",
                 meeting' = handlerCopy[p][n]
          PROVE  meeting'.pipeline[q] # NoResult
      <4>1. Failing(p)
        BY <3>4 DEF PersistedInvariant, Handling
      <4>2. p \notin Before(q) \union {q}
        BY <2>1, <4>1
      <4>3. q \in Before(p)
        BY <4>2 DEF Before, Stage
      <4> QED
        BY <2>2, <3>4, <4>3 DEF PersistedInvariant
    <3> QED
      BY <1>1, <3>1, <3>2, <3>3, <3>4, MeetingWrites
  <2>4. ASSUME PastPersist(q)' PROVE meeting'.pipeline[q] # NoResult
    <3>1. pc[q] = "lookup" /\ cache[q] # NoResult => PastPersist(q)
      BY <2>1 DEF PersistedInvariant, Unbegun, Overtaken, PastPersist
    <3>2. pc[q] = "persistSet" => copy[q].pipeline[q] # NoResult
      BY <2>2 DEF PersistedInvariant
    <3> QED
      BY <2>3, <2>4, <3>1, <3>2, PastPersistArises
  <2>5. ASSUME pc'[q] = "persistSet" PROVE copy'[q].pipeline[q] # NoResult
    <3>1. pc[q] = "persistGet" => result[q] # NoResult
      BY DEF ResultsInvariant
    <3>2. pc[q] = "persistSet" => copy[q].pipeline[q] # NoResult
      BY <2>2 DEF PersistedInvariant
    <3>3. \/ pc'[q] = pc[q] /\ copy'[q] = copy[q]
          \/ pc[q] = "persistGet" /\ copy'[q].pipeline[q] = result[q]
      BY <2>5, CopyReads DEF Writing
    <3> QED
      BY <2>5, <3>1, <3>2, <3>3
  <2>6. ASSUME NEW p \in Queue, q \in Before(p), pc'[p] \in Writing
        PROVE  copy'[p].pipeline[q] # NoResult
    <3>1. CASE pc'[p] = pc[p] /\ copy'[p] = copy[p]
      BY <2>2, <2>6, <3>1 DEF PersistedInvariant
    <3>2. CASE pc[p] # "idle" /\ \A st \in Stage : st # p => copy'[p].pipeline[st] = meeting.pipeline[st]
      <4>1. PastPersist(q) /\ q # p
        BY <1>4, <2>6, <3>2 DEF WorksOnActive, Before, Stage
      <4>2. meeting.pipeline[q] # NoResult
        BY <2>2, <4>1 DEF PersistedInvariant
      <4> QED
        BY <3>2, <4>1, <4>2
    <3> QED
      BY <2>6, <3>1, <3>2, CopyReads
  <2>7. ASSUME NEW p \in Stage, NEW n \in Failure, q \in Before(p), handler'[p][n] = "writing"
        PROVE  handlerCopy'[p][n].pipeline[q] # NoResult
    <3>1. CASE handler[p][n] = "writing" /\ handlerCopy'[p][n] = handlerCopy[p][n]
      BY <2>2, <2>7, <3>1 DEF PersistedInvariant
    <3>2. CASE handler[p][n] = "pending" /\ handlerCopy'[p][n].pipeline = meeting.pipeline
      <4>1. job[p] # "absent"
        BY <1>1, <3>2 DEF WritesDocuments, Handling
      <4>2. PastPersist(q)
        BY <1>4, <2>7, <4>1
      <4> QED
        BY <2>2, <3>2, <4>2 DEF PersistedInvariant
    <3> QED
      BY <2>7, <3>1, <3>2, HandlerReads DEF Handling
  <2> QED
    BY <2>4, <2>5, <2>6, <2>7
<1> QED
  BY <1>2, <1>3, <1>7 DEF PersistedInvariant

(* While requests do not overlap, a completed stage whose result is missing  *)
(* from the document has failed on the way, or the stage before it has.      *)
THEOREM LostResultHasFailureHolds ==
  ASSUME ~Concurrent PROVE Spec => []LostResultHasFailure
<1>1. TypeOK /\ WorksOnActive /\ HandedOver /\ ResultsInvariant /\ ReportInvariant
        /\ PersistedInvariant /\ [Next]_vars => PersistedInvariant'
  BY PersistedNext
<1>2. PersistedInvariant => LostResultHasFailure
  BY DEF PersistedInvariant, PastPersist, LostResultHasFailure
<1> QED
  BY TypeCorrect, HandedOverHolds, ResultsAlways, ReportAlways, PersistedInit, <1>1, <1>2, PTL
     DEF Spec
=============================================================================
