----------------------------- MODULE ChainProofs -----------------------------
(* The pipeline implements Chain, for any number of requests, overlapping or *)
(* not, and any attempts, stalls and faults.                                 *)
EXTENDS PipelineRefinement, PipelineProofs

Given == [q \in Queue |-> [st \in Before(q) |-> data[q][st]]]

LEMMA ChainInit == Init => Promise!Init
<1> SUFFICES ASSUME Init PROVE Promise!Init
  OBVIOUS
<1>1. JobsIn("completed") = {} /\ JobsIn("failed") = {} /\ Queue \ JobsIn("absent") = {}
  BY DEF Init, JobsIn
<1>2. cache = [st \in Stage |-> NoResult]
  BY DEF Init, NoResults
<1>3. ASSUME NEW q \in Queue
      PROVE  [st \in Before(q) |-> data[q][st]] = [st \in Before(q) |-> NoResult]
  BY SuccessorsType DEF Init, NoResults
<1> QED
  BY <1>1, <1>2, <1>3 DEF Promise!Init

(* Nothing that Chain sees changes while a job waits or is worked on.        *)
LEMMA ChainStutters ==
  ASSUME TypeOK, UNCHANGED <<cache, data>>,
         \A q \in Queue : job'[q] # job[q] =>
           job[q] \in {"waiting", "active"} /\ job'[q] \in {"waiting", "active"}
  PROVE  UNCHANGED Promise!vars
<1>1. /\ JobsIn("absent")' = JobsIn("absent")
      /\ JobsIn("completed")' = JobsIn("completed")
      /\ JobsIn("failed")' = JobsIn("failed")
  BY DEF JobsIn
<1> QED
  BY <1>1 DEF Promise!vars

(* A job that ends is completed or given up.                                 *)
LEMMA ChainEnds ==
  ASSUME TypeOK, UNCHANGED <<cache, data>>, NEW q \in Queue,
         job[q] \in {"waiting", "active"},
         NEW end \in {"completed", "failed"}, job' = [job EXCEPT ![q] = end],
         end = "completed" =>
           /\ q \in Stage => cache[q] # NoResult
           /\ \A next \in Successors(q) : job[next] # "absent"
  PROVE  Promise!Next
<1>1. /\ JobsIn("absent")' = JobsIn("absent")
      /\ end = "completed" => /\ JobsIn("completed")' = JobsIn("completed") \union {q}
                              /\ JobsIn("failed")' = JobsIn("failed")
      /\ end = "failed" => /\ JobsIn("failed")' = JobsIn("failed") \union {q}
                           /\ JobsIn("completed")' = JobsIn("completed")
  BY DEF JobsIn, TypeOK
<1>2. q \in Promise!Running
  BY DEF Promise!Running, JobsIn
<1>3. CASE end = "completed"
  <2>1. Successors(q) \subseteq Queue \ JobsIn("absent")
    BY <1>3, SuccessorsType DEF JobsIn
  <2>2. Promise!Complete(q)
    BY <1>1, <1>2, <1>3, <2>1 DEF Promise!Complete
  <2> QED
    BY <2>2 DEF Promise!Next
<1>4. CASE end = "failed"
  <2>1. Promise!GiveUp(q)
    BY <1>1, <1>2, <1>4 DEF Promise!GiveUp
  <2> QED
    BY <2>1 DEF Promise!Next
<1> QED
  BY <1>3, <1>4

(* An add that arrives starts the job, with what it needs; or starts one     *)
(* again that was completed, with what it was given before; or finds it      *)
(* there.                                                                    *)
LEMMA ChainStarts ==
  ASSUME TypeOK, ResultsInvariant, UNCHANGED cache, NEW q \in Queue, NEW payload \in Results,
         Equips(payload, q), AddJob(q, payload)
  PROVE  [Promise!Next]_Promise!vars
<1>1. CASE UNCHANGED queue
  BY <1>1, ChainStutters DEF queue
<1>2. CASE Gone(q) /\ job' = [job EXCEPT ![q] = "waiting"] /\ data' = [data EXCEPT ![q] = payload]
  <2>1. data'[q] = payload /\ \A p \in Queue : p # q => data'[p] = data[p]
    BY <1>2 DEF TypeOK
  <2>2. [st \in Before(q) |-> payload[st]] = [st \in Before(q) |-> cache[st]]
    BY DEF Equips
  <2>3. Given' = [Given EXCEPT ![q] = [st \in Before(q) |-> cache[st]]]
    BY <2>1, <2>2 DEF Given
  <2>4. CASE job[q] = "absent"
    <3>1. /\ JobsIn("absent")' = JobsIn("absent") \ {q}
          /\ JobsIn("completed")' = JobsIn("completed")
          /\ JobsIn("failed")' = JobsIn("failed")
      BY <1>2, <2>4 DEF JobsIn, TypeOK
    <3>2. q \in JobsIn("absent")
      BY <2>4 DEF JobsIn
    <3>3. Promise!Start(q)
      BY <2>3, <3>1, <3>2 DEF Promise!Start, Equips, Given
    <3> QED
      BY <3>3 DEF Promise!Next
  <2>5. CASE job[q] = "completed"
    <3>1. /\ JobsIn("absent")' = JobsIn("absent")
          /\ JobsIn("completed")' = JobsIn("completed") \ {q}
          /\ JobsIn("failed")' = JobsIn("failed")
      BY <1>2, <2>5 DEF JobsIn, TypeOK
    <3>2. q \in JobsIn("completed")
      BY <2>5 DEF JobsIn
    <3>3. Given[q] = [st \in Before(q) |-> cache[st]]
      BY <2>5 DEF Given, ResultsInvariant, Equips
    <3>4. Given' = Given
      BY <2>3, <3>3 DEF Given
    <3>5. Promise!Restart(q)
      BY <3>1, <3>2, <3>4 DEF Promise!Restart, Given
    <3> QED
      BY <3>5 DEF Promise!Next
  <2> QED
    BY <1>2, <2>4, <2>5 DEF Gone
<1> QED
  BY <1>1, <1>2 DEF AddJob

LEMMA ChainProcess ==
  ASSUME TypeOK, WorksOnActive, ResultsInvariant, AwaitInvariant, NEW q \in Queue, Process(q)
  PROVE  [Promise!Next]_Promise!vars
<1> USE StageInQueue DEF queue
<1>1. CASE Store(q)
  <2>1. q \in Stage /\ result[q] \in 0 .. MaxAttempts + MaxStalls
    BY <1>1 DEF Store, TypeOK, InsightStep
  <2>2. cache[q] = NoResult /\ result[q] # NoResult
    BY <1>1, <2>1 DEF Store, ResultsInvariant
  <2>3. job[q] = "active"
    BY <1>1 DEF Store, WorksOnActive
  <2>4. q \in Stage \intersect Promise!Running
    BY <2>1, <2>3 DEF Promise!Running, JobsIn
  <2>5. UNCHANGED <<job, data>>
    BY <1>1 DEF Store
  <2>6. UNCHANGED <<JobsIn("absent"), JobsIn("completed"), JobsIn("failed")>>
    BY <2>5 DEF JobsIn
  <2>7. Promise!Obtain(q)
    BY <1>1, <2>1, <2>2, <2>4, <2>5, <2>6 DEF Store, Promise!Obtain
  <2> QED
    BY <2>7 DEF Promise!Next
<1>2. CASE Return(q)
  <2>1. job[q] = "active" /\ job' = [job EXCEPT ![q] = "completed"] /\ UNCHANGED <<cache, data>>
    BY <1>2 DEF Return, WorksOnActive
  <2>2. \A next \in Successors(q) : job[next] # "absent"
    BY <1>2, SuccessorsType DEF Return, AwaitInvariant, Successors, Stage
  <2>3. ASSUME q \in Stage PROVE cache[q] # NoResult
    <3>1. PICK next \in Successors(q) : next \in Queue
      BY <2>3, SuccessorsType DEF Successors, Stage, Insight
    <3>2. q \in Before(next) /\ job[next] # "absent"
      BY <2>2, <2>3, <3>1, SuccessorsType
    <3> QED
      BY <3>1, <3>2 DEF ResultsInvariant, Equips
  <2> QED
    BY <2>1, <2>2, <2>3, ChainEnds
<1>3. CASE ~Store(q) /\ ~Return(q)
  <2>1. UNCHANGED <<cache, job, data>>
    BY <1>3 DEF Process, Lookup, MarkProcessing, Call, Persist, HandOver, Await, Check, Complete
  <2> QED
    BY <2>1, ChainStutters
<1> QED
  BY <1>1, <1>2, <1>3

LEMMA ChainNext ==
  TypeOK /\ WorksOnActive /\ ResultsInvariant /\ AwaitInvariant /\ [Next]_vars
    => [Promise!Next]_Promise!vars
<1> SUFFICES ASSUME TypeOK, WorksOnActive, ResultsInvariant, AwaitInvariant, [Next]_vars
             PROVE  [Promise!Next]_Promise!vars
  OBVIOUS
<1> USE StageInQueue DEF queue
<1>1. CASE UNCHANGED vars
  BY <1>1, ChainStutters DEF vars
<1>2. ASSUME NEW r \in Request, Post(r) \/ Submit(r) \/ RequestFails(r)
      PROVE  [Promise!Next]_Promise!vars
  <2>1. UNCHANGED cache /\ (UNCHANGED <<job, data>> \/ AddJob("transcription", NoResults))
    BY <1>2, RequestEffect
  <2>2. "transcription" \in Queue /\ Equips(NoResults, "transcription")
    BY DEF Queue, Stage, Equips, Before
  <2>3. CASE AddJob("transcription", NoResults)
    BY <2>1, <2>2, <2>3, NoResultsType, ChainStarts
  <2>4. CASE UNCHANGED <<job, data>>
    BY <2>1, <2>4, ChainStutters
  <2> QED
    BY <2>1, <2>3, <2>4
<1>3. ASSUME NEW add \in adding, Land(add) PROVE [Promise!Next]_Promise!vars
  <2>1. add.queue \in Queue /\ add.payload \in Results
    BY DEF TypeOK
  <2>2. Equips(add.payload, add.queue)
    BY DEF ResultsInvariant
  <2> QED
    BY <1>3, <2>1, <2>2, ChainStarts DEF Land
<1>4. ASSUME NEW q \in Queue, Deliver(q) PROVE [Promise!Next]_Promise!vars
  BY <1>4, ChainStutters DEF Deliver, TypeOK
<1>5. ASSUME NEW q \in Queue, Process(q) PROVE [Promise!Next]_Promise!vars
  BY <1>5, ChainProcess
<1>6. ASSUME NEW q \in Stage, Crash(q) PROVE [Promise!Next]_Promise!vars
  BY <1>6, ChainStutters DEF Crash
<1>7. ASSUME NEW q \in Stage, Throw(q) \/ Stall(q) PROVE [Promise!Next]_Promise!vars
  <2>1. UNCHANGED <<cache, data>> /\ job[q] = "active" /\ q \in Queue
    BY <1>7 DEF Throw, Stall, WorksOnActive
  <2>2. \E new \in {"waiting", "failed"} : job' = [job EXCEPT ![q] = new]
    BY <1>7 DEF Throw, Stall
  <2>3. CASE job' = [job EXCEPT ![q] = "waiting"]
    BY <2>1, <2>3, ChainStutters DEF TypeOK
  <2>4. CASE job' = [job EXCEPT ![q] = "failed"]
    BY <2>1, <2>4, ChainEnds
  <2> QED
    BY <2>2, <2>3, <2>4
<1>8. ASSUME NEW q \in Stage, NEW n \in Failure, OnFailed(q, n) \/ OnFailedFails(q, n)
      PROVE  [Promise!Next]_Promise!vars
  BY <1>8, ChainStutters DEF OnFailed, OnFailedFails
<1> QED
  BY <1>1, <1>2, <1>3, <1>4, <1>5, <1>6, <1>7, <1>8, NextCases

(* Whatever requests, retries, crashes, stalls and late adds interleave, the *)
(* pipeline starts each job with the one result of each stage before it, and *)
(* again only after it was completed and with the same results; it completes *)
(* a job when those that follow are started.                                 *)
THEOREM ImplementsChainHolds == Spec => ImplementsChain
BY TypeCorrect, ResultsAlways, AwaitAlways, ChainInit, ChainNext, PTL
   DEF Spec, ImplementsChain, Promise!Spec
=============================================================================
