---------------------------- MODULE OutcomeProofs ----------------------------
(* Proofs about the outcome of a meeting, for any number of requests that do *)
(* not overlap and any attempts, stalls and faults.                          *)
EXTENDS PipelineProofs

LEMMA InsightInQueue ==
  Insight \subseteq Queue /\ \A i \in Insight : i \notin Stage /\ i # "transcription"
BY DEF Insight, Stage, Queue

Concluding == \E i \in Insight : pc[i] \in {"completeGet", "completeSet"}

(* The insights workers that are past their fan-in: a flag stays up when the *)
(* job runs again.                                                           *)
PastFanIn ==
  {i \in Insight :
     job[i] = "completed" \/ pc[i] \in {"completeGet", "completeSet", "return"}}

(* Who has raised its flag does not persist again.                           *)
FlagsFollowWork ==
  /\ PastFanIn \subseteq done
  /\ \A i \in done : job[i] # "absent" /\ pc[i] \notin {"persistGet", "persistSet"}

(* What the document owes to the fan-in: a final status, or a copy of it, is *)
(* there only when both flags are up, and from then on the meeting is        *)
(* settled or FAILED, or somebody is about to settle it.                     *)
OutcomeInvariant ==
  /\ FlagsFollowWork
  /\ Settled \/ Concluding => done = Insight
  /\ \A q \in Queue : copy[q].status \in Final => done = Insight
  /\ \A i \in Insight : pc[i] = "completeSet" => copy[i].status \in Final
  /\ done = Insight => Settled \/ Failed \/ Concluding

LEMMA OutcomeInit == Init => OutcomeInvariant
<1> SUFFICES ASSUME Init PROVE OutcomeInvariant
  OBVIOUS
<1>1. ~Settled /\ ~Concluding /\ done = {} /\ PastFanIn = {} /\ Insight # {}
  BY InsightInQueue DEF Init, Settled, Concluding, PastFanIn, Blank, Final, None, Insight
<1>2. \A q \in Queue : copy[q].status \notin Final /\ pc[q] = "idle"
  BY DEF Init, Blank, Final, None
<1> QED
  BY <1>1, <1>2, InsightInQueue DEF OutcomeInvariant, FlagsFollowWork

-----------------------------------------------------------------------------
(* Who takes part: an insights worker, or anybody else.                      *)

(* What an insights worker does, command by command.                         *)
InsightStepOf(i) ==
  \/ /\ job[i] = "waiting" /\ job'[i] = "active"
     /\ pc'[i] = IF i \in done THEN "check" ELSE "persistGet"
     /\ UNCHANGED <<meeting, done>> /\ copy'[i] = copy[i]
  \/ /\ pc[i] = "persistGet" /\ pc'[i] = "persistSet" /\ job'[i] = job[i]
     /\ UNCHANGED <<meeting, done>> /\ copy'[i] = meeting
  \/ /\ pc[i] = "persistSet" /\ pc'[i] = "check" /\ job'[i] = job[i]
     /\ meeting' = copy[i] /\ UNCHANGED done /\ copy'[i] = Blank
  \/ /\ pc[i] = "check" /\ job'[i] = job[i]
     /\ pc'[i] = IF done' = Insight THEN "completeGet" ELSE "return"
     /\ UNCHANGED meeting /\ done' = done \union {i} /\ copy'[i] = copy[i]
  \/ /\ pc[i] = "completeGet" /\ pc'[i] = "completeSet" /\ job'[i] = job[i]
     /\ UNCHANGED <<meeting, done>> /\ copy'[i].status \in Final
  \/ /\ pc[i] = "completeSet" /\ pc'[i] = "return" /\ job'[i] = job[i]
     /\ meeting' = copy[i] /\ UNCHANGED done /\ copy'[i] = Blank
  \/ /\ pc[i] = "return" /\ pc'[i] = "idle" /\ job'[i] = "completed"
     /\ UNCHANGED <<meeting, done>> /\ copy'[i] = Blank

LEMMA InsightActs ==
  ASSUME TypeOK, NEW i \in Insight, Deliver(i) \/ Process(i)
  PROVE  /\ InsightStepOf(i)
         /\ \A q \in Queue :
              q # i => pc'[q] = pc[q] /\ copy'[q] = copy[q] /\ job'[q] = job[q]
<1> USE InsightInQueue DEF TypeOK, Goto, locals, queue, InsightStepOf
<1>1. pc[i] \in InsightStep
  OBVIOUS
<1>2. ~Lookup(i) /\ ~MarkProcessing(i) /\ ~Call(i) /\ ~Store(i) /\ ~HandOver(i) /\ ~Await(i)
  BY <1>1 DEF InsightStep, Lookup, MarkProcessing, Call, Store, HandOver, Await
<1>3. CASE Deliver(i)
  BY <1>3, FirstStepType DEF Deliver
<1>4. CASE Persist(i)
  BY <1>4 DEF Persist, ReadAndChange, WriteBack
<1>5. CASE Check(i)
  BY <1>5 DEF Check
<1>6. CASE Complete(i)
  <2>1. SetCompleted(meeting, FALSE).status \in Final
    BY DEF SetCompleted, Document, Final
  <2> QED
    BY <1>6, <2>1 DEF Complete, ReadAndChange, WriteBack
<1>7. CASE Return(i)
  BY <1>7 DEF Return, Leave
<1> QED
  BY <1>2, <1>3, <1>4, <1>5, <1>6, <1>7 DEF Process

(* Nobody else touches what an insights worker holds, or completes its job,  *)
(* and a copy of a final status is read from the document.                   *)
LEMMA OthersAct ==
  ASSUME TypeOK, [Next]_vars, \A i \in Insight : ~Deliver(i) /\ ~Process(i)
  PROVE  /\ UNCHANGED done
         /\ \A i \in Insight :
              /\ pc'[i] = pc[i] /\ copy'[i] = copy[i]
              /\ job'[i] = "completed" => job[i] = "completed"
         /\ \A q \in Stage :
              copy'[q].status \in Final => copy[q].status \in Final \/ Settled
<1> USE InsightInQueue, StageInQueue DEF TypeOK, Goto, locals, queue
<1> DEFINE Kept ==
      /\ UNCHANGED done
      /\ \A i \in Insight : pc'[i] = pc[i] /\ copy'[i] = copy[i]
      /\ \A i \in Insight : job'[i] = "completed" => job[i] = "completed"
      /\ \A q \in Stage :
           copy'[q].status \in Final => copy[q].status \in Final \/ Settled
<1>1. CASE UNCHANGED vars
  BY <1>1 DEF vars
<1>2. ASSUME NEW r \in Request, Post(r) \/ Submit(r) \/ RequestFails(r) PROVE Kept
  <2>1. UNCHANGED <<done, pc, copy>> /\ (UNCHANGED job \/ AddJob("transcription", NoResults))
    BY <1>2, RequestEffect
  <2>2. "transcription" \in Queue
    BY DEF Queue, Stage
  <2> QED
    BY <2>1, <2>2, AddJobEffect
<1>3. ASSUME NEW add \in adding, Land(add) PROVE Kept
  BY <1>3, AddJobEffect DEF Land
<1>4. ASSUME NEW q \in Stage, NEW n \in Failure, OnFailed(q, n) \/ OnFailedFails(q, n)
      PROVE  Kept
  BY <1>4 DEF OnFailed, OnFailedFails
<1>5. ASSUME NEW q \in Stage, Deliver(q) \/ Stall(q) PROVE Kept
  BY <1>5 DEF Deliver, Stall
<1>6. Blank.status \notin Final
  BY DEF Blank, Final, None
<1>7. ASSUME NEW q \in Stage, Throw(q) \/ Crash(q) \/ Return(q) PROVE Kept
  <2>1. UNCHANGED done /\ Leave(q) /\ (UNCHANGED job \/ \E new : job' = [job EXCEPT ![q] = new])
    BY <1>7 DEF Throw, Crash, Return, BreakOff
  <2> QED
    BY <1>6, <2>1 DEF Leave
<1>8. ASSUME NEW q \in Stage, Process(q), ~Return(q) PROVE Kept
  <2>1. ~Check(q) /\ ~Complete(q)
    BY DEF Check, Complete, StageStep
  <2>2. CASE Lookup(q) \/ Call(q) \/ Store(q) \/ HandOver(q) \/ Await(q)
    BY <2>2 DEF Lookup, Call, Store, HandOver, Await
  <2>3. /\ SetStatus(meeting, "PROCESSING").status \notin Final
        /\ AddPipelineResult(meeting, q, result[q]).status = meeting.status
    BY DEF SetStatus, AddPipelineResult, Document, Final
  <2>4. CASE MarkProcessing(q) \/ Persist(q)
    BY <1>6, <2>3, <2>4 DEF MarkProcessing, Persist, ReadAndChange, WriteBack, Settled
  <2> QED
    BY <1>8, <2>1, <2>2, <2>4 DEF Process
<1>9. \A q \in Queue : q \in Stage \/ q \in Insight
  BY DEF Queue
<1> QED
  BY <1>1, <1>2, <1>3, <1>4, <1>5, <1>7, <1>8, <1>9, NextCases

-----------------------------------------------------------------------------
(* When both flags are up the stages are past their last write, and only a   *)
(* final status or FAILED is written.                                        *)
LEMMA OnlyFinalWrites ==
  ASSUME TypeOK, WorksOnActive, WritesFirst, done = Insight, FlagsFollowWork
  PROVE  \A q \in Queue : pc[q] \in Writing => q \in Insight /\ pc[q] = "completeSet"
<1> USE InsightInQueue, StageInQueue
<1>1. ASSUME NEW i \in Insight
      PROVE  job[i] # "absent" /\ pc[i] \notin {"markSet", "persistSet"}
  <2>1. pc[i] \in InsightStep
    BY DEF TypeOK
  <2> QED
    BY <2>1 DEF FlagsFollowWork, InsightStep
<1>2. \A i \in Insight : i \in Successors("cleaning")
  BY DEF Successors, Stage
<1>3. "summary" \in Insight /\ "cleaning" \in Stage /\ "transcription" \in Stage
  BY DEF Insight, Stage
<1>4. job["cleaning"] # "absent" /\ pc["cleaning"] \notin Preparing
  BY <1>1, <1>2, <1>3 DEF WritesFirst
<1>5. "cleaning" \in Successors("transcription")
  BY DEF Successors
<1>6. pc["transcription"] \notin Preparing
  BY <1>3, <1>4, <1>5 DEF WritesFirst
<1>7. ASSUME NEW q \in Stage PROVE pc[q] \notin Writing
  <2>1. pc[q] \notin Preparing
    BY <1>4, <1>6 DEF Stage
  <2> QED
    BY <2>1 DEF Writing, Preparing, TypeOK, StageStep
<1> QED
  BY <1>1, <1>7 DEF Queue, Writing

LEMMA FinalWrites ==
  ASSUME TypeOK, WorksOnActive, ReportInvariant, OutcomeInvariant, [Next]_vars,
         done = Insight
  PROVE  UNCHANGED meeting \/ Settled' \/ Failed'
<1> USE DEF ReportInvariant, OutcomeInvariant
<1>1. job["summary"] # "absent" /\ "summary" \in Queue
  <2>1. "summary" \in Insight
    BY DEF Insight
  <2> QED
    BY <2>1, InsightInQueue DEF FlagsFollowWork
<1>2. \A r \in Request : ~Save(r)
  BY <1>1 DEF SavedFirst, Save
<1>3. ASSUME NEW q \in Queue, pc[q] \in Writing, meeting' = copy[q] PROVE Settled'
  BY <1>3, OnlyFinalWrites DEF Settled
<1> QED
  BY <1>2, <1>3, MeetingWrites

(* Whose copy a final status can come from.                                  *)
LEMMA SettledArises ==
  ASSUME TypeOK, WritesDocuments, OutcomeInvariant, [Next]_vars, Settled'
  PROVE  done = Insight
<1> USE DEF OutcomeInvariant
<1>1. CASE UNCHANGED meeting
  BY <1>1 DEF Settled
<1>2. ASSUME NEW r \in Request, Save(r) PROVE FALSE
  BY <1>2 DEF Save, Settled, Fresh, Final
<1>3. ASSUME NEW q \in Queue, meeting' = copy[q] PROVE done = Insight
  BY <1>3 DEF Settled
<1>4. ~Failed'
  BY DEF Settled, Failed, Final
<1> QED
  BY <1>1, <1>2, <1>3, <1>4, MeetingWrites

LEMMA OutcomeNext ==
  TypeOK /\ WorksOnActive /\ ReportInvariant /\ OutcomeInvariant /\ [Next]_vars
    => OutcomeInvariant'
<1> SUFFICES ASSUME TypeOK, WorksOnActive, ReportInvariant, OutcomeInvariant, [Next]_vars
             PROVE  OutcomeInvariant'
  OBVIOUS
<1> USE InsightInQueue
<1>1. Settled' => done = Insight
  BY SettledArises DEF ReportInvariant
<1>2. done = Insight => UNCHANGED meeting \/ Settled' \/ Failed'
  BY FinalWrites
<1>3. done \subseteq Insight
  BY DEF TypeOK
<1>4. CASE \A i \in Insight : ~Deliver(i) /\ ~Process(i)
  <2>1. FlagsFollowWork' /\ (Concluding' <=> Concluding) /\ UNCHANGED done
    <3>1. PastFanIn' \subseteq PastFanIn /\ (Concluding' <=> Concluding) /\ UNCHANGED done
      BY <1>4, OthersAct DEF PastFanIn, Concluding
    <3>2. \A i \in done : job'[i] # "absent" /\ pc'[i] = pc[i]
      BY <1>3, <1>4, OthersAct, JobsStay DEF OutcomeInvariant, FlagsFollowWork
    <3> QED
      BY <3>1, <3>2 DEF OutcomeInvariant, FlagsFollowWork
  <2>2. \A q \in Queue : copy'[q].status \in Final => copy[q].status \in Final \/ Settled
    BY <1>4, OthersAct DEF Queue
  <2>3. \A i \in Insight : pc'[i] = pc[i] /\ copy'[i] = copy[i]
    BY <1>4, OthersAct
  <2> QED
    BY <1>1, <1>2, <2>1, <2>2, <2>3 DEF OutcomeInvariant, Settled, Failed
<1>5. ASSUME NEW i \in Insight, Deliver(i) \/ Process(i) PROVE OutcomeInvariant'
  <2>1. /\ InsightStepOf(i)
        /\ \A q \in Queue :
             q # i => pc'[q] = pc[q] /\ copy'[q] = copy[q] /\ job'[q] = job[q]
    BY <1>5, InsightActs
  <2>2. pc[i] # "idle" => job[i] = "active"
    BY DEF WorksOnActive
  <2>3. Blank.status \notin Final
    BY DEF Blank, Final, None
  <2>4. FlagsFollowWork'
    <3>1. PastFanIn' \subseteq done'
      BY <2>1, <2>2 DEF OutcomeInvariant, FlagsFollowWork, PastFanIn, InsightStepOf
    <3>2. ASSUME NEW k \in done' PROVE job'[k] # "absent" /\ pc'[k] \notin {"persistGet", "persistSet"}
      BY <1>3, <2>1, <2>2, <3>2 DEF OutcomeInvariant, FlagsFollowWork, InsightStepOf
    <3> QED
      BY <3>1, <3>2 DEF FlagsFollowWork
  <2>5. done \subseteq done'
    BY <2>1 DEF InsightStepOf
  <2>6. done = Insight => done' = Insight
    BY <1>3, <2>1, <2>5 DEF InsightStepOf
  <2>7. Concluding' => done' = Insight
    BY <2>1, <2>6 DEF OutcomeInvariant, Concluding, InsightStepOf
  <2>8. \A q \in Queue : copy'[q].status \in Final => done' = Insight
    BY <2>1, <2>3, <2>6 DEF OutcomeInvariant, InsightStepOf, Settled, Concluding
  <2>9. \A k \in Insight : pc'[k] = "completeSet" => copy'[k].status \in Final
    BY <2>1 DEF OutcomeInvariant, InsightStepOf
  <2>10. done' = Insight => Settled' \/ Failed' \/ Concluding'
    <3>1. CASE done # Insight
      BY <2>1, <3>1 DEF InsightStepOf, Concluding
    <3>2. CASE done = Insight /\ pc[i] \notin {"completeGet", "completeSet"}
      <4>1. UNCHANGED meeting \/ Settled' \/ Failed'
        BY <1>2, <3>2
      <4>2. Concluding => Concluding'
        BY <2>1, <3>2 DEF Concluding
      <4> QED
        BY <3>2, <4>1, <4>2 DEF OutcomeInvariant, Settled, Failed
    <3>3. CASE pc[i] = "completeGet"
      BY <2>1, <2>2, <3>3 DEF InsightStepOf, Concluding
    <3>4. CASE pc[i] = "completeSet"
      BY <2>1, <2>2, <3>4 DEF InsightStepOf, OutcomeInvariant, Settled
    <3> QED
      BY <3>1, <3>2, <3>3, <3>4
  <2> QED
    BY <1>1, <2>4, <2>6, <2>7, <2>8, <2>9, <2>10 DEF OutcomeInvariant
<1> QED
  BY <1>4, <1>5

LEMMA OutcomeAlways == ASSUME ~Concurrent PROVE Spec => []OutcomeInvariant
BY TypeCorrect, ReportAlways, OutcomeInit, OutcomeNext, PTL DEF Spec

-----------------------------------------------------------------------------
(* While requests do not overlap, no late or repeated delivery and no second *)
(* POST takes a final status back; only a handler that reports a failure     *)
(* does.                                                                     *)
THEOREM FinalOnlyFailsHolds == ASSUME ~Concurrent PROVE Spec => FinalOnlyFails
<1>1. TypeOK /\ WorksOnActive /\ ReportInvariant /\ OutcomeInvariant /\ [Next]_vars
        => [Settled => Settled' \/ Failed']_vars
  BY FinalWrites DEF OutcomeInvariant, Settled
<1> QED
  BY TypeCorrect, ReportAlways, OutcomeAlways, <1>1, PTL DEF Spec, FinalOnlyFails

(* A request is told 202 only when its job is in the queue.                  *)
AcceptedHasJob == Accepted => job["transcription"] # "absent"

LEMMA AcceptedNext == TypeOK /\ WorksOnActive /\ AcceptedHasJob /\ [Next]_vars => AcceptedHasJob'
<1> SUFFICES ASSUME TypeOK, WorksOnActive, AcceptedHasJob, [Next]_vars, Accepted'
             PROVE  job'["transcription"] # "absent"
  BY DEF AcceptedHasJob
<1>1. "transcription" \in Queue
  BY DEF Queue, Stage
<1>2. CASE Accepted
  BY <1>1, <1>2, JobsStay DEF AcceptedHasJob
<1>3. ASSUME NEW r \in Request, Post(r) \/ Find(r) \/ Save(r) \/ RequestFails(r) PROVE Accepted
  BY <1>3 DEF Post, Find, Save, RequestFails, AfterFailedAdd, Respond, Accepted, TypeOK
<1>4. ASSUME NEW r \in Request, Add(r) PROVE job'["transcription"] # "absent"
  BY <1>1, <1>4, AddJobEffect DEF Add, TypeOK
<1>5. CASE UNCHANGED request
  BY <1>2, <1>5 DEF Accepted
<1>6. ASSUME NEW q \in Queue, Deliver(q) \/ Process(q) PROVE UNCHANGED request
  BY <1>6 DEF Deliver, Process, Lookup, MarkProcessing, Call, Store, Persist, HandOver,
     Await, Check, Complete, Return
<1>7. ASSUME NEW q \in Stage, Stall(q) \/ Throw(q) \/ Crash(q) PROVE UNCHANGED request
  BY <1>7 DEF Stall, Throw, Crash
<1>8. ASSUME NEW add \in adding, Land(add) PROVE UNCHANGED request
  BY <1>8 DEF Land
<1>9. ASSUME NEW q \in Stage, NEW n \in Failure, OnFailed(q, n) \/ OnFailedFails(q, n)
      PROVE  UNCHANGED request
  BY <1>9 DEF OnFailed, OnFailedFails
<1> QED
  BY <1>2, <1>3, <1>4, <1>5, <1>6, <1>7, <1>8, <1>9, NextCases DEF Submit, vars

(* Where the jobs lead when none of them fails: each has handed over to the  *)
(* next, and the two insights jobs have raised both flags.                   *)
LEMMA ChainEnds ==
  ASSUME TypeOK, Quiet, AcceptedHasJob, Accepted, HandedOver, OutcomeInvariant,
         \A q \in Queue : job[q] # "failed"
  PROVE  done = Insight /\ ~Concluding
<1>1. \A q \in Queue : job[q] # "absent" => job[q] = "completed"
  BY DEF Quiet
<1>2. /\ "transcription" \in Stage /\ "cleaning" \in Stage /\ Stage \subseteq Queue
      /\ "cleaning" \in Successors("transcription")
      /\ \A i \in Insight : i \in Successors("cleaning") /\ i \in Queue
  BY DEF Stage, Queue, Successors
<1>3. job["cleaning"] = "completed"
  BY <1>1, <1>2 DEF AcceptedHasJob, HandedOver
<1>4. \A i \in Insight : job[i] = "completed"
  BY <1>1, <1>2, <1>3 DEF HandedOver
<1> QED
  BY <1>2, <1>4 DEF OutcomeInvariant, FlagsFollowWork, PastFanIn, Concluding, Quiet, TypeOK

(* While requests do not overlap, a meeting that was accepted is never left  *)
(* behind undecided with nothing under way: it is settled or FAILED, or one  *)
(* of its jobs is in the failed set.                                         *)
THEOREM QuietIsDecidedHolds == ASSUME ~Concurrent PROVE Spec => []QuietIsDecided
<1>1. Init => AcceptedHasJob
  BY DEF Init, AcceptedHasJob, Accepted
<1>2. TypeOK /\ AcceptedHasJob /\ HandedOver /\ OutcomeInvariant => QuietIsDecided
  BY ChainEnds DEF QuietIsDecided, OutcomeInvariant
<1> QED
  BY TypeCorrect, AwaitAlways, OutcomeAlways, AcceptedNext, <1>1, <1>2, PTL DEF Spec

-----------------------------------------------------------------------------
(* What a POST that repeats an earlier one leaves alone.                     *)

Underway == meeting.status \notin {None, "PENDING"}

(* A stage marks the meeting before it calls its API, and no copy is older   *)
(* than that mark.                                                           *)
MarkedInvariant ==
  /\ \A q \in Stage :
       pc[q] \notin {"idle", "lookup", "markGet", "markSet"} \/ cache[q] # NoResult
         => Underway
  /\ \A q \in Queue : pc[q] \in Writing => copy[q].status # "PENDING"

LEMMA MarkedInit == Init => MarkedInvariant
BY StageInQueue DEF Init, MarkedInvariant, Writing, NoResults

LEMMA UnderwayStays ==
  ASSUME TypeOK, ReportInvariant, MarkedInvariant, [Next]_vars, Underway
  PROVE  Underway'
<1>1. \A r \in Request : ~Save(r)
  BY DEF ReportInvariant, SavedFirst, Begun, Save, Underway
<1>2. ASSUME NEW q \in Queue, pc[q] \in Writing, meeting' = copy[q] PROVE Underway'
  BY <1>2 DEF Underway, MarkedInvariant, ReportInvariant, WritesDocuments, Writing
<1>3. Failed' => Underway'
  BY DEF Failed, Underway, None
<1> QED
  BY <1>1, <1>2, <1>3, MeetingWrites DEF ReportInvariant, Underway

(* A worker that reads the document, or goes past its first write, does so   *)
(* when the meeting is under way; and what it stores it obtained then.       *)
LEMMA MarkedProcess ==
  ASSUME TypeOK, WorksOnActive, ResultsInvariant, ReportInvariant, MarkedInvariant,
         [Next]_vars, NEW q \in Queue, Process(q)
  PROVE  MarkedInvariant'
<1> USE StageInQueue, InsightInQueue DEF TypeOK, Goto, locals
<1> USE UnderwayStays
<1>1. ASSUME UNCHANGED cache, \A p \in Queue : p # q => pc'[p] = pc[p] /\ copy'[p] = copy[p],
             q \in Stage /\ pc'[q] \notin {"idle", "lookup", "markGet", "markSet"} => Underway',
             pc'[q] \in Writing => copy'[q].status # "PENDING"
      PROVE  MarkedInvariant'
  BY <1>1 DEF MarkedInvariant
<1>2. q \in Stage /\ pc[q] \notin {"idle", "lookup", "markGet", "markSet"} => Underway'
  BY DEF MarkedInvariant
<1>3. CASE Lookup(q)
  <2>1. q \in Stage
    BY <1>3 DEF Lookup, InsightStep
  <2>2. pc'[q] \notin {"idle", "lookup", "markGet", "markSet"} => cache[q] # NoResult
    BY <1>3, <2>1 DEF Lookup
  <2>3. pc'[q] \notin Writing
    BY <1>3, <2>1 DEF Lookup, OnHit, Writing
  <2> QED
    BY <1>1, <1>3, <2>1, <2>2, <2>3 DEF Lookup, MarkedInvariant
<1>4. CASE MarkProcessing(q)
  <2>1. SetStatus(meeting, "PROCESSING").status = "PROCESSING"
    BY DEF SetStatus, Document
  <2>2. CASE pc[q] = "markGet"
    BY <1>1, <1>4, <2>1, <2>2 DEF MarkProcessing, ReadAndChange
  <2>3. CASE pc[q] = "markSet"
    <3>1. meeting' = copy[q] /\ pc'[q] = "call"
      BY <1>4, <2>3 DEF MarkProcessing, WriteBack
    <3>2. Underway'
      BY <2>3, <3>1 DEF MarkedInvariant, ReportInvariant, WritesDocuments, Writing, Underway
    <3> QED
      BY <1>1, <1>4, <2>3, <3>1, <3>2 DEF MarkProcessing, WriteBack, Writing
  <2> QED
    BY <1>4, <2>2, <2>3 DEF MarkProcessing
<1>5. CASE Store(q)
  <2>1. q \in Stage /\ pc[q] = "store" /\ pc' = [pc EXCEPT ![q] = "persistGet"]
        /\ UNCHANGED copy /\ \A st \in Stage : st # q => cache'[st] = cache[st]
    BY <1>5 DEF Store, Then, InsightStep, Results
  <2> QED
    BY <1>2, <2>1 DEF MarkedInvariant, Writing
<1>6. CASE Persist(q)
  <2>1. CASE pc[q] = "persistGet"
    <3>1. Underway
      <4>1. CASE q \in Stage
        BY <2>1, <4>1 DEF MarkedInvariant
      <4>2. CASE q \in Insight
        <5>1. job[q] # "absent" /\ "transcription" \in Before(q)
          BY <2>1, <4>2 DEF WorksOnActive, Before, Insight, Stage
        <5>2. "transcription" \in Stage /\ cache["transcription"] # NoResult
          BY <5>1 DEF ResultsInvariant, Equips, Stage
        <5> QED
          BY <5>2 DEF MarkedInvariant
      <4> QED
        BY <4>1, <4>2 DEF Queue
    <3>2. /\ AddPipelineResult(meeting, q, result[q]).status = meeting.status
          /\ meeting.status # "PENDING"
      BY <3>1 DEF AddPipelineResult, Document, Underway
    <3> QED
      BY <1>1, <1>2, <1>6, <2>1, <3>2 DEF Persist, ReadAndChange
  <2>2. CASE pc[q] = "persistSet"
    BY <1>1, <1>2, <1>6, <2>2 DEF Persist, WriteBack, Then, Writing
  <2> QED
    BY <1>6, <2>1, <2>2 DEF Persist
<1>7. CASE Call(q) \/ HandOver(q) \/ Await(q)
  BY <1>1, <1>2, <1>7 DEF Call, HandOver, Await, Then, Writing, InsightStep
<1>8. CASE Check(q)
  BY <1>1, <1>8 DEF Check, Writing, StageStep
<1>9. CASE Complete(q)
  <2>1. SetCompleted(meeting, FALSE).status # "PENDING" /\ q \notin Stage
    BY <1>9 DEF SetCompleted, Document, Complete, StageStep
  <2> QED
    BY <1>1, <1>9, <2>1 DEF Complete, ReadAndChange, WriteBack, Writing
<1>10. CASE Return(q)
  BY <1>1, <1>10 DEF Return, Leave, Writing
<1> QED
  BY <1>3, <1>4, <1>5, <1>6, <1>7, <1>8, <1>9, <1>10 DEF Process

LEMMA MarkedNext ==
  TypeOK /\ WorksOnActive /\ ResultsInvariant /\ ReportInvariant /\ MarkedInvariant
    /\ [Next]_vars => MarkedInvariant'
<1> SUFFICES ASSUME TypeOK, WorksOnActive, ResultsInvariant, ReportInvariant,
                    MarkedInvariant, [Next]_vars
             PROVE  MarkedInvariant'
  OBVIOUS
<1> USE StageInQueue, UnderwayStays DEF TypeOK, locals
<1>1. ASSUME UNCHANGED <<pc, copy, cache>> PROVE MarkedInvariant'
  BY <1>1 DEF MarkedInvariant
<1>2. ASSUME NEW q \in Queue, UNCHANGED cache, pc'[q] \in {"idle", "lookup", "persistGet", "check"},
             pc'[q] \in {"persistGet", "check"} => q \notin Stage,
             \A p \in Queue : p # q => pc'[p] = pc[p] /\ copy'[p] = copy[p]
      PROVE  MarkedInvariant'
  BY <1>2 DEF MarkedInvariant, Writing
<1>3. ASSUME NEW q \in Queue, Process(q) PROVE MarkedInvariant'
  BY <1>3, MarkedProcess
<1>4. ASSUME NEW q \in Queue, Deliver(q) PROVE MarkedInvariant'
  BY <1>2, <1>4, FirstStepType DEF Deliver, Goto
<1>5. ASSUME NEW q \in Stage, Throw(q) \/ Crash(q) PROVE MarkedInvariant'
  BY <1>2, <1>5 DEF Throw, Crash, BreakOff, Leave, Goto
<1>6. ASSUME NEW q \in Stage, Stall(q) PROVE MarkedInvariant'
  BY <1>1, <1>6 DEF Stall
<1>7. ASSUME NEW r \in Request, Post(r) \/ Submit(r) \/ RequestFails(r) PROVE MarkedInvariant'
  BY <1>1, <1>7, RequestEffect
<1>8. ASSUME NEW add \in adding, Land(add) PROVE MarkedInvariant'
  BY <1>1, <1>8 DEF Land
<1>9. ASSUME NEW q \in Stage, NEW n \in Failure, OnFailed(q, n) \/ OnFailedFails(q, n)
      PROVE  MarkedInvariant'
  BY <1>1, <1>9 DEF OnFailed, OnFailedFails
<1>10. CASE UNCHANGED vars
  BY <1>1, <1>10 DEF vars
<1> QED
  BY <1>3, <1>4, <1>5, <1>6, <1>7, <1>8, <1>9, <1>10, NextCases

(* A repeated POST leaves a meeting in progress alone unless it overlaps the *)
(* one that creates it: overlapping is the only way to the second save, and  *)
(* no worker's copy is old enough to say PENDING.                            *)
THEOREM ProgressKeptHolds == ASSUME ~Concurrent PROVE Spec => ProgressKept
<1>1. TypeOK /\ ReportInvariant /\ MarkedInvariant /\ [Next]_vars
        => [meeting.status \notin {None, "PENDING"} => meeting'.status # "PENDING"]_vars
  BY UnderwayStays DEF Underway
<1>2. TypeOK /\ WorksOnActive /\ ResultsInvariant /\ ReportInvariant /\ MarkedInvariant
        /\ [Next]_vars => MarkedInvariant'
  BY MarkedNext
<1> QED
  BY TypeCorrect, ResultsAlways, ReportAlways, MarkedInit, <1>1, <1>2, PTL
     DEF Spec, ProgressKept
=============================================================================
