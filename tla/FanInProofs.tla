---------------------------- MODULE FanInProofs ----------------------------
(* Proofs about the join of the insights workers, for any number of slots,  *)
(* attempts and stalls.                                                     *)
EXTENDS FanInProperties, TLAPS

LEMMA OtherIsWorker ==
  \A w \in Worker : Other(w) \in Worker /\ Other(w) # w /\ Other(Other(w)) = w
BY DEF Other, Worker

(* Every change of the meeting document keeps it a meeting document. *)
LEMMA DocumentType ==
  ASSUME NEW doc \in Meeting(Worker)
  PROVE  /\ \A w \in Worker, r \in Result \union {None} :
              AddPipelineResult(doc, w, r) \in Meeting(Worker)
         /\ \A b \in BOOLEAN : SetCompleted(doc, b) \in Meeting(Worker)
BY DEF Meeting, AddPipelineResult, SetCompleted, Status

LEMMA TypeInit == Init => TypeOK /\ QueueInvariant
BY FanInAssumption
   DEF Init, TypeOK, QueueInvariant, JobState, PC, NoCopy, Meeting, Status, None

(* The operations of the job queue, which change the jobs and their locks. *)
LEMMA TypeQueue ==
  ASSUME TypeOK, QueueInvariant, NEW w \in Worker,
         \/ FanOut(w) \/ Stall(w)
         \/ \E s \in Slot : Deliver(w, s) \/ Return(w, s) \/ Throw(w, s) \/ Crash(w, s)
  PROVE  TypeOK' /\ QueueInvariant'
<1> USE FanInAssumption
<1>1. NoCopy \in Meeting(Worker)
  BY DEF NoCopy, Meeting, Status
<1>2. CASE FanOut(w)
  BY <1>2 DEF TypeOK, QueueInvariant, FanOut, JobState, keys, locals
<1>3. CASE Stall(w)
  <2>1. stalls' \in [Worker -> 0 .. MaxStalls]
    <3>1. stalls[w] < MaxStalls => stalls[w] + 1 \in 0 .. MaxStalls
      BY DEF TypeOK
    <3> QED
      BY <1>3, <3>1 DEF TypeOK, Stall
  <2>2. job' \in [Worker -> JobState] /\ holder' \in [Worker -> Slot \union {None}]
    BY <1>3 DEF TypeOK, Stall, JobState
  <2>3. QueueInvariant'
    BY <1>3 DEF TypeOK, QueueInvariant, Stall
  <2> QED
    BY <1>3, <2>1, <2>2, <2>3 DEF TypeOK, Stall, keys, locals
<1>4. ASSUME NEW s \in Slot, Deliver(w, s) PROVE TypeOK' /\ QueueInvariant'
  BY <1>4 DEF TypeOK, QueueInvariant, Deliver, JobState, PC, keys
<1>5. ASSUME NEW s \in Slot, Leave(w, s)
      PROVE  /\ pc' \in [Worker -> [Slot -> PC]]
             /\ res' \in [Worker -> [Slot -> Result \union {None}]]
             /\ copy' \in [Worker -> [Slot -> Meeting(Worker)]]
             /\ sumFallback' \in [Worker -> [Slot -> BOOLEAN]]
             /\ UNCHANGED <<cache, result, done, meeting, answered>>
  BY <1>1, <1>5 DEF TypeOK, Leave, PC, keys
<1>6. ASSUME NEW s \in Slot, Return(w, s) PROVE TypeOK' /\ QueueInvariant'
  <2>1. Leave(w, s)
    BY <1>6 DEF Return
  <2>2. /\ job' \in [Worker -> JobState] /\ holder' \in [Worker -> Slot \union {None}]
        /\ QueueInvariant' /\ UNCHANGED <<attempts, stalls>>
    BY <1>6 DEF TypeOK, QueueInvariant, Return, JobState
  <2> QED
    BY <1>5, <2>1, <2>2 DEF TypeOK
<1>7. ASSUME NEW s \in Slot, Throw(w, s) PROVE TypeOK' /\ QueueInvariant'
  <2>1. Leave(w, s) /\ UNCHANGED stalls
    BY <1>7 DEF Throw
  <2>2. CASE holder[w] = s
    <3>1. attempts[w] < MaxAttempts
      BY <2>2 DEF QueueInvariant, TypeOK
    <3>2. attempts[w] + 1 \in 0 .. MaxAttempts
      BY <3>1 DEF TypeOK
    <3>3. /\ attempts' = [attempts EXCEPT ![w] = attempts[w] + 1]
          /\ holder' = [holder EXCEPT ![w] = None]
          /\ job' = [job EXCEPT ![w] = IF attempts[w] + 1 < MaxAttempts
                                       THEN "waiting" ELSE "failed"]
      BY <1>7, <2>2 DEF Throw, Retries
    <3>4. /\ attempts' \in [Worker -> 0 .. MaxAttempts]
          /\ job' \in [Worker -> JobState]
          /\ holder' \in [Worker -> Slot \union {None}]
      BY <3>2, <3>3 DEF TypeOK, JobState
    <3>5. QueueInvariant'
      BY <3>3 DEF TypeOK, QueueInvariant
    <3> QED
      BY <1>5, <2>1, <3>4, <3>5 DEF TypeOK
  <2>3. CASE holder[w] # s
    <3>1. UNCHANGED <<job, attempts, holder>>
      BY <1>7, <2>3 DEF Throw
    <3> QED
      BY <1>5, <2>1, <3>1 DEF TypeOK, QueueInvariant
  <2> QED
    BY <2>2, <2>3
<1>8. ASSUME NEW s \in Slot, Crash(w, s) PROVE TypeOK' /\ QueueInvariant'
  <2>1. Leave(w, s) /\ UNCHANGED <<job, attempts, stalls, holder>>
    BY <1>8 DEF Crash, queue
  <2> QED
    BY <1>5, <2>1 DEF TypeOK, QueueInvariant
<1> QED
  BY <1>2, <1>3, <1>4, <1>6, <1>7, <1>8

(* Goto moves one delivery. *)
LEMMA GotoMoves ==
  ASSUME TypeOK, NEW w \in Worker, NEW s \in Slot, NEW label, Goto(w, s, label)
  PROVE  \A v \in Worker, t \in Slot :
           pc'[v][t] = IF v = w /\ t = s THEN label ELSE pc[v][t]
BY DEF TypeOK, Goto

(* The steps of process(), which leave the queue alone until they return. *)
LEMMA TypeProcess ==
  ASSUME TypeOK, NEW w \in Worker, NEW s \in Slot, Step(w, s), ~Return(w, s)
  PROVE  TypeOK' /\ UNCHANGED queue
<1>1. NoCopy \in Meeting(Worker)
  BY DEF NoCopy, Meeting, Status
<1>2. copy[w][s] \in Meeting(Worker) /\ res[w][s] \in Result \union {None}
  BY DEF TypeOK
<1>3. CASE Lookup(w, s)
  <2>1. CASE cache[w] # None
    <3>1. cache[w] \in Result \union {None}
      BY DEF TypeOK
    <3>2. res' = [res EXCEPT ![w][s] = cache[w]] /\ Goto(w, s, "putResult")
      BY <1>3, <2>1 DEF Lookup, OnHit
    <3> QED
      BY <1>3, <3>1, <3>2 DEF TypeOK, Lookup, Goto, PC, queue, keys
  <2>2. CASE cache[w] = None
    <3>1. UNCHANGED res /\ Goto(w, s, "extract")
      BY <1>3, <2>2 DEF Lookup
    <3> QED
      BY <1>3, <3>1 DEF TypeOK, Lookup, Goto, PC, queue, keys
  <2> QED
    BY <2>1, <2>2
<1>4. CASE Extract(w, s)
  BY <1>4 DEF TypeOK, Extract, Goto, PC, queue, keys
<1>5. CASE Store(w, s)
  BY <1>5 DEF TypeOK, Store, Goto, PC, queue
<1>6. CASE PersistGet(w, s)
  BY <1>6 DEF TypeOK, PersistGet, Goto, PC, queue, keys
<1>7. CASE PersistSet(w, s)
  <2>1. meeting' \in Meeting(Worker)
    BY <1>2, <1>7, DocumentType DEF PersistSet
  <2> QED
    BY <1>1, <1>7, <2>1 DEF TypeOK, PersistSet, Goto, PC, queue, keys
<1>8. CASE PutResult(w, s)
  BY <1>8 DEF TypeOK, PutResult, Goto, PC, queue
<1>9. CASE PutDone(w, s)
  BY <1>9 DEF TypeOK, PutDone, Goto, PC, queue
<1>10. CASE Check(w, s)
  <2>1. \E label \in PC : Goto(w, s, label)
    BY <1>10 DEF Check, PC
  <2> QED
    BY <1>10, <2>1 DEF TypeOK, Check, Goto, queue, keys
<1>11. CASE ReadSummary(w, s)
  BY <1>11 DEF TypeOK, ReadSummary, Goto, PC, queue, keys
<1>12. CASE CompleteGet(w, s)
  BY <1>12 DEF TypeOK, CompleteGet, Goto, PC, queue, keys
<1>13. CASE CompleteSet(w, s)
  <2>1. HasPartial(w, s) \in BOOLEAN
    BY DEF HasPartial
  <2>2. meeting' \in Meeting(Worker)
    BY <1>2, <1>13, <2>1, DocumentType DEF CompleteSet
  <2> QED
    BY <1>1, <1>13, <2>2 DEF TypeOK, CompleteSet, Goto, PC, queue, keys
<1> QED
  BY <1>3, <1>4, <1>5, <1>6, <1>7, <1>8, <1>9, <1>10, <1>11, <1>12, <1>13 DEF Step

LEMMA TypeNext ==
  TypeOK /\ QueueInvariant /\ [Next]_vars => TypeOK' /\ QueueInvariant'
<1> SUFFICES ASSUME TypeOK, QueueInvariant, [Next]_vars
             PROVE  TypeOK' /\ QueueInvariant'
  OBVIOUS
<1>1. CASE UNCHANGED vars
  BY <1>1 DEF TypeOK, QueueInvariant, vars, queue, keys, locals
<1>2. ASSUME NEW w \in Worker, Expire(w) PROVE TypeOK' /\ QueueInvariant'
  BY <1>2 DEF TypeOK, QueueInvariant, Expire, queue, locals
<1>3. ASSUME NEW w \in Worker, NEW s \in Slot, Step(w, s)
      PROVE  TypeOK' /\ QueueInvariant'
  <2>1. CASE Return(w, s)
    BY <2>1, TypeQueue
  <2>2. CASE ~Return(w, s)
    <3>1. TypeOK' /\ UNCHANGED queue
      BY <1>3, <2>2, TypeProcess
    <3> QED
      BY <3>1 DEF QueueInvariant, queue
  <2> QED
    BY <2>1, <2>2
<1> QED
  BY <1>1, <1>2, <1>3, TypeQueue DEF Next

(* Every variable holds a value of its kind in every behaviour; a job gets *)
(* no more attempts than it was given.                                     *)
THEOREM TypeCorrect == Spec => [](TypeOK /\ QueueInvariant)
BY TypeInit, TypeNext, PTL DEF Spec

-----------------------------------------------------------------------------
(* A final status is backed by an extraction of each worker.               *)

(* The inductive invariant behind NoEarlyConsolidation, for every value of   *)
(* the constants: whatever a key, a processor or a copy of the document says *)
(* that goes back to an extraction is backed by one.                         *)

Extracted(w) == answered[w] # {}

BackedInvariant ==
  /\ Settled => \A w \in Worker : Extracted(w)
  /\ \A w \in Worker :
       /\ cache[w] # None => Extracted(w)
       /\ done[w] => Extracted(w)
       /\ \A s \in Slot :
            /\ pc[w][s] \notin {"idle", "lookup", "extract"} => Extracted(w)
            /\ pc[w][s] \in {"readSummary", "completeGet", "completeSet"} =>
                 Extracted(Other(w))
            /\ copy[w][s].status \in Final => \A v \in Worker : Extracted(v)

LEMMA BackedInit == Init => BackedInvariant
BY FanInAssumption DEF Init, BackedInvariant, Settled, Final, NoCopy, None

(* A delivery that ends, in whatever way, leaves nothing to be backed. *)
LEMMA BackedLeave ==
  ASSUME TypeOK, BackedInvariant, NEW w \in Worker, NEW s \in Slot, Leave(w, s)
  PROVE  BackedInvariant'
BY DEF BackedInvariant, Extracted, Settled, Leave, keys, TypeOK, NoCopy, Final

LEMMA BackedProcess ==
  ASSUME TypeOK, BackedInvariant, NEW w \in Worker, NEW s \in Slot, Step(w, s)
  PROVE  BackedInvariant'
<1> USE OtherIsWorker
<1> USE DEF BackedInvariant, Extracted, Settled, Goto, TypeOK
<1>1. CASE Lookup(w, s)
  <2>1. CASE cache[w] # None
    <3>1. Goto(w, s, "putResult")
      BY <1>1, <2>1 DEF Lookup, OnHit
    <3> QED
      BY <1>1, <2>1, <3>1, GotoMoves DEF Lookup, queue, keys
  <2>2. CASE cache[w] = None
    <3>1. Goto(w, s, "extract")
      BY <1>1, <2>2 DEF Lookup
    <3> QED
      BY <1>1, <3>1, GotoMoves DEF Lookup, queue, keys
  <2> QED
    BY <2>1, <2>2
<1>2. CASE Extract(w, s)
  <2>1. answered'[w] # {} /\ \A v \in Worker : answered[v] # {} => answered'[v] # {}
    BY <1>2 DEF Extract
  <2>2. /\ Goto(w, s, "store")
        /\ UNCHANGED <<meeting, cache, done, copy>>
    BY <1>2 DEF Extract, keys
  <2> HIDE DEF TypeOK, Goto
  <2> QED
    BY <2>1, <2>2, GotoMoves
<1>3. CASE Store(w, s)
  BY <1>3 DEF Store, queue
<1>4. CASE PersistGet(w, s)
  BY <1>4 DEF PersistGet, queue, keys
<1>5. CASE PersistSet(w, s)
  BY <1>5 DEF PersistSet, AddPipelineResult, Meeting, NoCopy, Final, queue, keys
<1>6. CASE PutResult(w, s)
  BY <1>6 DEF PutResult, queue
<1>7. CASE PutDone(w, s)
  BY <1>7 DEF PutDone, queue
<1>8. CASE Check(w, s)
  <2>1. \/ Goto(w, s, "return")
        \/ done[Other(w)] /\ (Goto(w, s, "completeGet") \/ Goto(w, s, "readSummary"))
    BY <1>8 DEF Check, OtherDone
  <2> HIDE DEF Goto, TypeOK
  <2> QED
    BY <1>8, <2>1, GotoMoves DEF Check, queue, keys
<1>9. CASE ReadSummary(w, s)
  BY <1>9 DEF ReadSummary, queue, keys
<1>10. CASE CompleteGet(w, s)
  BY <1>10 DEF CompleteGet, queue, keys
<1>11. CASE CompleteSet(w, s)
  <2>1. \A v \in Worker : answered[v] # {}
    BY <1>11 DEF CompleteSet, Worker, Other
  <2> QED
    BY <1>11, <2>1 DEF CompleteSet, NoCopy, Final, queue, keys
<1>12. CASE Return(w, s)
  BY <1>12, BackedLeave DEF Return
<1> QED
  BY <1>1, <1>2, <1>3, <1>4, <1>5, <1>6, <1>7, <1>8, <1>9, <1>10, <1>11, <1>12
     DEF Step

LEMMA BackedNext ==
  TypeOK /\ BackedInvariant /\ [Next]_vars => BackedInvariant'
<1> SUFFICES ASSUME TypeOK, BackedInvariant, [Next]_vars
             PROVE  BackedInvariant'
  OBVIOUS
<1>1. CASE UNCHANGED vars
  BY <1>1 DEF BackedInvariant, Extracted, Settled, vars, queue, keys, locals
<1>2. ASSUME NEW w \in Worker, FanOut(w) \/ Stall(w) PROVE BackedInvariant'
  BY <1>2 DEF BackedInvariant, Extracted, Settled, FanOut, Stall, keys, locals
<1>3. ASSUME NEW w \in Worker, Expire(w) PROVE BackedInvariant'
  BY <1>3 DEF BackedInvariant, Extracted, Settled, Expire, TypeOK, queue, locals
<1>4. ASSUME NEW w \in Worker, NEW s \in Slot, Deliver(w, s) PROVE BackedInvariant'
  BY <1>4 DEF BackedInvariant, Extracted, Settled, Deliver, TypeOK, keys
<1>5. ASSUME NEW w \in Worker, NEW s \in Slot, Throw(w, s) \/ Crash(w, s)
      PROVE  BackedInvariant'
  BY <1>5, BackedLeave DEF Throw, Crash
<1> QED
  BY <1>1, <1>2, <1>3, <1>4, <1>5, BackedProcess DEF Next

(* Nobody announces the end of a meeting before both workers extracted a   *)
(* result, however often the jobs are delivered, whether or not deliveries *)
(* overlap and keys expire.                                                *)
THEOREM NoEarlyConsolidationHolds == Spec => []NoEarlyConsolidation
<1>1. BackedInvariant => NoEarlyConsolidation
  BY DEF BackedInvariant, NoEarlyConsolidation, Extracted
<1> QED
  BY TypeCorrect, BackedInit, BackedNext, <1>1, PTL DEF Spec

-----------------------------------------------------------------------------
(* COMPLETED takes a real summary, as long as no key expires.               *)

(* The inductive invariant behind CompletedIsEarned, for keys that do not    *)
(* expire and deliveries that may overlap: whatever a key or a processor     *)
(* holds has been an answer of the worker's extraction.                      *)

Earned == "ok" \in answered["summary"]

EarnedInvariant ==
  /\ CompletedIsEarned
  /\ \A w \in Worker :
       /\ cache[w] \in {None} \union answered[w]
       /\ result[w] \in {None} \union answered[w]
       /\ done[w] => result[w] # None
       /\ \A s \in Slot :
            /\ res[w][s] \in {None} \union answered[w]
            /\ pc[w][s] \notin {"idle", "lookup", "extract"} => res[w][s] # None
            /\ pc[w][s] = "putDone" => result[w] # None
            /\ pc[w][s] = "readSummary" => w = "deadlines" /\ done["summary"]
            /\ pc[w][s] \in {"completeGet", "completeSet"} =>
                 w = "summary" \/ sumFallback[w][s] \/ Earned
            /\ copy[w][s].status = "COMPLETED" => Earned

LEMMA EarnedInit == Init => EarnedInvariant
BY FanInAssumption DEF Init, EarnedInvariant, CompletedIsEarned, NoCopy, None

(* What an action has to show that moves the delivery in slot s of w to      *)
(* label, and changes no other delivery and no other worker's keys.         *)
LEMMA EarnedMove ==
  ASSUME TypeOK, EarnedInvariant, NEW w \in Worker, NEW s \in Slot,
         NEW label, Goto(w, s, label),
         \A v \in Worker, t \in Slot : v # w \/ t # s =>
           /\ res'[v][t] = res[v][t]
           /\ copy'[v][t] = copy[v][t] /\ sumFallback'[v][t] = sumFallback[v][t],
         \A v \in Worker : v # w =>
           cache'[v] = cache[v] /\ result'[v] = result[v] /\ done'[v] = done[v],
         \A v \in Worker : answered[v] \subseteq answered'[v],
         meeting'.status = "COMPLETED" => Earned',
         cache'[w] \in {None} \union answered'[w],
         result'[w] \in {None} \union answered'[w],
         result[w] # None => result'[w] # None,
         done[w] => done'[w],
         done'[w] => result'[w] # None,
         res'[w][s] \in {None} \union answered'[w],
         label \notin {"idle", "lookup", "extract"} => res'[w][s] # None,
         label = "putDone" => result'[w] # None,
         label = "readSummary" => w = "deadlines" /\ done["summary"],
         label \in {"completeGet", "completeSet"} =>
           w = "summary" \/ sumFallback'[w][s] \/ Earned',
         copy'[w][s].status = "COMPLETED" => Earned'
  PROVE  EarnedInvariant'
<1>1. Earned => Earned'
  BY DEF Earned, Worker
<1>2. \A v \in Worker :
        /\ cache'[v] \in {None} \union answered'[v]
        /\ result'[v] \in {None} \union answered'[v]
        /\ done'[v] => result'[v] # None
        /\ done[v] => done'[v]
        /\ result[v] # None => result'[v] # None
  BY DEF EarnedInvariant
<1>3. "summary" \in Worker
  BY DEF Worker
<1>4. ASSUME NEW v \in Worker, NEW t \in Slot
      PROVE  /\ res'[v][t] \in {None} \union answered'[v]
             /\ pc'[v][t] \notin {"idle", "lookup", "extract"} => res'[v][t] # None
             /\ pc'[v][t] = "putDone" => result'[v] # None
             /\ pc'[v][t] = "readSummary" => v = "deadlines" /\ done'["summary"]
             /\ pc'[v][t] \in {"completeGet", "completeSet"} =>
                  v = "summary" \/ sumFallback'[v][t] \/ Earned'
             /\ copy'[v][t].status = "COMPLETED" => Earned'
  <2>1. CASE v = w /\ t = s
    BY <1>2, <1>3, <2>1, GotoMoves
  <2>2. CASE v # w \/ t # s
    BY <1>1, <1>2, <1>3, <2>2, GotoMoves DEF EarnedInvariant
  <2> QED
    BY <2>1, <2>2
<1> QED
  BY <1>2, <1>4 DEF EarnedInvariant, CompletedIsEarned, Earned

(* The queue's steps and the ends of a delivery change no key.              *)
LEMMA EarnedLeave ==
  ASSUME TypeOK, EarnedInvariant, NEW w \in Worker, NEW s \in Slot, Leave(w, s)
  PROVE  EarnedInvariant'
BY DEF Leave, TypeOK, NoCopy, keys, None, EarnedInvariant, CompletedIsEarned, Earned

LEMMA EarnedQueue ==
  ASSUME TypeOK, EarnedInvariant, NEW w \in Worker,
         \/ FanOut(w) \/ Stall(w)
         \/ \E s \in Slot : Deliver(w, s) \/ Return(w, s) \/ Throw(w, s) \/ Crash(w, s)
  PROVE  EarnedInvariant'
<1>1. CASE FanOut(w) \/ Stall(w)
  BY <1>1 DEF FanOut, Stall, keys, locals, EarnedInvariant, CompletedIsEarned, Earned
<1>2. ASSUME NEW s \in Slot, Deliver(w, s) PROVE EarnedInvariant'
  BY <1>2 DEF Deliver, TypeOK, keys, EarnedInvariant, CompletedIsEarned, Earned
<1> QED
  BY <1>1, <1>2, EarnedLeave DEF Return, Throw, Crash

LEMMA EarnedProcess ==
  ASSUME TypeOK, EarnedInvariant, NEW w \in Worker, NEW s \in Slot,
         Step(w, s), ~Return(w, s)
  PROVE  EarnedInvariant'
<1> DEFINE Others ==
      \A v \in Worker, t \in Slot : v # w \/ t # s =>
        copy'[v][t] = copy[v][t] /\ res'[v][t] = res[v][t] /\ sumFallback'[v][t] = sumFallback[v][t]
<1>1. /\ res[w][s] \in {None} \union answered[w]
      /\ pc[w][s] \notin {"idle", "lookup", "extract"} => res[w][s] # None
      /\ cache[w] \in {None} \union answered[w] /\ result[w] \in {None} \union answered[w]
      /\ done[w] => result[w] # None
      /\ meeting.status = "COMPLETED" => Earned
      /\ copy[w][s].status = "COMPLETED" => Earned
  BY DEF EarnedInvariant, CompletedIsEarned, Earned
<1> USE DEF TypeOK, keys
<1>2. CASE Lookup(w, s)
  <2>1. \/ cache[w] # None /\ res'[w][s] = cache[w] /\ Goto(w, s, "putResult")
        \/ Goto(w, s, "extract") /\ UNCHANGED res
    BY <1>2 DEF Lookup, OnHit
  <2>2. Others /\ UNCHANGED <<meeting, cache, result, done, copy, sumFallback, answered>>
    BY <1>2 DEF Lookup
  <2>3. CASE cache[w] # None /\ res'[w][s] = cache[w] /\ Goto(w, s, "putResult")
    BY <1>1, <2>2, <2>3, EarnedMove DEF Earned
  <2>4. CASE Goto(w, s, "extract") /\ UNCHANGED res
    BY <1>1, <2>2, <2>4, EarnedMove DEF Earned
  <2> QED
    BY <2>1, <2>3, <2>4
<1>3. CASE Extract(w, s)
  <2>1. /\ Goto(w, s, "store") /\ Others
        /\ UNCHANGED <<meeting, cache, result, done, copy, sumFallback>>
    BY <1>3 DEF Extract
  <2>2. PICK r \in Result : /\ res' = [res EXCEPT ![w][s] = r]
                            /\ answered' = [answered EXCEPT ![w] = @ \union {r}]
    BY <1>3 DEF Extract
  <2>3. /\ r \in answered'[w] /\ r # None
        /\ \A v \in Worker : answered[v] \subseteq answered'[v]
    BY <2>2 DEF Result, None
  <2>4. Earned => Earned'
    BY <2>3 DEF Earned, Worker
  <2>5. res'[w][s] = r
    BY <2>2
  <2> QED
    BY <1>1, <2>1, <2>3, <2>4, <2>5, EarnedMove
<1>4. CASE Store(w, s)
  <2>1. /\ pc[w][s] = "store" /\ Goto(w, s, "persistGet")
        /\ cache'[w] = res[w][s] /\ \A v \in Worker : v # w => cache'[v] = cache[v]
        /\ UNCHANGED <<meeting, result, done, res, copy, sumFallback, answered>>
    BY <1>4 DEF Store
  <2> QED
    BY <1>1, <2>1, EarnedMove DEF Earned
<1>5. CASE PersistGet(w, s)
  <2>1. /\ pc[w][s] = "persistGet" /\ Goto(w, s, "persistSet")
        /\ copy'[w][s] = meeting /\ Others
        /\ UNCHANGED <<meeting, cache, result, done, res, sumFallback, answered>>
    BY <1>5 DEF PersistGet
  <2> QED
    BY <1>1, <2>1, EarnedMove DEF Earned
<1>6. CASE PersistSet(w, s)
  <2>1. /\ pc[w][s] = "persistSet" /\ Goto(w, s, "putResult")
        /\ meeting' = AddPipelineResult(copy[w][s], w, res[w][s])
        /\ copy'[w][s] = NoCopy /\ Others
        /\ UNCHANGED <<cache, result, done, res, sumFallback, answered>>
    BY <1>6 DEF PersistSet
  <2>2. meeting'.status = copy[w][s].status
    BY <2>1 DEF AddPipelineResult, Meeting
  <2>3. copy'[w][s].status = "PENDING"
    BY <2>1 DEF NoCopy
  <2> QED
    BY <1>1, <2>1, <2>2, <2>3, EarnedMove DEF Earned
<1>7. CASE PutResult(w, s)
  <2>1. /\ pc[w][s] = "putResult" /\ Goto(w, s, "putDone")
        /\ result'[w] = res[w][s] /\ \A v \in Worker : v # w => result'[v] = result[v]
        /\ UNCHANGED <<meeting, cache, done, res, copy, sumFallback, answered>>
    BY <1>7 DEF PutResult
  <2> QED
    BY <1>1, <2>1, EarnedMove DEF Earned
<1>8. CASE PutDone(w, s)
  <2>1. /\ pc[w][s] = "putDone" /\ Goto(w, s, "check")
        /\ done'[w] = TRUE /\ \A v \in Worker : v # w => done'[v] = done[v]
        /\ UNCHANGED <<meeting, cache, result, res, copy, sumFallback, answered>>
    BY <1>8 DEF PutDone
  <2>2. result[w] # None
    BY <2>1 DEF EarnedInvariant
  <2> QED
    BY <1>1, <2>1, <2>2, EarnedMove DEF Earned
<1>9. CASE Check(w, s)
  <2>1. /\ pc[w][s] = "check"
        /\ UNCHANGED <<meeting, cache, result, done, res, copy, sumFallback, answered>>
        /\ \/ w = "summary" /\ Goto(w, s, "completeGet")
           \/ w = "deadlines" /\ done["summary"] /\ Goto(w, s, "readSummary")
           \/ Goto(w, s, "return")
    BY <1>9 DEF Check, OtherDone, Other
  <2> QED
    BY <1>1, <2>1, EarnedMove DEF Earned
<1>10. CASE ReadSummary(w, s)
  <2>1. /\ pc[w][s] = "readSummary" /\ Goto(w, s, "completeGet")
        /\ sumFallback'[w][s] = (result["summary"] = "degraded") /\ Others
        /\ UNCHANGED <<meeting, cache, result, done, res, copy, answered>>
    BY <1>10 DEF ReadSummary
  <2>2. result["summary"] \in answered["summary"] /\ result["summary"] \in Result
    <3>1. done["summary"] /\ "summary" \in Worker
      BY <2>1 DEF EarnedInvariant, Worker
    <3> QED
      BY <3>1 DEF EarnedInvariant
  <2>3. sumFallback'[w][s] \/ Earned
    BY <2>1, <2>2 DEF Earned, Result
  <2> QED
    BY <1>1, <2>1, <2>3, EarnedMove DEF Earned
<1>11. CASE CompleteGet(w, s)
  <2>1. /\ pc[w][s] = "completeGet" /\ Goto(w, s, "completeSet")
        /\ copy'[w][s] = meeting /\ Others
        /\ UNCHANGED <<meeting, cache, result, done, res, sumFallback, answered>>
    BY <1>11 DEF CompleteGet
  <2>2. w = "summary" \/ sumFallback[w][s] \/ Earned
    BY <2>1 DEF EarnedInvariant
  <2> QED
    BY <1>1, <2>1, <2>2, EarnedMove DEF Earned
<1>12. CASE CompleteSet(w, s)
  <2>1. /\ pc[w][s] = "completeSet" /\ Goto(w, s, "return")
        /\ meeting' = SetCompleted(copy[w][s], HasPartial(w, s))
        /\ copy'[w][s] = NoCopy /\ Others
        /\ UNCHANGED <<cache, result, done, res, sumFallback, answered>>
    BY <1>12 DEF CompleteSet
  <2>2. w = "summary" \/ sumFallback[w][s] \/ Earned
    BY <2>1 DEF EarnedInvariant
  <2>3. meeting'.status = "COMPLETED" => ~HasPartial(w, s)
    BY <2>1 DEF SetCompleted, Meeting
  <2>4. res[w][s] \in Result /\ res[w][s] \in answered[w]
    BY <1>1, <2>1
  <2>5. meeting'.status = "COMPLETED" => Earned
    BY <2>2, <2>3, <2>4 DEF HasPartial, Result, Earned, Worker
  <2>6. copy'[w][s].status = "PENDING"
    BY <2>1 DEF NoCopy
  <2> QED
    BY <1>1, <2>1, <2>5, <2>6, EarnedMove DEF Earned
<1> QED
  BY <1>2, <1>3, <1>4, <1>5, <1>6, <1>7, <1>8, <1>9, <1>10, <1>11, <1>12 DEF Step

LEMMA EarnedNext ==
  ASSUME ~KeysExpire
  PROVE  TypeOK /\ EarnedInvariant /\ [Next]_vars => EarnedInvariant'
<1> SUFFICES ASSUME TypeOK, EarnedInvariant, [Next]_vars
             PROVE  EarnedInvariant'
  OBVIOUS
<1>1. CASE UNCHANGED vars
  BY <1>1 DEF EarnedInvariant, CompletedIsEarned, Earned, vars, keys, locals
<1>2. ASSUME NEW w \in Worker, NEW s \in Slot, Step(w, s) PROVE EarnedInvariant'
  BY <1>2, EarnedQueue, EarnedProcess
<1>3. \A w \in Worker : ~Expire(w)
  BY DEF Expire
<1> QED
  BY <1>1, <1>2, <1>3, EarnedQueue DEF Next

(* COMPLETED is never written without a real summary, whether or not        *)
(* deliveries overlap: every copy of a result goes back to an answer.       *)
THEOREM CompletedIsEarnedHolds == ASSUME ~KeysExpire PROVE Spec => []CompletedIsEarned
<1>1. EarnedInvariant => CompletedIsEarned
  BY DEF EarnedInvariant
<1> QED
  BY TypeCorrect, EarnedInit, EarnedNext, <1>1, PTL DEF Spec

-----------------------------------------------------------------------------
(* The join, for jobs with one delivery at a time and keys that live.      *)

Calm == LocksLapse = {} /\ ~KeysExpire

LEMMA JoinInit == Init => JoinInvariant
<1> SUFFICES ASSUME Init PROVE JoinInvariant
  OBVIOUS
<1>1. ~Settled
  BY FanInAssumption DEF Init, Settled, Final, NoCopy
<1>2. \A w \in Worker : /\ job[w] = "absent" /\ ~done[w] /\ cache[w] = None
                        /\ \A s \in Slot : pc[w][s] = "idle"
  BY DEF Init
<1>3. OneDelivery /\ PersistsFirst /\ FlagsFirst
  BY <1>1, <1>2 DEF OneDelivery, PersistsFirst, FlagsFirst, Persisting, Concluding
<1>4. \A w \in Worker : ~Passed(w)
  BY <1>2 DEF Passed
<1>5. "summary" \in Worker
  BY DEF Worker
<1> QED
  BY <1>3, <1>4, <1>5 DEF JoinInvariant

(* Steps after which no delivery does anything new, and a job is completed *)
(* only by a delivery that was about to return.                            *)
LEMMA JoinIdle ==
  ASSUME JoinInvariant, NEW w \in Worker,
         UNCHANGED <<cache, done, meeting>>,
         \A v \in Worker, t \in Slot :
           /\ pc'[v][t] \in {pc[v][t], "idle"}
           /\ v # w => pc'[v][t] = pc[v][t]
           /\ pc'[v][t] # "idle" => copy'[v][t] = copy[v][t] /\ res'[v][t] = res[v][t],
         \A v \in Worker : v # w => job'[v] = job[v] /\ holder'[v] = holder[v],
         job'[w] = "active" => job[w] = "active" /\ holder'[w] = holder[w],
         job'[w] # "active" => \A t \in Slot : pc'[w][t] = "idle",
         job'[w] = "completed" => Passed(w)
  PROVE  JoinInvariant'
<1>1. OneDelivery'
  BY DEF JoinInvariant, OneDelivery
<1>2. PersistsFirst'
  BY DEF JoinInvariant, PersistsFirst, Persisting
<1>3. \A v \in Worker : Passed(v) => done[v]
  BY DEF JoinInvariant, FlagsFirst, Passed
<1>4. \A v \in Worker : Passed(v)' => Passed(v)
  BY DEF Passed
<1>5. FlagsFirst'
  BY <1>3, <1>4 DEF JoinInvariant, FlagsFirst, Passed, Settled, Concluding
<1> QED
  BY <1>1, <1>2, <1>4, <1>5 DEF JoinInvariant, Settled

(* The queue's own steps and the ends of a delivery. *)
LEMMA JoinQueue ==
  ASSUME Calm, TypeOK, QueueInvariant, JoinInvariant, NEW w \in Worker,
         \/ FanOut(w) \/ Stall(w)
         \/ \E s \in Slot : Return(w, s) \/ Throw(w, s) \/ Crash(w, s)
  PROVE  JoinInvariant'
<1>1. /\ job[w] = "active" => holder[w] \in Slot
      /\ \A s \in Slot : pc[w][s] # "idle" => job[w] = "active" /\ holder[w] = s
  BY DEF JoinInvariant, OneDelivery
<1>2. CASE FanOut(w)
  <2>1. /\ \A v \in Worker : v # w => job'[v] = job[v]
        /\ job'[w] = "waiting"
        /\ UNCHANGED <<cache, done, meeting, pc, res, copy, holder>>
    BY <1>2 DEF FanOut, TypeOK, keys, locals
  <2>2. \A s \in Slot : pc'[w][s] = "idle"
    BY <1>1, <1>2, <2>1 DEF FanOut
  <2> QED
    BY <2>1, <2>2, JoinIdle
<1>3. CASE Stall(w)
  <2>1. /\ \A v \in Worker : v # w => job'[v] = job[v] /\ holder'[v] = holder[v]
        /\ job'[w] \in {"waiting", "failed"}
        /\ UNCHANGED <<cache, done, meeting, pc, res, copy>>
    BY <1>3 DEF Stall, TypeOK, keys, locals
  <2>2. \A s \in Slot : pc'[w][s] = "idle"
    BY <1>1, <1>3, <2>1 DEF Stall, Calm
  <2> QED
    BY <2>1, <2>2, JoinIdle
<1>4. ASSUME NEW s \in Slot, Leave(w, s)
      PROVE  /\ UNCHANGED <<cache, done, meeting>>
             /\ \A v \in Worker, t \in Slot :
                  /\ pc'[v][t] \in {pc[v][t], "idle"}
                  /\ v # w => pc'[v][t] = pc[v][t]
                  /\ pc'[v][t] # "idle" =>
                       copy'[v][t] = copy[v][t] /\ res'[v][t] = res[v][t]
             /\ holder[w] = s => \A t \in Slot : pc'[w][t] = "idle"
  BY <1>1, <1>4 DEF Leave, TypeOK, keys
<1>5. ASSUME NEW s \in Slot, Return(w, s) PROVE JoinInvariant'
  <2>1. Leave(w, s) /\ Passed(w) /\ holder[w] = s
    BY <1>1, <1>5 DEF Return, Passed
  <2>2. /\ job' = [job EXCEPT ![w] = "completed"]
        /\ holder' = [holder EXCEPT ![w] = None]
    BY <1>5, <2>1 DEF Return
  <2>3. /\ \A v \in Worker : v # w => job'[v] = job[v] /\ holder'[v] = holder[v]
        /\ job'[w] = "completed"
    BY <2>2 DEF TypeOK
  <2> QED
    BY <1>4, <2>1, <2>3, JoinIdle
<1>6. ASSUME NEW s \in Slot, Throw(w, s) PROVE JoinInvariant'
  <2>1. Leave(w, s) /\ holder[w] = s
    BY <1>1, <1>6 DEF Throw
  <2>2. /\ job' = [job EXCEPT ![w] = IF Retries(w) THEN "waiting" ELSE "failed"]
        /\ holder' = [holder EXCEPT ![w] = None]
    BY <1>6, <2>1 DEF Throw
  <2>3. /\ \A v \in Worker : v # w => job'[v] = job[v] /\ holder'[v] = holder[v]
        /\ job'[w] \in {"waiting", "failed"}
    BY <2>2 DEF TypeOK
  <2> QED
    BY <1>4, <2>1, <2>3, JoinIdle
<1>7. ASSUME NEW s \in Slot, Crash(w, s) PROVE JoinInvariant'
  <2>1. Leave(w, s) /\ holder[w] = s /\ job[w] = "active" /\ UNCHANGED <<job, holder>>
    BY <1>1, <1>7 DEF Crash, queue
  <2> QED
    BY <1>4, <2>1, JoinIdle
<1> QED
  BY <1>2, <1>3, <1>5, <1>6, <1>7

LEMMA JoinDeliver ==
  ASSUME TypeOK, JoinInvariant, NEW w \in Worker, NEW s \in Slot, Deliver(w, s)
  PROVE  JoinInvariant'
<1>1. /\ \A v \in Worker : v # w => job'[v] = job[v] /\ holder'[v] = holder[v]
      /\ job[w] = "waiting" /\ job'[w] = "active" /\ holder'[w] = s
      /\ \A v \in Worker, t \in Slot :
           pc'[v][t] = IF v = w /\ t = s THEN "lookup" ELSE pc[v][t]
      /\ UNCHANGED <<cache, done, meeting, copy, res>>
  BY DEF Deliver, TypeOK, keys
<1>2. OneDelivery'
  BY <1>1 DEF JoinInvariant, OneDelivery
<1>3. PersistsFirst'
  BY <1>1 DEF JoinInvariant, PersistsFirst, Persisting
<1>4. FlagsFirst'
  BY <1>1 DEF JoinInvariant, FlagsFirst, Settled, Concluding
<1>5. \A v \in Worker : Passed(v)' => Passed(v)
  BY <1>1 DEF Passed
<1> QED
  BY <1>1, <1>2, <1>3, <1>4, <1>5 DEF JoinInvariant, Settled

(* A step of process() moves the one delivery of its job from label to    *)
(* label, so OneDelivery holds after it, and nobody is past the look at    *)
(* the other's flag who was not before, unless the step moves there.       *)
LEMMA JoinMove ==
  ASSUME TypeOK, JoinInvariant, NEW w \in Worker, NEW s \in Slot, NEW label,
         pc[w][s] # "idle", Goto(w, s, label), UNCHANGED queue
  PROVE  /\ OneDelivery'
         /\ \A v \in Worker, t \in Slot :
              pc'[v][t] = IF v = w /\ t = s THEN label ELSE pc[v][t]
         /\ \A t \in Slot : t # s => pc'[w][t] = "idle"
         /\ \A v \in Worker : v # w => Passed(v)' = Passed(v)
         /\ job'[w] = "active"
         /\ label # "return" => ~Passed(w)'
         /\ UNCHANGED job
<1>1. \A v \in Worker, t \in Slot :
        pc'[v][t] = IF v = w /\ t = s THEN label ELSE pc[v][t]
  BY GotoMoves
<1>2. \A t \in Slot : t # s => pc[w][t] = "idle"
  BY DEF JoinInvariant, OneDelivery
<1>3. job[w] = "active" /\ UNCHANGED <<job, holder>>
  BY DEF JoinInvariant, OneDelivery, queue
<1>4. OneDelivery'
  BY <1>1, <1>3 DEF JoinInvariant, OneDelivery
<1>5. \A v \in Worker : v # w => Passed(v)' = Passed(v)
  BY <1>1, <1>3 DEF Passed
<1>6. label # "return" => ~Passed(w)'
  BY <1>1, <1>2, <1>3 DEF Passed
<1> QED
  BY <1>1, <1>2, <1>3, <1>4, <1>5, <1>6

LEMMA JoinProcess ==
  ASSUME TypeOK, JoinInvariant, NEW w \in Worker, NEW s \in Slot,
         Step(w, s), ~Return(w, s)
  PROVE  JoinInvariant'
<1>1. UNCHANGED queue
  BY TypeProcess
<1> USE OtherIsWorker
<1> USE DEF JoinInvariant, PersistsFirst, FlagsFirst, Settled, Persisting,
            Concluding
<1>2. CASE Lookup(w, s)
  <2>1. \/ cache[w] # None /\ Goto(w, s, "putResult")
        \/ cache[w] = None /\ Goto(w, s, "extract")
    BY <1>2 DEF Lookup, OnHit
  <2>2. /\ pc[w][s] = "lookup" /\ UNCHANGED <<cache, done, meeting, copy>>
        /\ \A v \in Worker, t \in Slot : v # w \/ t # s => res'[v][t] = res[v][t]
    BY <1>2 DEF Lookup, keys, TypeOK
  <2> QED
    BY <1>1, <2>1, <2>2, JoinMove
<1>3. CASE Extract(w, s)
  <2>1. /\ pc[w][s] = "extract" /\ Goto(w, s, "store")
        /\ UNCHANGED <<cache, done, meeting, copy>>
        /\ res'[w][s] # None
        /\ \A v \in Worker, t \in Slot : v # w \/ t # s => res'[v][t] = res[v][t]
    BY <1>3 DEF Extract, keys, TypeOK, Result, None
  <2> QED
    BY <1>1, <2>1, JoinMove
<1>4. CASE Store(w, s)
  <2>1. /\ pc[w][s] = "store" /\ Goto(w, s, "persistGet")
        /\ UNCHANGED <<done, meeting, copy, res>>
        /\ cache'[w] # None /\ \A v \in Worker : v # w => cache'[v] = cache[v]
    BY <1>4 DEF Store, TypeOK
  <2> QED
    BY <1>1, <2>1, JoinMove
<1>5. CASE PersistGet(w, s)
  <2>1. /\ pc[w][s] = "persistGet" /\ Goto(w, s, "persistSet")
        /\ UNCHANGED <<cache, done, meeting, res>>
        /\ copy'[w][s] = meeting
        /\ \A v \in Worker, t \in Slot : v # w \/ t # s => copy'[v][t] = copy[v][t]
    BY <1>5 DEF PersistGet, keys, TypeOK
  <2> QED
    BY <1>1, <2>1, JoinMove
<1>6. CASE PersistSet(w, s)
  <2>1. /\ pc[w][s] = "persistSet" /\ Goto(w, s, "putResult")
        /\ UNCHANGED <<cache, done, res>>
        /\ \A v \in Worker, t \in Slot : v # w \/ t # s => copy'[v][t] = copy[v][t]
    BY <1>6 DEF PersistSet, keys, TypeOK
  <2>2. meeting'.status = copy[w][s].status
    BY <1>6 DEF PersistSet, AddPipelineResult, TypeOK, Meeting
  <2>3. ~Settled' /\ ~Settled
    BY <2>1, <2>2
  <2> QED
    BY <1>1, <2>1, <2>3, JoinMove
<1>7. CASE PutResult(w, s)
  <2>1. /\ pc[w][s] = "putResult" /\ Goto(w, s, "putDone")
        /\ UNCHANGED <<cache, done, meeting, copy, res>>
    BY <1>7 DEF PutResult
  <2> QED
    BY <1>1, <2>1, JoinMove
<1>8. CASE PutDone(w, s)
  <2>1. /\ pc[w][s] = "putDone" /\ Goto(w, s, "check")
        /\ UNCHANGED <<cache, meeting, copy, res>>
        /\ done'[w] /\ \A v \in Worker : v # w => done'[v] = done[v]
    BY <1>8 DEF PutDone, TypeOK
  <2> QED
    BY <1>1, <2>1, JoinMove
<1>9. CASE Check(w, s)
  <2>1. /\ pc[w][s] = "check" /\ UNCHANGED <<cache, done, meeting, copy, res>>
        /\ \/ done[Other(w)] /\ (Goto(w, s, "completeGet") \/ Goto(w, s, "readSummary"))
           \/ ~done[Other(w)] /\ Goto(w, s, "return")
    BY <1>9 DEF Check, OtherDone, keys
  <2>2. ~done[Other(w)] => ~Passed(Other(w))
    BY DEF Passed
  <2> QED
    BY <1>1, <2>1, <2>2, JoinMove
<1>10. CASE ReadSummary(w, s)
  <2>1. /\ pc[w][s] = "readSummary" /\ Goto(w, s, "completeGet")
        /\ UNCHANGED <<cache, done, meeting, copy, res>>
    BY <1>10 DEF ReadSummary, keys
  <2> QED
    BY <1>1, <2>1, JoinMove
<1>11. CASE CompleteGet(w, s)
  <2>1. /\ pc[w][s] = "completeGet" /\ Goto(w, s, "completeSet")
        /\ UNCHANGED <<cache, done, meeting, res>>
        /\ \A v \in Worker, t \in Slot : v # w \/ t # s => copy'[v][t] = copy[v][t]
    BY <1>11 DEF CompleteGet, keys, TypeOK
  <2> QED
    BY <1>1, <2>1, JoinMove
<1>12. CASE CompleteSet(w, s)
  <2>1. /\ pc[w][s] = "completeSet" /\ Goto(w, s, "return")
        /\ UNCHANGED <<cache, done, res>>
        /\ \A v \in Worker, t \in Slot : v # w \/ t # s => copy'[v][t] = copy[v][t]
    BY <1>12 DEF CompleteSet, keys, TypeOK
  <2>2. Settled'
    BY <1>12 DEF CompleteSet, SetCompleted, TypeOK, Meeting, Final
  <2>3. \A v \in Worker : done[v]
    BY <2>1 DEF Worker, Other
  <2> QED
    BY <1>1, <2>1, <2>2, <2>3, JoinMove
<1> QED
  BY <1>2, <1>3, <1>4, <1>5, <1>6, <1>7, <1>8, <1>9, <1>10, <1>11, <1>12 DEF Step

LEMMA JoinNext ==
  ASSUME Calm
  PROVE  TypeOK /\ QueueInvariant /\ JoinInvariant /\ [Next]_vars => JoinInvariant'
<1> SUFFICES ASSUME TypeOK, QueueInvariant, JoinInvariant, [Next]_vars
             PROVE  JoinInvariant'
  OBVIOUS
<1>1. CASE UNCHANGED vars
  BY <1>1 DEF JoinInvariant, OneDelivery, PersistsFirst, FlagsFirst, Passed,
              Settled, vars, queue, keys, locals
<1>2. ASSUME NEW w \in Worker, NEW s \in Slot, Step(w, s) PROVE JoinInvariant'
  BY <1>2, JoinQueue, JoinProcess
<1>3. \A w \in Worker : ~Expire(w)
  BY DEF Expire, Calm
<1> QED
  BY <1>1, <1>2, <1>3, JoinQueue, JoinDeliver DEF Next

(* A job's successive deliveries cache, persist and raise their flag in this *)
(* order, whichever of them breaks off, and no meeting is settled before     *)
(* both flags are up.                                                        *)
THEOREM JoinInvariantHolds == ASSUME Calm PROVE Spec => []JoinInvariant
BY TypeCorrect, JoinInit, JoinNext, PTL DEF Spec

(* Two workers that finish together cannot both miss the other's flag, and *)
(* no stale copy takes the final status back: once both jobs are completed *)
(* the meeting is settled.                                                 *)
THEOREM JoinCompleteHolds == ASSUME Calm PROVE Spec => []JoinComplete
<1>1. JoinInvariant => JoinComplete
  BY DEF JoinInvariant, JoinComplete, Passed
<1> QED
  BY JoinInvariantHolds, <1>1, PTL

(* No step takes a settled meeting back: the worker that rewrites the      *)
(* document without a final status has not raised its flag, and without    *)
(* both flags no meeting is settled.                                       *)
THEOREM FinalIsStableHolds == ASSUME Calm PROVE Spec => FinalIsStable
<1>1. TypeOK /\ JoinInvariant /\ [Next]_vars => [Settled => Settled']_vars
  <2> SUFFICES ASSUME TypeOK, JoinInvariant, Next, Settled PROVE Settled'
    BY DEF vars, queue, keys, locals, Settled
  <2>1. \A w \in Worker : done[w]
    BY DEF JoinInvariant, FlagsFirst
  <2>2. ASSUME NEW w \in Worker, NEW s \in Slot, Step(w, s) PROVE Settled'
    <3>1. CASE CompleteSet(w, s)
      BY <3>1 DEF CompleteSet, SetCompleted, TypeOK, Meeting, Settled, Final
    <3>2. ~PersistSet(w, s)
      BY <2>1 DEF JoinInvariant, PersistsFirst, Persisting, PersistSet
    <3>3. CASE ~CompleteSet(w, s)
      BY <2>2, <3>2, <3>3
         DEF Settled, Step, Lookup, Extract, Store, PersistGet, PutResult, PutDone,
             Check, ReadSummary, CompleteGet, Return, Leave
    <3> QED
      BY <3>1, <3>3
  <2> QED
    BY <2>2 DEF Next, FanOut, Stall, Expire, Deliver, Throw, Crash, Leave, Settled
<1> QED
  BY TypeCorrect, JoinInvariantHolds, <1>1, PTL DEF Spec, FinalIsStable

(* No delivery extracts a result that is cached already: who is about to   *)
(* extract has found the cache empty, and holds the job's only lock.       *)
THEOREM CacheShieldsHolds == ASSUME Calm PROVE Spec => CacheShields
<1>1. JoinInvariant => [\A w \in Worker, s \in Slot : Extract(w, s) => cache[w] = None]_vars
  BY DEF JoinInvariant, PersistsFirst, Extract
<1> QED
  BY JoinInvariantHolds, <1>1, PTL DEF CacheShields
=============================================================================
