----------------------------- MODULE JoinProofs -----------------------------
(* Proof that the join implements Join when every job has one delivery at a  *)
(* time and no key expires, for any number of attempts, stalls and slots.    *)
EXTENDS FanInRefinement, FanInProofs

(* What a worker holds or has read that goes back to an insight is the     *)
(* cached one: the strengthening that ImplementsJoin needs beyond           *)
(* JoinInvariant.                                                           *)

Fits(doc) == \A w \in Worker : doc.pipeline[w] \in {None, cache[w]}

Holding == Persisting \union {"putResult", "putDone", "check"} \union Concluding

InsightInvariant ==
  /\ Fits(meeting)
  /\ Settled => meeting.status \in J!Verdicts
  /\ \A w \in Worker :
       /\ result[w] \in {None, cache[w]}
       /\ done[w] => result[w] # None
       /\ \A s \in Slot :
            /\ Fits(copy[w][s])
            /\ pc[w][s] \in Holding => res[w][s] = cache[w] /\ cache[w] # None
            /\ pc[w][s] = "putDone" => result[w] # None
            /\ pc[w][s] \in {"completeGet", "completeSet"} /\ w = "deadlines" =>
                 sumFallback[w][s] = (cache["summary"] = "degraded")

LEMMA InsightInit == Init => InsightInvariant
BY FanInAssumption DEF Init, InsightInvariant, Fits, NoCopy, Settled, Final, Holding, Persisting, Concluding

(* What is cached stays cached: a result is stored once.                     *)
LEMMA CacheNext ==
  ASSUME Calm, TypeOK, JoinInvariant, [Next]_vars
  PROVE  \/ UNCHANGED cache
         \/ \E w \in Worker, s \in Slot :
              Store(w, s) /\ cache[w] = None /\ res[w][s] \in Result
                /\ cache' = [cache EXCEPT ![w] = res[w][s]]
<1>1. ASSUME NEW w \in Worker, NEW s \in Slot, Store(w, s)
      PROVE  cache[w] = None /\ res[w][s] \in Result
  BY <1>1 DEF Store, JoinInvariant, PersistsFirst, TypeOK
<1>2. ASSUME NEW w \in Worker, NEW s \in Slot, Step(w, s), ~Store(w, s)
      PROVE  UNCHANGED cache
  BY <1>2 DEF Step, Lookup, Extract, PersistGet, PersistSet, PutResult, PutDone, Check,
     ReadSummary, CompleteGet, CompleteSet, Return, Leave, keys
<1>3. ASSUME NEW w \in Worker,
             \/ FanOut(w) \/ Stall(w)
             \/ \E s \in Slot : Deliver(w, s) \/ Throw(w, s) \/ Crash(w, s)
      PROVE  UNCHANGED cache
  BY <1>3 DEF FanOut, Stall, Deliver, Throw, Crash, Leave, keys
<1>4. \A w \in Worker : ~Expire(w)
  BY DEF Expire, Calm
<1>5. CASE UNCHANGED vars
  BY <1>5 DEF vars, keys
<1> QED
  BY <1>1, <1>2, <1>3, <1>4, <1>5 DEF Next, Store

LEMMA FitsNext ==
  ASSUME Calm, TypeOK, JoinInvariant, [Next]_vars
  PROVE  /\ \A w \in Worker : cache[w] # None => cache'[w] = cache[w]
         /\ \A doc : Fits(doc) => \A w \in Worker : doc.pipeline[w] \in {None, cache'[w]}
<1>1. \A w \in Worker : cache[w] # None => cache'[w] = cache[w]
  BY CacheNext DEF TypeOK
<1> QED
  BY <1>1 DEF Fits

(* The queue's steps and the ends of a delivery.                             *)
LEMMA InsightIdle ==
  ASSUME InsightInvariant, UNCHANGED <<keys, meeting>>,
         \A w \in Worker, s \in Slot :
           \/ pc'[w][s] = pc[w][s] /\ copy'[w][s] = copy[w][s] /\ res'[w][s] = res[w][s]
              /\ sumFallback'[w][s] = sumFallback[w][s]
           \/ pc'[w][s] \in {"idle", "lookup"} /\ copy'[w][s] \in {copy[w][s], NoCopy}
  PROVE  InsightInvariant'
<1>1. Fits(NoCopy)
  BY DEF Fits, NoCopy
<1>2. UNCHANGED <<cache, result, done, meeting>>
  BY DEF keys
<1>3. \A w \in Worker, s \in Slot : Fits(copy'[w][s])
  BY <1>1 DEF InsightInvariant
<1>4. J!Verdicts' = J!Verdicts
  BY <1>2 DEF J!Verdicts
<1> QED
  BY <1>2, <1>3, <1>4 DEF InsightInvariant, Fits, Settled, Holding, Persisting, Concluding

LEMMA InsightQueue ==
  ASSUME TypeOK, InsightInvariant, NEW w \in Worker,
         \/ FanOut(w) \/ Stall(w)
         \/ \E s \in Slot : Deliver(w, s) \/ Return(w, s) \/ Throw(w, s) \/ Crash(w, s)
  PROVE  InsightInvariant'
<1>1. CASE FanOut(w) \/ Stall(w)
  BY <1>1, InsightIdle DEF FanOut, Stall, locals
<1>2. ASSUME NEW s \in Slot, Deliver(w, s) PROVE InsightInvariant'
  BY <1>2, InsightIdle DEF Deliver, TypeOK
<1>3. ASSUME NEW s \in Slot, Leave(w, s) PROVE InsightInvariant'
  BY <1>3, InsightIdle DEF Leave, TypeOK
<1> QED
  BY <1>1, <1>2, <1>3 DEF Return, Throw, Crash

(* The status a finisher writes is one the insights allow.                   *)
LEMMA VerdictHonest ==
  ASSUME TypeOK, JoinInvariant, InsightInvariant, NEW w \in Worker, NEW s \in Slot,
         pc[w][s] = "completeSet"
  PROVE  /\ \A v \in Worker : cache[v] \in Result
         /\ SetCompleted(copy[w][s], HasPartial(w, s)).status \in J!Verdicts
<1>1. \A v \in Worker : cache[v] \in Result
  <2>1. done[w] /\ done[Other(w)]
    BY DEF JoinInvariant, FlagsFirst, Concluding
  <2>2. \A v \in Worker : v = w \/ v = Other(w)
    BY DEF Worker, Other
  <2>3. \A v \in Worker : cache[v] # None
    BY <2>1, <2>2 DEF JoinInvariant, PersistsFirst
  <2> QED
    BY <2>3 DEF TypeOK
<1>2. res[w][s] = cache[w]
  BY DEF InsightInvariant, Holding, Concluding
<1>3. w = "deadlines" => sumFallback[w][s] = (cache["summary"] = "degraded")
  BY DEF InsightInvariant
<1>4. SetCompleted(copy[w][s], HasPartial(w, s)).status =
        IF HasPartial(w, s) THEN "PARTIAL" ELSE "COMPLETED"
  BY DEF SetCompleted, TypeOK, Meeting
<1>5. /\ cache["summary"] \in {"ok", "degraded"} /\ cache["deadlines"] \in {"ok", "degraded"}
      /\ w = "summary" \/ w = "deadlines"
  BY <1>1 DEF Worker, Result
<1>6. HasPartial(w, s) => "PARTIAL" \in J!Verdicts
  <2>1. HasPartial(w, s) => cache["summary"] = "degraded" \/ cache["deadlines"] = "degraded"
    BY <1>2, <1>3, <1>5 DEF HasPartial
  <2> QED
    BY <1>5, <2>1 DEF J!Verdicts
<1>7. ~HasPartial(w, s) => "COMPLETED" \in J!Verdicts
  <2>1. ~HasPartial(w, s) => cache["summary"] # "degraded"
    BY <1>2, <1>3, <1>5 DEF HasPartial
  <2> QED
    BY <1>5, <2>1 DEF J!Verdicts
<1> QED
  BY <1>1, <1>4, <1>6, <1>7

(* What an action has to show that moves the delivery in slot s of w to      *)
(* label and leaves every other delivery alone.                              *)
LEMMA InsightMove ==
  ASSUME Calm, TypeOK, JoinInvariant, InsightInvariant, [Next]_vars,
         NEW w \in Worker, NEW s \in Slot, NEW label, Goto(w, s, label),
         Fits(meeting') /\ Fits(copy'[w][s]),
         Settled' => meeting'.status \in J!Verdicts',
         \A v \in Worker, t \in Slot : v # w \/ t # s =>
           copy'[v][t] = copy[v][t] /\ res'[v][t] = res[v][t] /\ sumFallback'[v][t] = sumFallback[v][t],
         \A v \in Worker : v # w => result'[v] = result[v] /\ done'[v] = done[v],
         result'[w] \in {None, cache'[w]},
         result[w] # None => result'[w] # None,
         done'[w] => result'[w] # None,
         label \in Holding => res'[w][s] = cache'[w] /\ cache'[w] # None,
         label = "putDone" => result'[w] # None,
         label \in {"completeGet", "completeSet"} /\ w = "deadlines" =>
           sumFallback'[w][s] = (cache["summary"] = "degraded") /\ cache["summary"] # None
  PROVE  InsightInvariant'
<1>1. \A v \in Worker, t \in Slot :
        pc'[v][t] = IF v = w /\ t = s THEN label ELSE pc[v][t]
  BY GotoMoves
<1>2. \A v \in Worker : cache[v] # None => cache'[v] = cache[v]
  BY FitsNext
<1>3. /\ Fits(meeting)'
      /\ \A v \in Worker, t \in Slot : Fits(copy[v][t])'
  <2>1. \A v \in Worker, t \in Slot : Fits(copy'[v][t])
    BY DEF InsightInvariant
  <2> QED
    BY <2>1, FitsNext DEF Fits
<1>4. \A v \in Worker : result'[v] \in {None, cache'[v]} /\ (done'[v] => result'[v] # None)
  BY <1>2 DEF InsightInvariant
<1>5. \A v \in Worker, t \in Slot :
        /\ pc'[v][t] \in Holding => res'[v][t] = cache'[v] /\ cache'[v] # None
        /\ pc'[v][t] = "putDone" => result'[v] # None
  BY <1>1, <1>2 DEF InsightInvariant
<1>6. "summary" \in Worker
  BY DEF Worker
<1>7. ASSUME NEW v \in Worker, NEW t \in Slot, pc'[v][t] \in {"completeGet", "completeSet"},
             v = "deadlines"
      PROVE  sumFallback'[v][t] = (cache'["summary"] = "degraded")
  <2>1. CASE v = w /\ t = s
    BY <1>1, <1>2, <1>6, <1>7, <2>1
  <2>2. CASE v # w \/ t # s
    <3>1. pc[v][t] \in {"completeGet", "completeSet"} /\ sumFallback'[v][t] = sumFallback[v][t]
      BY <1>1, <1>7, <2>2
    <3>2. cache["summary"] # None
      BY <1>6, <1>7, <3>1 DEF JoinInvariant, FlagsFirst, PersistsFirst, Concluding, Other
    <3> QED
      BY <1>2, <1>6, <1>7, <3>1, <3>2 DEF InsightInvariant
  <2> QED
    BY <2>1, <2>2
<1> QED
  BY <1>3, <1>4, <1>5, <1>7 DEF InsightInvariant, Settled, Holding, Persisting, Concluding

LEMMA VerdictStays ==
  ASSUME Calm, TypeOK, JoinInvariant, InsightInvariant, [Next]_vars, meeting'.status = meeting.status
  PROVE  Settled' => meeting'.status \in J!Verdicts'
<1> SUFFICES ASSUME Settled PROVE meeting.status \in J!Verdicts'
  BY DEF Settled
<1>1. \A v \in Worker : cache[v] # None
  BY DEF JoinInvariant, FlagsFirst, PersistsFirst
<1>2. \A v \in Worker : cache'[v] = cache[v]
  BY <1>1, FitsNext
<1>3. J!Verdicts' = J!Verdicts
  BY <1>2 DEF J!Verdicts, Worker
<1> QED
  BY <1>3 DEF InsightInvariant

LEMMA InsightProcess ==
  ASSUME Calm, TypeOK, JoinInvariant, InsightInvariant, [Next]_vars,
         NEW w \in Worker, NEW s \in Slot, Step(w, s), ~Return(w, s)
  PROVE  InsightInvariant'
<1> DEFINE Others ==
      \A v \in Worker, t \in Slot : v # w \/ t # s =>
        copy'[v][t] = copy[v][t] /\ res'[v][t] = res[v][t] /\ sumFallback'[v][t] = sumFallback[v][t]
<1>1. /\ Fits(meeting) /\ Fits(copy[w][s])
      /\ result[w] \in {None, cache[w]} /\ (done[w] => result[w] # None)
      /\ pc[w][s] \in Holding => res[w][s] = cache[w] /\ cache[w] # None
      /\ pc[w][s] = "putDone" => result[w] # None
  BY DEF InsightInvariant
<1>2. Fits(NoCopy)
  BY DEF Fits, NoCopy
<1> USE DEF TypeOK, Holding, Persisting, Concluding, keys
<1>3. CASE Lookup(w, s)
  <2>1. \/ cache[w] # None /\ res'[w][s] = cache[w] /\ Goto(w, s, "putResult")
        \/ cache[w] = None /\ Goto(w, s, "extract")
    BY <1>3 DEF Lookup, OnHit
  <2>2. Others /\ UNCHANGED <<cache, result, done, meeting, copy>>
    BY <1>3 DEF Lookup
  <2>3. CASE cache[w] # None
    BY <1>1, <2>1, <2>2, <2>3, InsightMove, VerdictStays
  <2>4. CASE cache[w] = None
    BY <1>1, <2>1, <2>2, <2>4, InsightMove, VerdictStays
  <2> QED
    BY <2>3, <2>4
<1>4. CASE Extract(w, s)
  <2>1. Others /\ Goto(w, s, "store") /\ UNCHANGED <<cache, result, done, meeting, copy>>
    BY <1>4 DEF Extract
  <2> QED
    BY <1>1, <2>1, InsightMove, VerdictStays
<1>5. CASE Store(w, s)
  <2>1. Others /\ Goto(w, s, "persistGet") /\ UNCHANGED <<result, done, meeting, copy, res>>
    BY <1>5 DEF Store
  <2>2. cache[w] = None /\ cache'[w] = res[w][s] /\ res[w][s] # None
    BY <1>5 DEF Store, JoinInvariant, PersistsFirst
  <2> QED
    BY <1>1, <2>1, <2>2, InsightMove, VerdictStays
<1>6. CASE PersistGet(w, s)
  <2>1. /\ pc[w][s] = "persistGet" /\ Others /\ Goto(w, s, "persistSet")
        /\ copy'[w][s] = meeting
        /\ UNCHANGED <<cache, result, done, meeting, res>>
    BY <1>6 DEF PersistGet
  <2> QED
    BY <1>1, <2>1, InsightMove, VerdictStays
<1>7. CASE PersistSet(w, s)
  <2>1. /\ pc[w][s] = "persistSet" /\ Others /\ Goto(w, s, "putResult")
        /\ meeting' = AddPipelineResult(copy[w][s], w, res[w][s])
        /\ copy'[w][s] = NoCopy
        /\ UNCHANGED <<cache, result, done, res>>
    BY <1>7 DEF PersistSet
  <2>2. meeting'.status = copy[w][s].status
        /\ \A v \in Worker : meeting'.pipeline[v] =
                               IF v = w THEN res[w][s] ELSE copy[w][s].pipeline[v]
    BY <2>1 DEF AddPipelineResult, Meeting
  <2>3. ~Settled' /\ Fits(meeting')
    BY <1>1, <2>1, <2>2 DEF JoinInvariant, PersistsFirst, Settled, Fits
  <2> QED
    BY <1>1, <1>2, <2>1, <2>3, InsightMove
<1>8. CASE PutResult(w, s)
  <2>1. /\ pc[w][s] = "putResult" /\ Others /\ Goto(w, s, "putDone")
        /\ result'[w] = res[w][s]
        /\ \A v \in Worker : v # w => result'[v] = result[v]
        /\ UNCHANGED <<cache, done, meeting, copy, res>>
    BY <1>8 DEF PutResult
  <2>2. result'[w] = cache'[w] /\ result'[w] # None
    BY <1>1, <2>1
  <2> QED
    BY <1>1, <2>1, <2>2, InsightMove, VerdictStays
<1>9. CASE PutDone(w, s)
  <2>1. /\ pc[w][s] = "putDone" /\ Others /\ Goto(w, s, "check")
        /\ \A v \in Worker : v # w => done'[v] = done[v]
        /\ UNCHANGED <<cache, result, meeting, copy, res>>
    BY <1>9 DEF PutDone
  <2> QED
    BY <1>1, <2>1, InsightMove, VerdictStays
<1>10. CASE Check(w, s)
  <2>1. /\ pc[w][s] = "check" /\ Others
        /\ \/ w = "summary" /\ Goto(w, s, "completeGet")
           \/ Goto(w, s, "readSummary") \/ Goto(w, s, "return")
        /\ UNCHANGED <<cache, result, done, meeting, copy, res>>
    BY <1>10 DEF Check
  <2> QED
    BY <1>1, <2>1, InsightMove, VerdictStays
<1>11. CASE ReadSummary(w, s)
  <2>1. /\ pc[w][s] = "readSummary" /\ Others /\ Goto(w, s, "completeGet")
        /\ sumFallback'[w][s] = (result["summary"] = "degraded")
        /\ UNCHANGED <<cache, result, done, meeting, copy, res>>
    BY <1>11 DEF ReadSummary
  <2>2. w = "deadlines" => result["summary"] = cache["summary"] /\ cache["summary"] # None
    <3>1. w = "deadlines" => done["summary"]
      BY <2>1 DEF JoinInvariant, FlagsFirst, Other
    <3>2. "summary" \in Worker
      BY DEF Worker
    <3> QED
      BY <3>1, <3>2 DEF InsightInvariant
  <2> QED
    BY <1>1, <2>1, <2>2, InsightMove, VerdictStays
<1>12. CASE CompleteGet(w, s)
  <2>1. /\ pc[w][s] = "completeGet" /\ Others /\ Goto(w, s, "completeSet")
        /\ copy'[w][s] = meeting
        /\ UNCHANGED <<cache, result, done, meeting, res, sumFallback>>
    BY <1>12 DEF CompleteGet
  <2>2. w = "deadlines" => sumFallback'[w][s] = (cache["summary"] = "degraded")
    BY <2>1 DEF InsightInvariant
  <2>3. w = "deadlines" => cache["summary"] # None
    <3>1. w = "deadlines" => done["summary"]
      BY <2>1 DEF JoinInvariant, FlagsFirst, Other
    <3> QED
      BY <3>1 DEF JoinInvariant, PersistsFirst, Worker
  <2> QED
    BY <1>1, <2>1, <2>2, <2>3, InsightMove, VerdictStays
<1>13. CASE CompleteSet(w, s)
  <2>1. /\ pc[w][s] = "completeSet" /\ Others /\ Goto(w, s, "return")
        /\ meeting' = SetCompleted(copy[w][s], HasPartial(w, s))
        /\ copy'[w][s] = NoCopy
        /\ UNCHANGED <<cache, result, done, res>>
    BY <1>13 DEF CompleteSet
  <2>2. meeting'.pipeline = copy[w][s].pipeline
    BY <2>1 DEF SetCompleted, Meeting
  <2>3. Fits(meeting')
    BY <1>1, <2>2 DEF Fits
  <2>4. J!Verdicts' = J!Verdicts
    BY <2>1 DEF J!Verdicts
  <2>5. meeting'.status \in J!Verdicts'
    BY <2>1, <2>4, VerdictHonest
  <2> QED
    BY <1>1, <1>2, <2>1, <2>3, <2>5, InsightMove
<1> QED
  BY <1>3, <1>4, <1>5, <1>6, <1>7, <1>8, <1>9, <1>10, <1>11, <1>12, <1>13 DEF Step

LEMMA InsightNext ==
  ASSUME Calm
  PROVE  TypeOK /\ JoinInvariant /\ InsightInvariant /\ [Next]_vars => InsightInvariant'
<1> SUFFICES ASSUME TypeOK, JoinInvariant, InsightInvariant, [Next]_vars
             PROVE  InsightInvariant'
  OBVIOUS
<1>1. CASE UNCHANGED vars
  BY <1>1, InsightIdle DEF vars, locals
<1>2. ASSUME NEW w \in Worker, NEW s \in Slot, Step(w, s) PROVE InsightInvariant'
  BY <1>2, InsightQueue, InsightProcess
<1>3. \A w \in Worker : ~Expire(w)
  BY DEF Expire, Calm
<1> QED
  BY <1>1, <1>2, <1>3, InsightQueue DEF Next

LEMMA InsightAlways == ASSUME Calm PROVE Spec => []InsightInvariant
BY TypeCorrect, JoinInvariantHolds, InsightInit, InsightNext, PTL DEF Spec

(* The cache, the fan-in keys and the document hold one result per worker.   *)
THEOREM ResultsAgreeHolds == ASSUME Calm PROVE Spec => []ResultsAgree
<1>1. InsightInvariant => ResultsAgree
  BY DEF InsightInvariant, Fits, ResultsAgree
<1> QED
  BY InsightAlways, <1>1, PTL

(* The status tells the truth about the results that are published.          *)
THEOREM StatusHonestHolds == ASSUME Calm PROVE Spec => []StatusHonest
<1>1. ASSUME TypeOK, JoinInvariant, InsightInvariant, Settled
      PROVE  \A w \in Worker : result[w] = cache[w] /\ result[w] \in {"ok", "degraded"}
  BY <1>1 DEF InsightInvariant, JoinInvariant, FlagsFirst, TypeOK, Result
<1>2. TypeOK /\ JoinInvariant /\ InsightInvariant => StatusHonest
  <2> SUFFICES ASSUME TypeOK, JoinInvariant, InsightInvariant, Settled PROVE StatusHonest
    BY DEF StatusHonest, Settled, Final
  <2>1. meeting.status \in J!Verdicts
    BY DEF InsightInvariant
  <2>2. "summary" \in Worker /\ "deadlines" \in Worker
    BY DEF Worker
  <2>3. meeting.status = "COMPLETED" => cache["summary"] # "degraded"
    BY <2>1 DEF J!Verdicts
  <2>4. meeting.status = "PARTIAL" =>
          cache["summary"] = "degraded" \/ cache["deadlines"] = "degraded"
    BY <2>1, <2>2, <1>1 DEF J!Verdicts
  <2> QED
    BY <1>1, <2>2, <2>3, <2>4 DEF StatusHonest
<1> QED
  BY TypeCorrect, JoinInvariantHolds, InsightAlways, <1>2, PTL

-----------------------------------------------------------------------------
(* Every step obtains an insight, concludes the meeting, or does neither.    *)
LEMMA JoinStep ==
  ASSUME Calm, TypeOK, JoinInvariant, InsightInvariant, [Next]_vars
  PROVE  [J!Next]_(J!vars)
<1>1. J!Insight = Worker
  BY DEF J!Insight, Worker
<1>2. ASSUME NEW w \in Worker, NEW s \in Slot, CompleteSet(w, s) PROVE J!Conclude
  <2>1. /\ pc[w][s] = "completeSet" /\ UNCHANGED cache
        /\ meeting' = SetCompleted(copy[w][s], HasPartial(w, s))
    BY <1>2 DEF CompleteSet, keys
  <2>2. (\A v \in Worker : cache[v] \in Result) /\ meeting'.status \in J!Verdicts
    BY <2>1, VerdictHonest
  <2>3. Settled'
    BY <2>1 DEF SetCompleted, TypeOK, Meeting, Settled, Final
  <2>4. FinalStatus' = meeting'.status
    BY <2>3 DEF FinalStatus
  <2>5. \A v \in J!Insight : cache[v] # None
    BY <1>1, <2>2 DEF Result, None
  <2> QED
    BY <2>1, <2>2, <2>4, <2>5 DEF J!Conclude, J!None, None
<1>3. ASSUME NEW w \in Worker, NEW s \in Slot, PersistSet(w, s)
      PROVE  UNCHANGED <<cache, FinalStatus>>
  <2>1. pc[w][s] = "persistSet" /\ meeting' = AddPipelineResult(copy[w][s], w, res[w][s])
    BY <1>3 DEF PersistSet
  <2>2. copy[w][s].status \notin Final /\ ~done[w]
    BY <2>1 DEF JoinInvariant, PersistsFirst, Persisting
  <2>3. ~Settled /\ ~Settled'
    BY <2>1, <2>2 DEF JoinInvariant, FlagsFirst, Settled, AddPipelineResult, TypeOK, Meeting
  <2> QED
    BY <1>3, <2>3 DEF PersistSet, keys, FinalStatus
<1>4. ASSUME UNCHANGED meeting PROVE UNCHANGED FinalStatus
  BY <1>4 DEF FinalStatus, Settled
<1>5. ASSUME NEW w \in Worker, NEW s \in Slot, Store(w, s), cache[w] = None,
             res[w][s] \in Result, cache' = [cache EXCEPT ![w] = res[w][s]]
      PROVE  J!Obtain(w)
  <2>1. UNCHANGED meeting
    BY <1>5 DEF Store
  <2>2. UNCHANGED FinalStatus
    BY <1>4, <2>1
  <2>3. \E r \in Result : cache' = [cache EXCEPT ![w] = r]
    BY <1>5
  <2> QED
    BY <1>5, <2>2, <2>3 DEF J!Obtain, J!None, None, J!Result, Result
<1>6. ASSUME NEW w \in Worker, NEW s \in Slot, Step(w, s), ~CompleteSet(w, s), ~PersistSet(w, s)
      PROVE  UNCHANGED meeting
  BY <1>6 DEF Step, Lookup, Extract, Store, PersistGet, PutResult, PutDone, Check,
     ReadSummary, CompleteGet, Return, Leave
<1>7. ASSUME NEW w \in Worker,
             \/ FanOut(w) \/ Stall(w) \/ Expire(w)
             \/ \E s \in Slot : Deliver(w, s) \/ Throw(w, s) \/ Crash(w, s)
      PROVE  UNCHANGED meeting
  BY <1>7 DEF FanOut, Stall, Expire, Deliver, Throw, Crash, Leave
<1>8. \/ \E w \in Worker, s \in Slot : CompleteSet(w, s) \/ PersistSet(w, s)
      \/ UNCHANGED meeting
  BY <1>6, <1>7 DEF Next, vars
<1>9. CASE \E w \in Worker : J!Obtain(w)
  BY <1>1, <1>9 DEF J!Next
<1>10. CASE UNCHANGED <<cache, FinalStatus>>
  BY <1>10 DEF J!vars
<1> QED
  BY <1>2, <1>3, <1>4, <1>5, <1>8, <1>9, <1>10, CacheNext DEF J!Next

(* The two workers, their retries and their copies of the document do what   *)
(* Join does in one place.                                                   *)
THEOREM ImplementsJoinHolds == ASSUME Calm PROVE Spec => ImplementsJoin
<1>1. ASSUME Init PROVE J!Init
  <2>1. meeting.status = FirstStatus
    BY <1>1 DEF Init, NoCopy
  <2>2. FinalStatus = "open"
    BY <2>1, FanInAssumption DEF FinalStatus, Settled, Final
  <2>3. cache = [w \in J!Insight |-> None]
    BY <1>1 DEF Init, J!Insight, Worker
  <2> QED
    BY <2>2, <2>3 DEF J!Init, J!None, None
<1>2. TypeOK /\ JoinInvariant /\ InsightInvariant /\ [Next]_vars => [J!Next]_(J!vars)
  BY JoinStep
<1> QED
  BY TypeCorrect, JoinInvariantHolds, InsightAlways, <1>1, <1>2, PTL DEF Spec, ImplementsJoin, J!Spec
=============================================================================
