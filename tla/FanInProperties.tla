-------------------------- MODULE FanInProperties --------------------------
(* What the join of the two insights workers promises, and what the        *)
(* repository says of it that the code does not keep.                      *)
EXTENDS FanIn

Settled == meeting.status \in Final

Delivering(w) == \E s \in Slot : pc[w][s] # "idle"

\* Nothing is left in either queue or processor: what the meeting says now it
\* says for good.
Quiet == \A w \in Worker : job[w] \in {"completed", "failed"} /\ ~Delivering(w)

-----------------------------------------------------------------------------
(* Safety of the join. *)

\* Nobody announces the end of a meeting before both workers have extracted
\* something: whoever writes the final status has seen the other's flag, and a
\* flag stands for an extraction whatever was retried, delivered twice or
\* expired in between.
NoEarlyConsolidation == Settled => \A w \in Worker : answered[w] # {}

\* Both jobs completed, the meeting is settled: two workers that finish together
\* cannot both miss the other's flag, and a worker that persists from a copy it
\* read earlier cannot take the final status back.  Holds while a job has one
\* delivery at a time and no key expires.
JoinComplete == (\A w \in Worker : job[w] = "completed") => Settled

\* The status tells the truth about the summary: COMPLETED is never written over
\* a summary that is a fallback, nor PARTIAL when no fallback was used, whoever
\* of the two wrote it and whatever retries happened.
StatusHonest ==
  /\ meeting.status = "COMPLETED" => result["summary"] = "ok"
  /\ meeting.status = "PARTIAL" => \E w \in Worker : result[w] = "degraded"

\* The cache, the fan-in keys and the document the client reads never hold
\* different results of one worker, although a retry may extract another one.
ResultsAgree ==
  \A w \in Worker :
    /\ result[w] \in {None, cache[w]}
    /\ meeting.pipeline[w] \in {None, cache[w]}

\* COMPLETED has been earned by a real summary, even when two deliveries of the
\* job run at once and overwrite each other's results.
CompletedIsEarned ==
  meeting.status = "COMPLETED" => "ok" \in answered["summary"]

-----------------------------------------------------------------------------
(* What a step may never do. *)

\* A settled meeting stays settled: no persist of a stale copy, no retry and no
\* second finisher takes it back to PROCESSING.
FinalIsStable == [][Settled => Settled']_vars

\* The idempotency cache spares the API: no delivery extracts a result that is
\* cached already.
CacheShields ==
  [][\A w \in Worker, s \in Slot : Extract(w, s) => cache[w] = None]_vars

-----------------------------------------------------------------------------
(* Liveness. *)

\* Whatever throws and dies on the way, the meeting is settled in the end or
\* one of the two jobs sits in the failed set for an operator to see.
EventuallySettled ==
  <>[](Settled \/ \E w \in Worker : job[w] = "failed")

-----------------------------------------------------------------------------
(* What the repository says and the code does not do. *)

\* "PARTIAL: Pipeline finished, but one or both insights used fallback": a
\* meeting reported COMPLETED used none.  (The summary worker, finishing last,
\* looks at its own result only.)
FallbackReported ==
  Quiet /\ meeting.status = "COMPLETED" =>
    \A w \in Worker : result[w] # "degraded"

\* A COMPLETED meeting shows the client both insights, as the end-to-end test
\* expects.  (Both workers rewrite the whole document from their own copy, and
\* one of the results may be overwritten.)
ResultsVisible ==
  Quiet /\ meeting.status = "COMPLETED" =>
    \A w \in Worker : meeting.pipeline[w] # None

-----------------------------------------------------------------------------
(* What the job queue keeps straight; with TypeOK it is inductive.           *)

\* A job that may still run has an attempt left, and only an active job is
\* locked.
QueueInvariant ==
  \A w \in Worker :
    /\ job[w] \notin {"completed", "failed"} => attempts[w] < MaxAttempts
    /\ holder[w] # None => job[w] = "active"

-----------------------------------------------------------------------------
(* The inductive invariant behind JoinComplete, for jobs with one delivery   *)
(* at a time and keys that do not expire.                                    *)

Persisting == {"persistGet", "persistSet"}
Concluding == {"readSummary", "completeGet", "completeSet"}

\* A delivery under way holds the job's lock: there is one per job.
OneDelivery ==
  \A w \in Worker :
    /\ job[w] = "active" => holder[w] \in Slot
    /\ \A s \in Slot : pc[w][s] # "idle" => job[w] = "active" /\ holder[w] = s

\* A worker persists before it raises its flag, and never after; so the copy it
\* writes back cannot be older than a final status.
PersistsFirst ==
  \A w \in Worker :
    /\ done[w] => cache[w] # None
    /\ \A s \in Slot :
         /\ pc[w][s] \in {"extract", "store"} => cache[w] = None
         /\ pc[w][s] \in {"store"} \union Persisting => res[w][s] # None
         /\ pc[w][s] \in Persisting \union {"putResult", "putDone"} => cache[w] # None
         /\ pc[w][s] \in Persisting => ~done[w]
         /\ pc[w][s] = "persistSet" => copy[w][s].status \notin Final

\* A worker looks at the other's flag with its own raised, and concludes only
\* when both are.
FlagsFirst ==
  /\ Settled => \A w \in Worker : done[w]
  /\ \A w \in Worker :
       /\ job[w] = "completed" => done[w]
       /\ \A s \in Slot :
            /\ pc[w][s] \in {"check", "return"} \union Concluding => done[w]
            /\ pc[w][s] \in Concluding => done[Other(w)]

\* The worker is past its look at the other's flag, with nothing left to do.
Passed(w) ==
  job[w] = "completed" \/ \E s \in Slot : pc[w][s] = "return"

JoinInvariant ==
  /\ OneDelivery
  /\ PersistsFirst
  /\ FlagsFirst
  /\ (\A w \in Worker : Passed(w)) => Settled
=============================================================================
