-------------------------------- MODULE Chain --------------------------------
(***************************************************************************)
(* What the workers and queues of the pipeline promise together about the  *)
(* jobs of one meeting: a job starts with the results it needs; each stage *)
(* obtains one result, which every later job gets; a job is over when it   *)
(* has handed the meeting over, or when it is given up.  A job that is     *)
(* given up does not run again; one that is over may, with the same        *)
(* results, and nothing new comes out of it.  There are no attempts, no    *)
(* crashes, no cache and no adds that get lost here: Pipeline shows that   *)
(* these do not change the promise.                                        *)
(***************************************************************************)
CONSTANTS
  Queue,         \* one job each
  Stage,         \* the queues whose jobs obtain a result
  Successors(_), \* the queues that follow one
  Before(_),     \* the stages whose results a job needs
  Version,       \* the results a stage may obtain
  NoResult

VARIABLES
  known,     \* known[st]: the result of stage st, once it is there
  started,   \* the queues whose job exists
  given,     \* given[q]: the results that the job of q was started with
  completed, \* the jobs that are over
  abandoned  \* the jobs that are given up

vars == <<known, started, given, completed, abandoned>>

Init ==
  /\ known = [st \in Stage |-> NoResult]
  /\ started = {}
  /\ given = [q \in Queue |-> [st \in Before(q) |-> NoResult]]
  /\ completed = {}
  /\ abandoned = {}

Running == started \ (completed \union abandoned)

\* A job exists only when all it needs is there, and carries that.  A stage may
\* be given up when its successors are already on their way.
Start(q) ==
  /\ q \notin started
  /\ \A st \in Before(q) : known[st] # NoResult
  /\ started' = started \union {q}
  /\ given' = [given EXCEPT ![q] = [st \in Before(q) |-> known[st]]]
  /\ UNCHANGED <<known, completed, abandoned>>

\* The first result of a stage is its last.
Obtain(q) ==
  /\ q \in Stage \intersect Running
  /\ known[q] = NoResult
  /\ \E new \in Version \ {NoResult} : known' = [known EXCEPT ![q] = new]
  /\ UNCHANGED <<started, given, completed, abandoned>>

\* A completed job may run again, and be given up then.
Restart(q) ==
  /\ q \in completed
  /\ completed' = completed \ {q}
  /\ UNCHANGED <<known, started, given, abandoned>>

Complete(q) ==
  /\ q \in Running
  /\ q \in Stage => known[q] # NoResult
  /\ Successors(q) \subseteq started
  /\ completed' = completed \union {q}
  /\ UNCHANGED <<known, started, given, abandoned>>

GiveUp(q) ==
  /\ q \in Running
  /\ abandoned' = abandoned \union {q}
  /\ UNCHANGED <<known, started, given, completed>>

Next ==
  \E q \in Queue : Start(q) \/ Restart(q) \/ Obtain(q) \/ Complete(q) \/ GiveUp(q)

Spec == Init /\ [][Next]_vars
=============================================================================
