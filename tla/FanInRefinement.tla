--------------------------- MODULE FanInRefinement ---------------------------
(* The join of the two insights workers implements Join: an insight is       *)
(* obtained when its result is cached, and the meeting is concluded when the *)
(* document is written back with a final status.                             *)
EXTENDS FanInProperties

FinalStatus == IF Settled THEN meeting.status ELSE "open"

J == INSTANCE Join WITH insight <- cache, status <- FinalStatus

\* While every job has one delivery at a time and no key expires, the two workers
\* together do what one process would: no retry changes an insight, no stale copy
\* of the document reopens the meeting, and whoever concludes it concludes from
\* the two insights that are cached.
ImplementsJoin == J!Spec
=============================================================================
