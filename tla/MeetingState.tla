---------------------------- MODULE MeetingState ----------------------------
(***************************************************************************)
(* The meeting document: one JSON value under the Redis key meeting:{id},  *)
(* which the gateway creates and every worker updates.  The operators are  *)
(* the changes MeetingStateService makes to a copy it has read.  They are  *)
(* values, not steps: in the code each is one GET, a change of the parsed  *)
(* copy and one SET, and the modules that use them keep the GET and the    *)
(* SET apart.                                                              *)
(*                                                                         *)
(* The document keeps what the properties speak of: the status and, for    *)
(* each stage, whether its result is there and which one it is.  Titles,   *)
(* participants, time stamps and the error text are left out.              *)
(***************************************************************************)

None == "none"

Status == {"PENDING", "PROCESSING", "COMPLETED", "PARTIAL", "FAILED"}

\* The statuses that announce the end of the pipeline to the client.
Final == {"COMPLETED", "PARTIAL"}

\* A result is known by its `fallback` flag: "degraded" has it set.
Result == {"ok", "degraded"}

Meeting(stages) ==
  [status : Status, pipeline : [stages -> Result \union {None}]]

\* setJobState and setFailed
SetStatus(doc, status) == [doc EXCEPT !.status = status]

AddPipelineResult(doc, stage, result) ==
  [doc EXCEPT !.pipeline[stage] = result]

SetCompleted(doc, hasPartial) ==
  [doc EXCEPT !.status = IF hasPartial THEN "PARTIAL" ELSE "COMPLETED"]
=============================================================================
