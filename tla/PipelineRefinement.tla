------------------------- MODULE PipelineRefinement -------------------------
(* Pipeline implements Chain.                                               *)
EXTENDS Pipeline

JobsIn(jobState) == {q \in Queue : job[q] = jobState}

\* A result is there when it is cached, and a job from its first add on; of its
\* payload the worker reads what it needs.
Promise == INSTANCE Chain WITH
  Version <- 0 .. MaxAttempts + MaxStalls,
  known <- cache,
  started <- Queue \ JobsIn("absent"),
  given <- [q \in Queue |-> [st \in Before(q) |-> data[q][st]]],
  completed <- JobsIn("completed"),
  abandoned <- JobsIn("failed")

\* Whatever requests, retries, crashes and late adds interleave, the pipeline
\* does what Chain does: every job is started with the one result of each stage
\* before it, and again only after it was completed and with the same results;
\* a completed job has started those that follow.
ImplementsChain == Promise!Spec
=============================================================================
