# A TLA+ model of the resilient AI pipeline

The repository is a small event-driven system (NestJS, BullMQ, Redis): a gateway
accepts meetings, four worker applications transcribe, clean and analyse them,
and a shared library holds the state, the idempotency cache and the circuit
breaker. Almost everything that can go wrong in it goes wrong *between* two Redis
commands of two processes; the models take one Redis command as one step.

## 1. The system

| Component | State | Operations | Talks to |
|---|---|---|---|
| Gateway (`apps/gateway`) | none of its own; `meeting:{id}` in Redis | `POST /meetings` (`MeetingsService.submit`), `GET /meetings/:id`, load test | Redis, `transcription` queue |
| Transcription worker | `idempotency:transcription:*` | `process`, `onFailed` | AI service through `ResilienceService`, document, `cleaning` queue |
| Cleaning worker | `idempotency:cleaning:*` | `process`, `fanOut` (two adds in a `Promise.all`), `onFailed` | the same, both insights queues |
| Summary and deadlines workers | `idempotency:*`, `fan-in:{id}:*:result`, `fan-in:{id}:*:done` | `process`, `fanIn`, `onFailed` (logs only) | the same, and each other through the fan-in keys |
| `MeetingStateService` | `meeting:{id}`, one JSON document | `setJobState`, `addPipelineResult`, `setFailed`, `setCompleted`, each GET, change, SET | every worker |
| `IdempotencyService` | `idempotency:{stage}:{key}`, 24 h | `get`, `set` (`invalidate` has no caller) | every processor |
| `CircuitBreakerService` | `cb:{service}:state`, `:failures`, `:opened_at` | `isAllowed`, `recordSuccess`, `recordFailure`, `reset` | `ResilienceService` |
| `ResilienceService` (four copies) | none | `execute`: allowed? call, record | breaker, `withTimeout` |
| Retry and timeout utilities | none | `sleep`, `withTimeout`; `withRetry` has no caller | `ResilienceService`, mock services |
| Mock AI services (four) | none | stall, fail, work, or a fallback result | their worker's service, through `execute` |
| BullMQ (external) | jobs, attempts, locks | delivery, retry, stalled jobs, the `failed` event, job ids | all |

Components share state through Redis and hand work over through queues; there is
no other call between them. What makes this hard:

- **Interleaving and atomicity.** The document is rewritten as a whole by several
  processes, and the breaker's three keys are read and written one by one.
- **Retries and redelivery.** A job is retried after an error at any point,
  delivered again after a crash, or delivered twice at once when its lock lapses.
  The cache makes a retry take another path than the first attempt. A completed job
  is removed after a while, and a late or repeated add then starts it again.
- **Partial failure.** A command may take effect although its reply is lost; of
  the two adds of a fan-out one may fail; `submit` saves before it enqueues.
- **Callbacks.** `onFailed` runs after *every* failed attempt and is ordered with
  nothing else.
- **Time.** Cooldown and expiry are read in one step and used in a later one; a
  call races its timeout, and goes on after it has lost.

What makes the components correct: the join concludes exactly when both insights
are there, stays concluded, and tells the truth about fallbacks; a completed stage
has handed its meeting over; a dead one is reported; an accepted meeting is
decided; the cache spares calls; the breaker opens at its threshold, protects a
dead service and releases a healthy one. `PROJECT.json` lists each hazard at its
line with the properties that cover it.

## 2. Modules

| Module | Models |
|---|---|
| `MeetingState` | values: the meeting document and the changes `MeetingStateService` makes to a copy of it |
| `FanIn` | cleaning's fan-out, both insights workers, their queues, caches and fan-in keys |
| `FanInProperties` | the properties of `FanIn`, and the inductive `JoinInvariant` that a run checks |
| `Join` | abstract: what the two insights workers promise together |
| `FanInRefinement` | the mapping from `FanIn` to `Join` |
| `FanInProofs`, `JoinProofs` | TLAPS: seven theorems about `FanIn`; three about its results and the refinement |
| `CircuitBreaker` | `ResilienceService.execute` on the breaker's Redis keys, any number of callers |
| `BreakerMachine` | abstract: the state machine drawn at the head of `circuit-breaker.service.ts` |
| `CircuitBreakerRefinement` | the mapping from the keys to that machine |
| `CircuitBreakerProofs` | TLAPS: four theorems about the breaker |
| `ResilientCall` | extends the breaker by the call itself: `withTimeout`, `sleep`, the service method |
| `ResilientCallProofs` | TLAPS: four theorems, among them that a call is a call of the breaker |
| `Pipeline` | `submit`, the transcription and cleaning processors, their `failed` handlers |
| `Chain` | abstract: what the queues and workers promise about the jobs of one meeting |
| `PipelineRefinement` | the mapping from `Pipeline` to `Chain` |
| `PipelineProofs`, `OutcomeProofs`, `ChainProofs` | TLAPS: five theorems about `Pipeline`; three about the outcome of a meeting; the refinement |
| `MCFanIn`, `MCCircuitBreaker`, `MCResilientCall`, `MCPipeline` | what TLC runs; the constants are in the `.cfg` files |

### FanIn

One meeting. `pc[w][s]` is the next command of the delivery of worker `w`'s job in
processor slot `s`; `res`, `copy` and `sumFallback` are the local variables
`result`, the parsed document and `summaryFallback`. The steps are those of
`process` and `fanIn` in their order: `Lookup` (idempotency GET), `Extract`,
`Store` (idempotency SET), `PersistGet`/`PersistSet` (`addPipelineResult`),
`PutResult`, `PutDone`, `Check` (EXISTS), `ReadSummary` (deadlines only),
`CompleteGet`/`CompleteSet` (`setCompleted`), `Return`. A cache hit goes straight
to `PutResult`, as in the code. `Throw` stands for a rejected command or a lost
reply: since it is enabled before and after every command, both outcomes of a lost
reply are there. A result is `"ok"` or `"degraded"`, which is all that the code
asks of it (`fallback`). `answered` is history and read by properties only.

BullMQ is modelled from how the code uses it: `attempts`, fixed job ids (a second
add is ignored), a lock held by the delivery, a stalled job that goes back to the
queue at most `MaxStalls` times. `LocksLapse` lets a lock expire while its
processor still runs, so that two deliveries overlap; `KeysExpire` lets any key
expire between any two steps.

`FanIn` has no other writer of the document than its two workers. Late `failed`
handlers of transcription and cleaning, a second `save` of the gateway, and jobs that
a late add starts anew after they were completed and removed are in `Pipeline` only;
what is shown here of the document holds without them.

`Join` keeps two variables, the insights obtained and the status, and two actions,
`Obtain` and `Conclude`. `FanIn` maps its cache to the insights and the final status
of the document to the status; everything else it does is a stutter. `Join` allows
`Conclude` twice, because both workers may conclude: the status may still change
between COMPLETED and PARTIAL, and only when the summary is real and the deadlines
are a fallback. That the verdict then depends on who concludes is what
`FallbackReported` (section 3) is about.

### CircuitBreaker

`pc[c]` is the next command of caller `c`. Time is reduced to what the code
compares: whether `cooldownMs` have passed since `opened_at`; an absent
`opened_at` counts as passed, because `Number(null)` is 0. The failure counter
saturates at the threshold: the code compares it with `>=` only. The three writes
of `recordSuccess` are sent on one connection and keep their order.
`RedisError` inside `recordSuccess` leads to `recordFailure`, as the `try` block in
`ResilienceService` has it. `up` is the downstream service; a timeout is a failed
call.

`BreakerMachine` is written from the drawing and the method comments: `Admit`,
`Probe`, `Succeed`, `FailBelow`, `Trip`, `Reopen`, `CoolDown`. A step of
`CircuitBreaker` maps to one of them at the SET of the state (or at the INCR below
the threshold) and to a stutter otherwise. That holds for one undisturbed caller only, and is
model-checked for one; what several callers can do to the drawing is shown by
`breaker_cooldown` (and see section 3), and what they cannot by `breaker` and the
theorems.

### ResilientCall

`CircuitBreaker`'s `Call` says that a call ends, well or badly. `ResilientCall`
replaces it by the race in `withTimeout`: `Enter` sets the timer and enters the
service method, `Settle` and `TimeOut` are the two ways to decide the call, and both
are a `Call` of the breaker. `method[c]` is where the method is suspended: in the
stall that the transcription mock takes before it fails, or in the work proper. Node
runs one callback to its end, so that a step goes up to the next suspension.

A method that loses the race is not stopped. If its `sleep` was given the signal it
ends at once; otherwise it stays behind as an orphan, wakes up, looks at
`signal.aborted` and returns (`WakeLate`). Its caller may have made its next call by
then. The late method settles a promise that is decided and clears a timer that has
fired (`LateDisarm`): were the timer shared by the calls of a caller, it would clear
the running one. `heeds`, chosen at the start, is the set of
suspensions that pass the signal on: the mocks pass it to every `sleep`, the unit
test of `withTimeout` uses a promise that ignores it. `TimeOut` needs a service that
is down, because a service that is up answers in time; that is how a slow service is
told from a healthy one. `ForeignAbort` lets a method reject with an `AbortError`
that the timer did not cause: `withTimeout` swallows it although nothing else will
settle the promise (`Hung`). None of the four mocks rejects so; `fetch` with a
signal of its own would.

### Pipeline

One meeting, its document with the results of the first two stages, and the workers
up to the fan-out. `setJobState`, `addPipelineResult`, `setFailed` and `setCompleted`
are a GET and a SET each (`markGet`/`markSet`, `persistGet`/`persistSet`,
`completeGet`/`completeSet`, and `"pending"`/`"writing"` of a handler); between them
`copy` or `handlerCopy` holds the document read. A result is known by the number of
the delivery whose call produced it, so that two calls give two results; it goes to
the cache, the document and, in `data`, the payload of the next job. `adding` holds
the queue adds that are under way: an attempt that dies while it waits for them may
leave them to arrive later, or not at all; each add carries the number of the attempt
that waits for it. `failures[st]` counts the failed attempts and stalls of the stage,
and `handler[st][n]` is the `failed` handler
of the n-th failure of stage `st`; it runs beside the retries and is lost with its
process or to a Redis error.

All adds set `removeOnComplete: { count: 100 }` and fixed job ids. An id that the
queue holds is not added again; a completed job may have been removed when its id
comes again, and the add then starts it anew, with no attempts used (`AddJob`). The
hundred other meetings are not modelled: in the queues of `Removing`, a completed job
may be gone at any add. A failed job is never removed (`removeOnFail: false`). A job
that runs again finds its result in the cache, since its `idempotencyKey` is the same.

The insights workers appear as the writers of the
document that they are when nothing fails; `FanIn` has the rest. `Check` puts the
SETs of the result and the flag and the EXISTS of the other's flag into one step, so
that one of them concludes; `FanIn` has the three commands apart, and both workers may
conclude. Two cases are `FanIn`'s: what happens between these commands, and
overlapping deliveries.

`Chain` has no attempts, cache, crashes or adds that get lost: a job is started with
the one result of each stage before it; a stage obtains one result; a job is completed
when its successors are started, or given up; a completed job may run again, with the
same results. `Pipeline` maps its cache to the
results, the payloads to what jobs were given, and the states of the jobs to
`started`, `completed` and `abandoned`; all else is a stutter. A successor may start
after its predecessor was given up: its add was sent by an attempt that died and
arrives late. The refinement holds for overlapping requests too, and for removed jobs:
what runs again was completed before and gets what it got then.

The two modules meet at the fan-out: `Pipeline`'s `HandedOver` (a completed
cleaning job has added both jobs) is what `FanIn`'s fair `FanOut` takes for granted,
and `FirstStatus` is the status `Pipeline` may leave at that point.

## 3. Runs

| Run | Instance | Result |
|---|---|---|
| `fanin` | 1 slot, 2 attempts, 1 stall, both APIs may degrade; 390,975 states | holds: `JoinComplete`, `StatusHonest`, `ResultsAgree`, `FinalIsStable`, `CacheShields`, `EventuallySettled`, the inductive `JoinInvariant`, and the refinement `ImplementsJoin` |
| `fanin_lapse` | 2 overlapping deliveries of the summary job; 1,239,551 states | holds: `NoEarlyConsolidation`, `CompletedIsEarned` |
| `fanin_expiry` | every key may expire at any time | holds: `NoEarlyConsolidation` |
| `breaker` | 3 callers, threshold 2, 2 crashes, errors or resets | holds: `ThresholdEnforced`, `HalfOpenIsDecided`, `Recovers`, `Protects` |
| `breaker_machine` | 1 caller, threshold 5, its calls with timeout; 1,260 states | holds: the refinement `ImplementsMachine`; `TimerMatchesCall`, `CallEnds` |
| `pipeline` | 1 request, 2 attempts, 1 stall, 2 faults, cleaning and summary jobs removed; 2,066,862 states | holds: `HandedOver`, `DeadStageReported`, `ResultsAgree`, `LostResultHasFailure`, `QuietIsDecided` |
| `pipeline_steps` | 2 requests in turn, 2 attempts, 1 fault, jobs removed from all queues; 331,349 states | holds: `CacheShields`, `FinalOnlyFails`, `AcceptedIsDecided`, and the refinement `ImplementsChain` |
| `fanin_partial` | nothing fails but the APIs | `FallbackReported` is violated |
| `fanin_visible` | nothing fails | `ResultsVisible` is violated |
| `breaker_cooldown` | 2 callers, nothing disturbed | `CooldownRespected` is violated |
| `pipeline_failed` | 1 fault | `FailedMeansExhausted` is violated |
| `pipeline_repost` | 2 concurrent requests, nothing fails | `ProgressKept` is violated |

The five violated properties say what a comment or a test of the repository says;
`PROJECT.json` quotes each line under `findings`:

- **COMPLETED with a fallback.** The summary worker, when it finishes last, looks at
  its own result only.
- **Lost result.** Both insights workers rewrite the document from their own copy:
  without any failure one of the two results may be missing from a COMPLETED meeting.
- **Cooldown.** A caller between another's `SET state OPEN` and `SET opened_at`, or
  with an outdated look at `opened_at`, turns a freshly opened circuit HALF_OPEN.
- **FAILED with retries left.** BullMQ emits `failed` for each attempt.
- **Repeated POST.** Two requests find nothing, and the second one's `save`
  overwrites the progress of a meeting that is already being processed.

Three more disagreements show at their line without a run. The `failed` handler of the
insights workers only logs, so that a meeting whose insights job is dead-lettered stays
PROCESSING, where `job.models.ts:23` says FAILED; `EventuallySettled` has this as its one
exception. `recordSuccess` closes whatever it finds: a call that was let through before
the circuit opened, and succeeds after it, closes it without cooldown or probe, for
which the drawing in `circuit-breaker.service.ts` has no arrow; `Protects` says that the
circuit of a dead service opens again. And the head of `meetings.service.ts` says
`removeOnComplete: false` and that the job id prevents a meeting from being enqueued
twice, where line 124 keeps the last 100 jobs: of two POSTs that both found nothing, the
slower one may start the pipeline again. What such a second run may not do is in
`ImplementsChain`, `ResultsAgree` and `CacheShields`, which are proved for overlapping
requests too.

**Bounds.** Two attempts are the smallest number that tells a retry from the last
attempt; the code's five differ in the count alone. One stall gives a job that is
delivered again and one that is given up. Two slots give two overlapping
deliveries. Three breaker callers give one that opens, one that probes and one
that acts on what it read before; threshold 2 needs failures of two callers.
`MaxFaults = 2` exhausts a stage, or fails a fan-out and the retry after it. `pipeline`
removes the jobs of two queues: cleaning, which a late add of transcription may start
behind its own fan-out, and one of the two insights queues, which are alike there.
`pipeline_steps` removes from every queue, with a second request and one fault less;
the theorems have no such limits.
`MaxFaults` and `MaxDisturbances` bound the model, not the system. One caller is
enough for the call and its timeout, as nothing of a call is shared but the breaker's
keys; its threshold of 5 is above the default of `CB_FAILURE_THRESHOLD`, 3.

Not every property says "never". `LostResultHasFailure` names the price of the
shortcut from a cache hit to the hand-over: a completed stage whose result is missing
from the document has had a failure, of its own or of the stage before, because a
retry skipped the persist or a `failed` handler wrote an old copy back.
`FinalOnlyFails` lets a late `failed` handler take a final status back, which the code
does, and nobody else. `QuietIsDecided` lets an accepted meeting end with a job in the
failed set, and in no other way without a final status or FAILED; it is the part of
`AcceptedIsDecided` that can be proved. `CallEnds` lets a call hang after a foreign
`AbortError`, and in no other case.

**Fairness.** A worker that is up goes on with its delivery, BullMQ delivers waiting
jobs and finds stalled ones, a request or handler under way goes on, and a sent
command arrives. The event loop, BullMQ's blocking fetch and its stalled-job timer
justify this. In `Pipeline` one weak fairness condition covers all of it
(`WF(Progress)`): attempts, stalls and faults are bounded, so that no part can keep
another waiting for ever. In `ResilientCall` a call under way goes on (`WF(GoOn(c))`):
the service answers or the timer, which Node owes, fires; a method alone is owed
nothing, it may be suspended for ever. Nothing that fails (`Throw`, `Crash`, lapsing
locks, expiry, the service going down or up) is ever owed. For the breaker,
`Recovers` and `Protects` also assume that jobs keep coming (`WF(Start)`) and that time passes (`WF(Elapse)`):
a circuit is reopened by a call only. Deadlock is not checked, as every instance
ends when its meeting is done and its attempts are used up.

## 4. Proofs

All theorems hold for every value of the constants that the modules' assumptions
admit. An inductive invariant stands in the proof module that needs it; `JoinInvariant`
is in a run as well. TLC checked `OutcomeInvariant` and `MarkedInvariant` on two requests
that do not overlap, two attempts, a stall and a fault before they were proved.

| Theorem | States |
|---|---|
| `FanInProofs!TypeCorrect` | types, and that a job under way has an attempt left |
| `FanInProofs!NoEarlyConsolidationHolds` | `[]NoEarlyConsolidation`, overlapping deliveries and expiry included |
| `FanInProofs!JoinInvariantHolds` | `[]JoinInvariant`, if locks and keys hold (`Calm`) |
| `FanInProofs!JoinCompleteHolds` | `[]JoinComplete`, if `Calm` |
| `FanInProofs!FinalIsStableHolds` | the action property `FinalIsStable`, if `Calm` |
| `FanInProofs!CompletedIsEarnedHolds` | `[]CompletedIsEarned` with overlapping deliveries, if no key expires |
| `FanInProofs!CacheShieldsHolds` | the action property `CacheShields`, if `Calm` |
| `JoinProofs!ResultsAgreeHolds` | `[]ResultsAgree`, if `Calm` |
| `JoinProofs!StatusHonestHolds` | `[]StatusHonest`, if `Calm` |
| `JoinProofs!ImplementsJoinHolds` | `Spec => J!Spec`, if `Calm` |
| `CircuitBreakerProofs!TypeCorrect` | types |
| `CircuitBreakerProofs!ThresholdEnforcedHolds` | `[]ThresholdEnforced`, any callers and threshold |
| `CircuitBreakerProofs!HalfOpenIsDecidedHolds` | `[]HalfOpenIsDecided`, any callers and threshold |
| `CircuitBreakerProofs!EarlyProbeHasRace` | `CooldownRespected \/ <><<Race>>_vars`: any callers, crashes, errors and resets |
| `ResilientCallProofs!CallImplementsBreaker` | `CallSpec => Spec`: what holds of the breaker holds of the call |
| `ResilientCallProofs!CallTypeCorrect` | types |
| `ResilientCallProofs!UndecidedIsTimed` | every undecided call has its method under way and its timer running, if no method rejects with an `AbortError` of its own (`~ForeignAbort`) |
| `ResilientCallProofs!TimerMatchesCallHolds` | `[]TimerMatchesCall`, any number of callers |
| `PipelineProofs!TypeCorrect` | types |
| `PipelineProofs!HandedOverHolds` | `[]HandedOver`, whatever fails |
| `PipelineProofs!ResultsAgreeHolds` | `[]ResultsAgree` and the action property `CacheShields`, whatever fails |
| `PipelineProofs!DeadStageReportedHolds` | `[]DeadStageReported`, if requests do not overlap (`~Concurrent`) |
| `PipelineProofs!LostResultHasFailureHolds` | `[]LostResultHasFailure`, if `~Concurrent` |
| `OutcomeProofs!FinalOnlyFailsHolds` | the action property `FinalOnlyFails`, if `~Concurrent` |
| `OutcomeProofs!QuietIsDecidedHolds` | `[]QuietIsDecided`, if `~Concurrent` |
| `OutcomeProofs!ProgressKeptHolds` | the action property `ProgressKept`, if `~Concurrent` |
| `ChainProofs!ImplementsChainHolds` | `Spec => Promise!Spec`, whatever fails and however requests overlap |

*NoEarlyConsolidation* is not inductive: the worker that writes the final status
has looked at a flag many steps earlier. `BackedInvariant` says that everything
that goes back to an extraction (a cache entry, a flag, a delivery beyond its
extraction, a copy with a final status) is backed by one; removing keys
or doubling deliveries cannot break that, which is why the theorem needs no
assumption on locks and keys.

*JoinComplete* needs more. `JoinInvariant` has one delivery per job, which holds
the lock (`OneDelivery`); a worker persists before it raises its flag and never
after, so that no copy it writes back hides a final status (`PersistsFirst`); and
it looks at the other's flag with its own raised (`FlagsFirst`). Of two workers that
are both past their look, the later one has seen the other's flag and concluded:
the last conjunct. `FinalIsStable` follows from `PersistsFirst`. Both fail without
`Calm`, as overlapping deliveries persist after the flag is up. They also rest on
the cache hit going straight to the fan-in: a hit that persisted again would take
a final status back.

*ThresholdEnforced* is inductive with the types, and so is *HalfOpenIsDecided*: the
last of several probes is still to write the state, whatever the others wrote.
*EarlyProbeHasRace* is the other half of the run `breaker_cooldown`. It assumes
nothing of the callers: if a probe is ever let through within the cooldown, then in
that behaviour a caller has written a new time stamp (`Race`) while another, which had
read the old one, was on its way to its SET HALF_OPEN. As long as there is no such
step, `ReadHolds` is inductive: what a caller has read of the cooldown still holds when
it acts on it. Crashes, lost commands and resets only ever remove a time stamp.

*UndecidedIsTimed* is the safe half of `CallEnds`: a call can only hang if the timer
was cleared by a rejection that decided nothing, and that takes a foreign
`AbortError`. *TimerMatchesCall* makes no such assumption.

*HandedOver* is proved with `AwaitInvariant`: a worker that awaits its adds finds
each of them on its way or arrived, and one that returns finds them all arrived. An
add carries the attempt that sent it (`failures`), so that a retry is not taken to wait
for what an attempt before it has sent. In the model a removed job stays `"completed"`
until its id is added again, so that `job[q] # "absent"` means that it was added once.

*ResultsAgree* and *StatusHonest* of the fan-in, and the refinement of `Join`, add
`InsightInvariant` to `JoinInvariant`: what a worker holds beyond its extraction, what
the fan-in keys and every copy of the document say is the cached insight, and
`summaryFallback`, read from a key many steps earlier, tells the truth about it. A
cached insight never changes, because a worker that extracts has found an empty cache
and holds the job's only lock.

*CompletedIsEarned* must do without that lock: two deliveries of one job overwrite
each other's result. `EarnedInvariant` only says that whatever a key or a processor
holds was once an answer of the API, and that nobody is about to write COMPLETED
without a real summary among the answers. Expiring keys break it: an expired
summary result reads as "no fallback". Hence the assumption `~KeysExpire`.

*ResultsAgree* of the pipeline uses `ResultsInvariant`: every copy of the document,
read by whichever worker or handler, holds for each stage the cached result or none,
every payload under way holds the cached ones, and a worker that is about to store
has an empty cache before it. A stage is entered only with the results of the stages
before it in its payload (`Equips`).

*DeadStageReported* relates three writers of one document. `ReportInvariant` says
that the meeting is saved before it has a job, and once (`SavedFirst`: two requests
that overlap break it, hence `~Concurrent`); that a stage writes the document before
it hands over and never after (`WritesFirst`, which rests on `ResultsInvariant`: a
cache hit means that the stage is past its writes); that a handler writes FAILED
(`WritesDocuments`). So no worker writes for a dead stage any more, and a handler
that is not lost has the last word. It needs neither a bound on the handlers that are
late nor their order.

*LostResultHasFailure* is about the same writers and results. `PersistedInvariant`
says of a stage that nothing has harmed: it has persisted once it goes on, because it
has not found its result cached, unless the job has handed over before and runs again
(`Overtaken`); and every copy that a later worker or handler has
read since then holds the result. A failure is an attempt, a stall, or a job in the
failed set: with `MaxStalls = 0` the last one leaves no other trace.

*FinalOnlyFails* rests on `OutcomeInvariant`. The status is final, or somebody holds a
copy in which it is, only when both insights flags are up; both flags are up only
when cleaning has handed over, and by then the earlier stages are past their last
write (`ReportInvariant`). What is left to write to a settled document are copies that
are final themselves, and FAILED. `FlagsFollowWork` has what a removed insights job may
do that runs again: its flag is still up, and it does not persist again.

*QuietIsDecided* walks along the chain: an accepted meeting has its first job
(the `add` was awaited before the 202); where nothing is under way, each job is failed
or completed; a completed one has added its successors (`HandedOver`); so either some
job failed or both insights jobs are completed, both flags are up, and by
`OutcomeInvariant` the meeting is settled or FAILED, as nobody is left to settle it.

*ProgressKept* is the other half of the run `pipeline_repost`. Requests that do not
overlap save once (`SavedFirst`); by `MarkedInvariant` a stage has marked the
meeting before it goes on, and no later copy is older than the mark.

*ImplementsChain* uses `ResultsInvariant` for the payloads (what a late add carries is
still what the cache holds, so that a job that is started again gets what it got
before), `AwaitInvariant` for the completed jobs, and the empty
cache before a store for `Obtain`. A step that touches none of the mapped variables is
a stutter; the lemma `ChainStutters` says so once.

Model-checked only: `ImplementsMachine`, which holds for one undisturbed caller and
which several callers break, and every liveness property (`EventuallySettled`, `Recovers`,
`Protects`, `AcceptedIsDecided`, `CallEnds`), which is out of reach of the prover.

## 5. Not modelled, and why

- `withRetry`, `calculateBackoff` and `addJitter` have no caller outside their unit
  tests: the "Layer 1: 3 fast retries" of the comment in `retry.util.ts` is not wired
  up, and every retry is the queue's.
- Overlapping deliveries of the first two stages: `FanIn` has them for the insights
  workers. Together with the two steps of every write they would put `pipeline`
  beyond what TLC can enumerate.
- `updateStatus` and `updatePipelineResult` of the gateway's repository and
  `invalidate` of the idempotency cache have no caller. `GET /meetings/:id` reads
  only, and the load test submits fresh ids through the same `submit`.
- Expiry of the caches of the first two stages (24 h against a pipeline of minutes;
  the meeting document has no expiry). `FanIn` has the expiry of its own keys.
- Backoff delays and the mock services' random latencies: a step may take any time.
- The count of 100 in `removeOnComplete`: a completed job of a queue in `Removing` may
  be gone at any add, which allows more than the code does.
- A limit on the probes of a half-open circuit: the code counts none, and a property
  would only repeat that. `HalfOpenIsDecided` says what several probes may not do,
  leave the circuit half-open for good; `BreakerMachine` has the single probe, which a
  single caller keeps.
- Wiring, configuration, DTO validation, logging, metrics, containers: no state
  of their own. Numeric configuration is taken to be valid.

## 6. Plan

1. Overlapping deliveries in `Pipeline`, as a smaller instance of their own without
   handlers: which of `ResultsAgree` and `HandedOver` survive a lapsed lock.
2. The composition of `Pipeline` and `FanIn` at the fan-out as a refinement: the
   insights workers of `Pipeline` as an abstraction of `FanIn`'s.
3. `Recovers` with crashes of unbounded number, if a fairness assumption on the
   crashes can be justified from the code.
