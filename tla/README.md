# A TLA+ development of FraudShield (DeceptiScope)

FraudShield accepts Android packages over HTTP, analyses them statically and, when an
emulator is there, dynamically, and keeps results, indicators, campaigns and an audit
trail in SQLite or PostgreSQL. Most of its code turns data into data. What is hard about
it is elsewhere: several API processes, several workers and their heartbeat threads share
one database and one artifact store, and each operation is several calls with crashes,
expired leases, retries and other processes in between. The development starts there, and
goes on to the analysis itself: threads that outlive their requests, experiments on an
emulator that fail halfway, and a score and verdicts that must rest on what was observed.

Sources are quoted as `file:line` under `src/fraudshield/`.

## 1. The system

| Component | State | Operations | Works with | What makes it correct |
|---|---|---|---|---|
| Durable job queue: `JobRepository` (core/repository.py:669), `DurableWorker` (worker.py) | table `jobs` (core/database.py:106); per worker the claimed job and a heartbeat thread | enqueue, claim, renew_lease, complete, fail, cancel, retry | job route, artifact store, pipeline | a job is settled only by the worker that owns its current attempt; completed is final; the attempt budget decides; every job ends; columns agree with the status |
| Job route (api/routes/jobs.py) and `_process_apk` (worker.py:29) | locals of a request; the artifacts | submit, cancel, retry; copy, analyse, delete, complete | queue, artifact store | one job per Idempotency-Key; a completed job has an analysis; an upload is there until it is analysed and gone afterwards |
| Artifact store (core/storage.py) | objects named by digest | put_file, exists, materialize, delete | route, worker | no reader loses what it needs |
| Audit trail: `AuditRepository` (core/repository.py:429) | `audit_events`, `audit_chain_state`, keyring | append, verify_chain | middleware, auditors, key rotation | the chain never forks; every edit is found; no false alarm |
| API middleware (main.py:131) | `app.state.audit_degraded` per process | 503 check, handler, audit | audit trail, readiness (api/routes/system.py:66) | fails closed; every request is audited |
| Database (core/database.py) | schema, `schema_migrations` | initialize, transaction | everything | migrations apply once |
| Analysis records (core/repository.py:70), inline routes (api/routes/analyses.py, legacy.py) | table `analyses`; a semaphore; the uploads | create, mark_running, complete, fail; store, analyse with a timeout, answer, remove | pipeline, job worker | what a client is told is what the record says; slots are returned; uploads are removed |
| Indicators (core/repository.py:287) | `indicators`, `indicator_sightings` | upsert, cleanup_synthetic_records | routes, pipeline | counts equal sightings; severity never falls; a completed analysis is indexed |
| FraudDNA campaigns (deceptiscope/frauddna/) | fingerprints, campaigns, members | correlate | pipeline | campaigns hang together by anchors; nothing a member brought is lost; identifiers are unique |
| Analysis pipeline (deceptiscope/pipeline.py) | locals of one analysis | analyze_uploaded | all of the parts below | every analysis ends in a settled row; parts that fail are admitted |
| Extraction and engines (deceptiscope/extractor.py, engines.py) | files, external tools | extract, run_all, assess | pipeline | gaps are reported, also of engines that hang, fail or are cut short |
| Investigation (deceptiscope/investigation.py, experiments.py) | none | validate, plan_requests, feedback | language model, pipeline | an answer of the model decides nothing by itself |
| Dynamic analysis (deceptiscope/dynamic.py, runtime/) | one emulator, one session, the evidence builder | run experiments, collect, clean up | pipeline | what was installed is removed, however the experiments failed; evidence is attributed to the right experiment |
| Scoring, verifier, lineage (deceptiscope/scoring.py, fraud_delta.py, verifier.py, lineage/) | none: functions | score, verify, correlate | pipeline | caps and floors hold; weak evidence never confirms and never scores |
| Payload recovery (deceptiscope/payloads/) | a counter per process | process_payload_bytes | dynamic analysis, threads | numbers are distinct and within the limit |
| Reports, security, metrics, command line, frontend | output; a cache of keys | format, check tokens | all | outside this development |

The interactions: the route stores an artifact and inserts a row; a worker claims the row,
reads the artifact, runs the pipeline, deletes the artifact and completes the row; its
heartbeat thread renews the lease meanwhile; when the lease expires another worker claims
the row. The middleware surrounds every request and appends one audit event after the
handler, in a transaction that locks the head of the chain. Inside an analysis everything
is a call: extraction, engines, a preliminary score, the language model's hypotheses and
plan, the experiments on the emulator, payloads and FraudDNA, lineage, verdicts, the final
score, the indicators, the record. Threads of one process share the payload counter and
the semaphore; all processes share the tables.

`PROJECT.json` lists the hazards of the code at their lines, with the properties that
would notice each.

## 2. Modules

**`JobQueue`** is the jobs table with its workers. `jobs[j]` is a row; timestamps are
replaced by the ticks until they are reached (`wait` for `available_at`, `lease` for
`lease_expires_at`), `created_at` by the set of older jobs. `held[w]` is what worker `w`
knows of the job it claimed and where in `process_next` it is; `beats[w]` are the heartbeat
threads of `w` that may still renew: `thread.join(timeout=2)` (worker.py:79) may leave one
behind, so a worker may have several. Each SQL transaction is one action (`Enqueue`, `Claim`,
`Renew`, `Complete`, `Cancel`, `Retry`). `fail` is two, since it reads `attempts` before
its transaction: `FailRead` and `FailWrite`. `CompleteLost` is the UPDATE that finds no
row; the exception leads to `fail`, as in worker.py:97. `FailWrite` has no guard on the
status because the code has none. `Crash` is the death of a worker process, with its
threads; the row stays.

**`JobContract`** is what a client of `GET /jobs/{id}` may rely on: status, attempts and
result, no leases and no clocks. `JobQueue` implements it under the mapping that reads the
public columns of the table (`ImplementsContract`).

**`ApkJobs`** extends `JobQueue` with the artifact store, the three routes and
`_process_apk`, one action per call: look up the key, put the artifact, look up again,
insert, settle; the two `except` paths; copy, analyse, delete, complete; and the judgement
of `_cleanup_terminal_apk` about an `updated` row that is read after `fail`. Any call may
raise (`Fault`), `enqueue` also after its INSERT is committed. The analysis is one step
that adds `<<job, attempt>>` to `analysed` or fails.

**`AuditTrail`** is the chain and the middleware of the production processes. An append is
two steps, the SELECT under the row lock and the INSERT and UPDATE; in between the event
loop of that process does nothing else, because the call is synchronous (`LoopIsFree`). A
verification is two queries. A hash is the sequence of everything that went into it, so the
only assumption about HMAC is that it is injective. Key rotation is a new newest key and
restarts of the processes one by one; old keys stay in the ring, as the runbook has it.
Events from before migration 5 have the key identifier `legacy`.

**`Campaigns`** is `correlate` with a repository. A transaction of a worker is `Begin`
(save_fingerprint, which locks the sample's row), `Compare` (all other fingerprints),
`Join`, `Found` or `Pass` (memberships, the target's columns, the next number) and
`Commit`; `Rollback` is possible throughout. `Isolated` is SQLite's `BEGIN IMMEDIATE`;
without it every step sees what others have committed by then, which is PostgreSQL's
READ COMMITTED. The memberships of all related samples are read in one step. Which campaign
comes first in the order of the corpus, and which of two campaigns of one sample the
database returns, is left open. **`Similarity`** is the score and the anchors, over
fingerprints that are records of sets, in exact arithmetic: the code adds floats, and
a sum that is exactly 0.45 may come out one unit below (0.20 + 0.15 + 0.10 does).

**`Analyses`** is the inline routes with their threads. `req[r]` is a request on the event
loop (storing the upload, waiting for a slot, running, ended), `thread[r]` the thread of the
pool that runs `analyze_uploaded` for it. `asyncio.wait_for` gives up waiting and the thread
goes on, so a request may end before its thread and its slot goes to the next: `Timeout`,
`Cancel` and `Crash` are actions beside the steps of the thread. The thread creates its row,
extracts, runs the engines in turn, recovers payloads against the process-wide counter,
writes its indicators one transaction each and completes; `Fail` and `Unlink` are the
`except` and the `finally`. A database call may raise before or after its commit (`Writes`).
An upsert of an indicator is one step on SQLite and two (`EmitRead`, `EmitWrite`) on
PostgreSQL, where the second may violate a constraint. `Cleanup` is the removal of old
demonstration data, `Manual` an analyst's entry.

**`Engines`** is the coordinator: which of an engine's outcomes are possible (refused, not
available, complete, cut short by its own deadline, failed, timed out, run on an upload that
is gone), the deduplicated findings (the last of each key, in the place of its first, sorted
and cut), and the report made of them with its admitted gaps. In `Analyses` the engines whose
turn is still to come are those that are enabled and have no status yet (`Waiting`); the
first of them in the order of `run_all` is next.

**`Investigation`** is one analysis with the language model and the emulator, as the states
of `analyze_uploaded`: preliminary score, plan, dynamic part, payloads, lineage, verdicts,
final score. It composes the modules that follow. **`ExperimentPlan`** validates the model's
answer and plans experiments (order, limit, capabilities). **`DynamicRun`** is
`DynamicLiteAnalyzer.observe`: preflight, install, one step per experiment to open a Frida
session, collect, and take over events, then uninstall; each adb call may fail or time out.
On the emulator side it keeps what is really there (package, screenshot, a frozen app,
whether the marker was delivered) and, as a history, what was really observed (`hist`), so
that verdicts and points can be compared with the truth and not with the evidence that they
are computed from. **`Evidence`** is the vocabulary: experiment and evidence types, trust
levels, the builder that numbers items and drops repeated ones. **`Lineage`**,
**`Verifier`** and **`RiskScore`** are the correlator with the item the pipeline adds for a
complete exfiltration, the verdict rules per category and the two-stage score with its caps.

**`JobQueueProofs`**, **`ApkJobsProofs`**, **`AuditTrailProofs`**, **`CampaignsProofs`**,
**`AnalysesProofs`** and **`InvestigationProofs`** prove theorems about the modules they are
named for (section 5). Two more hold the lemmas that the last two rest on: **`EvidenceProofs`**
about the vocabulary, the recursive functions of the models, places in an order and the
scores, and **`RunProofs`** about the planner and a run of the emulator (`DynamicRun`).

`MCJobQueue`, `MCApkJobs`, `MCAuditTrail` and `MCCampaigns` add the symmetries used by TLC,
the last one also the fingerprints; `MCInvestigation` and `MCAnalyses` define the answers,
environments, samples and worlds of their runs.

The modules build on one another so:

    JobQueue (implements JobContract) <- ApkJobs
    AuditTrail
    Similarity <- Campaigns
    Evidence <- ExperimentPlan <- DynamicRun --+
    Evidence <- Lineage, Verifier, RiskScore --+-> Investigation
    Evidence <- RiskScore <- Engines <- Analyses

    EvidenceProofs <- RunProofs <- InvestigationProofs
    EvidenceProofs <- AnalysesProofs                       (the other proofs stand alone)

Definitions whose comment begins with "A bug:" are not part of a specification. They are
the plausible mistakes against which the properties were tried: with the definition after
it replaced by the mistake, TLC finds the property violated.

## 3. What the runs check

| Run | Instance | Shows |
|---|---|---|
| `JobQueueSafety` | 2 jobs, 2 workers, 1 key, 2 attempts, lease and retry delay 1 tick, 1 client retry per job, 1 crash | rows are consistent; the owner recorded in a row is a worker on its current attempt; the budget decides; only that owner settles; completed is final; `JobContract` is implemented |
| `JobQueueLiveness` | the same without key and client retries, with fairness | every queued job ends, with two exceptions: its worker dies in its last attempt; engines hang for ever, in the worker that owns it or in all of them |
| `JobQueueAbandoned` | 1 job, 1 worker | finding 1 below |
| `ApkJobs` | 2 jobs, 2 workers, 2 APKs, 2 requests, 1 key, 1 fault or crash, uploads not retained | idempotent submission; a completed job was analysed; what happens to an artifact that only one job uses |
| `ApkJobsShared` | 2 jobs about 1 APK, 1 worker, no fault | finding 2 |
| `AuditTrail` | 2 processes, 3 requests, 2 keys, 1 fault or crash, 1 edit | the chain stays whole, every edit is found, no false alarm, only faults degrade a process, a degraded process changes nothing |
| `AuditRotation` | 1 process, 1 legacy event, 2 keys | finding 3 |
| `AuditSkipped` | 1 process, 1 request | finding 4 |
| `Campaigns` | 4 samples, 2 processes, 5 fingerprints, SQLite | members of a campaign hang together by anchors; no column loses what a member brought; no strongly similar pair stays alone; without an anchor no pair reaches the founding threshold |
| `CampaignsMerged` | 4 samples of 2 families, 2 processes, PostgreSQL | finding 5 |
| `Investigation` | 7 answers of the model, 7 environments, 2 samples, 3 log lines, 3 experiments, 1 event per session, 2 failing calls | a confirmed hypothesis was observed on the emulator, a contradicted one was tested; every item of evidence belongs to one experiment; an unsupported experiment never acts; the sample and the screenshot are off the emulator unless their removal failed or the install timed out; the report tells what ran; points follow from what was observed |
| `Analyses` | 2 requests, 2 indicators, 2 payloads, 1 manual entry, 2 faults, in 5 worlds | uploads are removed; the answer is what the record says; completed analyses are indexed; counts and severities are right; gaps are admitted; every request is answered |

*Bounds.* The races of the queue are between two owners of one row, so two workers
suffice; the second job is there for order, for keys and for a heartbeat that outlives its
job; two attempts make both outcomes of `fail` and one takeover possible, and a retry then
starts the count again. A lease of one tick expires between any two steps. `ApkJobs` needs
two requests for every race over a key, and the second APK to have artifacts that are not
shared. `AuditTrail` needs two processes for a fork, three requests for an event in the
middle of the chain and for a failed append, a degraded arrival and a recovery. Bounds are
constants: `MaxAttempts`, `LeaseTicks`, `RetryTicks`, `MaxRetries`, `MaxCrashes`,
`MaxFaults`, `MaxKey`, `Legacy`, `MaxCampaign` (999 in the code); the sets bound the rest.
`Campaigns` needs two samples to found a campaign and four for two of them; its
fingerprints are two families, one file that links them only when it is run, and one that
only behaves like a family; the number of analyses is not bounded. Crashes and faults count together
in `ApkJobs` and `AuditTrail`.

`Investigation` has an answer for each verdict rule and each way a plan can be wrong
(duplicate ids, an unknown hypothesis, nothing usable, more than the limit), an environment
for each guard of the dynamic part, and two faults, so that an experiment may fail and the
clean-up after it too; three experiments are enough for evidence of one to be repeated by
the next and judged with the failure of a third. It has 0.5 million states. The worlds of
`Analyses` are those in which different things go wrong: an engine that hangs under the v1
route, one under the legacy route, failing engines, a failing database with the same
indicators at once on SQLite, and the same on PostgreSQL. Two requests make every race over
a slot, an indicator or the payload counter (0.5 million states, with liveness); two faults
let the database fail again in the `except` of the pipeline. `ApkJobs` is the largest run
with 3.6 million states.

*Deadlock* is checked in `Investigation`: an analysis stops only when it is done, and as
none of its steps leads back, every analysis ends. In the other runs it is not checked: with
all requests used, all jobs settled and the bounds exhausted the models come to rest, as the
system does without clients.

*Fairness* (`JobQueueLiveness`): `WF(Tick)`, time passes; and `WF` of a worker's steps
outside the analysis, which `run_forever` (worker.py:139) justifies: claim, the settling of
a job, the next round of the loop. There is none for an analysis. The time limits of
engines do not bound it, since `run_guarded` leaves its executor only when the engine's
thread has ended (engines.py:791), and meanwhile the heartbeat may renew the lease for
ever. `EveryJobEnds` therefore has the exceptions of `HeldUp`: the worker that owns the
job never comes out of its analysis, or no worker does. Hangs elsewhere excuse nothing: a
worker that hangs in another job, or in one it has lost, keeps nobody else from ending
this one. There is no fairness for clients, heartbeats (the database may be away whenever
they try) and crashes.

*Fairness* (`Analyses`): the event loop takes the next step of a request, its timeout
included, and a thread that nothing holds up takes its next step (`CanGoOn`). There is none
for arrivals, cancellations, faults and crashes, and an engine that hangs stays so:
`run_guarded` waits for its executor (engines.py:791). Under the v1 route the timeout frees
the slot of such a thread; the legacy route has none, so that everybody may wait for ever
behind it. That is the exception `MayStarve` in `RequestsAreAnswered`.

## 4. Findings

1. `JobQueueAbandoned`. `claim` requires `attempts < max_attempts` also of an expired
   running row (core/repository.py:835). A worker that dies in the last attempt leaves a
   row that is `running` for ever: no worker claims it, and cancel and retry refuse it. The
   restore runbook says such jobs may be reclaimed after their lease expires. This is
   `Abandoned`, one of the exceptions in `EveryJobEnds`.
2. `ApkJobsShared`. Artifacts are named by digest, so two jobs about the same APK share
   one. The first job to complete deletes it and the other fails with
   `missing_job_artifact`, attempt after attempt. The README says uploads are deleted after
   processing. `UnsharedUploadSurvives` and `ProcessedUploadIsDeleted` state what does
   hold, of artifacts with one job.
3. `AuditRotation`. Events with the identifier `legacy` are verified with the *current*
   key (core/repository.py:609). After a rotation done as KEY_ROTATION.md says, the chain
   fails with `chain_mismatch` unless the ring also has an entry called `legacy`.
4. `AuditSkipped`. An unexpected exception of a handler passes through the middleware,
   which then appends nothing (main.py:178), though every request is said to be audited.
5. `CampaignsMerged`. On PostgreSQL two workers that found campaigns at the same time
   compute the same number, and the `ON CONFLICT DO UPDATE` of the second overwrites the
   campaign of the first and adds its members. The two families have nothing in common,
   although the documentation of `CampaignCorrelator` requires an anchor to join.
   `AttributesKept` and `StrongPairIsFound` also depend on the isolation that only SQLite
   gives; they are claimed for SQLite alone.

The following disagreements between documents and code, and behaviours that may surprise,
were met while modelling and have no run of their own. They are modelled as the code has
them.

- An install that times out may have taken effect on the emulator. `observations["installed"]`
  is set only when the call returns (dynamic.py:306-307), so the `finally` makes no attempt to
  uninstall (dynamic.py:345), and the sample stays on the emulator. The tests of the clean-up
  (tests/test_dynamic_runtime.py:154, 178) are about failures after the install, and no
  document speaks of this one. `DeviceIsCleaned` names it as the one case in which a run that
  raised leaves the sample.
- docs/ARCHITECTURE.md:40 says that engine execution is bounded, and `run_guarded` speaks of
  "a bounded wait for an adapter" (engines.py:787). The wait is bounded only for an engine that
  ends some time: see *Fairness* above. Under a worker the job stays `running` with a lease
  that is renewed; under the legacy route a slot is gone. `EveryJobEnds` and
  `RequestsAreAnswered` name these cases (`HeldUp`, `MayStarve`).
- docs/ARCHITECTURE.md:70 says that raw logcat observations do not score. The rules for
  accessibility, dynamic code and WebView accept evidence of any trust, and the OTP rule takes
  a delivered SMS together with a marker that was only seen in a log line (confidence 1.0,
  scoring.py:102-106). `PointsAreObserved` claims of the OTP rule that an SMS was delivered,
  of the exfiltration rule that a body showed the marker, of the rule for network traffic
  that there was some, and of the other three nothing about trust.
- SCORING.md:67 says that failed or timed-out experiments award no points. What an
  experiment observed before it failed (a delivered SMS) stays in the evidence and counts.
- For an interception the verifier accepts an instrumented `sms_access` as "correlated
  marker access" although that item need not contain the marker.
- A Frida session that fails between spawn and resume (frida_host.py:304) leaves the app
  suspended. A later session attaches to it, an SMS is delivered, nothing happens, and the
  verifier may say CONTRADICTED. `ContradictedWasTested` states what does hold.
- A log line that contains the word `dumpsys` counts as a binding seen by the system
  (verifier.py:260).
- Of hypotheses with the same id all get the verdict of the last (verifier.py:358).
- An engine that starts after the route has removed the upload sees a missing file:
  apksigner reports that as a completed run in which verification failed (engines.py:418).
  The client has had its 504 by then; the record keeps the finding.
- `_deduplicate_findings` keeps 150 findings (`MaxFindings`) and admits no gap when it drops
  the others. A sample with more of them may score without some that count, so the score
  half of `GapsAreReported` (`ScoreIsTold`) speaks of samples in which there is nothing to
  cut.

## 5. What is proved

The theorems hold for any sets (jobs, workers, requests, processes, samples, answers, log
lines) and any values of the bounds, from the named assumptions on constants alone.

| Module | Theorem | States |
|---|---|---|
| `JobQueueProofs` | `Invariance` | `IInv` is an invariant of the queue |
| | `TypeCorrect`, `RowsAreConsistent`, `HoldersAreFresh`, `BudgetDecides` | `TypeOK`, `RowConsistent`, `HolderIsFresh`, `AttemptBudget` |
| | `OnlyHoldersSettle`, `CompletedStays` | the action properties `SettledByHolder`, `CompletedIsFinal` |
| | `QueueKeepsContract` | `Spec => Contract!Spec` |
| `ApkJobsProofs` | `ApkInvariance` | `ApkInv` is an invariant of the composed system |
| | `QueueInside`, `ContractKept` | it implements `JobQueue`, and so keeps all of the above |
| | `ApkTypesCorrect`, `KeysAreIdempotent`, `CompletedHasAnalysis` | `ApkTypeOK`, `SameKeySameJob`, `CompletedWasAnalysed` |
| | `UploadsSurvive`, `UploadsAreDeleted` | `UnsharedUploadSurvives`, `ProcessedUploadIsDeleted` |
| `AuditTrailProofs` | `Invariance` | `IInv` is an invariant of chain, processes and auditors |
| | `ChainStaysIntact`, `EditsAreFound` | `ChainIntact`, `TamperIsDetected` |
| | `RotationIsSafe` | `RotationKeepsHistory`, if no event is older than key identifiers |
| | `NoMutualFailure`, `DegradedFailsClosed` | `OnlyFaultsDegrade`, `FailClosed` |
| | `TypesAreKept` | `AuditTypeOK` |
| `CampaignsProofs` | `CampaignInvariance`, `CampaignTypesCorrect` | `TypeInv` and `CampaignTypeOK`, on both backends |
| | `StrongPairsAreAnchored` | `UnanchoredNeverStrong`, on both backends |
| | `SerialInvariance` | `SerialIInv`, where transactions are serial |
| | `NothingIsLost`, `StrongPairsAreFound`, `CampaignsHangTogether` | `AttributesKept`, `StrongPairIsFound`, `MembersAreLinked`, where transactions are serial |
| `AnalysesProofs` | `Invariance` | `IInv` is an invariant of requests, threads and tables |
| | `SlotsAndTypes`, `UploadsEnd`, `CountsAreRight` | `AnalysesTypeOK`, `UploadsAreRemoved`, `SightingsAreCounted` |
| | `SeverityOnlyRises` | the action property `SeverityNeverFalls` |
| | `AnswersMatchRows`, `CompletedMeansIndexed` | `AnswerMatchesRow`, `CompletedIsIndexed` |
| | `GapsAreTold` | `GapsAreReported`: its scores (`ScoreIsTold`) and its verdicts (`KnownIsTold`) |
| `InvestigationProofs` | `AnalysisHolds` | `AnalysisInv` is an invariant of one analysis |
| | `ConfirmationWasObserved`, `ContradictionIsTested` | `ConfirmedWasObserved`, `ContradictedWasTested` |
| | `EvidenceAccounted`, `PointsWereObserved` | `EvidenceIsAccounted`, `PointsAreObserved` |
| | `UnsupportedIsIdle`, `PlanIsTold` | `UnsupportedNeverActs`, `PlanTellsResults` |
| | `DeviceEndsClean`, `TypesHold` | `DeviceIsCleaned`, `InvestigationTypeOK` |
| | `VerdictsHold` | every verdict is justified by the evidence and the results it is given with |
| | `CorrelationNeedsBody` | the item of a complete exfiltration rests on a marker in a captured body |

*The queue.* `AttemptBudget` is not inductive. `fail` decides outside its transaction
whether the job is requeued, so a failure is right only if the decision is still true when
it is written. `FailDecision` says so: while the worker still owns the row its decision is
what it would decide inside. That rests on `HolderIsFresh`: a row that still names the
worker is still at the attempt it works on. Ownership can only return to a worker through
`claim`, which a worker calls only when it holds nothing. `WithinBudget` and
`ClocksAtRest` complete `IInv`. There is one lemma per action of `Next`, then the action
properties and the refinement follow from `IInv` at each step.

*Routes and workers.* Every step of `ApkJobs` is a step of the queue or leaves it alone, so
`IInv` and everything proved from it carry over (`QueueInside`). `ApkInv` adds the locals of
a request at each call (`LocalInv`), rows and their keys (`RowInv`), what a submission was
answered (`AnswerInv`), the step of `_process_apk` beside the phase of `process_next`
(`WorkInv`), and the life of artifacts. The last needs a notion of who is *about* an APK:
between put and insert a request has its artifact or somebody else is about the same APK
(`StoredInv`, `Contested`), and whoever deletes it has either analysed it, ended its only
job, or shares it. Sharing is for good: who was alone after a step was so before it.

*The audit trail.* `LockInv` says who can be between the two statements of an append;
`ChainInv` what the chain is as long as nobody edits it (`Intact`) and where the broken row
is once somebody did (`Broken`), which no later append mends because hashes are injective.
`CheckInv` and `FoundInv` carry this across the two queries of a verification, `ClosedInv`
what a degraded process has let in. `AuditTypeOK` follows once it is known of each request
where it may be (`RequestType`). `RotationIsSafe` assumes `Legacy = 0`, and finding 3 is
what happens otherwise.

*Campaigns.* That no pair is strong without an anchor is arithmetic: the supporting signals
add up to 30 of the 45 percent. For the rest `SerialIInv` says that a transaction which has
compared or decided is still right about the corpus and the campaigns: its lists are those
of the current corpus, the campaign it joins exists, and the number it founds one with is
free (`NextIsNew`, for which a bounded set of numbers must have a largest element). Then a
commit adds to a campaign one sample that is anchored to a member (`OneMore`), or founds one
around a sample (`AroundOne`). `CampaignsMerged` is the counterexample to all of it where
transactions are not serial.

*Analyses.* `IInv` ties the slots to the running requests and files to requests
(`RequestInv`), payload numbers to threads (`ThreadInv`), and counts to sightings
(`TableInv`); one lemma (`TableStep`) covers every way an upsert is made. `ResultInv` says
that how far a thread has come shows in its row, and how it ended in the answer to its
request: a completed row is answered with an error only after two faults, one that makes the
pipeline fail after its commit and one that keeps `fail` from saying so. `IndexInv` is the
invariant of the loop over the candidates: those before the current one are in the index
with a severity that is grave enough, and stay there whatever other analyses, analysts and
the clean-up do. `LookupInv` says that VirusTotal, where it may be asked, has answered or
failed once its turn is over; a failure is a gap, so a report without gaps has its answer.
`FoundInv` says what the engines of a request that still runs have found between two turns:
its file is there, nothing was found that is not in the sample, and of an engine that
completed and does not stop early everything was (`EnginePart`). "Everything" needs care,
as findings of one key replace each other: the last of each key is what counts (`LastOf`).
Whether a thread outlives its request decides here: once the file is gone apksigner calls a
missing file a failed verification, and the invariant stops at that point because nobody is
answered any more. TLC checked `FoundInv` in all states of the run before it was proved.

*Scores.* `GapsAreTold` compares scores of three lists of findings, so it rests on what a
score is. `DeduplicatedIs` says of the sorted and cut list that it has last findings only,
each once, and all of them below the cut; that every place in the order is taken by exactly
one is `PlacesInOrder`, which the planner's order uses too. A sum grows when each of its
numbers has one of its own, no less, in another sum (`TotalGrows`); so do the credit of an
engine, the points of all engines, which count at the first finding of each, Python's
`round` and the static score (`StaticScoreGrows`). In words: no finding ever lowers a score.

*One analysis.* `CleanInv` says at which steps of a run the package and the screenshot may be
on the emulator, and which failed call or timed-out install they are left by. `RunInv` is about the rest of a run: its evidence is numbered in order and
genuine, by the history `hist` and the marker that was received (`ItemsInv`, with `Sound`
and `Genuine`); results tell the experiments in their order, and an observation of the
network or of accessibility is complete only if it left an item (`TodoInv`, `ResultsInv`,
`Showed`); each item counted is the share of exactly one experiment (`SharesInv`); only
experiments that may act have done so (`ActedInv`). `AnalysisInv` adds the plan as it was
made and as it is told (`PlanInv`), that a run is that of this plan (`AskedInv`), that
evidence and results are those of a run that returned (`TakenInv`), the scores (`SetInv`)
and that verdicts are those of the verifier for them (`VerdictInv`). From there each theorem
is short: a confirmation has evidence of its category's own kind and trust, whatever status
the model claimed, and as that evidence is genuine it was observed; what the verifier
contradicts by itself was tested by a session and follows no failed experiment of the kinds
that matter; each rule that gave points cites an item, and that item is genuine. TLC checked
`AnalysisInv` in all states of the run before it was proved.

*Recursive functions.* The evidence builder, the planner and the scores are loops over
lists. Here they are recursive functions rather than folds, and that they are what their
equations say, and what holds along them, is proved in `EvidenceProofs` (`Recursion`,
`HoldsAlong`) from induction over sets of naturals (`Induction`), which follows from the
least element of such a set (`Least`); the library's induction theorem has an operator for
its parameter, which the provers cannot instantiate.

*What the attempts found.* `ItemsInv` was not provable at first, and TLC refuted it: in
`Reported` of `DynamicRun` a conjunct stood one column too far to the right and so belonged
to the conclusion of the implication above it. The model let hooks report that were not
installed, and bodies and addresses show a marker that was not yet received. With the
conjunct in its place the run has less than half of the states it had.

The first model of `_deduplicate_findings` broke ties by the place of the last finding of a
key, and weighed severity and points in one number. The code's dictionary keeps the place of
the first finding of a key, and its order compares severity, then points, then identifier.
`Before` now has the order of the code; `DeduplicatedIs` is about that one.

*Only model-checked:* `EveryJobEnds` and `RequestsAreAnswered`, which need fairness and so
are outside this prover's reach, and the five findings. Every other property of the passing
runs is a theorem, under the hypotheses named above: serial transactions for three of those
on campaigns, and no events from before key identifiers for `RotationIsSafe`.

## 6. What is left out

Kinds of jobs other than `apk_analysis` do not exist (the schema forbids them). The clock
is the same for all workers: the code compares timestamps of different hosts, and a skew
acts like a lease that is longer or shorter by as much. The S3 store, its encryption and the
path checks of the local one are left out: put and delete are single steps. SQL transactions
are atomic; on PostgreSQL `SKIP LOCKED` and the row locks of UPDATE make the claims and
updates of one row serial, on SQLite `BEGIN IMMEDIATE` does. In `AuditTrail` an edit happens
between appends, never inside one (they write different rows), and the contents of an event
are abstracted to the request it is about. What a load balancer does with an unready pod is
outside the repository: requests may arrive at any process.

`Analyses` assumes that `asyncio.wait_for` ends the await of `run_in_threadpool` while its
thread goes on. A thread's step between two calls is atomic, since no other thread can come
between the test of the payload counter and its increment without a call in between. On
PostgreSQL a concurrent upsert may overwrite a graver severity, so `SeverityNeverFalls` and
the severities of `CompletedIsIndexed` are claimed for SQLite. `Analyses` leaves the
emulator and the language model to `Investigation`, which in turn has no tables.

In `DynamicRun` an app may do anything its hooks can report, but shows the marker only once
it was delivered. Texts are abstracted to what they match; the prompts, the redaction of
what is sent to the model, and the wording that a feedback round changes are left out.
Similarity in exact arithmetic is discussed under `Similarity`.

*Not modelled*: migrations (`initialize` runs before everything else here; its scripts on
SQLite commit by themselves, which reading them shows better than a run would); what
parsers, external tools and the payload analyser find in bytes; brand and impersonation
analysis, FraudDNA extraction, impact and reports, which are functions of data without
state; authentication, metrics, the command line and the frontend.

## 7. Plan

What would come next, in this order:

1. Records and jobs together: rows of `analyses` left behind by attempts that died, seen
   from the jobs that retried them (`ApkJobs` over `Analyses`).
2. Migrations of two processes that start at once, with scripts that commit on their own.
