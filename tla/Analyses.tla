------------------------------ MODULE Analyses ------------------------------
(***************************************************************************)
(* Analyses on request: the routes that analyse an upload at once          *)
(* (api/routes/analyses.py, legacy.py) under a semaphore, the threads that *)
(* run AnalysisPipeline.analyze_uploaded (deceptiscope/pipeline.py), and   *)
(* what these share: the rows of analyses and indicators                   *)
(* (core/repository.py), the files of uploads (validator.py) and the one   *)
(* PayloadRecoveryManager of the process.                                  *)
(*                                                                         *)
(* A request that times out is answered while its thread goes on, so there *)
(* may be more threads than slots.  What the emulator and the language     *)
(* model contribute is in Investigation.                                   *)
(***************************************************************************)
EXTENDS Engines

CONSTANTS
  Request,
  Indicator,     \* indicators by their normalized values
  World,         \* settings, hosts and what is uploaded
  MaxPayloads,   \* max_payload_count
  MaxManual,     \* bound: indicators entered by analysts
  MaxFaults      \* bound: faults, cancellations and crashes

\* A row of indicators.
Severities == {"LOW", "MEDIUM", "HIGH", "CRITICAL"}
IndicatorRow == [severity : Severities, count : Nat]

\* How a request may end: what its thread returned or raised, or what came first.
Outcome == {"created", "error", "refused", "timeout", "cancelled", "lost"}

\* The one analysis of an old demonstration.
Synthetic == "synthetic"

\* A world: the database, the number of slots, the setting of every engine and
\* whether one may never come to an end, what the requests bring, what old
\* demonstration data name, and what may go wrong.  A sample is one of Engines,
\* with what makes its archive invalid (or NULL), its indicators, and the code
\* it is seen to load.
ASSUME AnalysesAssumption ==
  /\ IsFiniteSet(Request) /\ IsFiniteSet(Indicator) /\ NULL \notin IndicatorRow \cup Outcome
  /\ Synthetic \notin Request
  /\ \A w \in World :
       /\ w.db \in {"sqlite", "postgres"} /\ w.slots \in Nat \ {0} /\ w.slow \in BOOLEAN
       /\ DOMAIN w.setup = Adapter
       /\ \A r \in Request : /\ w.brings[r].route \in {"v1", "legacy"}
                             /\ w.brings[r].sample.iocs \in Seq(STRING)
                             /\ w.brings[r].sample.findings \in Seq(Finding)
       /\ w.old \subseteq Indicator
       /\ w.faults \subseteq {"server", "database", "files", "engines"}
  /\ MaxPayloads \in Nat /\ MaxManual \in Nat /\ MaxFaults \in Nat

VARIABLES
  world,
  req,        \* requests: where they are, and their answers
  free,       \* slots of apk_analysis_semaphore
  thread,     \* the thread of each request
  file,       \* its upload: "none", "part" (being stored) or "apk"
  row,        \* its row of analyses, or NoRow
  ioc,        \* [Indicator -> row of indicators, or NULL]
  sightings,  \* <<indicator, source>>
  purged,     \* history: sightings deleted by the clean-up, per indicator
  recovered,  \* _recovered_count
  manual,
  faults,
  left        \* history: requests that lost their chance to remove the upload

vars == <<world, req, free, thread, file, row, ioc, sightings, purged, recovered, manual,
          faults, left>>
indexVars == <<ioc, sightings, purged>>

Route(r) == world.brings[r].route
SampleOf(r) == world.brings[r].sample

NoRequest == [at |-> "out", answer |-> NULL]
\* A thread: where it is and how far in a loop, what its engines reported, the
\* report, numbers of payloads, the indicator it read, and how it ended.
NoThread ==
  [at |-> "none", k |-> 1, statuses |-> <<>>, findings |-> <<>>, report |-> NULL,
   payloads |-> {}, seen |-> NULL, result |-> NULL]

NoRow == [status |-> "none", report |-> NULL]

Init ==
  /\ world \in World
  /\ req = [r \in Request |-> NoRequest] /\ thread = [r \in Request |-> NoThread]
  /\ free = world.slots
  /\ file = [r \in Request |-> "none"] /\ row = [r \in Request |-> NoRow]
  /\ ioc = [i \in Indicator |-> IF i \in world.old THEN [severity |-> "LOW", count |-> 1] ELSE NULL]
  /\ sightings = world.old \X {Synthetic}
  /\ purged = [i \in Indicator |-> 0]
  /\ recovered = 0
  /\ manual = 0 /\ faults = 0 /\ left = {}

Fault(kind) == kind \in world.faults /\ faults < MaxFaults /\ faults' = faults + 1

-----------------------------------------------------------------------------
(* Requests, on the event loop.                                            *)

\* store_apk_upload begins: the upload is written to a temporary file.
Arrive(r) ==
  /\ req[r].at = "out"
  /\ req' = [req EXCEPT ![r].at = "storing"]
  /\ file' = [file EXCEPT ![r] = "part"]
  /\ UNCHANGED <<world, free, thread, row, indexVars, recovered, manual, faults, left>>

Ended(r, answer) == req' = [req EXCEPT ![r].at = "ended", ![r].answer = answer]

\* Empty, too large, or the disk is full: what was written is removed.
Refuse(r) ==
  /\ req[r].at = "storing"
  /\ Ended(r, "refused")
  /\ file' = [file EXCEPT ![r] = "none"]
  /\ UNCHANGED <<world, free, thread, row, indexVars, recovered, manual, faults, left>>

\* The file gets its name, and the request waits for a slot.
Store(r) ==
  /\ req[r].at = "storing"
  /\ req' = [req EXCEPT ![r].at = "waiting"]
  /\ file' = [file EXCEPT ![r] = "apk"]
  /\ UNCHANGED <<world, free, thread, row, indexVars, recovered, manual, faults, left>>

\* A slot, and a thread for the pipeline.
Acquire(r) ==
  /\ req[r].at = "waiting" /\ free > 0
  /\ free' = free - 1
  /\ req' = [req EXCEPT ![r].at = "running"]
  /\ thread' = [thread EXCEPT ![r].at = "create"]
  /\ UNCHANGED <<world, file, row, indexVars, recovered, manual, faults, left>>

\* A bug: the pipeline's own clean-up is relied upon.
FinallyNothing(r) == file' = file /\ left' = left /\ faults' = faults

\* The finally of the routes; an OSError is passed over.
Finally(r) ==
  \/ /\ file' = [file EXCEPT ![r] = "none"]
     /\ left' = left /\ faults' = faults
  \/ /\ Fault("files") /\ file[r] # "none"
     /\ left' = left \cup {r} /\ file' = file

\* A bug: the slot is given back by the thread, which a timeout cuts off.
ReleaseOnResult(r) == free' = IF thread[r].at = "over" THEN free + 1 ELSE free

\* The semaphore's async with is left however the request ends.
Release(r) == free' = free + 1

\* The thread returned or raised in time.
Answer(r) ==
  /\ req[r].at = "running" /\ thread[r].at = "over"
  /\ Ended(r, thread[r].result)
  /\ Release(r) /\ Finally(r)
  /\ UNCHANGED <<world, thread, row, indexVars, recovered, manual>>

\* asyncio.wait_for of the v1 route: 504.  Nobody stops the thread.
Timeout(r) ==
  /\ req[r].at = "running" /\ Route(r) = "v1" /\ thread[r].at # "over"
  /\ Ended(r, "timeout")
  /\ Release(r) /\ Finally(r)
  /\ UNCHANGED <<world, thread, row, indexVars, recovered, manual>>

\* The server is told to stop, or the client has gone.  A cancellation is no
\* Exception: one that hits store_apk_upload leaves its temporary file.
Cancel(r) ==
  /\ req[r].at \in {"storing", "waiting", "running"}
  /\ Fault("server")
  /\ Ended(r, "cancelled")
  /\ free' = IF req[r].at = "running" THEN free + 1 ELSE free
  /\ file' = IF req[r].at = "storing" THEN file ELSE [file EXCEPT ![r] = "none"]
  /\ left' = IF req[r].at = "storing" THEN left \cup {r} ELSE left
  /\ UNCHANGED <<world, thread, row, indexVars, recovered, manual>>

-----------------------------------------------------------------------------
(* The thread of a request: analyze_uploaded.                              *)

\* What the threads leave alone.
ThreadOnly == UNCHANGED <<world, req, free, purged, manual>>

NoIndex == UNCHANGED <<ioc, sightings, recovered>>

GoTo(r, at) == thread' = [thread EXCEPT ![r].at = at, ![r].k = 1]

\* An exception before the try: neither fail nor the clean-up of the pipeline.
RaiseEarly(r) == thread' = [thread EXCEPT ![r].at = "over", ![r].result = "error"]

\* A database call: it works, or raises before or after its commit.  The row
\* becomes "new" if it commits.
Writes(r, new, Continue, Raised) ==
  \/ row' = [row EXCEPT ![r] = new] /\ Continue /\ faults' = faults
  \/ Fault("database") /\ row' \in {row, [row EXCEPT ![r] = new]} /\ Raised

Create(r) ==
  /\ thread[r].at = "create"
  /\ Writes(r, [status |-> "pending", report |-> NULL], GoTo(r, "mark"), RaiseEarly(r))
  /\ UNCHANGED <<file, left>> /\ NoIndex /\ ThreadOnly

MarkRunning(r) ==
  /\ thread[r].at = "mark"
  /\ Writes(r, [row[r] EXCEPT !.status = "running"], GoTo(r, "extract"), RaiseEarly(r))
  /\ UNCHANGED <<file, left>> /\ NoIndex /\ ThreadOnly

\* validate_apk_archive: the defects it refuses an archive for.
ArchiveDefect ==
  {"invalid_apk_magic", "apk_too_many_entries", "unsafe_apk_path", "duplicate_apk_entry",
   "encrypted_apk_entry", "unsafe_apk_symlink", "apk_uncompressed_too_large",
   "missing_manifest", "suspicious_compression_ratio", "invalid_apk_zip"}

\* StaticAPKExtractor.extract: a file that is gone, or not an APK, is an error;
\* one that Androguard cannot parse is a partial extraction.
Extract(r) ==
  /\ thread[r].at = "extract"
  /\ GoTo(r, IF file[r] = "apk" /\ SampleOf(r).defect \notin ArchiveDefect THEN "engines" ELSE "fail")
  /\ UNCHANGED <<row, file, faults, left>> /\ NoIndex /\ ThreadOnly

Enabled == {a \in Adapter : Ready(world.setup[a])}

\* The places of the engines whose turn is still to come; those that are not
\* enabled, and androguard, are reported at once.
Waiting(r) ==
  {i \in DOMAIN AdapterOrder :
     LET a == AdapterOrder[i] IN
     a # "androguard" /\ Ready(world.setup[a]) /\ a \notin DOMAIN thread[r].statuses}

AllStatuses(r) ==
  [a \in Adapter |->
     IF a \in DOMAIN thread[r].statuses THEN thread[r].statuses[a]
     ELSE IF a = "androguard" THEN Androguard(world.setup[a], SampleOf(r)).status
     ELSE Refused(world.setup[a])]

\* run_all: the status of an engine joins those of the engines before it.
Noted(statuses, a, status) ==
  [b \in DOMAIN statuses \cup {a} |-> IF b = a THEN status ELSE statuses[b]]

RunEngine(r) ==
  /\ thread[r].at = "engines"
  /\ \E i \in Waiting(r) :
       LET a == AdapterOrder[i]
           regular == Regular(a, world.setup[a], SampleOf(r), file[r] = "apk") IN
       /\ \A j \in Waiting(r) : i <= j
       /\ \E o \in regular \cup Broken(a, world.setup[a]) :
            /\ IF o \in regular THEN faults' = faults ELSE Fault("engines")
            /\ thread' = [thread EXCEPT ![r].statuses = Noted(@, a, o.status),
                                        ![r].findings = @ \o o.findings]
  /\ UNCHANGED <<row, file, left>> /\ NoIndex /\ ThreadOnly

\* run_guarded reports a timeout only when the engine has come to an end: its
\* executor waits for it.
Hang(r) ==
  /\ thread[r].at = "engines" /\ Waiting(r) # {} /\ world.slow
  /\ GoTo(r, "hung")
  /\ UNCHANGED <<row, file, faults, left>> /\ NoIndex /\ ThreadOnly

\* The preliminary score, which is the final one unless the emulator adds to it.
Assess(r) ==
  /\ thread[r].at = "engines" /\ Waiting(r) = {}
  /\ thread' = [thread EXCEPT
       ![r].at = "payloads", ![r].k = 1, ![r].statuses = <<>>, ![r].findings = <<>>,
       ![r].report = Report(SampleOf(r), AllStatuses(r), thread[r].findings)]
  /\ UNCHANGED <<row, file, faults, left>> /\ NoIndex /\ ThreadOnly

-----------------------------------------------------------------------------
(* Recovered payloads.                                                     *)

Events(r) == SampleOf(r).events

\* A bug: one payload more than the limit is taken.
RoomForOneMore == recovered <= MaxPayloads

Room == recovered < MaxPayloads

\* PayloadRecoveryManager.process_payload_bytes, and the pipeline's own entry
\* for code whose bytes it could not get.  The code between the test of the
\* count and its increment calls nothing, so no other thread comes in between.
RecoverPayload(r) ==
  /\ thread[r].at = "payloads" /\ thread[r].k <= Len(Events(r))
  /\ IF Events(r)[thread[r].k] # "UNAVAILABLE" /\ Room
     THEN /\ recovered' = recovered + 1
          /\ thread' = [thread EXCEPT ![r].k = @ + 1, ![r].payloads = @ \cup {recovered + 1}]
     ELSE /\ recovered' = recovered
          /\ thread' = [thread EXCEPT ![r].k = @ + 1]
  /\ UNCHANGED <<row, file, faults, left, ioc, sightings>> /\ ThreadOnly

\* FraudDNA, lineage, verification and the final score (other modules).  What they
\* compute is no matter here; the correlation with campaigns reads and writes the
\* database and may raise, which fails the analysis.
PayloadsDone(r) ==
  /\ thread[r].at = "payloads" /\ thread[r].k > Len(Events(r))
  /\ \/ GoTo(r, "emit") /\ faults' = faults
     \/ GoTo(r, "fail") /\ Fault("database")
  /\ UNCHANGED <<row, file, left>> /\ NoIndex /\ ThreadOnly

-----------------------------------------------------------------------------
(* Indicators.                                                             *)

\* _indicator_candidates.
Candidates(r) == IF thread[r].report.score >= 50 THEN SampleOf(r).iocs ELSE <<>>

\* A bug: what was said last counts.
LatestSeverity(old, new) == new

\* merged_severity.
Graver(old, new) == IF Rank(new) > Rank(old) THEN new ELSE old

\* A bug: the number is raised whether there was a sighting or not.
NeverSighted(i, source) == FALSE

Sighted(i, source) == <<i, source>> \in sightings

\* The body of upsert's transaction after its first SELECT: "seen" is the row
\* found by that, or NULL.
Upsert(i, source, seen, severity) ==
  /\ sightings' = sightings \cup {<<i, source>>}
  /\ ioc' = [ioc EXCEPT ![i] =
       IF seen = NULL THEN [severity |-> severity, count |-> 1]
       ELSE [severity |-> Graver(seen.severity, severity),
             count |-> ioc[i].count + (IF Sighted(i, source) THEN 0 ELSE 1)]]

\* On PostgreSQL the row may have come or gone since it was looked for: UNIQUE
\* or the foreign key refuses what follows.
Refutes(i, seen) == (seen = NULL) # (ioc[i] = NULL)

Emitting(r) == thread[r].at = "emit" /\ thread[r].k <= Len(Candidates(r))

Candidate(r) == Candidates(r)[thread[r].k]

\* A bug: an indicator that is refused is passed over.
EmitInvalidIgnored(r) ==
  /\ Emitting(r) /\ Candidate(r) \notin Indicator
  /\ thread' = [thread EXCEPT ![r].k = Len(Candidates(r)) + 1]
  /\ UNCHANGED <<row, file, faults, left>> /\ NoIndex /\ ThreadOnly

\* normalize_indicator refuses the value: the analysis fails, and what it has
\* emitted stays.
EmitInvalid(r) ==
  /\ Emitting(r) /\ Candidate(r) \notin Indicator
  /\ GoTo(r, "fail")
  /\ UNCHANGED <<row, file, faults, left>> /\ NoIndex /\ ThreadOnly

\* SQLite: BEGIN IMMEDIATE makes the transaction one step.
Emit(r) ==
  /\ Emitting(r) /\ Candidate(r) \in Indicator /\ world.db = "sqlite"
  /\ Upsert(Candidate(r), r, ioc[Candidate(r)], thread[r].report.severity)
  /\ thread' = [thread EXCEPT ![r].k = @ + 1]
  /\ UNCHANGED <<row, file, faults, left, recovered>> /\ ThreadOnly

\* PostgreSQL: READ COMMITTED lets others in between.
EmitRead(r) ==
  /\ Emitting(r) /\ Candidate(r) \in Indicator /\ world.db = "postgres"
  /\ thread' = [thread EXCEPT ![r].at = "write", ![r].seen = ioc[Candidate(r)]]
  /\ UNCHANGED <<row, file, faults, left>> /\ NoIndex /\ ThreadOnly

EmitWrite(r) ==
  /\ thread[r].at = "write"
  /\ IF Refutes(Candidate(r), thread[r].seen)
     THEN /\ thread' = [thread EXCEPT ![r].at = "fail", ![r].k = 1, ![r].seen = NULL]
          /\ UNCHANGED <<ioc, sightings>>
     ELSE /\ thread' = [thread EXCEPT ![r].at = "emit", ![r].k = @ + 1, ![r].seen = NULL]
          /\ Upsert(Candidate(r), r, thread[r].seen, thread[r].report.severity)
  /\ UNCHANGED <<row, file, faults, left, recovered>> /\ ThreadOnly

\* The database is away, before the commit of an upsert or after it.
EmitFault(r) ==
  /\ Emitting(r) /\ Candidate(r) \in Indicator
  /\ Fault("database") /\ GoTo(r, "fail")
  /\ \/ UNCHANGED <<ioc, sightings>>
     \/ Upsert(Candidate(r), r, ioc[Candidate(r)], thread[r].report.severity)
  /\ UNCHANGED <<row, file, left, recovered>> /\ ThreadOnly

-----------------------------------------------------------------------------
(* The end of an analysis.                                                 *)

Leave(r, result) ==
  thread' = [thread EXCEPT ![r].at = "unlink", ![r].k = 1, ![r].result = result,
                            ![r].report = NULL, ![r].payloads = {}]

Complete(r) ==
  /\ thread[r].at = "emit" /\ thread[r].k > Len(Candidates(r))
  /\ Writes(r, [status |-> "completed", report |-> thread[r].report],
            Leave(r, "created"), GoTo(r, "fail"))
  /\ UNCHANGED <<file, left>> /\ NoIndex /\ ThreadOnly

\* A bug: only an analysis that is running is marked as failed.
FailRunning(r) ==
  /\ thread[r].at = "fail"
  /\ Writes(r, IF row[r].status = "running" THEN [row[r] EXCEPT !.status = "failed"] ELSE row[r],
            Leave(r, "error"), Leave(r, "error"))
  /\ UNCHANGED <<file, left>> /\ NoIndex /\ ThreadOnly

\* fail has no guard on the status: an analysis whose completion was committed
\* but not read back becomes a failed one that keeps its result.
Fail(r) ==
  /\ thread[r].at = "fail"
  /\ Writes(r, [row[r] EXCEPT !.status = "failed"], Leave(r, "error"), Leave(r, "error"))
  /\ UNCHANGED <<file, left>> /\ NoIndex /\ ThreadOnly

\* The finally of analyze_uploaded.
Unlink(r) ==
  /\ thread[r].at = "unlink"
  /\ thread' = [thread EXCEPT ![r].at = "over"]
  /\ \/ file' = [file EXCEPT ![r] = "none"] /\ faults' = faults
     \/ Fault("files") /\ file[r] # "none" /\ file' = file
  /\ UNCHANGED <<row, left>> /\ NoIndex /\ ThreadOnly

ThreadStep(r) ==
  \/ Create(r) \/ MarkRunning(r) \/ Extract(r) \/ RunEngine(r) \/ Hang(r) \/ Assess(r)
  \/ RecoverPayload(r) \/ PayloadsDone(r) \/ EmitInvalid(r) \/ Emit(r) \/ EmitRead(r)
  \/ EmitWrite(r) \/ EmitFault(r) \/ Complete(r) \/ Fail(r) \/ Unlink(r)

-----------------------------------------------------------------------------
(* Others.                                                                 *)

\* POST /indicators: no analysis is the source.
Manual ==
  /\ manual < MaxManual
  /\ manual' = manual + 1
  /\ \E i \in Indicator, severity \in {"LOW", "CRITICAL"} : Upsert(i, NULL, ioc[i], severity)
  /\ UNCHANGED <<world, req, free, thread, file, row, purged, recovered, faults, left>>

\* cleanup_synthetic_records (command cleanup-db): sightings are deleted and
\* their numbers are not taken back; indicators without a sighting go.
Cleanup ==
  /\ \E s \in sightings : s[2] = Synthetic
  /\ LET gone == {s \in sightings : s[2] = Synthetic}
         kept == sightings \ gone IN
     /\ sightings' = kept
     /\ ioc' = [i \in Indicator |-> IF \E s \in kept : s[1] = i THEN ioc[i] ELSE NULL]
     /\ purged' = [i \in Indicator |->
                     IF ioc'[i] = NULL THEN 0
                     ELSE purged[i] + Cardinality({s \in gone : s[1] = i})]
  /\ UNCHANGED <<world, req, free, thread, file, row, recovered, manual, faults, left>>

\* The process dies and is started again.
Crash ==
  /\ \E r \in Request : req[r].at \in {"storing", "waiting", "running"}
  /\ Fault("server")
  /\ req' = [r \in Request |->
               IF req[r].at \in {"storing", "waiting", "running"}
               THEN [req[r] EXCEPT !.at = "ended", !.answer = "lost"] ELSE req[r]]
  /\ thread' = [r \in Request |-> IF thread[r].at \in {"none", "over"} THEN thread[r]
                                  ELSE [NoThread EXCEPT !.at = "dead"]]
  /\ left' = left \cup {r \in Request : req[r].at \in {"storing", "waiting", "running"}}
  /\ free' = world.slots /\ recovered' = 0
  /\ UNCHANGED <<world, file, row, indexVars, manual>>

RequestStep(r) ==
  Refuse(r) \/ Store(r) \/ Acquire(r) \/ Answer(r) \/ Timeout(r)

Next ==
  \/ \E r \in Request : Arrive(r) \/ RequestStep(r) \/ Cancel(r) \/ ThreadStep(r)
  \/ Manual \/ Cleanup \/ Crash

\* The event loop goes on, a request in the queue gets its slot, and so do the
\* threads that nothing holds up.  The second conjunct is WF_vars(ThreadStep(r)),
\* with the condition that enables the step written out: TLC is slow to find it.
CanGoOn(r) == thread[r].at \notin {"none", "hung", "over", "dead"}

Fairness ==
  \A r \in Request :
    /\ WF_vars(RequestStep(r))
    /\ []<>~CanGoOn(r) \/ []<><<thread'[r] # thread[r]>>_vars

Spec == Init /\ [][Next]_vars /\ Fairness

-----------------------------------------------------------------------------

Status == {"none", "pending", "running", "completed", "failed"}

\* Every variable has its type; the slots that are taken are those of running
\* requests, and payloads of one process that were taken have distinct numbers
\* within the limit.
AnalysesTypeOK ==
  /\ world \in World /\ faults \in 0 .. MaxFaults /\ manual \in 0 .. MaxManual
  /\ \A r \in Request :
       /\ req[r].at \in {"out", "storing", "waiting", "running", "ended"}
       /\ file[r] \in {"none", "part", "apk"}
       /\ row[r].status \in Status
  /\ \A i \in Indicator : ioc[i] = NULL \/ ioc[i] \in IndicatorRow
  /\ free = world.slots - Cardinality({r \in Request : req[r].at = "running"})
  /\ recovered \in 0 .. MaxPayloads
  /\ \A r, q \in Request : r # q => thread[r].payloads \cap thread[q].payloads = {}

\* No upload outlives both its request and its thread, in whatever order they
\* end and wherever either of them fails; except where a cancellation hits the
\* storing itself, the file cannot be removed, or the process dies.
UploadsAreRemoved ==
  \A r \in Request :
    file[r] # "none" => req[r].at \in {"storing", "waiting", "running"} \/ r \in left

\* What the client was told is what the record says: an analysis that was
\* answered with its result is completed and stays so, one that was answered
\* with an error is not, and every thread that ends leaves its row settled; as
\* long as the database does not fail twice, or before there is anything to
\* mark as failed.
AnswerMatchesRow ==
  \A r \in Request :
    /\ req[r].answer = "created" => row[r].status = "completed"
    /\ req[r].answer = "error" /\ faults <= 1 => row[r].status # "completed"
    /\ thread[r].at = "over" /\ faults = 0 => row[r].status \in {"completed", "failed"}

\* Every indicator of a completed analysis of high risk is in the index with a
\* sighting by this analysis and, where transactions are serial, no milder than
\* the analysis.
CompletedIsIndexed ==
  \A r \in Request :
    row[r].status = "completed" /\ row[r].report.score >= 50 =>
      \A i \in ToSet(SampleOf(r).iocs) :
        /\ i \in Indicator /\ ioc[i] # NULL /\ <<i, r>> \in sightings
        /\ world.db = "sqlite" => Rank(ioc[i].severity) >= Rank(row[r].report.severity)

\* The number of sightings of an indicator counts each source once, also when
\* one analysis names an indicator twice, several do so at once, or the old
\* demonstration data are removed; what that removed is still counted.
SightingsAreCounted ==
  \A i \in Indicator :
    LET seen == {s \in sightings : s[1] = i} IN
    IF ioc[i] = NULL THEN seen = {}
    ELSE ioc[i].count = Cardinality(seen) + purged[i]

\* The severity of an indicator never falls where transactions are serial, in
\* whatever order analyses and analysts name it.
SeverityNeverFalls ==
  [][world.db = "sqlite" =>
       \A i \in Indicator :
         ioc[i] # NULL /\ ioc'[i] # NULL => Rank(ioc'[i].severity) >= Rank(ioc[i].severity)]_vars

\* A report without gaps calls a sample malicious that a provider knows as such.
KnownIsTold(r, report) ==
  report.gaps = 0 /\ Ready(world.setup["virustotal"]) /\ SampleOf(r).detections >= Threshold
    => report.verdict = "KNOWN_MALICIOUS"

\* A report that was returned and admits no gap has none: its score is what the
\* enabled engines find, give or take those that stop early, as long as nothing
\* was cut, and a sample that a provider knows as malicious is called so.
ScoreIsTold(r, report) ==
  report.gaps = 0 /\ Len(SampleOf(r).findings) <= MaxFindings =>
    report.score \in ScoreOf(SampleOf(r), FoundBy(Enabled \ CutShort, SampleOf(r)))
                       .. ScoreOf(SampleOf(r), FoundBy(Enabled, SampleOf(r)))

GapsAreReported ==
  \A r \in Request :
    req[r].answer = "created" => ScoreIsTold(r, row[r].report) /\ KnownIsTold(r, row[r].report)

\* A legacy request has no timeout: its thread may keep a slot for ever.
MayStarve == world.slow /\ \E r \in Request : Route(r) = "legacy"

\* Every request that was stored is answered, unless an engine hangs under a
\* legacy request: the timeout of the v1 route frees the slot of any thread.
RequestsAreAnswered ==
  \A r \in Request :
    req[r].at \in {"waiting", "running"} ~> (req[r].at = "ended" \/ MayStarve)
=============================================================================
