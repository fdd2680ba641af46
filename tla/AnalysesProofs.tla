--------------------------- MODULE AnalysesProofs ---------------------------
(***************************************************************************)
(* Proofs about Analyses, for any finite sets of requests and indicators,  *)
(* any worlds, and any numbers of payloads, slots and faults.              *)
(*                                                                         *)
(* The inductive invariant speaks of requests with their slots and files;  *)
(* of threads with their rows and payloads; of the table of indicators,    *)
(* with the severities that travel to it; of how far a thread has come, as *)
(* its row and the answer to its request show it; of how much of each      *)
(* analysis the table holds already; of what VirusTotal answered; and of   *)
(* which findings the engines that ran have left.                          *)
(***************************************************************************)
EXTENDS Analyses, EvidenceProofs

ThreadField == {"at", "k", "statuses", "findings", "report", "payloads", "seen", "result"}

Running == {r \in Request : req[r].at = "running"}

\* Requests: a slot is taken by each one that is running, and by nothing else;
\* a file belongs to one that is under way, or lost its chance of removal.
RequestInv ==
  /\ world \in World
  /\ DOMAIN req = Request /\ DOMAIN file = Request
  /\ \A r \in Request :
       /\ DOMAIN req[r] = {"at", "answer"}
       /\ req[r].at \in {"out", "storing", "waiting", "running", "ended"}
       /\ file[r] \in {"none", "part", "apk"}
  /\ free = world.slots - Cardinality(Running)
  /\ UploadsAreRemoved
  /\ faults \in 0 .. MaxFaults /\ manual \in 0 .. MaxManual

\* Threads: what they hold of the shared count of payloads is theirs alone.
ThreadInv ==
  /\ DOMAIN thread = Request /\ DOMAIN row = Request
  /\ \A r \in Request : DOMAIN thread[r] = ThreadField
  /\ \A r \in Request : DOMAIN row[r] = {"status", "report"} /\ row[r].status \in Status
  /\ recovered \in 0 .. MaxPayloads
  /\ \A r \in Request :
       /\ thread[r].payloads \subseteq 1 .. recovered
       /\ thread[r].at \in {"none", "create", "mark", "unlink", "over"} => thread[r].payloads = {}
  /\ \A r, q \in Request : r # q => thread[r].payloads \cap thread[q].payloads = {}

\* No thread begins before its request has a slot.
StartInv ==
  \A r \in Request : req[r].at \in {"out", "storing", "waiting"} => thread[r].at = "none"

Sightings(i) == {s \in sightings : s[1] = i}

\* The table: an indicator that is not there was not seen, and nothing of it was
\* purged.
TableInv ==
  /\ ioc \in [Indicator -> {NULL} \cup IndicatorRow]
  /\ purged \in [Indicator -> Nat]
  /\ IsFiniteSet(sightings)
  /\ \A i \in Indicator : ioc[i] = NULL => purged[i] = 0
  /\ SightingsAreCounted

\* What a thread brings to the table: the severity of its report, and on
\* PostgreSQL the row that it has read.
BringsInv ==
  \A r \in Request :
    /\ thread[r].at \in {"payloads", "emit", "write"} => thread[r].report.severity \in Severities
    /\ thread[r].at = "write" =>
         thread[r].seen \in {NULL} \cup IndicatorRow /\ world.db = "postgres"

\* How far a thread has come shows in its row, and how it ended in the answer of
\* its request.  A completed row is marked as failed unless that fails as well:
\* it takes two faults to answer with an error and leave the row completed.
ResultInv ==
  \A r \in Request :
    /\ thread[r].at \in {"none", "create"} => row[r].status = "none"
    /\ thread[r].at = "mark" => row[r].status = "pending"
    /\ thread[r].at \in {"extract", "engines", "hung", "payloads", "emit", "write"} =>
         row[r].status = "running"
    /\ thread[r].at = "fail" /\ row[r].status = "completed" => faults >= 1
    /\ thread[r].at \in {"unlink", "over"} =>
         /\ thread[r].result \in {"created", "error"}
         /\ thread[r].result = "created" => row[r].status = "completed"
         /\ thread[r].result = "error" /\ row[r].status = "completed" => faults >= 2
         /\ faults = 0 => row[r].status \in {"completed", "failed"}
    /\ req[r].answer \in {"created", "error"} =>
         thread[r].at = "over" /\ thread[r].result = req[r].answer

\* An indicator that an analysis of this severity has brought to the index.
Indexed(i, r, severity) ==
  /\ i \in Indicator /\ <<i, r>> \in sightings
  /\ world.db = "sqlite" => Rank(ioc[i].severity) >= Rank(severity)

\* The loop over the candidates: those before the current one are in the index.
EmitPart(r) ==
  /\ thread[r].k \in Nat \ {0}
  /\ \A j \in 1 .. Len(Candidates(r)) :
       j < thread[r].k => Indexed(Candidates(r)[j], r, thread[r].report.severity)
  /\ thread[r].at = "write" =>
       thread[r].k \in 1 .. Len(Candidates(r)) /\ Candidate(r) \in Indicator

CompletedPart(r) ==
  row[r].status = "completed" /\ row[r].report.score >= 50 =>
    \A i \in ToSet(SampleOf(r).iocs) : Indexed(i, r, row[r].report.severity)

IndexInv ==
  \A r \in Request : (thread[r].at \in {"emit", "write"} => EmitPart(r)) /\ CompletedPart(r)

\* What VirusTotal answered, or that it failed to, stays with the thread, and what
\* the report makes of it with the thread and its row.
Heard(statuses) ==
  "virustotal" \in DOMAIN statuses /\ Ready(world.setup["virustotal"]) =>
    statuses["virustotal"] \in {"completed", "failed"}

LookupInv ==
  \A r \in Request :
    /\ Heard(thread[r].statuses)
    /\ thread[r].at \in {"payloads", "emit", "write"} => KnownIsTold(r, thread[r].report)
    /\ row[r].status = "completed" => KnownIsTold(r, row[r].report)

\* Findings that _deduplicate_findings takes for one, and of those the last.
Alike(f, g) == f.engine = g.engine /\ f.id = g.id

IsLast(list, i) == \A k \in DOMAIN list : Alike(list[k], list[i]) => k <= i

LastOf(list) == {list[i] : i \in {j \in DOMAIN list : IsLast(list, j)}}

\* What the engines have found so far: nothing that is not there, and of an engine
\* that completed all of it, unless that stops early.
EnginePart(r) ==
  LET statuses == thread[r].statuses
      findings == thread[r].findings
      whole == SampleOf(r).findings IN
  /\ file[r] = "apk"
  /\ DOMAIN statuses \subseteq Enabled \ {"androguard"}
  /\ \A a \in DOMAIN statuses : statuses[a] \in {"completed", "failed", "timeout"}
  /\ findings \in Seq(Finding)
  /\ \A i \in DOMAIN findings : findings[i].engine \in DOMAIN statuses
  /\ LastOf(findings) \subseteq LastOf(whole)
  /\ \A f \in LastOf(whole) :
       /\ f.engine \in DOMAIN statuses \ CutShort
       /\ statuses[f.engine] = "completed"
       => f \in LastOf(findings)

\* The score of a report that may still be the answer: the file that its engines
\* read was there.
FoundPart(r) ==
  /\ thread[r].at \in {"none", "create", "mark", "extract"} =>
       thread[r].statuses = <<>> /\ thread[r].findings = <<>>
  /\ thread[r].at = "engines" /\ req[r].at = "running" => EnginePart(r)
  /\ thread[r].at \in {"payloads", "emit", "write"} /\ req[r].at = "running" =>
       ScoreIsTold(r, thread[r].report)
  /\ row[r].status = "completed" /\ (req[r].at = "running" \/ req[r].answer = "created") =>
       ScoreIsTold(r, row[r].report)

FoundInv == \A r \in Request : FoundPart(r)

IInv ==
  /\ RequestInv /\ ThreadInv /\ StartInv /\ TableInv /\ BringsInv /\ ResultInv /\ IndexInv
  /\ LookupInv /\ FoundInv

LEMMA Bounds == MaxPayloads \in Nat /\ MaxManual \in Nat /\ MaxFaults \in Nat
  BY AnalysesAssumption

-----------------------------------------------------------------------------
(* What every step of a thread leaves alone.                               *)

\* A step of a thread changes that thread, and of the request only its file.
ThreadFrame(r) ==
  /\ thread[r].at # "none"
  /\ UNCHANGED <<world, req, free, purged, manual, left>>
  /\ DOMAIN thread' = Request
  /\ \A q \in Request \ {r} : thread'[q] = thread[q]
  /\ file' = file \/ file' = [file EXCEPT ![r] = "none"]
  /\ faults' = faults \/ (faults' = faults + 1 /\ faults < MaxFaults)

LEMMA StepFrame ==
  ASSUME ThreadInv, NEW r \in Request, ThreadStep(r)
  PROVE  ThreadFrame(r)
  <1> USE DEF ThreadInv, ThreadFrame, ThreadOnly, NoIndex, GoTo, RaiseEarly, Fault, Writes, Leave
  <1>1. CASE Create(r)
    BY <1>1 DEF Create
  <1>2. CASE MarkRunning(r)
    BY <1>2 DEF MarkRunning
  <1>3. CASE Extract(r)
    BY <1>3 DEF Extract
  <1>4. CASE RunEngine(r)
    BY <1>4 DEF RunEngine
  <1>5. CASE Hang(r)
    BY <1>5 DEF Hang
  <1>6. CASE Assess(r)
    BY <1>6 DEF Assess
  <1>7. CASE RecoverPayload(r)
    BY <1>7 DEF RecoverPayload
  <1>8. CASE PayloadsDone(r)
    BY <1>8 DEF PayloadsDone
  <1>9. CASE EmitInvalid(r)
    BY <1>9 DEF EmitInvalid, Emitting
  <1>10. CASE Emit(r)
    BY <1>10 DEF Emit, Emitting
  <1>11. CASE EmitRead(r)
    BY <1>11 DEF EmitRead, Emitting
  <1>12. CASE EmitWrite(r)
    BY <1>12 DEF EmitWrite
  <1>13. CASE EmitFault(r)
    BY <1>13 DEF EmitFault, Emitting
  <1>14. CASE Complete(r)
    BY <1>14 DEF Complete
  <1>15. CASE Fail(r)
    BY <1>15 DEF Fail
  <1>16. CASE Unlink(r)
    BY <1>16 DEF Unlink
  <1> QED
    BY <1>1, <1>2, <1>3, <1>4, <1>5, <1>6, <1>7, <1>8, <1>9, <1>10, <1>11, <1>12, <1>13, <1>14,
       <1>15, <1>16 DEF ThreadStep
-----------------------------------------------------------------------------
(* Requests, slots and files.                                              *)

Place == {"out", "storing", "waiting", "running", "ended"}
UnderWay == {"storing", "waiting", "running"}

\* What may become of one request, its slot and its file.
Moves(r) ==
  /\ world' = world /\ manual' = manual /\ faults' \in 0 .. MaxFaults
  /\ DOMAIN req' = Request /\ DOMAIN req'[r] = {"at", "answer"} /\ req'[r].at \in Place
  /\ DOMAIN file' = Request /\ file'[r] \in {"none", "part", "apk"}
  /\ \A q \in Request \ {r} : req'[q] = req[q] /\ file'[q] = file[q]
  /\ free' = free + (IF req[r].at = "running" THEN 1 ELSE 0)
                  - (IF req'[r].at = "running" THEN 1 ELSE 0)
  /\ left \subseteq left'
  /\ file'[r] # "none" => req'[r].at \in UnderWay \/ r \in left'

LEMMA RunningIsFinite == IsFiniteSet(Running) /\ Cardinality(Running) \in Nat
  BY AnalysesAssumption, FS_Subset, FS_CardinalityType DEF Running

LEMMA Slots == \A w \in World : w.slots \in Nat
  BY AnalysesAssumption

LEMMA MoveKeeps ==
  ASSUME RequestInv, NEW r \in Request, Moves(r)
  PROVE  RequestInv'
  <1> USE DEF RequestInv, Moves, Place, UnderWay
  <1>1. free' = world'.slots - Cardinality(Running)'
    <2>1. CASE req[r].at = "running" /\ req'[r].at # "running"
      <3>1. Running' = Running \ {r} /\ r \in Running
        BY <2>1 DEF Running
      <3>2. Cardinality(Running') = Cardinality(Running) - 1
        BY <3>1, RunningIsFinite, FS_RemoveElement
      <3> QED
        BY <2>1, <3>2, RunningIsFinite, Slots
    <2>2. CASE req[r].at # "running" /\ req'[r].at = "running"
      <3>1. Running' = Running \cup {r} /\ r \notin Running
        BY <2>2 DEF Running
      <3>2. Cardinality(Running') = Cardinality(Running) + 1
        BY <3>1, RunningIsFinite, FS_AddElement
      <3> QED
        BY <2>2, <3>2, RunningIsFinite, Slots
    <2>3. CASE (req[r].at = "running") <=> (req'[r].at = "running")
      <3>1. Running' = Running
        BY <2>3 DEF Running
      <3> QED
        BY <2>3, <3>1, RunningIsFinite, Slots
    <2> QED
      BY <2>1, <2>2, <2>3
  <1>2. UploadsAreRemoved'
    BY DEF UploadsAreRemoved
  <1>3. \A q \in Request : /\ DOMAIN req'[q] = {"at", "answer"}
                           /\ req'[q].at \in {"out", "storing", "waiting", "running", "ended"}
                           /\ file'[q] \in {"none", "part", "apk"}
    <2>1. TAKE q \in Request
    <2>2. CASE q = r
      BY <2>2
    <2>3. CASE q # r
      BY <2>3
    <2> QED
      BY <2>2, <2>3
  <1> QED
    BY <1>1, <1>2, <1>3

\* Every action of a request moves that request.
LEMMA RequestKeeps ==
  ASSUME RequestInv, NEW r \in Request, Arrive(r) \/ RequestStep(r) \/ Cancel(r)
  PROVE  RequestInv'
  <1> SUFFICES Moves(r)
    BY MoveKeeps
  <1> USE AnalysesAssumption DEF RequestInv, Moves, Place, UnderWay, Ended, Release, Finally, Fault
  <1>0. free \in Int
    BY RunningIsFinite
  <1>1. CASE Arrive(r)
    BY <1>0, <1>1 DEF Arrive
  <1>2. CASE Refuse(r)
    BY <1>0, <1>2 DEF Refuse
  <1>3. CASE Store(r)
    BY <1>0, <1>3 DEF Store
  <1>4. CASE Acquire(r)
    BY <1>0, <1>4 DEF Acquire
  <1>5. CASE Answer(r)
    BY <1>0, <1>5 DEF Answer
  <1>6. CASE Timeout(r)
    BY <1>0, <1>6 DEF Timeout
  <1>7. CASE Cancel(r)
    BY <1>0, <1>7 DEF Cancel
  <1> QED
    BY <1>1, <1>2, <1>3, <1>4, <1>5, <1>6, <1>7 DEF RequestStep

\* A crash ends every request that is under way and gives all slots back.
LEMMA CrashKeepsRequests ==
  ASSUME RequestInv, Crash
  PROVE  RequestInv'
  <1> USE DEF RequestInv, Crash, Fault
  <1>1. \A r \in Request :
          /\ DOMAIN req'[r] = {"at", "answer"}
          /\ req'[r].at = IF req[r].at \in UnderWay THEN "ended" ELSE req[r].at
    BY DEF UnderWay
  <1>2. Running' = {}
    BY <1>1 DEF Running, UnderWay
  <1>3. free' = world'.slots - Cardinality(Running)'
    <2>1. Cardinality(Running)' = 0
      BY <1>2, FS_EmptySet
    <2>2. free' = world'.slots
      OBVIOUS
    <2>3. world'.slots \in Nat
      BY AnalysesAssumption
    <2> QED
      BY ONLY <2>1, <2>2, <2>3
  <1>4. UploadsAreRemoved'
    BY <1>1 DEF UploadsAreRemoved, UnderWay
  <1>5. faults' \in 0 .. MaxFaults
    <2>1. faults \in 0 .. MaxFaults /\ faults < MaxFaults /\ faults' = faults + 1
      OBVIOUS
    <2>2. MaxFaults \in Nat
      BY AnalysesAssumption
    <2> QED
      BY ONLY <2>1, <2>2
  <1> QED
    BY <1>1, <1>3, <1>4, <1>5 DEF UnderWay

LEMMA StepKeepsRequests ==
  ASSUME RequestInv, ThreadInv, [Next]_vars
  PROVE  RequestInv'
  <1>1. ASSUME NEW r \in Request, ThreadStep(r) PROVE RequestInv'
    <2>1. ThreadFrame(r)
      BY <1>1, StepFrame
    <2>2. Moves(r)
      BY <2>1, RunningIsFinite, AnalysesAssumption
         DEF ThreadFrame, RequestInv, Moves, Place, UnderWay, UploadsAreRemoved
    <2> QED
      BY <2>2, MoveKeeps
  <1>2. CASE Manual
    BY <1>2, AnalysesAssumption DEF Manual, RequestInv, Running, UploadsAreRemoved
  <1>3. CASE Cleanup
    BY <1>3 DEF Cleanup, RequestInv, Running, UploadsAreRemoved
  <1>4. CASE UNCHANGED vars
    BY <1>4 DEF vars, RequestInv, Running, UploadsAreRemoved
  <1> QED
    BY <1>1, <1>2, <1>3, <1>4, RequestKeeps, CrashKeepsRequests DEF Next
-----------------------------------------------------------------------------
(* Threads, rows and payloads.                                             *)

RowFields == {"status", "report"}

\* What may become of one thread, its row and the count of payloads.
TurnsTo(r) ==
  /\ DOMAIN thread' = Request /\ DOMAIN thread'[r] = ThreadField
  /\ DOMAIN row' = Request
  /\ \A q \in Request \ {r} : thread'[q] = thread[q] /\ row'[q] = row[q]
  /\ DOMAIN row'[r] = RowFields /\ row'[r].status \in Status
  /\ recovered' \in 0 .. MaxPayloads /\ recovered <= recovered'
  /\ thread'[r].payloads \subseteq thread[r].payloads \cup (recovered + 1 .. recovered')
  /\ thread'[r].at \in {"none", "create", "mark", "unlink", "over"} => thread'[r].payloads = {}

LEMMA TurnKeeps ==
  ASSUME ThreadInv, NEW r \in Request, TurnsTo(r)
  PROVE  ThreadInv'
  <1> USE DEF ThreadInv, TurnsTo, RowFields
  <1>1. ASSUME NEW q \in Request PROVE thread'[q].payloads \subseteq 1 .. recovered'
    <2>1. 1 .. recovered \subseteq 1 .. recovered' /\ recovered + 1 .. recovered' \subseteq 1 .. recovered'
      OBVIOUS
    <2> QED
      BY <2>1
  <1>2. ASSUME NEW q \in Request \ {r}
        PROVE  thread'[r].payloads \cap thread'[q].payloads = {}
    <2>1. thread[q].payloads \subseteq 1 .. recovered
      OBVIOUS
    <2>2. (1 .. recovered) \cap (recovered + 1 .. recovered') = {}
      OBVIOUS
    <2>3. thread[q].payloads \cap thread[r].payloads = {}
      OBVIOUS
    <2> QED
      BY <2>1, <2>2, <2>3
  <1>3. \A p, q \in Request : p # q => thread'[p].payloads \cap thread'[q].payloads = {}
    BY <1>2
  <1>4. \A q \in Request :
          /\ DOMAIN thread'[q] = ThreadField
          /\ DOMAIN row'[q] = RowFields /\ row'[q].status \in Status
          /\ thread'[q].at \in {"none", "create", "mark", "unlink", "over"} => thread'[q].payloads = {}
    OBVIOUS
  <1> QED
    BY <1>1, <1>3, <1>4

LEMMA ThreadStepKeeps ==
  ASSUME ThreadInv, NEW r \in Request, ThreadStep(r)
  PROVE  ThreadInv'
  <1> SUFFICES TurnsTo(r)
    BY TurnKeeps
  <1> USE DEF ThreadInv, TurnsTo, ThreadField, RowFields, Status, ThreadOnly, NoIndex, GoTo,
              RaiseEarly, Writes, Leave
  <1>1. CASE Create(r)
    BY <1>1 DEF Create
  <1>2. CASE MarkRunning(r)
    BY <1>2 DEF MarkRunning
  <1>3. CASE Extract(r)
    BY <1>3 DEF Extract
  <1>4. CASE RunEngine(r)
    BY <1>4 DEF RunEngine
  <1>5. CASE Hang(r)
    BY <1>5 DEF Hang
  <1>6. CASE Assess(r)
    BY <1>6 DEF Assess
  <1>7. CASE RecoverPayload(r)
    BY <1>7, Bounds DEF RecoverPayload, Room
  <1>8. CASE PayloadsDone(r)
    BY <1>8 DEF PayloadsDone
  <1>9. CASE EmitInvalid(r)
    BY <1>9 DEF EmitInvalid, Emitting
  <1>10. CASE Emit(r)
    BY <1>10 DEF Emit, Emitting
  <1>11. CASE EmitRead(r)
    BY <1>11 DEF EmitRead, Emitting
  <1>12. CASE EmitWrite(r)
    BY <1>12 DEF EmitWrite
  <1>13. CASE EmitFault(r)
    BY <1>13 DEF EmitFault, Emitting
  <1>14. CASE Complete(r)
    BY <1>14 DEF Complete
  <1>15. CASE Fail(r)
    BY <1>15 DEF Fail
  <1>16. CASE Unlink(r)
    BY <1>16 DEF Unlink
  <1> QED
    BY <1>1, <1>2, <1>3, <1>4, <1>5, <1>6, <1>7, <1>8, <1>9, <1>10, <1>11, <1>12, <1>13, <1>14,
       <1>15, <1>16 DEF ThreadStep
\* A thread starts when its request gets a slot, and a crash leaves only threads
\* that had ended.
LEMMA StepKeepsThreads ==
  ASSUME RequestInv, ThreadInv, StartInv, [Next]_vars
  PROVE  ThreadInv' /\ StartInv'
  <1>1. ASSUME NEW r \in Request, ThreadStep(r) PROVE ThreadInv' /\ StartInv'
    <2>1. StartInv'
      BY <1>1, StepFrame DEF ThreadFrame, StartInv
    <2> QED
      BY <1>1, <2>1, ThreadStepKeeps
  <1>2. ASSUME NEW r \in Request, Acquire(r) PROVE ThreadInv' /\ StartInv'
    <2>1. TurnsTo(r)
      BY <1>2 DEF Acquire, TurnsTo, ThreadInv, StartInv, ThreadField, RowFields
    <2>2. StartInv'
      BY <1>2 DEF Acquire, StartInv, RequestInv, ThreadInv
    <2> QED
      BY <2>1, <2>2, TurnKeeps
  <1>3. ASSUME NEW r \in Request,
               Arrive(r) \/ Refuse(r) \/ Store(r) \/ Answer(r) \/ Timeout(r) \/ Cancel(r)
        PROVE  ThreadInv' /\ StartInv'
    <2>1. UNCHANGED <<thread, row, recovered>>
      BY <1>3 DEF Arrive, Refuse, Store, Answer, Timeout, Cancel
    <2>2. ThreadInv'
      BY <2>1 DEF ThreadInv
    <2>3. \A q \in Request \ {r} : req'[q] = req[q]
      BY <1>3 DEF Arrive, Refuse, Store, Answer, Timeout, Cancel, Ended, RequestInv
    <2>4. req'[r].at \in {"out", "storing", "waiting"} => req[r].at \in {"out", "storing"}
      BY <1>3 DEF Arrive, Refuse, Store, Answer, Timeout, Cancel, Ended, RequestInv
    <2>5. StartInv'
      BY <2>1, <2>3, <2>4 DEF StartInv
    <2> QED
      BY <2>2, <2>5
  <1>4. CASE Crash
    <2>1. /\ DOMAIN thread' = Request /\ recovered' = 0 /\ row' = row
          /\ \A r \in Request : \/ thread'[r] = thread[r] /\ thread[r].at \in {"none", "over"}
                                \/ thread'[r] = [NoThread EXCEPT !.at = "dead"]
                                     /\ thread[r].at \notin {"none", "over"}
      BY <1>4 DEF Crash
    <2>2. DOMAIN [NoThread EXCEPT !.at = "dead"] = ThreadField
          /\ [NoThread EXCEPT !.at = "dead"].at = "dead"
          /\ [NoThread EXCEPT !.at = "dead"].payloads = {}
      BY DEF NoThread, ThreadField
    <2>3. \A r \in Request : DOMAIN thread'[r] = ThreadField /\ thread'[r].payloads = {}
      BY <2>1, <2>2 DEF ThreadInv
    <2>4. recovered' \in 0 .. MaxPayloads
      BY <2>1, AnalysesAssumption
    <2>5. ThreadInv'
      BY <2>1, <2>3, <2>4 DEF ThreadInv
    <2>6. StartInv'
      BY <1>4, <2>1 DEF Crash, StartInv, RequestInv
    <2> QED
      BY <2>5, <2>6
  <1>5. CASE Manual \/ Cleanup \/ UNCHANGED vars
    BY <1>5 DEF Manual, Cleanup, vars, ThreadInv, StartInv
  <1> QED
    BY <1>1, <1>2, <1>3, <1>4, <1>5 DEF Next, RequestStep

-----------------------------------------------------------------------------
(* The index of indicators.                                                *)

\* The number of sightings of one indicator after one more.
LEMMA OneMoreSighting ==
  ASSUME NEW i, NEW k, NEW source, IsFiniteSet(sightings),
         sightings' = sightings \cup {<<k, source>>}
  PROVE  /\ IsFiniteSet(sightings') /\ IsFiniteSet(Sightings(i))
         /\ i # k => Sightings(i)' = Sightings(i)
         /\ i = k => Cardinality(Sightings(i)') =
              IF Sighted(i, source) THEN Cardinality(Sightings(i)) ELSE Cardinality(Sightings(i)) + 1
  <1>1. IsFiniteSet(sightings') /\ IsFiniteSet(Sightings(i))
    BY FS_AddElement, FS_Subset DEF Sightings
  <1>2. i # k => Sightings(i)' = Sightings(i)
    BY DEF Sightings
  <1>3. i = k => Sightings(i)' = Sightings(i) \cup {<<k, source>>}
    BY DEF Sightings
  <1>4. i = k => (Sighted(i, source) <=> <<k, source>> \in Sightings(i))
    BY DEF Sightings, Sighted
  <1> QED
    BY <1>1, <1>2, <1>3, <1>4, FS_AddElement

\* The graver of two severities is one of them, and no milder than the first.
LEMMA GraverIsOne ==
  ASSUME NEW a \in Severities, NEW b \in Severities
  PROVE  Graver(a, b) \in Severities /\ Rank(Graver(a, b)) >= Rank(a)
  BY DEF Graver, Rank, Severities

\* One upsert, whoever calls it and however old the row is that it has read, as
\* long as there is a row now if and only if it read one.
LEMMA UpsertKeeps ==
  ASSUME TableInv, NEW k, NEW source, NEW seen \in {NULL} \cup IndicatorRow,
         NEW severity \in Severities, ~Refutes(k, seen), Upsert(k, source, seen, severity),
         purged' = purged
  PROVE  TableInv'
  <1>1. ASSUME NEW i \in Indicator, i # k
        PROVE  ioc'[i] = ioc[i] /\ Sightings(i)' = Sightings(i)
    BY <1>1, OneMoreSighting DEF Upsert, TableInv
  <1>2. ASSUME k \in Indicator
        PROVE  /\ ioc'[k] \in IndicatorRow
               /\ ioc'[k].count = Cardinality(Sightings(k)') + purged[k]
    <2>1. ioc[k] # NULL => ioc[k] \in IndicatorRow /\ ioc[k].count \in Nat
      BY <1>2 DEF TableInv, IndicatorRow
    <2>2. /\ Cardinality(Sightings(k)') =
                IF Sighted(k, source) THEN Cardinality(Sightings(k)) ELSE Cardinality(Sightings(k)) + 1
          /\ IsFiniteSet(Sightings(k))
      BY OneMoreSighting DEF Upsert, TableInv
    <2>3. CASE seen = NULL
      <3>1. ioc[k] = NULL /\ Sightings(k) = {} /\ purged[k] = 0
        BY <1>2, <2>3 DEF Refutes, TableInv, SightingsAreCounted, Sightings
      <3>2. ioc'[k] = [severity |-> severity, count |-> 1]
        BY <1>2, <2>3 DEF Upsert, TableInv
      <3>3. Cardinality(Sightings(k)') = 1
        BY <2>2, <3>1, FS_EmptySet DEF Sighted, Sightings
      <3> QED
        BY <3>1, <3>2, <3>3 DEF IndicatorRow
    <2>4. CASE seen # NULL
      <3>1. ioc[k] # NULL
        BY <2>4 DEF Refutes
      <3>2. ioc[k].count = Cardinality(Sightings(k)) + purged[k]
        BY <1>2, <3>1 DEF TableInv, SightingsAreCounted, Sightings
      <3>3. ioc'[k] = [severity |-> Graver(seen.severity, severity),
                       count |-> ioc[k].count + (IF Sighted(k, source) THEN 0 ELSE 1)]
        BY <1>2, <2>4 DEF Upsert, TableInv
      <3>4. Graver(seen.severity, severity) \in Severities
        BY <2>4, GraverIsOne DEF IndicatorRow
      <3>5. Cardinality(Sightings(k)) \in Nat /\ purged[k] \in Nat
        BY <1>2, <2>2, FS_CardinalityType DEF TableInv
      <3> HIDE DEF Sightings
      <3> QED
        BY <2>1, <2>2, <3>1, <3>2, <3>3, <3>4, <3>5 DEF IndicatorRow
    <2> QED
      BY <2>3, <2>4
  <1>3. ioc' \in [Indicator -> {NULL} \cup IndicatorRow]
    BY <1>1, <1>2 DEF Upsert, TableInv
  <1>4. \A i \in Indicator : ioc'[i] = NULL => purged'[i] = 0
    BY <1>1, <1>2, AnalysesAssumption DEF TableInv
  <1>5. SightingsAreCounted'
    <2> SUFFICES ASSUME NEW i \in Indicator
                 PROVE  IF ioc'[i] = NULL THEN Sightings(i)' = {}
                        ELSE ioc'[i].count = Cardinality(Sightings(i)') + purged'[i]
      BY DEF SightingsAreCounted, Sightings
    <2>1. CASE i = k
      BY <1>2, <2>1, AnalysesAssumption
    <2>2. CASE i # k
      BY <1>1, <2>2 DEF TableInv, SightingsAreCounted, Sightings
    <2> QED
      BY <2>1, <2>2
  <1>6. IsFiniteSet(sightings')
    BY FS_AddElement DEF Upsert, TableInv
  <1> QED
    BY <1>3, <1>4, <1>5, <1>6 DEF TableInv
LEMMA ReportSeverity ==
  ASSUME NEW s, NEW statuses, NEW findings
  PROVE  Report(s, statuses, findings).severity \in Severities
  BY DEF Report, Severity, Severities

\* A step of a thread keeps what it brings.
LEMMA ThreadStepBrings ==
  ASSUME ThreadInv, TableInv, BringsInv, world \in World, NEW r \in Request, ThreadStep(r)
  PROVE  BringsInv'
  <1>0. ThreadFrame(r)
    BY StepFrame
  <1> SUFFICES /\ thread'[r].at \in {"payloads", "emit", "write"} =>
                    thread'[r].report.severity \in Severities
               /\ thread'[r].at = "write" =>
                    thread'[r].seen \in {NULL} \cup IndicatorRow /\ world.db = "postgres"
    BY <1>0 DEF BringsInv, ThreadFrame
  <1> USE DEF ThreadInv, BringsInv, ThreadField, GoTo, RaiseEarly, Writes, Leave
  <1>1. CASE Create(r)
    BY <1>1 DEF Create
  <1>2. CASE MarkRunning(r)
    BY <1>2 DEF MarkRunning
  <1>3. CASE Extract(r)
    BY <1>3 DEF Extract
  <1>4. CASE RunEngine(r)
    BY <1>4 DEF RunEngine
  <1>5. CASE Hang(r)
    BY <1>5 DEF Hang
  <1>6. CASE Assess(r)
    <2>1. thread'[r].at = "payloads"
          /\ thread'[r].report = Report(SampleOf(r), AllStatuses(r), thread[r].findings)
      BY <1>6 DEF Assess
    <2> QED
      BY <2>1, ReportSeverity
  <1>7. CASE RecoverPayload(r)
    BY <1>7 DEF RecoverPayload
  <1>8. CASE PayloadsDone(r)
    BY <1>8 DEF PayloadsDone
  <1>9. CASE EmitInvalid(r)
    BY <1>9 DEF EmitInvalid
  <1>10. CASE Emit(r)
    BY <1>10 DEF Emit, Emitting
  <1>11. CASE EmitRead(r)
    <2>1. thread'[r].report = thread[r].report /\ thread'[r].seen = ioc[Candidate(r)]
          /\ thread[r].at = "emit" /\ Candidate(r) \in Indicator /\ world.db = "postgres"
      BY <1>11 DEF EmitRead, Emitting
    <2> QED
      BY <2>1 DEF TableInv
  <1>12. CASE EmitWrite(r)
    BY <1>12 DEF EmitWrite
  <1>13. CASE EmitFault(r)
    BY <1>13 DEF EmitFault
  <1>14. CASE Complete(r)
    BY <1>14 DEF Complete
  <1>15. CASE Fail(r)
    BY <1>15 DEF Fail
  <1>16. CASE Unlink(r)
    BY <1>16 DEF Unlink
  <1> QED
    BY <1>1, <1>2, <1>3, <1>4, <1>5, <1>6, <1>7, <1>8, <1>9, <1>10, <1>11, <1>12, <1>13, <1>14,
       <1>15, <1>16 DEF ThreadStep

\* What one step may do to the table: nothing, the clean-up, or an upsert with a
\* row read now, or, on PostgreSQL, before.
TableStep ==
  \/ UNCHANGED <<ioc, sightings, purged>>
  \/ Cleanup
  \/ \E k, source, seen, severity :
       /\ seen \in {NULL} \cup IndicatorRow /\ severity \in Severities
       /\ ~Refutes(k, seen)
       /\ (k \in Indicator /\ seen = ioc[k]) \/ world.db = "postgres"
       /\ Upsert(k, source, seen, severity)
       /\ purged' = purged

LEMMA ThreadStepTable ==
  ASSUME ThreadInv, TableInv, BringsInv, NEW r \in Request, ThreadStep(r)
  PROVE  TableStep
  <1>0. purged' = purged
    BY StepFrame DEF ThreadFrame
  <1>1. CASE Create(r) \/ MarkRunning(r) \/ Extract(r) \/ RunEngine(r) \/ Hang(r) \/ Assess(r)
             \/ RecoverPayload(r) \/ PayloadsDone(r) \/ EmitInvalid(r) \/ EmitRead(r)
             \/ Complete(r) \/ Fail(r) \/ Unlink(r)
    BY <1>0, <1>1
       DEF Create, MarkRunning, Extract, RunEngine, Hang, Assess, RecoverPayload, PayloadsDone,
           EmitInvalid, EmitRead, Complete, Fail, Unlink, NoIndex, TableStep
  <1>2. ASSUME Candidate(r) \in Indicator, thread[r].at = "emit",
               Upsert(Candidate(r), r, ioc[Candidate(r)], thread[r].report.severity)
        PROVE  TableStep
    <2>1. ioc[Candidate(r)] \in {NULL} \cup IndicatorRow /\ thread[r].report.severity \in Severities
      BY <1>2 DEF TableInv, BringsInv
    <2> QED
      BY <1>0, <1>2, <2>1 DEF TableStep, Refutes
  <1>3. CASE Emit(r)
    BY <1>2, <1>3 DEF Emit, Emitting
  <1>4. CASE EmitFault(r)
    BY <1>0, <1>2, <1>4 DEF EmitFault, Emitting, TableStep
  <1>5. CASE EmitWrite(r)
    <2>1. thread[r].at = "write"
      BY <1>5 DEF EmitWrite
    <2>2. /\ thread[r].seen \in {NULL} \cup IndicatorRow /\ world.db = "postgres"
          /\ thread[r].report.severity \in Severities
      BY <2>1 DEF BringsInv
    <2>3. CASE Refutes(Candidate(r), thread[r].seen)
      BY <1>0, <1>5, <2>3 DEF EmitWrite, TableStep
    <2>4. CASE ~Refutes(Candidate(r), thread[r].seen)
      BY <1>0, <1>5, <2>2, <2>4 DEF EmitWrite, TableStep
    <2> QED
      BY <2>3, <2>4
  <1> QED
    BY <1>1, <1>3, <1>4, <1>5 DEF ThreadStep

\* The clean-up moves what it deletes from the sightings to what was purged.
LEMMA CleanupKeeps ==
  ASSUME TableInv, Cleanup
  PROVE  TableInv'
  <1> DEFINE gone == {s \in sightings : s[2] = Synthetic}
             kept == sightings \ gone
             GoneOf(i) == {s \in gone : s[1] = i}
  <1>1. /\ sightings' = kept
        /\ ioc' = [i \in Indicator |-> IF \E s \in kept : s[1] = i THEN ioc[i] ELSE NULL]
        /\ purged' = [i \in Indicator |-> IF ioc'[i] = NULL THEN 0
                                          ELSE purged[i] + Cardinality(GoneOf(i))]
    BY DEF Cleanup
  <1>2. ASSUME NEW i \in Indicator
        PROVE  /\ IsFiniteSet(Sightings(i)') /\ IsFiniteSet(GoneOf(i))
               /\ Cardinality(Sightings(i)) = Cardinality(Sightings(i)') + Cardinality(GoneOf(i))
    <2>1. Sightings(i)' \subseteq sightings /\ GoneOf(i) \subseteq sightings
      BY <1>1 DEF Sightings
    <2>2. IsFiniteSet(Sightings(i)') /\ IsFiniteSet(GoneOf(i))
      BY <2>1, FS_Subset DEF TableInv
    <2>3. Sightings(i) = Sightings(i)' \cup GoneOf(i) /\ Sightings(i)' \cap GoneOf(i) = {}
      BY <1>1 DEF Sightings
    <2>4. Cardinality(Sightings(i)' \cap GoneOf(i)) = 0
      BY <2>3, FS_EmptySet
    <2>5. Cardinality(Sightings(i)' \cup GoneOf(i))
            = Cardinality(Sightings(i)') + Cardinality(GoneOf(i))
              - Cardinality(Sightings(i)' \cap GoneOf(i))
      BY ONLY <2>2, FS_Union
    <2>6. Cardinality(Sightings(i)') \in Nat /\ Cardinality(GoneOf(i)) \in Nat
      BY <2>2, FS_CardinalityType
    <2>7. Cardinality(Sightings(i)) = Cardinality(Sightings(i)' \cup GoneOf(i))
      BY <2>3
    <2> HIDE DEF GoneOf, Sightings
    <2> QED
      BY <2>2, <2>4, <2>5, <2>6, <2>7
  <1>3. ASSUME NEW i \in Indicator
        PROVE  IF ioc'[i] = NULL THEN Sightings(i)' = {}
               ELSE ioc'[i].count = Cardinality(Sightings(i)') + purged'[i]
    <2>1. CASE \E s \in kept : s[1] = i
      <3>1. ioc[i] # NULL
        BY <2>1 DEF TableInv, SightingsAreCounted
      <3>2. ioc'[i] = ioc[i] /\ purged'[i] = purged[i] + Cardinality(GoneOf(i))
        BY <1>1, <2>1, <3>1
      <3>3. ioc[i].count = Cardinality(Sightings(i)) + purged[i]
        BY <3>1 DEF TableInv, SightingsAreCounted, Sightings
      <3>4. /\ Cardinality(Sightings(i)') \in Nat /\ Cardinality(GoneOf(i)) \in Nat
            /\ purged[i] \in Nat
        BY <1>2, FS_CardinalityType DEF TableInv
      <3>5. Cardinality(Sightings(i)) = Cardinality(Sightings(i)') + Cardinality(GoneOf(i))
        BY <1>2
      <3> HIDE DEF GoneOf
      <3> QED
        BY ONLY <3>1, <3>2, <3>3, <3>4, <3>5
    <2>2. CASE ~\E s \in kept : s[1] = i
      BY <1>1, <2>2 DEF Sightings
    <2> QED
      BY <2>1, <2>2
  <1>4. ioc' \in [Indicator -> {NULL} \cup IndicatorRow]
    BY <1>1 DEF TableInv
  <1>5. purged' \in [Indicator -> Nat]
    <2>1. ASSUME NEW i \in Indicator PROVE Cardinality(GoneOf(i)) \in Nat /\ purged[i] \in Nat
      BY <1>2, FS_CardinalityType DEF TableInv
    <2> HIDE DEF GoneOf
    <2>2. \A i \in Indicator :
            (IF ioc'[i] = NULL THEN 0 ELSE purged[i] + Cardinality(GoneOf(i))) \in Nat
      BY ONLY <2>1
    <2> QED
      BY ONLY <1>1, <2>2
  <1>6. IsFiniteSet(sightings')
    BY <1>1, FS_Subset DEF TableInv
  <1>7. \A i \in Indicator : ioc'[i] = NULL => purged'[i] = 0
    BY <1>1
  <1>8. SightingsAreCounted'
    BY <1>3 DEF SightingsAreCounted, Sightings
  <1> QED
    BY <1>4, <1>5, <1>6, <1>7, <1>8 DEF TableInv

\* Every step is one of the table, and each of those keeps what it counts.
LEMMA StepIsTableStep ==
  ASSUME ThreadInv, TableInv, BringsInv, [Next]_vars
  PROVE  TableStep
  <1>1. CASE Manual
    <2>1. PICK i \in Indicator, severity \in {"LOW", "CRITICAL"} :
            Upsert(i, NULL, ioc[i], severity)
      BY <1>1 DEF Manual
    <2>2. ioc[i] \in {NULL} \cup IndicatorRow /\ severity \in Severities /\ ~Refutes(i, ioc[i])
      BY DEF TableInv, Severities, Refutes
    <2>3. purged' = purged
      BY <1>1 DEF Manual
    <2> QED
      BY <2>1, <2>2, <2>3 DEF TableStep
  <1>2. CASE Crash
    BY <1>2 DEF Crash, indexVars, TableStep
  <1>3. ASSUME NEW r \in Request, Arrive(r) \/ RequestStep(r) \/ Cancel(r)
        PROVE  TableStep
    BY <1>3 DEF RequestStep, Arrive, Refuse, Store, Acquire, Answer, Timeout, Cancel, indexVars,
                TableStep
  <1>4. CASE UNCHANGED vars
    BY <1>4 DEF vars, indexVars, TableStep
  <1>5. CASE Cleanup
    BY <1>5 DEF TableStep
  <1> QED
    BY <1>1, <1>2, <1>3, <1>4, <1>5, ThreadStepTable DEF Next

LEMMA StepKeepsTable ==
  ASSUME ThreadInv, TableInv, BringsInv, [Next]_vars
  PROVE  TableInv'
  <1>1. CASE UNCHANGED <<ioc, sightings, purged>>
    BY <1>1 DEF TableInv, SightingsAreCounted
  <1> QED
    BY <1>1, StepIsTableStep, CleanupKeeps, UpsertKeeps DEF TableStep

\* A thread that begins, or is cut off by a crash, brings nothing.
LEMMA StepKeepsBrings ==
  ASSUME RequestInv, ThreadInv, TableInv, BringsInv, [Next]_vars
  PROVE  BringsInv'
  <1>1. ASSUME NEW r \in Request, ThreadStep(r) PROVE BringsInv'
    BY <1>1, ThreadStepBrings DEF RequestInv
  <1>2. ASSUME NEW r \in Request, Acquire(r) PROVE BringsInv'
    <2>1. thread'[r].at = "create" /\ world' = world /\ \A q \in Request \ {r} : thread'[q] = thread[q]
      BY <1>2 DEF Acquire, ThreadInv, ThreadField
    <2> QED
      BY <2>1 DEF BringsInv
  <1>3. CASE Crash
    <2>1. /\ world' = world
          /\ \A r \in Request : \/ thread'[r] = thread[r] /\ thread[r].at \in {"none", "over"}
                                \/ thread'[r] = [NoThread EXCEPT !.at = "dead"]
      BY <1>3 DEF Crash
    <2>2. [NoThread EXCEPT !.at = "dead"].at = "dead"
      BY DEF NoThread
    <2> QED
      BY <2>1, <2>2 DEF BringsInv
  <1>4. ASSUME UNCHANGED <<thread, world>> PROVE BringsInv'
    BY <1>4 DEF BringsInv
  <1>5. ASSUME NEW r \in Request,
               Arrive(r) \/ Refuse(r) \/ Store(r) \/ Answer(r) \/ Timeout(r) \/ Cancel(r)
        PROVE  BringsInv'
    BY <1>4, <1>5 DEF Arrive, Refuse, Store, Answer, Timeout, Cancel
  <1>6. CASE Manual \/ Cleanup \/ UNCHANGED vars
    BY <1>4, <1>6 DEF Manual, Cleanup, vars
  <1> QED
    BY <1>1, <1>2, <1>3, <1>5, <1>6 DEF Next, RequestStep

-----------------------------------------------------------------------------
(* What the client is told, and what the row says.                         *)

\* A step of a thread keeps the invariant if it does so for its own request:
\* the row and the thread of the others stay, and faults are only added.
LEMMA ResultFrame ==
  ASSUME RequestInv, ResultInv, NEW r \in Request, ThreadFrame(r),
         \A q \in Request \ {r} : row'[q] = row[q],
         /\ thread'[r].at \notin {"none", "create", "dead"}
         /\ thread'[r].at = "mark" => row'[r].status = "pending"
         /\ thread'[r].at \in {"extract", "engines", "hung", "payloads", "emit", "write"} =>
              row'[r].status = "running"
         /\ thread'[r].at = "fail" /\ row'[r].status = "completed" => faults' >= 1
         /\ thread'[r].at \in {"unlink", "over"} =>
              /\ thread'[r].result \in {"created", "error"}
              /\ thread'[r].result = "created" => row'[r].status = "completed"
              /\ thread'[r].result = "error" /\ row'[r].status = "completed" => faults' >= 2
              /\ faults' = 0 => row'[r].status \in {"completed", "failed"},
         thread[r].at # "over"
  PROVE  ResultInv'
  <1>1. req' = req /\ faults \in Nat /\ faults' \in Nat /\ faults' >= faults
    BY Bounds DEF ThreadFrame, RequestInv
  <1>2. ASSUME NEW q \in Request, q # r
        PROVE  thread'[q] = thread[q] /\ row'[q] = row[q]
    BY <1>2 DEF ThreadFrame
  <1>3. req'[r].answer \notin {"created", "error"}
    BY <1>1 DEF ResultInv
  <1> QED
    BY <1>1, <1>2, <1>3 DEF ResultInv

LEMMA ThreadStepResult ==
  ASSUME RequestInv, ThreadInv, ResultInv, NEW r \in Request, ThreadStep(r)
  PROVE  ResultInv'
  <1>0. ThreadFrame(r)
    BY StepFrame
  <1>f. faults \in Nat
    BY Bounds DEF RequestInv
  <1> USE DEF ThreadInv, ResultInv, ThreadField, GoTo, RaiseEarly, Writes, Leave, Fault, ThreadOnly,
              NoIndex
  <1>1. CASE Create(r)
    BY <1>0, <1>1, <1>f, ResultFrame DEF Create
  <1>2. CASE MarkRunning(r)
    BY <1>0, <1>2, <1>f, ResultFrame DEF MarkRunning
  <1>3. CASE Extract(r)
    BY <1>0, <1>3, <1>f, ResultFrame DEF Extract
  <1>4. CASE RunEngine(r)
    <2>1. /\ thread[r].at = "engines" /\ thread'[r].at = "engines" /\ row' = row
      BY <1>4 DEF RunEngine
    <2> QED
      BY <1>0, <2>1, ResultFrame
  <1>5. CASE Hang(r)
    BY <1>0, <1>5, <1>f, ResultFrame DEF Hang
  <1>6. CASE Assess(r)
    BY <1>0, <1>6, <1>f, ResultFrame DEF Assess
  <1>7. CASE RecoverPayload(r)
    BY <1>0, <1>7, <1>f, ResultFrame DEF RecoverPayload
  <1>8. CASE PayloadsDone(r)
    BY <1>0, <1>8, <1>f, ResultFrame DEF PayloadsDone
  <1>9. CASE EmitInvalid(r)
    BY <1>0, <1>9, <1>f, ResultFrame DEF EmitInvalid, Emitting
  <1>10. CASE Emit(r)
    BY <1>0, <1>10, <1>f, ResultFrame DEF Emit, Emitting
  <1>11. CASE EmitRead(r)
    BY <1>0, <1>11, <1>f, ResultFrame DEF EmitRead, Emitting
  <1>12. CASE EmitWrite(r)
    BY <1>0, <1>12, <1>f, ResultFrame DEF EmitWrite
  <1>13. CASE EmitFault(r)
    BY <1>0, <1>13, <1>f, ResultFrame DEF EmitFault, Emitting
  <1>14. CASE Complete(r)
    BY <1>0, <1>14, <1>f, ResultFrame DEF Complete
  <1>15. CASE Fail(r)
    BY <1>0, <1>15, <1>f, ResultFrame DEF Fail
  <1>16. CASE Unlink(r)
    BY <1>0, <1>16, <1>f, ResultFrame DEF Unlink
  <1> QED
    BY <1>1, <1>2, <1>3, <1>4, <1>5, <1>6, <1>7, <1>8, <1>9, <1>10, <1>11, <1>12, <1>13, <1>14,
       <1>15, <1>16 DEF ThreadStep

\* An answer is given once, and says how the thread ended or what came before
\* its end.
LEMMA StepKeepsResults ==
  ASSUME RequestInv, ThreadInv, StartInv, ResultInv, [Next]_vars
  PROVE  ResultInv'
  <1>1. ASSUME NEW r \in Request, ThreadStep(r) PROVE ResultInv'
    BY <1>1, ThreadStepResult
  <1>2. ASSUME NEW r \in Request, Acquire(r) PROVE ResultInv'
    <2>1. /\ req' = [req EXCEPT ![r].at = "running"] /\ row' = row /\ faults' = faults
          /\ thread' = [thread EXCEPT ![r].at = "create"] /\ thread[r].at = "none"
      BY <1>2 DEF Acquire, StartInv
    <2>2. req'[r].answer = req[r].answer /\ \A q \in Request \ {r} : req'[q] = req[q]
      BY <2>1 DEF RequestInv
    <2>3. thread'[r].at = "create" /\ \A q \in Request \ {r} : thread'[q] = thread[q]
      BY <2>1 DEF ThreadInv, ThreadField
    <2> QED
      BY <2>1, <2>2, <2>3 DEF ResultInv
  <1>3. ASSUME NEW r \in Request,
               Arrive(r) \/ Refuse(r) \/ Store(r) \/ Answer(r) \/ Timeout(r) \/ Cancel(r)
        PROVE  ResultInv'
    <2>1. UNCHANGED <<thread, row>>
      BY <1>3 DEF Arrive, Refuse, Store, Answer, Timeout, Cancel
    <2>2. faults \in Nat /\ faults' \in Nat /\ faults' >= faults
      BY <1>3, Bounds
         DEF RequestInv, Arrive, Refuse, Store, Answer, Timeout, Cancel, Finally, Fault
    <2>3. \A q \in Request \ {r} : req'[q] = req[q]
      BY <1>3 DEF Arrive, Refuse, Store, Answer, Timeout, Cancel, Ended, RequestInv
    <2>4. \/ req'[r].answer = req[r].answer
          \/ req'[r].answer \in {"refused", "timeout", "cancelled"}
          \/ req'[r].answer = thread[r].result /\ thread[r].at = "over"
      BY <1>3 DEF Arrive, Refuse, Store, Answer, Timeout, Cancel, Ended, RequestInv
    <2> QED
      BY <2>1, <2>2, <2>3, <2>4 DEF ResultInv
  <1>4. CASE Crash
    <2>1. /\ row' = row
          /\ \A r \in Request : \/ thread'[r] = thread[r]
                                \/ thread'[r] = [NoThread EXCEPT !.at = "dead"]
                                     /\ thread[r].at \notin {"none", "over"}
      BY <1>4 DEF Crash
    <2>2. \A r \in Request : \/ req'[r] = req[r]
                            \/ req'[r] = [req[r] EXCEPT !.at = "ended", !.answer = "lost"]
      BY <1>4 DEF Crash
    <2>3. [NoThread EXCEPT !.at = "dead"].at = "dead"
      BY DEF NoThread
    <2>4. faults \in Nat /\ faults' = faults + 1
      <3>1. faults \in Nat
        BY Bounds DEF RequestInv
      <3>2. faults' = faults + 1
        BY <1>4 DEF Crash, Fault
      <3> QED
        BY <3>1, <3>2
    <2>5. ASSUME NEW r \in Request, req'[r].answer \in {"created", "error"}
          PROVE  thread'[r] = thread[r] /\ req'[r] = req[r]
      <3>1. DOMAIN req[r] = {"at", "answer"}
        BY DEF RequestInv
      <3>2. req'[r] = req[r]
        BY ONLY <2>2, <2>5, <3>1
      <3> QED
        BY <2>1, <2>5, <3>2 DEF ResultInv
    <2>6. ASSUME NEW r \in Request, thread'[r].at # "dead"
          PROVE  thread'[r] = thread[r]
      BY <2>1, <2>3, <2>6
    <2> HIDE DEF Crash, NoThread
    <2>7. /\ faults >= 1 => faults' >= 1
          /\ faults >= 2 => faults' >= 2
          /\ faults' # 0
      BY <2>4
    <2>8. row' = row
      BY <2>1
    <2> QED
      BY ONLY <2>3, <2>5, <2>6, <2>7, <2>8, ResultInv DEF ResultInv
  <1>5. CASE Manual \/ Cleanup \/ UNCHANGED vars
    BY <1>5 DEF Manual, Cleanup, vars, ResultInv
  <1> QED
    BY <1>1, <1>2, <1>3, <1>4, <1>5 DEF Next, RequestStep

-----------------------------------------------------------------------------
(* What is in the index stays there.                                       *)

LEMMA RankIsNat == \A severity : Rank(severity) \in Nat
  BY DEF Rank

LEMMA GraverIsGraver ==
  ASSUME NEW a \in Severities, NEW b \in Severities
  PROVE  Rank(Graver(a, b)) >= Rank(b)
  BY DEF Graver, Rank, Severities

LEMMA WorldStays ==
  ASSUME ThreadInv, [Next]_vars
  PROVE  world' = world
  <1>1. ASSUME NEW r \in Request, ThreadStep(r) PROVE world' = world
    BY <1>1, StepFrame DEF ThreadFrame
  <1>2. ASSUME NEW r \in Request, Arrive(r) \/ RequestStep(r) \/ Cancel(r) PROVE world' = world
    BY <1>2 DEF Arrive, RequestStep, Refuse, Store, Acquire, Answer, Timeout, Cancel
  <1>3. CASE Manual \/ Cleanup \/ Crash \/ UNCHANGED vars
    BY <1>3 DEF Manual, Cleanup, Crash, vars
  <1> QED
    BY <1>1, <1>2, <1>3 DEF Next

LEMMA SightedIsThere ==
  ASSUME TableInv, NEW i \in Indicator, NEW r, <<i, r>> \in sightings
  PROVE  ioc[i] # NULL
  <1>1. <<i, r>>[1] = i
    OBVIOUS
  <1> QED
    BY <1>1 DEF TableInv, SightingsAreCounted

LEMMA SeverityRises ==
  ASSUME ThreadInv, TableInv, BringsInv, [Next]_vars, world.db = "sqlite",
         NEW i \in Indicator, ioc[i] # NULL, ioc'[i] # NULL
  PROVE  Rank(ioc'[i].severity) >= Rank(ioc[i].severity)
  <1>1. ioc[i].severity \in Severities
    <2>1. ioc[i] \in IndicatorRow
      BY DEF TableInv
    <2> QED
      BY <2>1 DEF IndicatorRow
  <1>2. TableStep
    BY StepIsTableStep
  <1>3. CASE ioc'[i] = ioc[i]
    BY <1>3, RankIsNat
  <1>4. CASE Cleanup
    BY <1>3, <1>4 DEF Cleanup
  <1>5. ASSUME NEW k \in Indicator, NEW source, NEW severity \in Severities,
               Upsert(k, source, ioc[k], severity), ioc'[i] # ioc[i]
        PROVE  Rank(ioc'[i].severity) >= Rank(ioc[i].severity)
    <2>1. i = k
      BY <1>5 DEF Upsert
    <2>2. ioc'[i].severity = Graver(ioc[i].severity, severity)
      BY <1>1, <1>5, <2>1 DEF Upsert, TableInv
    <2> QED
      BY <1>1, <1>5, <2>2, GraverIsOne
  <1> QED
    BY <1>2, <1>3, <1>4, <1>5 DEF TableStep

\* No step takes a sighting by an analysis on request away, or makes its
\* indicator milder.
LEMMA IndexedStays ==
  ASSUME ThreadInv, TableInv, BringsInv, [Next]_vars,
         NEW i, NEW r \in Request, NEW severity, Indexed(i, r, severity)
  PROVE  Indexed(i, r, severity)'
  <1>1. i \in Indicator /\ <<i, r>> \in sightings
    BY DEF Indexed
  <1>2. <<i, r>> \in sightings'
    <2>1. TableStep
      BY StepIsTableStep
    <2>2. CASE Cleanup
      <3>1. <<i, r>>[2] # Synthetic
        BY AnalysesAssumption
      <3> QED
        BY <1>1, <2>2, <3>1 DEF Cleanup
    <2> QED
      BY <1>1, <2>1, <2>2 DEF TableStep, Upsert
  <1>3. ioc[i] # NULL /\ ioc'[i] # NULL
    <2>1. ioc[i] # NULL
      BY <1>1, SightedIsThere
    <2>2. TableInv'
      BY StepKeepsTable
    <2>3. <<i, r>>[1] = i
      OBVIOUS
    <2> QED
      BY <1>1, <1>2, <2>1, <2>2, <2>3 DEF TableInv, SightingsAreCounted
  <1>4. world' = world
    BY WorldStays
  <1>5. world.db = "sqlite" => Rank(ioc'[i].severity) >= Rank(severity)
    <2> SUFFICES ASSUME world.db = "sqlite" PROVE Rank(ioc'[i].severity) >= Rank(severity)
      OBVIOUS
    <2>1. Rank(ioc'[i].severity) >= Rank(ioc[i].severity)
      BY <1>1, <1>3, SeverityRises
    <2>2. Rank(ioc[i].severity) >= Rank(severity)
      BY DEF Indexed
    <2> QED
      BY <2>1, <2>2, RankIsNat
  <1> QED
    BY <1>1, <1>2, <1>4, <1>5 DEF Indexed

\* After an upsert its indicator is in the index.
LEMMA UpsertIndexes ==
  ASSUME TableInv, NEW k \in Indicator, NEW r, NEW seen, NEW severity \in Severities,
         seen = ioc[k] \/ world.db # "sqlite",
         Upsert(k, r, seen, severity), world' = world
  PROVE  Indexed(k, r, severity)'
  <1>1. <<k, r>> \in sightings'
    BY DEF Upsert
  <1>2. world.db = "sqlite" => Rank(ioc'[k].severity) >= Rank(severity)
    <2> SUFFICES ASSUME world.db = "sqlite" PROVE Rank(ioc'[k].severity) >= Rank(severity)
      OBVIOUS
    <2>1. CASE ioc[k] = NULL
      <3>1. ioc'[k].severity = severity
        BY <2>1 DEF Upsert, TableInv
      <3> QED
        BY <3>1, RankIsNat
    <2>2. CASE ioc[k] # NULL
      <3>1. ioc'[k].severity = Graver(ioc[k].severity, severity)
        BY <2>2 DEF Upsert, TableInv
      <3>2. ioc[k].severity \in Severities
        BY <2>2 DEF TableInv, IndicatorRow
      <3> QED
        BY <3>1, <3>2, GraverIsGraver
    <2> QED
      BY <2>1, <2>2
  <1> QED
    BY <1>1, <1>2 DEF Indexed

LEMMA CandidatesAreSeq ==
  ASSUME world \in World, NEW r \in Request
  PROVE  /\ SampleOf(r).iocs \in Seq(STRING) /\ Candidates(r) \in Seq(STRING)
         /\ Len(Candidates(r)) \in Nat
  <1>1. SampleOf(r).iocs \in Seq(STRING)
    BY AnalysesAssumption DEF SampleOf
  <1>2. <<>> \in Seq(STRING)
    OBVIOUS
  <1>3. Candidates(r) \in Seq(STRING)
    BY ONLY <1>1, <1>2 DEF Candidates
  <1> QED
    BY <1>1, <1>3

-----------------------------------------------------------------------------
(* The loop over the candidates, and what a completed analysis has indexed. *)

\* What others do leaves the part of a request that stays as it is.
LEMMA OtherPartsStay ==
  ASSUME ThreadInv, TableInv, BringsInv, [Next]_vars, NEW q \in Request,
         IndexInv
  PROVE  /\ thread'[q] = thread[q] /\ thread[q].at \in {"emit", "write"} => EmitPart(q)'
         /\ row'[q] = row[q] => CompletedPart(q)'
  <1>1. world' = world
    BY WorldStays
  <1>2. ASSUME thread'[q] = thread[q], thread[q].at \in {"emit", "write"} PROVE EmitPart(q)'
    <2>1. EmitPart(q)
      BY <1>2 DEF IndexInv
    <2>2. Candidates(q)' = Candidates(q) /\ Candidate(q)' = Candidate(q)
      BY <1>1, <1>2 DEF Candidates, Candidate, SampleOf
    <2>3. ASSUME NEW j \in 1 .. Len(Candidates(q)), j < thread[q].k
          PROVE  Indexed(Candidates(q)[j], q, thread[q].report.severity)'
      <3>1. Indexed(Candidates(q)[j], q, thread[q].report.severity)
        BY <2>1, <2>3 DEF EmitPart
      <3> DEFINE i == Candidates(q)[j]
                 severity == thread[q].report.severity
      <3>2. i' = i /\ severity' = severity
        BY <1>2, <2>2
      <3> HIDE DEF i, severity
      <3>3. Indexed(i, q, severity)
        BY <3>1 DEF i, severity
      <3>4. /\ i \in Indicator /\ <<i, q>> \in sightings'
            /\ world'.db = "sqlite" => Rank(ioc'[i].severity) >= Rank(severity)
        BY <3>3, IndexedStays DEF Indexed
      <3> QED
        BY <3>2, <3>4 DEF Indexed, i, severity
    <2> QED
      BY <1>2, <2>1, <2>2, <2>3 DEF EmitPart
  <1>3. ASSUME row'[q] = row[q] PROVE CompletedPart(q)'
    <2> SUFFICES ASSUME row[q].status = "completed", row[q].report.score >= 50,
                        NEW i \in ToSet(SampleOf(q).iocs)
                 PROVE  /\ i \in Indicator /\ <<i, q>> \in sightings'
                        /\ world'.db = "sqlite" =>
                             Rank(ioc'[i].severity) >= Rank(row[q].report.severity)
      BY <1>1, <1>3 DEF CompletedPart, Indexed, SampleOf
    <2>1. Indexed(i, q, row[q].report.severity)
      BY DEF IndexInv, CompletedPart
    <2> QED
      BY <2>1, IndexedStays DEF Indexed
  <1> QED
    BY <1>2, <1>3

\* A step of one thread: what it does to its own part is enough.
LEMMA IndexFrame ==
  ASSUME ThreadInv, TableInv, BringsInv, IndexInv, [Next]_vars, NEW r \in Request, ThreadFrame(r),
         \A q \in Request \ {r} : row'[q] = row[q],
         thread'[r].at \in {"emit", "write"} => EmitPart(r)',
         row'[r] = row[r] \/ row'[r].status # "completed" \/ CompletedPart(r)'
  PROVE  IndexInv'
  <1> SUFFICES ASSUME NEW q \in Request
               PROVE  (thread'[q].at \in {"emit", "write"} => EmitPart(q)') /\ CompletedPart(q)'
    BY DEF IndexInv
  <1>1. CASE q = r
    <2>1. row'[r].status # "completed" => CompletedPart(r)'
      BY DEF CompletedPart
    <2> QED
      BY <1>1, <2>1, OtherPartsStay
  <1>2. CASE q # r
    <2>1. thread'[q] = thread[q] /\ row'[q] = row[q]
      BY <1>2 DEF ThreadFrame
    <2> QED
      BY <2>1, OtherPartsStay
  <1> QED
    BY <1>1, <1>2

\* One more candidate was brought to the table.
LEMMA NextCandidate ==
  ASSUME ThreadInv, TableInv, BringsInv, IndexInv, world \in World, [Next]_vars, NEW r \in Request,
         thread[r].at \in {"emit", "write"}, thread[r].k \in 1 .. Len(Candidates(r)),
         thread'[r].at = "emit", thread'[r].k = thread[r].k + 1,
         thread'[r].report = thread[r].report,
         Candidate(r) \in Indicator, <<Candidate(r), r>> \in sightings',
         world.db = "sqlite" =>
           Rank(ioc'[Candidate(r)].severity) >= Rank(thread[r].report.severity)
  PROVE  EmitPart(r)'
  <1>1. EmitPart(r)
    BY DEF IndexInv
  <1>2. world' = world
    BY WorldStays
  <1>3. Candidates(r)' = Candidates(r) /\ Len(Candidates(r)) \in Nat
    BY <1>2, CandidatesAreSeq DEF Candidates, SampleOf
  <1> DEFINE severity == thread[r].report.severity
             C == Candidates(r)
  <1>4. ASSUME NEW j \in 1 .. Len(C), j < thread[r].k + 1
        PROVE  /\ C[j] \in Indicator /\ <<C[j], r>> \in sightings'
               /\ world'.db = "sqlite" => Rank(ioc'[C[j]].severity) >= Rank(severity)
    <2>1. CASE j < thread[r].k
      <3>1. Indexed(C[j], r, severity)
        BY <1>1, <2>1 DEF EmitPart
      <3> QED
        BY <3>1, IndexedStays DEF Indexed
    <2>2. CASE j = thread[r].k
      BY <1>2, <2>2 DEF Candidate
    <2> QED
      BY <1>1, <1>3, <1>4, <2>1, <2>2 DEF EmitPart
  <1> QED
    BY <1>1, <1>3, <1>4 DEF EmitPart, Indexed

LEMMA ThreadStepIndex ==
  ASSUME RequestInv, ThreadInv, TableInv, BringsInv, ResultInv, IndexInv, [Next]_vars,
         NEW r \in Request, ThreadStep(r)
  PROVE  IndexInv'
  <1>0. ThreadFrame(r) /\ world \in World /\ world' = world
    BY StepFrame, WorldStays DEF RequestInv
  <1>c. Candidates(r) \in Seq(STRING) /\ Len(Candidates(r)) \in Nat
    BY <1>0, CandidatesAreSeq
  <1> USE DEF ThreadInv, ThreadField, GoTo, RaiseEarly, Writes, Leave, Fault, ThreadOnly, NoIndex
  <1>1. CASE Create(r)
    <2>1. /\ thread'[r].at \in {"mark", "over"} /\ \A q \in Request \ {r} : row'[q] = row[q]
          /\ row'[r] = row[r] \/ row'[r].status = "pending"
      BY <1>1 DEF Create
    <2> QED
      BY <1>0, <2>1, IndexFrame
  <1>2. CASE MarkRunning(r)
    <2>1. /\ thread'[r].at \in {"extract", "over"} /\ \A q \in Request \ {r} : row'[q] = row[q]
          /\ row'[r] = row[r] \/ row'[r].status = "running"
      BY <1>2 DEF MarkRunning
    <2> QED
      BY <1>0, <2>1, IndexFrame
  <1>3. CASE Extract(r)
    BY <1>0, <1>3, IndexFrame DEF Extract
  <1>4. CASE RunEngine(r)
    <2>1. thread'[r].at = "engines" /\ row' = row
      BY <1>4 DEF RunEngine
    <2> QED
      BY <1>0, <2>1, IndexFrame
  <1>5. CASE Hang(r)
    BY <1>0, <1>5, IndexFrame DEF Hang
  <1>6. CASE Assess(r)
    <2>1. thread'[r].at = "payloads" /\ row' = row
      BY <1>6 DEF Assess
    <2> QED
      BY <1>0, <2>1, IndexFrame
  <1>7. CASE RecoverPayload(r)
    <2>1. thread'[r].at = "payloads" /\ row' = row
      BY <1>7 DEF RecoverPayload
    <2> QED
      BY <1>0, <2>1, IndexFrame
  <1>8. CASE PayloadsDone(r)
    <2>1. row' = row
      BY <1>8 DEF PayloadsDone
    <2>2. thread'[r].at = "fail" \/ (thread'[r].at = "emit" /\ thread'[r].k = 1)
      <3>1. thread' = [thread EXCEPT ![r].at = "emit", ![r].k = 1]
            \/ thread' = [thread EXCEPT ![r].at = "fail", ![r].k = 1]
        BY <1>8 DEF PayloadsDone
      <3>2. DOMAIN thread = Request /\ DOMAIN thread[r] = ThreadField
        BY DEF ThreadInv
      <3> QED
        BY <3>1, <3>2 DEF ThreadField
    <2>3. thread'[r].at \in {"emit", "write"} => EmitPart(r)'
      BY <2>2 DEF EmitPart
    <2> QED
      BY <1>0, <2>1, <2>3, IndexFrame
  <1>9. CASE EmitInvalid(r)
    BY <1>0, <1>9, IndexFrame DEF EmitInvalid
  <1>10. CASE Emit(r)
    <2>1. /\ thread[r].at = "emit" /\ thread[r].k <= Len(Candidates(r))
          /\ Candidate(r) \in Indicator /\ row' = row
          /\ thread'[r].at = "emit" /\ thread'[r].k = thread[r].k + 1
          /\ thread'[r].report = thread[r].report
          /\ Upsert(Candidate(r), r, ioc[Candidate(r)], thread[r].report.severity)
      BY <1>10 DEF Emit, Emitting
    <2>2. thread[r].k \in 1 .. Len(Candidates(r))
      BY <1>c, <2>1 DEF IndexInv, EmitPart
    <2>3. thread[r].report.severity \in Severities
      BY <2>1 DEF BringsInv
    <2>4. /\ <<Candidate(r), r>> \in sightings'
          /\ world.db = "sqlite" =>
               Rank(ioc'[Candidate(r)].severity) >= Rank(thread[r].report.severity)
      BY <1>0, <2>1, <2>3, UpsertIndexes DEF Indexed
    <2>5. EmitPart(r)'
      BY <1>0, <2>1, <2>2, <2>4, NextCandidate
    <2> QED
      BY <1>0, <2>1, <2>5, IndexFrame
  <1>11. CASE EmitRead(r)
    <2>1. /\ thread[r].at = "emit" /\ thread[r].k <= Len(Candidates(r)) /\ row' = row
          /\ Candidate(r) \in Indicator
          /\ thread'[r].at = "write" /\ thread'[r].k = thread[r].k
          /\ thread'[r].report = thread[r].report
          /\ UNCHANGED <<ioc, sightings>>
      BY <1>11 DEF EmitRead, Emitting
    <2>2. Candidates(r)' = Candidates(r) /\ Candidate(r)' = Candidate(r)
      BY <1>0, <2>1 DEF Candidates, Candidate, SampleOf
    <2>3. EmitPart(r)
      BY <2>1 DEF IndexInv
    <2>4. EmitPart(r)'
      <3>1. thread[r].k \in 1 .. Len(Candidates(r))
        BY <1>c, <2>1, <2>3 DEF EmitPart
      <3>2. ASSUME NEW j \in 1 .. Len(Candidates(r)), j < thread[r].k
            PROVE  Indexed(Candidates(r)[j], r, thread[r].report.severity)
        BY <2>3, <3>2 DEF EmitPart
      <3>3. thread'[r].report.severity = thread[r].report.severity
        BY <2>1
      <3> QED
        BY <1>0, <2>1, <2>2, <3>1, <3>2, <3>3 DEF EmitPart, Indexed
    <2> QED
      BY <1>0, <2>1, <2>4, IndexFrame
  <1>12. CASE EmitWrite(r)
    <2>1. thread[r].at = "write" /\ row' = row
      BY <1>12 DEF EmitWrite
    <2>2. CASE Refutes(Candidate(r), thread[r].seen)
      <3>1. thread'[r].at = "fail"
        BY <1>12, <2>2 DEF EmitWrite
      <3> QED
        BY <1>0, <2>1, <3>1, IndexFrame
    <2>3. CASE ~Refutes(Candidate(r), thread[r].seen)
      <3>1. /\ thread'[r].at = "emit" /\ thread'[r].k = thread[r].k + 1
            /\ thread'[r].report = thread[r].report
            /\ Upsert(Candidate(r), r, thread[r].seen, thread[r].report.severity)
        BY <1>12, <2>3 DEF EmitWrite
      <3>2. thread[r].k \in 1 .. Len(Candidates(r)) /\ Candidate(r) \in Indicator
        BY <2>1 DEF IndexInv, EmitPart
      <3>3. thread[r].report.severity \in Severities /\ world.db = "postgres"
        BY <2>1 DEF BringsInv
      <3>4. /\ <<Candidate(r), r>> \in sightings'
            /\ world.db = "sqlite" =>
                 Rank(ioc'[Candidate(r)].severity) >= Rank(thread[r].report.severity)
        BY <3>1, <3>3 DEF Upsert
      <3>5. EmitPart(r)'
        BY <1>0, <2>1, <3>1, <3>2, <3>4, NextCandidate
      <3> QED
        BY <1>0, <2>1, <3>5, IndexFrame
    <2> QED
      BY <2>2, <2>3
  <1>13. CASE EmitFault(r)
    BY <1>0, <1>13, IndexFrame DEF EmitFault
  <1>14. CASE Complete(r)
    <2>1. /\ thread[r].at = "emit" /\ thread[r].k > Len(Candidates(r))
          /\ thread'[r].at \in {"unlink", "fail"}
          /\ \A q \in Request \ {r} : row'[q] = row[q]
          /\ row'[r] = row[r] \/ row'[r] = [status |-> "completed", report |-> thread[r].report]
          /\ UNCHANGED <<ioc, sightings>>
      BY <1>14 DEF Complete
    <2>2. ASSUME row'[r] = [status |-> "completed", report |-> thread[r].report]
          PROVE  CompletedPart(r)'
      <3>1. EmitPart(r)
        BY <2>1 DEF IndexInv
      <3>2. \A j \in 1 .. Len(Candidates(r)) :
              Indexed(Candidates(r)[j], r, thread[r].report.severity)
        BY <1>c, <2>1, <3>1 DEF EmitPart
      <3>3. row'[r].report = thread[r].report
        BY <2>2
      <3> SUFFICES ASSUME thread[r].report.score >= 50, NEW i \in ToSet(SampleOf(r).iocs)
                   PROVE  Indexed(i, r, thread[r].report.severity)
        BY <1>0, <2>1, <3>3 DEF CompletedPart, Indexed, SampleOf
      <3>4. Candidates(r) = SampleOf(r).iocs
        BY DEF Candidates
      <3>5. PICK j \in DOMAIN SampleOf(r).iocs : i = SampleOf(r).iocs[j]
        BY DEF ToSet
      <3>6. j \in 1 .. Len(Candidates(r))
        BY <1>c, <3>4, <3>5
      <3> QED
        BY <3>2, <3>4, <3>5, <3>6
    <2> QED
      BY <1>0, <2>1, <2>2, IndexFrame
  <1>15. CASE Fail(r)
    <2>1. /\ thread'[r].at = "unlink" /\ \A q \in Request \ {r} : row'[q] = row[q]
          /\ row'[r] = row[r] \/ row'[r].status = "failed"
      BY <1>15 DEF Fail
    <2> QED
      BY <1>0, <2>1, IndexFrame
  <1>16. CASE Unlink(r)
    BY <1>0, <1>16, IndexFrame DEF Unlink
  <1> QED
    BY <1>1, <1>2, <1>3, <1>4, <1>5, <1>6, <1>7, <1>8, <1>9, <1>10, <1>11, <1>12, <1>13, <1>14,
       <1>15, <1>16 DEF ThreadStep

\* No one else changes a row; a thread that begins, or is cut off, emits nothing.
LEMMA StepKeepsIndex ==
  ASSUME RequestInv, ThreadInv, TableInv, BringsInv, ResultInv, IndexInv, [Next]_vars
  PROVE  IndexInv'
  <1>1. ASSUME NEW r \in Request, ThreadStep(r) PROVE IndexInv'
    BY <1>1, ThreadStepIndex
  <1>2. ASSUME row' = row,
               \A q \in Request : thread'[q] = thread[q] \/ thread'[q].at \in {"create", "dead"}
        PROVE  IndexInv'
    BY <1>2, OtherPartsStay DEF IndexInv
  <1>3. ASSUME NEW r \in Request, Acquire(r) PROVE IndexInv'
    <2>1. /\ row' = row /\ thread'[r].at = "create"
          /\ \A q \in Request \ {r} : thread'[q] = thread[q]
      BY <1>3 DEF Acquire, ThreadInv, ThreadField
    <2> QED
      BY <1>2, <2>1
  <1>4. CASE Crash
    <2>1. /\ row' = row
          /\ \A q \in Request : \/ thread'[q] = thread[q]
                                \/ thread'[q] = [NoThread EXCEPT !.at = "dead"]
      BY <1>4 DEF Crash
    <2>2. [NoThread EXCEPT !.at = "dead"].at = "dead"
      BY DEF NoThread
    <2> QED
      BY <1>2, <2>1, <2>2
  <1>5. ASSUME NEW r \in Request,
               Arrive(r) \/ Refuse(r) \/ Store(r) \/ Answer(r) \/ Timeout(r) \/ Cancel(r)
        PROVE  IndexInv'
    BY <1>2, <1>5 DEF Arrive, Refuse, Store, Answer, Timeout, Cancel
  <1>6. CASE Manual \/ Cleanup \/ UNCHANGED vars
    BY <1>2, <1>6 DEF Manual, Cleanup, vars
  <1> QED
    BY <1>1, <1>3, <1>4, <1>5, <1>6 DEF Next, RequestStep

-----------------------------------------------------------------------------
(* Findings, and the score of what was found.                              *)

LEMMA LatestIsLast ==
  ASSUME NEW list \in Seq(Finding), NEW i \in DOMAIN list
  PROVE  \E j \in DOMAIN list : IsLast(list, j) /\ Alike(list[j], list[i]) /\ Latest(list, i) = list[j]
  <1> DEFINE Same1(j) == list[j].engine = list[i].engine /\ list[j].id = list[i].id
             Is(j) == Same1(j) /\ \A k \in DOMAIN list : Same1(k) => k <= j
             U == {j \in DOMAIN list : Same1(j)}
             j == CHOOSE x \in DOMAIN list : Is(x)
  <1>1. Len(list) \in Nat /\ DOMAIN list = 1 .. Len(list)
    OBVIOUS
  <1>2. U \in SUBSET (1 .. Len(list)) /\ U # {}
    <2>1. i \in U
      OBVIOUS
    <2> QED
      BY <1>1, <2>1
  <1>3. \E x \in U : \A y \in U : y <= x
    <2> HIDE DEF U
    <2> QED
      BY <1>1, <1>2, Greatest
  <1>4. \E x \in DOMAIN list : Is(x)
    BY <1>3
  <1>5. j \in DOMAIN list /\ Is(j)
    BY <1>4
  <1>6. Latest(list, i) = list[j]
    BY DEF Latest
  <1> HIDE DEF j
  <1>7. IsLast(list, j) /\ Alike(list[j], list[i])
    BY <1>5 DEF IsLast, Alike
  <1> QED
    BY <1>5, <1>6, <1>7

\* The first positions of the keys are as many as the last findings.
LEMMA FirstsAreKeys ==
  ASSUME NEW list \in Seq(Finding)
  PROVE  /\ Firsts(list) \subseteq DOMAIN list
         /\ \A i \in Firsts(list) : Latest(list, i) \in LastOf(list) /\ Latest(list, i) \in Finding
         /\ \A i, j \in Firsts(list) : Latest(list, i) = Latest(list, j) => i = j
         /\ \A f \in LastOf(list) : \E i \in Firsts(list) : Latest(list, i) = f
  <1>0. Len(list) \in Nat /\ DOMAIN list = 1 .. Len(list) /\ \A i \in DOMAIN list : list[i] \in Finding
    OBVIOUS
  <1>1. Firsts(list) = {i \in DOMAIN list : \A j \in DOMAIN list : Alike(list[j], list[i]) => i <= j}
    BY DEF Firsts, Alike
  <1>2. ASSUME NEW i \in Firsts(list)
        PROVE  Latest(list, i) \in LastOf(list) /\ Latest(list, i) \in Finding
               /\ Alike(Latest(list, i), list[i])
    <2>1. i \in DOMAIN list
      BY <1>1
    <2>2. PICK j \in DOMAIN list : IsLast(list, j) /\ Alike(list[j], list[i]) /\ Latest(list, i) = list[j]
      BY <2>1, LatestIsLast
    <2> QED
      BY <1>0, <2>2 DEF LastOf
  <1>3. ASSUME NEW i \in Firsts(list), NEW j \in Firsts(list), Latest(list, i) = Latest(list, j)
        PROVE  i = j
    <2>1. Alike(list[i], list[j]) /\ Alike(list[j], list[i])
      BY <1>2, <1>3 DEF Alike
    <2>2. i <= j /\ j <= i /\ i \in Nat /\ j \in Nat
      BY <1>0, <1>1, <2>1
    <2> QED
      BY <2>2
  <1>4. ASSUME NEW f \in LastOf(list) PROVE \E i \in Firsts(list) : Latest(list, i) = f
    <2>1. PICK l \in DOMAIN list : IsLast(list, l) /\ f = list[l]
      BY DEF LastOf
    <2> DEFINE U == {i \in DOMAIN list : Alike(list[i], list[l])}
    <2>2. U \in SUBSET Nat /\ U # {}
      <3>1. l \in U
        BY DEF Alike
      <3> QED
        BY <1>0, <3>1
    <2>3. PICK i \in U : \A j \in U : i <= j
      <3> HIDE DEF U
      <3> QED
        BY <2>2, Least
    <2>4. i \in Firsts(list)
      BY <1>1, <2>3 DEF Alike
    <2>5. PICK j \in DOMAIN list : IsLast(list, j) /\ Alike(list[j], list[i]) /\ Latest(list, i) = list[j]
      BY LatestIsLast
    <2>6. j <= l /\ l <= j
      BY <2>1, <2>3, <2>5 DEF Alike, IsLast
    <2>7. j = l
      BY <1>0, <2>6
    <2> QED
      BY <2>1, <2>4, <2>5, <2>7
  <1> QED
    BY <1>1, <1>2, <1>3, <1>4

\* _deduplicate_findings: last findings, each once, and all of them if they are
\* not too many.
LEMMA DeduplicatedIs ==
  ASSUME NEW list \in Seq(Finding)
  PROVE  /\ Deduplicated(list) \in Seq(Finding)
         /\ \A n \in DOMAIN Deduplicated(list) : Deduplicated(list)[n] \in LastOf(list)
         /\ \A n, k \in DOMAIN Deduplicated(list) :
              Deduplicated(list)[n] = Deduplicated(list)[k] => n = k
         /\ Cardinality(Firsts(list)) <= MaxFindings =>
              \A f \in LastOf(list) : \E n \in DOMAIN Deduplicated(list) : Deduplicated(list)[n] = f
  <1> DEFINE firsts == Firsts(list)
             ahead == [i \in firsts |-> {j \in firsts : Before(list, j, i)}]
             count == Cardinality(firsts)
             Nth(n) == CHOOSE i \in firsts : Cardinality({j \in firsts : Before(list, j, i)}) = n - 1
             all == [n \in 1 .. count |-> Latest(list, Nth(n))]
             cut == AtMost(count, MaxFindings)
  <1>1. /\ firsts \subseteq DOMAIN list
        /\ \A i \in firsts : Latest(list, i) \in LastOf(list) /\ Latest(list, i) \in Finding
        /\ \A i, j \in firsts : Latest(list, i) = Latest(list, j) => i = j
        /\ \A f \in LastOf(list) : \E i \in firsts : Latest(list, i) = f
    BY FirstsAreKeys
  <1>2. IsFiniteSet(firsts) /\ count \in Nat
    <2>1. IsFiniteSet(DOMAIN list)
      <3>1. 1 \in Int /\ Len(list) \in Int /\ DOMAIN list = 1 .. Len(list)
        OBVIOUS
      <3> QED
        BY <3>1, FS_Interval
    <2> HIDE DEF firsts
    <2> QED
      BY <1>1, <2>1, FS_Subset, FS_CardinalityType
  <1>3. Deduplicated(list) = SubSeq(all, 1, cut)
    BY DEF Deduplicated
  <1> DEFINE rank == [i \in firsts |-> Rank(Latest(list, i).severity)]
             points == [i \in firsts |-> Latest(list, i).points]
             id == [i \in firsts |-> Latest(list, i).id]
             Less(i, j) == \/ rank[i] > rank[j]
                           \/ /\ rank[i] = rank[j]
                              /\ \/ points[i] > points[j]
                                 \/ points[i] = points[j] /\ (id[i] < id[j] \/ (id[i] = id[j] /\ i < j))
  <1>4. \A i, j \in firsts : Before(list, i, j) <=> Less(i, j)
    BY DEF Before
  <1>5. \A i \in firsts : rank[i] \in Nat /\ points[i] \in Nat /\ id[i] \in Nat /\ i \in Nat
    BY <1>1, RankIsNat DEF Finding
  <1> HIDE DEF rank, points, id, firsts
  <1>6. \A i \in firsts : ahead[i] = {j \in firsts : Less(j, i)}
    BY <1>4
  <1> HIDE DEF ahead
  <1>7. \A i \in firsts : i \notin ahead[i]
    BY <1>5, <1>6
  <1>8. \A i, j \in firsts : i # j => j \in ahead[i] \/ i \in ahead[j]
    BY <1>5, <1>6
  <1>9. \A i, j \in firsts : j \in ahead[i] => ahead[j] \subseteq ahead[i]
    <2>1. ASSUME NEW i \in firsts, NEW j \in firsts, NEW k \in firsts, Less(j, i), Less(k, j)
          PROVE  Less(k, i)
      BY <1>5, <2>1
    <2> HIDE DEF Less
    <2> QED
      BY <1>6, <2>1
  <1>10. ahead \in [firsts -> SUBSET firsts]
    BY DEF ahead
  <1>11. /\ \A k \in 1 .. Cardinality(firsts) : \E i \in firsts : Cardinality(ahead[i]) = k - 1
         /\ \A i, j \in firsts : Cardinality(ahead[i]) = Cardinality(ahead[j]) => i = j
         /\ \A i \in firsts : Cardinality(ahead[i]) + 1 \in 1 .. Cardinality(firsts)
    BY ONLY <1>2, <1>7, <1>8, <1>9, <1>10, PlacesInOrder
  <1>12. \A i \in firsts : Cardinality(ahead[i]) \in Nat
    BY <1>2, <1>10, FS_Subset, FS_CardinalityType
  <1>13. ASSUME NEW n \in 1 .. count
         PROVE  Nth(n) \in firsts /\ Cardinality(ahead[Nth(n)]) = n - 1
    <2>1. \A i \in firsts : ahead[i] = {j \in firsts : Before(list, j, i)}
      BY DEF ahead
    <2>2. \E i \in firsts : Cardinality({j \in firsts : Before(list, j, i)}) = n - 1
      BY <1>11, <2>1
    <2> DEFINE Is(i) == Cardinality({j \in firsts : Before(list, j, i)}) = n - 1
    <2>3. Nth(n) = CHOOSE i \in firsts : Is(i)
      OBVIOUS
    <2>4. \E i \in firsts : Is(i)
      BY <2>2
    <2> HIDE DEF Nth, Is
    <2>5. Nth(n) \in firsts /\ Is(Nth(n))
      BY <2>3, <2>4
    <2> QED
      BY <2>1, <2>5 DEF Is
  <1> DEFINE nth == [n \in 1 .. count |-> Nth(n)]
  <1> HIDE DEF Nth
  <1>14. \A n \in 1 .. count : /\ nth[n] \in firsts /\ Cardinality(ahead[nth[n]]) = n - 1
                               /\ all[n] = Latest(list, nth[n])
    BY <1>13
  <1>15. all \in Seq(Finding) /\ Len(all) = count /\ DOMAIN all = 1 .. count
    BY <1>1, <1>2, <1>13
  <1> HIDE DEF nth, all, count
  <1>16. \A n, k \in 1 .. count : all[n] = all[k] => n = k
    <2> SUFFICES ASSUME NEW n \in 1 .. count, NEW k \in 1 .. count, all[n] = all[k] PROVE n = k
      OBVIOUS
    <2>1. nth[n] = nth[k]
      BY <1>1, <1>14
    <2>2. n - 1 = k - 1
      BY <1>14, <2>1
    <2> QED
      BY <2>2
  <1>17. \A f \in LastOf(list) : \E n \in 1 .. count : all[n] = f
    <2> SUFFICES ASSUME NEW f \in LastOf(list) PROVE \E n \in 1 .. count : all[n] = f
      OBVIOUS
    <2>1. PICK i \in firsts : Latest(list, i) = f
      BY <1>1
    <2> DEFINE n == Cardinality(ahead[i]) + 1
    <2>2. n \in 1 .. count /\ n - 1 = Cardinality(ahead[i])
      BY <1>11, <1>12 DEF count
    <2>3. nth[n] = i
      BY <1>11, <1>14, <2>2
    <2> QED
      BY <1>14, <2>1, <2>2, <2>3
  <1>18. cut \in 0 .. count /\ (count <= MaxFindings => cut = count)
    BY <1>2, EnginesAssumption DEF AtMost
  <1> HIDE DEF cut
  <1> DEFINE kept == SubSeq(all, 1, cut)
  <1>19. /\ kept \in Seq(Finding) /\ DOMAIN kept = 1 .. cut
         /\ \A n \in 1 .. cut : n \in 1 .. count /\ kept[n] = all[n]
    BY <1>2, <1>15, <1>18
  <1> HIDE DEF kept
  <1>20. \A n \in 1 .. count : all[n] \in LastOf(list)
    BY <1>1, <1>14
  <1>21. Deduplicated(list) = kept
    BY <1>3 DEF kept
  <1> QED
    BY <1>16, <1>17, <1>18, <1>19, <1>20, <1>21 DEF count, firsts

\* Findings of keys that another list has too are no more than that is long.
LEMMA FewKeys ==
  ASSUME NEW list \in Seq(Finding), NEW whole \in Seq(Finding), LastOf(list) \subseteq LastOf(whole)
  PROVE  Cardinality(Firsts(list)) <= Len(whole)
  <1> DEFINE firsts == Firsts(list)
             D == DOMAIN whole
             g == [i \in firsts |-> CHOOSE j \in D : whole[j] = Latest(list, i)]
  <1>1. ASSUME NEW i \in firsts PROVE \E j \in D : whole[j] = Latest(list, i)
    <2>1. Latest(list, i) \in LastOf(whole)
      BY FirstsAreKeys
    <2> QED
      BY <2>1 DEF LastOf
  <1>2. \A i \in firsts : g[i] \in D /\ whole[g[i]] = Latest(list, i)
    BY <1>1
  <1>3. IsFiniteSet(D) /\ Cardinality(D) = Len(whole)
    <2> DEFINE n == Len(whole)
    <2>1. 1 \in Int /\ n \in Int /\ n \in Nat /\ DOMAIN whole = 1 .. n
      OBVIOUS
    <2> HIDE DEF n
    <2>2. IsFiniteSet(1 .. n) /\ Cardinality(1 .. n) = IF 1 > n THEN 0 ELSE n - 1 + 1
      BY ONLY <2>1, FS_Interval
    <2>3. IsFiniteSet(1 .. n) /\ Cardinality(1 .. n) = n
      BY <2>1, <2>2
    <2> QED
      BY <2>1, <2>3 DEF n
  <1>4. g \in [firsts -> D]
    BY <1>2
  <1>5. \A i, j \in firsts : g[i] = g[j] => i = j
    BY <1>2, FirstsAreKeys
  <1> HIDE DEF g, D, firsts
  <1>6. g \in Injection(firsts, D)
    BY <1>4, <1>5 DEF Injection, IsInjective
  <1>7. Cardinality(firsts) <= Cardinality(D)
    BY <1>3, <1>6, FS_Injection
  <1> QED
    BY <1>3, <1>7 DEF firsts

\* A score grows with the last findings, as long as none is cut.
LEMMA ScoreGrows ==
  ASSUME NEW sample, NEW small \in Seq(Finding), NEW large \in Seq(Finding),
         NEW whole \in Seq(Finding), Len(whole) <= MaxFindings,
         LastOf(small) \subseteq LastOf(large), LastOf(large) \subseteq LastOf(whole)
  PROVE  /\ ScoreOf(sample, small) \in Nat /\ ScoreOf(sample, large) \in Nat
         /\ ScoreOf(sample, small) <= ScoreOf(sample, large)
  <1> DEFINE s == Deduplicated(small)
             l == Deduplicated(large)
  <1>1. /\ s \in Seq(Finding) /\ \A n \in DOMAIN s : s[n] \in LastOf(small)
        /\ \A n, k \in DOMAIN s : s[n] = s[k] => n = k
    BY DeduplicatedIs
  <1>2. Cardinality(Firsts(large)) <= MaxFindings
    <2>1. Cardinality(Firsts(large)) <= Len(whole)
      BY FewKeys
    <2>2. Firsts(large) \subseteq DOMAIN large
      BY FirstsAreKeys
    <2>3. IsFiniteSet(DOMAIN large)
      <3>1. 1 \in Int /\ Len(large) \in Int /\ DOMAIN large = 1 .. Len(large)
        OBVIOUS
      <3> QED
        BY <3>1, FS_Interval
    <2>4. Cardinality(Firsts(large)) \in Nat
      BY <2>2, <2>3, FS_Subset, FS_CardinalityType
    <2>5. Len(whole) \in Nat /\ MaxFindings \in Nat
      BY EnginesAssumption
    <2> QED
      BY <2>1, <2>4, <2>5
  <1>3. l \in Seq(Finding) /\ \A f \in LastOf(large) : \E n \in DOMAIN l : l[n] = f
    BY <1>2, DeduplicatedIs
  <1> DEFINE h == [n \in DOMAIN s |-> CHOOSE k \in DOMAIN l : l[k] = s[n]]
  <1> HIDE DEF s, l
  <1>4. \A n \in DOMAIN s : h[n] \in DOMAIN l /\ s[n] = l[h[n]]
    BY <1>1, <1>3
  <1>5. Within(s, l)
    <2>1. h \in [DOMAIN s -> DOMAIN l]
      BY <1>4
    <2> HIDE DEF h
    <2>2. \A n, k \in DOMAIN s : h[n] = h[k] => n = k
      BY <1>1, <1>4
    <2> QED
      BY <1>4, <2>1, <2>2 DEF Within
  <1>6. \A f \in Finding : f.points \in Nat
    BY DEF Finding
  <1>7. StaticScore(sample.static, sample.expected, s) <= StaticScore(sample.static, sample.expected, l)
    BY <1>1, <1>3, <1>5, <1>6, StaticScoreGrows
  <1>8. /\ StaticScore(sample.static, sample.expected, s) \in 0 .. 100
        /\ StaticScore(sample.static, sample.expected, l) \in 0 .. 100
    BY <1>1, <1>3, <1>6, StaticScoreBounds
  <1>9. /\ ScoreOf(sample, small) = StaticScore(sample.static, sample.expected, s)
        /\ ScoreOf(sample, large) = StaticScore(sample.static, sample.expected, l)
    BY DEF ScoreOf, s, l
  <1>10. \A n \in 0 .. 100 : n \in Nat
    OBVIOUS
  <1>11. ScoreOf(sample, small) \in Nat /\ ScoreOf(sample, large) \in Nat
    BY ONLY <1>8, <1>9, <1>10
  <1> QED
    BY ONLY <1>7, <1>9, <1>11

\* What some engines find has the last findings of theirs.
LEMMA LastOfFound ==
  ASSUME NEW sample, sample.findings \in Seq(Finding), NEW engines
  PROVE  /\ FoundBy(engines, sample) \in Seq(Finding)
         /\ \A i \in DOMAIN FoundBy(engines, sample) : FoundBy(engines, sample)[i].engine \in engines
         /\ LastOf(FoundBy(engines, sample)) =
              {f \in LastOf(sample.findings) : f.engine \in engines}
  <1> DEFINE s == sample.findings
             keep == {i \in DOMAIN s : s[i].engine \in engines}
             list == Kept(s, keep)
  <1>1. FoundBy(engines, sample) = list
    BY DEF FoundBy
  <1>2. s \in Seq(Finding) /\ DOMAIN s = 1 .. Len(s) /\ Len(s) \in Nat
    OBVIOUS
  <1>3. \A i \in 1 .. Len(s) : i \in keep <=> s[i].engine \in engines
    BY <1>2
  <1> HIDE DEF s, keep
  <1>4. list \in Seq(Finding)
    <2>1. \A n \in 1 .. Len(s) : n \in keep => s[n] \in Finding
      BY <1>2
    <2> QED
      BY <1>2, <2>1, KeptType
  <1>5. PICK m : Positions(list, s, keep, Len(s), m)
    BY <1>2, KeptPositions
  <1>0. DOMAIN list \subseteq Nat
    BY <1>4
  <1> HIDE DEF list
  <1>6. \A a \in DOMAIN list : m[a] \in DOMAIN s /\ m[a] \in Nat /\ list[a] = s[m[a]]
                               /\ list[a].engine \in engines
    BY <1>2, <1>3, <1>5 DEF Positions
  <1>7. \A i \in DOMAIN s : s[i].engine \in engines => \E a \in DOMAIN list : m[a] = i
    BY <1>2, <1>3, <1>5 DEF Positions
  <1>8. \A a, b \in DOMAIN list : b <= a <=> m[b] <= m[a]
    <2> SUFFICES ASSUME NEW a \in DOMAIN list, NEW b \in DOMAIN list PROVE b <= a <=> m[b] <= m[a]
      OBVIOUS
    <2>1. a \in Nat /\ b \in Nat /\ m[a] \in Nat /\ m[b] \in Nat
      BY <1>0, <1>6
    <2>2. (a < b => m[a] < m[b]) /\ (b < a => m[b] < m[a])
      BY <1>5 DEF Positions
    <2> QED
      BY <2>1, <2>2
  <1>9. ASSUME NEW f \in LastOf(list) PROVE f \in LastOf(s) /\ f.engine \in engines
    <2>1. PICK a \in DOMAIN list : IsLast(list, a) /\ f = list[a]
      BY DEF LastOf
    <2>2. IsLast(s, m[a])
      <3> SUFFICES ASSUME NEW i \in DOMAIN s, Alike(s[i], s[m[a]]) PROVE i <= m[a]
        BY DEF IsLast
      <3>1. s[i].engine \in engines
        BY <1>6, <2>1 DEF Alike
      <3>2. PICK b \in DOMAIN list : m[b] = i
        BY <1>7, <3>1
      <3>3. b <= a
        BY <1>6, <2>1, <3>2 DEF IsLast
      <3> QED
        BY <1>8, <3>2, <3>3
    <2> QED
      BY <1>6, <2>1, <2>2 DEF LastOf
  <1>10. ASSUME NEW f \in LastOf(s), f.engine \in engines PROVE f \in LastOf(list)
    <2>1. PICK i \in DOMAIN s : IsLast(s, i) /\ f = s[i]
      BY DEF LastOf
    <2>2. PICK a \in DOMAIN list : m[a] = i
      BY <1>7, <1>10, <2>1
    <2>3. IsLast(list, a)
      <3> SUFFICES ASSUME NEW b \in DOMAIN list, Alike(list[b], list[a]) PROVE b <= a
        BY DEF IsLast
      <3>1. m[b] <= m[a]
        BY <1>6, <2>1, <2>2 DEF IsLast
      <3> QED
        BY <1>8, <3>1
    <2> QED
      BY <1>6, <2>1, <2>2, <2>3 DEF LastOf
  <1> QED
    BY <1>1, <1>4, <1>6, <1>9, <1>10 DEF s

\* Lists of findings of different engines keep out of each other's way.
LEMMA LastOfJoined ==
  ASSUME NEW one \in Seq(Finding), NEW two \in Seq(Finding),
         \A i \in DOMAIN one, j \in DOMAIN two : one[i].engine # two[j].engine
  PROVE  one \o two \in Seq(Finding) /\ LastOf(one \o two) = LastOf(one) \cup LastOf(two)
  <1> DEFINE all == one \o two
             n == Len(one)
  <1>1. /\ all \in Seq(Finding) /\ n \in Nat /\ Len(two) \in Nat
        /\ DOMAIN one = 1 .. n /\ DOMAIN two = 1 .. Len(two) /\ DOMAIN all = 1 .. n + Len(two)
        /\ \A i \in 1 .. n : all[i] = one[i]
        /\ \A j \in 1 .. Len(two) : all[n + j] = two[j]
    OBVIOUS
  <1> HIDE DEF all, n
  <1>2. \A i \in DOMAIN one : i \in DOMAIN all /\ all[i] = one[i]
    BY <1>1
  <1>3. \A j \in DOMAIN two : n + j \in DOMAIN all /\ all[n + j] = two[j]
    BY <1>1
  <1>4. ASSUME NEW i \in DOMAIN all, i \notin DOMAIN one PROVE \E j \in DOMAIN two : i = n + j
    <2>1. i - n \in DOMAIN two /\ i = n + (i - n)
      BY <1>1, <1>4
    <2> QED
      BY <2>1
  <1>5. \A i \in DOMAIN one : IsLast(all, i) <=> IsLast(one, i)
    <2> SUFFICES ASSUME NEW i \in DOMAIN one PROVE IsLast(all, i) <=> IsLast(one, i)
      OBVIOUS
    <2>1. ASSUME IsLast(all, i) PROVE IsLast(one, i)
      BY <1>2, <2>1 DEF IsLast
    <2>2. ASSUME IsLast(one, i), NEW k \in DOMAIN all, Alike(all[k], all[i]) PROVE k <= i
      <3>1. CASE k \in DOMAIN one
        BY <1>2, <2>2, <3>1 DEF IsLast
      <3>2. CASE k \notin DOMAIN one
        <4>1. PICK j \in DOMAIN two : k = n + j
          BY <1>4, <3>2
        <4>2. all[k] = two[j] /\ all[i] = one[i]
          BY <1>2, <1>3, <4>1
        <4> QED
          BY <2>2, <4>2 DEF Alike
      <3> QED
        BY <3>1, <3>2
    <2> QED
      BY <2>1, <2>2 DEF IsLast
  <1>6. \A j \in DOMAIN two : IsLast(all, n + j) <=> IsLast(two, j)
    <2> SUFFICES ASSUME NEW j \in DOMAIN two PROVE IsLast(all, n + j) <=> IsLast(two, j)
      OBVIOUS
    <2>0. all[n + j] = two[j] /\ j \in Nat
      BY <1>1, <1>3
    <2>1. ASSUME IsLast(all, n + j), NEW k \in DOMAIN two, Alike(two[k], two[j]) PROVE k <= j
      <3>1. n + k <= n + j
        BY <1>3, <2>0, <2>1 DEF IsLast
      <3> QED
        BY <1>1, <2>0, <3>1
    <2>2. ASSUME IsLast(two, j), NEW i \in DOMAIN all, Alike(all[i], all[n + j]) PROVE i <= n + j
      <3>1. CASE i \in DOMAIN one
        BY <1>1, <2>0, <3>1
      <3>2. CASE i \notin DOMAIN one
        <4>1. PICK k \in DOMAIN two : i = n + k
          BY <1>4, <3>2
        <4>2. k <= j
          BY <1>3, <2>0, <2>2, <4>1 DEF IsLast
        <4> QED
          BY <1>1, <2>0, <4>1, <4>2
      <3> QED
        BY <3>1, <3>2
    <2> QED
      BY <2>1, <2>2 DEF IsLast
  <1>7. LastOf(all) \subseteq LastOf(one) \cup LastOf(two)
    <2> SUFFICES ASSUME NEW i \in DOMAIN all, IsLast(all, i)
                 PROVE  all[i] \in LastOf(one) \cup LastOf(two)
      BY DEF LastOf
    <2>1. CASE i \in DOMAIN one
      BY <1>2, <1>5, <2>1 DEF LastOf
    <2>2. CASE i \notin DOMAIN one
      BY <1>3, <1>4, <1>6, <2>2 DEF LastOf
    <2> QED
      BY <2>1, <2>2
  <1>8. LastOf(one) \cup LastOf(two) \subseteq LastOf(all)
    BY <1>2, <1>3, <1>5, <1>6 DEF LastOf
  <1> QED
    BY <1>1, <1>7, <1>8 DEF all

-----------------------------------------------------------------------------
(* What a provider knows is told.                                          *)

LEMMA AdaptersAre ==
  /\ IsFiniteSet(Adapter) /\ "virustotal" \in Adapter
  /\ Adapter = {AdapterOrder[i] : i \in DOMAIN AdapterOrder}
  <1> DEFINE f == [i \in 1 .. 10 |-> AdapterOrder[i]]
  <1>1. DOMAIN AdapterOrder = {1, 2, 3, 4, 5, 6, 7, 8, 9, 10}
    BY DEF AdapterOrder
  <1>2. 1 .. 10 = {1, 2, 3, 4, 5, 6, 7, 8, 9, 10}
    OBVIOUS
  <1>3. Adapter = {AdapterOrder[i] : i \in 1 .. 10}
    BY <1>1, <1>2 DEF Adapter, ToSet
  <1>4. AdapterOrder[9] = "virustotal"
    BY DEF AdapterOrder
  <1>5. f \in Surjection(1 .. 10, Adapter)
    <2>1. f \in [1 .. 10 -> Adapter]
      BY <1>3
    <2>2. \A t \in Adapter : \E i \in 1 .. 10 : f[i] = t
      BY <1>3
    <2> HIDE DEF f
    <2> QED
      BY <2>1, <2>2 DEF Surjection
  <1>6. IsFiniteSet(1 .. 10)
    <2>1. 1 \in Int /\ 10 \in Int
      OBVIOUS
    <2> QED
      BY ONLY <2>1, FS_Interval
  <1>7. IsFiniteSet(Adapter)
    <2> HIDE DEF f
    <2> QED
      BY <1>5, <1>6, FS_Surjection
  <1> QED
    BY <1>1, <1>2, <1>3, <1>4, <1>7

\* Without gaps no engine is one.
LEMMA NoGaps ==
  ASSUME NEW statuses, DOMAIN statuses = Adapter, Gaps(statuses) = 0
  PROVE  \A a \in Adapter :
           statuses[a] \notin {"unavailable", "failed", "timeout", "blocked-by-policy"}
  <1> DEFINE gaps == {a \in DOMAIN statuses :
                        statuses[a] \in {"unavailable", "failed", "timeout", "blocked-by-policy"}}
  <1>1. IsFiniteSet(gaps)
    BY AdaptersAre, FS_Subset
  <1>2. Cardinality(gaps) = 0
    BY DEF Gaps
  <1>3. gaps = {}
    <2> HIDE DEF gaps
    <2> QED
      BY <1>1, <1>2, FS_EmptySet
  <1> QED
    BY <1>3

\* A report that admits no gap was made with the answer of VirusTotal, if that
\* could be asked at all: a failed lookup is a gap, and so is one not made.
LEMMA ReportTells ==
  ASSUME NEW r \in Request, NEW statuses, DOMAIN statuses = Adapter,
         Ready(world.setup["virustotal"]) =>
           statuses["virustotal"] \in {"completed", "failed", "unavailable"},
         NEW findings
  PROVE  KnownIsTold(r, Report(SampleOf(r), statuses, findings))
  <1> DEFINE report == Report(SampleOf(r), statuses, findings)
  <1>1. /\ report.gaps = Gaps(statuses)
        /\ report.verdict = Assessment(ScoreOf(SampleOf(r), findings), SampleOf(r).quality,
                                       KnownMalicious(SampleOf(r), statuses))
    BY DEF Report
  <1> SUFFICES ASSUME report.gaps = 0, Ready(world.setup["virustotal"]),
                      SampleOf(r).detections >= Threshold
               PROVE  report.verdict = "KNOWN_MALICIOUS"
    BY DEF KnownIsTold
  <1>2. statuses["virustotal"] \notin {"unavailable", "failed", "timeout", "blocked-by-policy"}
    BY <1>1, AdaptersAre, NoGaps
  <1>3. statuses["virustotal"] = "completed"
    BY <1>2
  <1>4. KnownMalicious(SampleOf(r), statuses)
    BY <1>3 DEF KnownMalicious
  <1> HIDE DEF report
  <1> QED
    BY <1>1, <1>4 DEF Assessment

\* How the turn of an engine ends for VirusTotal.
LEMMA LookupEnds ==
  ASSUME NEW s, NEW sample, NEW there, Ready(s),
         NEW o \in Regular("virustotal", s, sample, there) \cup Broken("virustotal", s)
  PROVE  o.status \in {"completed", "failed"}
  BY DEF Regular, Broken, Ran, Lookup

\* A step of a thread keeps the invariant if it does so for its own request.
LEMMA LookupFrame ==
  ASSUME LookupInv, NEW r \in Request, ThreadFrame(r),
         \A q \in Request \ {r} : row'[q] = row[q],
         Heard(thread'[r].statuses),
         thread'[r].at \in {"payloads", "emit", "write"} => KnownIsTold(r, thread'[r].report),
         row'[r].status = "completed" => KnownIsTold(r, row'[r].report)
  PROVE  LookupInv'
  <1>1. world' = world /\ \A q \in Request \ {r} : thread'[q] = thread[q] /\ row'[q] = row[q]
    BY DEF ThreadFrame
  <1>2. ASSUME NEW q \in Request
        PROVE  /\ Heard(thread'[q].statuses)
               /\ thread'[q].at \in {"payloads", "emit", "write"} => KnownIsTold(q, thread'[q].report)
               /\ row'[q].status = "completed" => KnownIsTold(q, row'[q].report)
    BY <1>1 DEF LookupInv
  <1> QED
    BY <1>1, <1>2 DEF LookupInv, Heard, KnownIsTold, SampleOf

LEMMA ThreadStepLookup ==
  ASSUME ThreadInv, ResultInv, LookupInv, NEW r \in Request, ThreadStep(r)
  PROVE  LookupInv'
  <1>0. ThreadFrame(r)
    BY StepFrame
  <1>a. Heard(<<>>)
    BY DEF Heard
  <1> USE DEF ThreadInv, LookupInv, ThreadField, GoTo, RaiseEarly, Writes, Leave, ThreadOnly, NoIndex
  <1>1. CASE Create(r)
    BY <1>0, <1>1, LookupFrame DEF Create
  <1>2. CASE MarkRunning(r)
    BY <1>0, <1>2, LookupFrame DEF MarkRunning
  <1>3. CASE Extract(r)
    BY <1>0, <1>3, LookupFrame DEF Extract
  <1>4. CASE RunEngine(r)
    <2>1. PICK i \in Waiting(r) :
            LET a == AdapterOrder[i] IN
            \E o \in Regular(a, world.setup[a], SampleOf(r), file[r] = "apk")
                       \cup Broken(a, world.setup[a]) :
              thread' = [thread EXCEPT ![r].statuses = Noted(@, a, o.status),
                                       ![r].findings = @ \o o.findings]
      BY <1>4 DEF RunEngine
    <2> DEFINE a == AdapterOrder[i]
               s == world.setup[a]
               there == file[r] = "apk"
               all == Regular(a, s, SampleOf(r), there) \cup Broken(a, s)
    <2>5. PICK o \in all :
            thread' = [thread EXCEPT ![r].statuses = Noted(@, a, o.status),
                                     ![r].findings = @ \o o.findings]
      BY <2>1
    <2>2. thread[r].at = "engines" /\ row' = row
      BY <1>4 DEF RunEngine
    <2>3. Heard(thread'[r].statuses)
      <3>1. thread'[r].statuses = Noted(thread[r].statuses, a, o.status)
        BY <2>5
      <3>2. a = "virustotal" /\ Ready(world.setup["virustotal"]) => o.status \in {"completed", "failed"}
        BY LookupEnds
      <3>3. Heard(thread[r].statuses)
        OBVIOUS
      <3> HIDE DEF a, s, there, all
      <3> QED
        BY <3>1, <3>2, <3>3 DEF Heard, Noted
    <2>4. thread'[r].at = "engines"
      BY <2>2, <2>5
    <2> QED
      BY <1>0, <2>2, <2>3, <2>4, LookupFrame
  <1>5. CASE Hang(r)
    BY <1>0, <1>5, LookupFrame DEF Hang
  <1>6. CASE Assess(r)
    <2>1. /\ row' = row /\ thread'[r].statuses = <<>>
          /\ thread'[r].report = Report(SampleOf(r), AllStatuses(r), thread[r].findings)
      BY <1>6 DEF Assess
    <2>2. /\ DOMAIN AllStatuses(r) = Adapter
          /\ Ready(world.setup["virustotal"]) =>
               AllStatuses(r)["virustotal"] \in {"completed", "failed", "unavailable"}
      <3>1. "virustotal" \in Adapter
        BY AdaptersAre
      <3>2. AllStatuses(r)["virustotal"] =
              IF "virustotal" \in DOMAIN thread[r].statuses THEN thread[r].statuses["virustotal"]
              ELSE Refused(world.setup["virustotal"])
        BY <3>1 DEF AllStatuses
      <3>3. Heard(thread[r].statuses)
        OBVIOUS
      <3> QED
        BY <3>2, <3>3 DEF AllStatuses, Heard, Refused, Ready
    <2>3. KnownIsTold(r, thread'[r].report)
      BY <2>1, <2>2, ReportTells
    <2> QED
      BY <1>0, <1>a, <2>1, <2>3, LookupFrame
  <1>7. CASE RecoverPayload(r)
    BY <1>0, <1>7, LookupFrame DEF RecoverPayload
  <1>8. CASE PayloadsDone(r)
    BY <1>0, <1>8, LookupFrame DEF PayloadsDone
  <1>9. CASE EmitInvalid(r)
    BY <1>0, <1>9, LookupFrame DEF EmitInvalid
  <1>10. CASE Emit(r)
    BY <1>0, <1>10, LookupFrame DEF Emit, Emitting
  <1>11. CASE EmitRead(r)
    BY <1>0, <1>11, LookupFrame DEF EmitRead, Emitting
  <1>12. CASE EmitWrite(r)
    BY <1>0, <1>12, LookupFrame DEF EmitWrite
  <1>13. CASE EmitFault(r)
    BY <1>0, <1>13, LookupFrame DEF EmitFault
  <1>14. CASE Complete(r)
    BY <1>0, <1>14, LookupFrame DEF Complete
  <1>15. CASE Fail(r)
    BY <1>0, <1>15, LookupFrame DEF Fail
  <1>16. CASE Unlink(r)
    BY <1>0, <1>16, LookupFrame DEF Unlink
  <1> QED
    BY <1>1, <1>2, <1>3, <1>4, <1>5, <1>6, <1>7, <1>8, <1>9, <1>10, <1>11, <1>12, <1>13, <1>14,
       <1>15, <1>16 DEF ThreadStep

\* Threads alone write reports.
LEMMA StepKeepsLookup ==
  ASSUME ThreadInv, ResultInv, StartInv, LookupInv, [Next]_vars
  PROVE  LookupInv'
  <1>0. world' = world
    BY WorldStays
  <1>1. ASSUME NEW r \in Request, ThreadStep(r) PROVE LookupInv'
    BY <1>1, ThreadStepLookup
  <1>2. ASSUME row' = row,
               \A q \in Request : \/ thread'[q].statuses = thread[q].statuses
                                  \/ thread'[q].statuses = <<>>,
               \A q \in Request : thread'[q].at \in {"payloads", "emit", "write"} =>
                                    thread'[q] = thread[q]
        PROVE  LookupInv'
    <2>1. Heard(<<>>)
      BY DEF Heard
    <2>2. ASSUME NEW q \in Request
          PROVE  /\ Heard(thread'[q].statuses)
                 /\ thread'[q].at \in {"payloads", "emit", "write"} => KnownIsTold(q, thread'[q].report)
                 /\ row'[q].status = "completed" => KnownIsTold(q, row'[q].report)
      BY <1>2, <2>1 DEF LookupInv
    <2> QED
      BY <1>0, <2>2 DEF LookupInv, Heard, KnownIsTold, SampleOf
  <1>3. ASSUME NEW r \in Request, Acquire(r) PROVE LookupInv'
    <2>1. row' = row /\ thread' = [thread EXCEPT ![r].at = "create"]
      BY <1>3 DEF Acquire
    <2> QED
      BY <1>2, <2>1 DEF ThreadInv, ThreadField
  <1>4. ASSUME NEW r \in Request,
               Arrive(r) \/ Refuse(r) \/ Store(r) \/ Answer(r) \/ Timeout(r) \/ Cancel(r)
        PROVE  LookupInv'
    <2>1. UNCHANGED <<thread, row>>
      BY <1>4 DEF Arrive, Refuse, Store, Answer, Timeout, Cancel
    <2> QED
      BY <1>2, <2>1
  <1>5. CASE Crash
    <2>1. /\ row' = row
          /\ \A r \in Request : \/ thread'[r] = thread[r]
                                \/ thread'[r] = [NoThread EXCEPT !.at = "dead"]
      BY <1>5 DEF Crash
    <2>2. [NoThread EXCEPT !.at = "dead"].at = "dead"
          /\ [NoThread EXCEPT !.at = "dead"].statuses = <<>>
      BY DEF NoThread
    <2> HIDE DEF NoThread
    <2> QED
      BY <1>2, <2>1, <2>2
  <1>6. CASE Manual \/ Cleanup \/ UNCHANGED vars
    BY <1>2, <1>6 DEF Manual, Cleanup, vars
  <1> QED
    BY <1>1, <1>3, <1>4, <1>5, <1>6 DEF Next, RequestStep

-----------------------------------------------------------------------------
(* What the engines find is scored.                                        *)

\* How the turn of an enabled engine ends while the file is there: with nothing,
\* or with all that it finds; and if it completes and goes to its end, with that.
LEMMA TurnEnds ==
  ASSUME NEW a, a # "androguard", NEW s, Ready(s), NEW sample,
         NEW o \in Regular(a, s, sample, TRUE) \cup Broken(a, s)
  PROVE  /\ o.status \in {"completed", "failed", "timeout"}
         /\ o.findings = <<>> \/ o.findings = FoundBy({a}, sample)
         /\ o.status = "completed" /\ a \notin CutShort \cup Lookup =>
              o.findings = FoundBy({a}, sample)
  <1> DEFINE found == FoundBy({a}, sample)
  <1> HIDE DEF found
  <1>1. o \in {Ran("completed", <<>>), Ran("failed", <<>>), Ran("timeout", <<>>),
               Ran("completed", found)}
    BY DEF Regular, Broken, found
  <1>2. a \notin CutShort \cup Lookup =>
          o \in {Ran("failed", <<>>), Ran("timeout", <<>>), Ran("completed", found)}
    BY DEF Regular, Broken, found
  <1>3. \A status, findings : /\ Ran(status, findings).status = status
                              /\ Ran(status, findings).findings = findings
    BY DEF Ran
  <1> QED
    BY <1>1, <1>2, <1>3 DEF found

LEMMA NothingFound == <<>> \in Seq(Finding) /\ DOMAIN <<>> = {} /\ LastOf(<<>>) = {}
  BY DEF LastOf

LEMMA SampleFindings ==
  ASSUME world \in World, NEW r \in Request
  PROVE  SampleOf(r).findings \in Seq(Finding)
  BY AnalysesAssumption DEF SampleOf

\* The turn of an engine.
LEMMA TurnFinds ==
  ASSUME world \in World, NEW r \in Request, EnginePart(r), NEW i \in Waiting(r),
         NEW o \in Regular(AdapterOrder[i], world.setup[AdapterOrder[i]], SampleOf(r), file[r] = "apk")
                     \cup Broken(AdapterOrder[i], world.setup[AdapterOrder[i]]),
         thread'[r].statuses = Noted(thread[r].statuses, AdapterOrder[i], o.status),
         thread'[r].findings = thread[r].findings \o o.findings,
         world' = world, file'[r] = file[r]
  PROVE  EnginePart(r)'
  <1> DEFINE a == AdapterOrder[i]
             statuses == thread[r].statuses
             findings == thread[r].findings
             whole == SampleOf(r).findings
             new == thread'[r].statuses
             all == thread'[r].findings
  <1>1. /\ a # "androguard" /\ Ready(world.setup[a]) /\ a \notin DOMAIN statuses
        /\ a \in Enabled
    <2>1. a # "androguard" /\ Ready(world.setup[a]) /\ a \notin DOMAIN statuses /\ i \in DOMAIN AdapterOrder
      BY DEF Waiting
    <2> QED
      BY <2>1, AdaptersAre DEF Enabled
  <1>2. /\ file[r] = "apk"
        /\ DOMAIN statuses \subseteq Enabled \ {"androguard"}
        /\ \A b \in DOMAIN statuses : statuses[b] \in {"completed", "failed", "timeout"}
        /\ findings \in Seq(Finding)
        /\ \A k \in DOMAIN findings : findings[k].engine \in DOMAIN statuses
        /\ LastOf(findings) \subseteq LastOf(whole)
        /\ \A f \in LastOf(whole) :
             /\ f.engine \in DOMAIN statuses \ CutShort
             /\ statuses[f.engine] = "completed"
             => f \in LastOf(findings)
    BY DEF EnginePart
  <1>3. /\ o.status \in {"completed", "failed", "timeout"}
        /\ o.findings = <<>> \/ o.findings = FoundBy({a}, SampleOf(r))
        /\ o.status = "completed" /\ a \notin CutShort \cup Lookup =>
             o.findings = FoundBy({a}, SampleOf(r))
    BY <1>1, <1>2, TurnEnds
  <1>4. /\ DOMAIN new = DOMAIN statuses \cup {a}
        /\ new[a] = o.status /\ \A b \in DOMAIN statuses : new[b] = statuses[b]
    <2> HIDE DEF a, statuses
    <2> QED
      BY <1>1 DEF Noted, a, statuses
  <1>5. /\ FoundBy({a}, SampleOf(r)) \in Seq(Finding)
        /\ \A k \in DOMAIN FoundBy({a}, SampleOf(r)) : FoundBy({a}, SampleOf(r))[k].engine = a
        /\ LastOf(FoundBy({a}, SampleOf(r))) = {f \in LastOf(whole) : f.engine = a}
    BY SampleFindings, LastOfFound
  <1> HIDE DEF a, statuses, findings, whole
  <1>6. /\ o.findings \in Seq(Finding)
        /\ \A k \in DOMAIN o.findings : o.findings[k].engine = a
        /\ LastOf(o.findings) \subseteq {f \in LastOf(whole) : f.engine = a}
    <2>1. CASE o.findings = <<>>
      BY <2>1, NothingFound
    <2>2. CASE o.findings = FoundBy({a}, SampleOf(r))
      BY <1>5, <2>2
    <2> QED
      BY <1>3, <2>1, <2>2
  <1>7. all \in Seq(Finding) /\ LastOf(all) = LastOf(findings) \cup LastOf(o.findings)
    <2>1. \A k \in DOMAIN findings, l \in DOMAIN o.findings :
            findings[k].engine # o.findings[l].engine
      BY <1>1, <1>2, <1>6
    <2>2. all = findings \o o.findings
      BY DEF findings
    <2> QED
      BY <1>2, <1>6, <2>1, <2>2, LastOfJoined
  <1>8. \A k \in DOMAIN all : all[k].engine \in DOMAIN new
    <2>1. all = findings \o o.findings
      BY DEF findings
    <2>2. \A k \in DOMAIN all : \/ k \in DOMAIN findings /\ all[k] = findings[k]
                                \/ \E l \in DOMAIN o.findings : all[k] = o.findings[l]
      <3>1. ASSUME NEW k \in DOMAIN all, k \notin DOMAIN findings
            PROVE  k - Len(findings) \in DOMAIN o.findings
                   /\ all[k] = o.findings[k - Len(findings)]
        BY <1>2, <1>6, <2>1, <3>1
      <3>2. ASSUME NEW k \in DOMAIN all, k \in DOMAIN findings PROVE all[k] = findings[k]
        BY <1>2, <1>6, <2>1, <3>2
      <3> QED
        BY <3>1, <3>2
    <2> HIDE DEF all, new
    <2> QED
      BY <1>2, <1>4, <1>6, <2>2
  <1>9. ASSUME NEW f \in LastOf(whole), f.engine \in DOMAIN new \ CutShort, new[f.engine] = "completed"
        PROVE  f \in LastOf(all)
    <2>1. CASE f.engine = a
      <3>1. a \notin Lookup
        <4>1. whole \in Seq(Finding)
          BY SampleFindings DEF whole
        <4>2. f \in Finding
          BY <4>1 DEF LastOf
        <4> QED
          BY <2>1, <4>2 DEF Finding
      <3>2. o.findings = FoundBy({a}, SampleOf(r))
        BY <1>3, <1>4, <1>9, <2>1, <3>1
      <3> QED
        BY <1>5, <1>7, <2>1, <3>2
    <2>2. CASE f.engine # a
      BY <1>2, <1>4, <1>7, <1>9, <2>2
    <2> QED
      BY <2>1, <2>2
  <1>10. whole = SampleOf(r)'.findings /\ Enabled' = Enabled
    BY DEF whole, SampleOf, Enabled
  <1>11. file'[r] = "apk"
    BY <1>2
  <1>12. DOMAIN new \subseteq Enabled \ {"androguard"}
    BY <1>1, <1>2, <1>4
  <1>13. \A b \in DOMAIN new : new[b] \in {"completed", "failed", "timeout"}
    BY <1>2, <1>3, <1>4
  <1>14. LastOf(all) \subseteq LastOf(whole)
    BY <1>2, <1>6, <1>7
  <1> QED
    BY <1>7, <1>8, <1>9, <1>10, <1>11, <1>12, <1>13, <1>14 DEF EnginePart

\* After the last turn the score is between that of the engines that go to their
\* end and that of all.
LEMMA ScoreTells ==
  ASSUME world \in World, NEW r \in Request, EnginePart(r), Waiting(r) = {}
  PROVE  ScoreIsTold(r, Report(SampleOf(r), AllStatuses(r), thread[r].findings))
  <1> DEFINE statuses == thread[r].statuses
             findings == thread[r].findings
             whole == SampleOf(r).findings
             report == Report(SampleOf(r), AllStatuses(r), findings)
             least == FoundBy(Enabled \ CutShort, SampleOf(r))
             most == FoundBy(Enabled, SampleOf(r))
  <1>1. report.score = ScoreOf(SampleOf(r), findings) /\ report.gaps = Gaps(AllStatuses(r))
    BY DEF Report
  <1> SUFFICES ASSUME report.gaps = 0, Len(whole) <= MaxFindings
               PROVE  report.score \in ScoreOf(SampleOf(r), least) .. ScoreOf(SampleOf(r), most)
    BY DEF ScoreIsTold
  <1>2. /\ DOMAIN statuses \subseteq Enabled \ {"androguard"}
        /\ \A b \in DOMAIN statuses : statuses[b] \in {"completed", "failed", "timeout"}
        /\ findings \in Seq(Finding)
        /\ \A k \in DOMAIN findings : findings[k].engine \in DOMAIN statuses
        /\ LastOf(findings) \subseteq LastOf(whole)
        /\ \A f \in LastOf(whole) :
             /\ f.engine \in DOMAIN statuses \ CutShort
             /\ statuses[f.engine] = "completed"
             => f \in LastOf(findings)
    BY DEF EnginePart
  <1>3. whole \in Seq(Finding)
    BY SampleFindings
  <1>4. /\ least \in Seq(Finding) /\ LastOf(least) = {f \in LastOf(whole) : f.engine \in Enabled \ CutShort}
        /\ most \in Seq(Finding) /\ LastOf(most) = {f \in LastOf(whole) : f.engine \in Enabled}
    BY <1>3, LastOfFound
  <1>5. ASSUME NEW a \in Enabled, a # "androguard"
        PROVE  a \in DOMAIN statuses /\ statuses[a] = "completed"
    <2>1. a \in Adapter /\ Ready(world.setup[a])
      BY DEF Enabled
    <2>2. PICK i \in DOMAIN AdapterOrder : AdapterOrder[i] = a
      BY <2>1, AdaptersAre
    <2>3. a \in DOMAIN statuses
      BY <1>5, <2>1, <2>2 DEF Waiting
    <2>4. DOMAIN AllStatuses(r) = Adapter /\ AllStatuses(r)[a] = statuses[a]
      BY <2>1, <2>3 DEF AllStatuses
    <2>5. AllStatuses(r)[a] \notin {"unavailable", "failed", "timeout", "blocked-by-policy"}
      BY <1>1, <2>1, <2>4, NoGaps
    <2> QED
      BY <1>2, <2>3, <2>4, <2>5
  <1> HIDE DEF statuses, findings, whole, report, least, most
  <1>6. ASSUME NEW f \in LastOf(whole) PROVE f.engine # "androguard"
    <2>1. PICK k \in DOMAIN whole : f = whole[k]
      BY DEF LastOf
    <2>2. f \in Finding
      BY <1>3, <2>1
    <2> QED
      BY <2>2 DEF Finding
  <1>7. LastOf(least) \subseteq LastOf(findings)
    BY <1>2, <1>4, <1>5, <1>6
  <1>8. LastOf(findings) \subseteq LastOf(most)
    <2> SUFFICES ASSUME NEW f \in LastOf(findings) PROVE f.engine \in Enabled
      BY <1>2, <1>4
    <2>1. PICK k \in DOMAIN findings : f = findings[k]
      BY DEF LastOf
    <2> QED
      BY <1>2, <2>1
  <1>9. LastOf(most) \subseteq LastOf(whole)
    BY <1>4
  <1>10. /\ ScoreOf(SampleOf(r), least) \in Nat /\ ScoreOf(SampleOf(r), findings) \in Nat
         /\ ScoreOf(SampleOf(r), least) <= ScoreOf(SampleOf(r), findings)
    BY <1>2, <1>3, <1>4, <1>7, ScoreGrows
  <1>11. /\ ScoreOf(SampleOf(r), most) \in Nat
         /\ ScoreOf(SampleOf(r), findings) <= ScoreOf(SampleOf(r), most)
    BY <1>2, <1>3, <1>4, <1>8, <1>9, ScoreGrows
  <1> QED
    BY <1>1, <1>10, <1>11

\* What a step leaves alone of a request stays as it was found.
LEMMA FoundStays ==
  ASSUME NEW q \in Request, FoundPart(q), world' = world, thread'[q] = thread[q], row'[q] = row[q],
         \/ req'[q] = req[q] /\ file'[q] = file[q]
         \/ req'[q].at # "running" /\ req'[q].answer # "created"
         \/ req[q].at = "running" /\ req'[q].at # "running"
  PROVE  FoundPart(q)'
  <1>1. SampleOf(q)' = SampleOf(q) /\ Enabled' = Enabled
    BY DEF SampleOf, Enabled
  <1>2. \A report : ScoreIsTold(q, report)' <=> ScoreIsTold(q, report)
    BY <1>1 DEF ScoreIsTold
  <1>3. file'[q] = file[q] => (EnginePart(q)' <=> EnginePart(q))
    BY <1>1 DEF EnginePart
  <1> QED
    BY <1>2, <1>3 DEF FoundPart

\* A step of a thread keeps what it finds.
LEMMA ThreadStepFound ==
  ASSUME RequestInv, ThreadInv, ResultInv, FoundInv, NEW r \in Request, ThreadStep(r)
  PROVE  FoundPart(r)'
  <1>0. ThreadFrame(r)
    BY StepFrame
  <1>a. /\ world' = world /\ req' = req /\ SampleOf(r)' = SampleOf(r) /\ Enabled' = Enabled
        /\ world \in World
    BY <1>0 DEF ThreadFrame, SampleOf, Enabled, RequestInv
  <1>b. \A report : ScoreIsTold(r, report)' <=> ScoreIsTold(r, report)
    BY <1>a DEF ScoreIsTold
  <1>c. FoundPart(r)
    BY DEF FoundInv
  <1>d. req[r].answer = "created" => thread[r].at = "over"
    BY DEF ResultInv
  <1> USE DEF ThreadInv, ThreadField, GoTo, RaiseEarly, Writes, Leave
  <1>1. CASE Create(r)
    <2>1. thread[r].at = "create" /\ row[r].status = "none" /\ row'[r].status \in {"none", "pending"}
      BY <1>1 DEF Create, ResultInv
    <2>2. /\ thread'[r].at \in {"mark", "over"}
          /\ thread'[r].statuses = thread[r].statuses /\ thread'[r].findings = thread[r].findings
      BY <1>1 DEF Create
    <2> QED
      BY <1>c, <2>1, <2>2 DEF FoundPart
  <1>2. CASE MarkRunning(r)
    <2>1. thread[r].at = "mark" /\ row[r].status = "pending" /\ row'[r].status \in {"pending", "running"}
      BY <1>2 DEF MarkRunning, ResultInv
    <2>2. /\ thread'[r].at \in {"extract", "over"}
          /\ thread'[r].statuses = thread[r].statuses /\ thread'[r].findings = thread[r].findings
      BY <1>2 DEF MarkRunning
    <2> QED
      BY <1>c, <2>1, <2>2 DEF FoundPart
  <1>3. CASE Extract(r)
    <2>1. /\ thread[r].at = "extract" /\ row[r].status = "running" /\ row' = row /\ file' = file
          /\ thread'[r].at \in {"engines", "fail"}
          /\ thread'[r].at = "engines" => file[r] = "apk"
          /\ thread'[r].statuses = thread[r].statuses /\ thread'[r].findings = thread[r].findings
      BY <1>3 DEF Extract, ResultInv
    <2>2. thread'[r].statuses = <<>> /\ thread'[r].findings = <<>>
      BY <1>c, <2>1 DEF FoundPart
    <2>3. file'[r] = "apk" => EnginePart(r)'
      BY <2>2, NothingFound DEF EnginePart
    <2> QED
      BY <2>1, <2>3 DEF FoundPart
  <1>4. CASE RunEngine(r)
    <2>1. PICK i \in Waiting(r) :
            LET a == AdapterOrder[i] IN
            \E o \in Regular(a, world.setup[a], SampleOf(r), file[r] = "apk")
                       \cup Broken(a, world.setup[a]) :
              thread' = [thread EXCEPT ![r].statuses = Noted(@, a, o.status),
                                       ![r].findings = @ \o o.findings]
      BY <1>4 DEF RunEngine
    <2>2. PICK o \in Regular(AdapterOrder[i], world.setup[AdapterOrder[i]], SampleOf(r),
                             file[r] = "apk")
                       \cup Broken(AdapterOrder[i], world.setup[AdapterOrder[i]]) :
            thread' = [thread EXCEPT ![r].statuses = Noted(@, AdapterOrder[i], o.status),
                                     ![r].findings = @ \o o.findings]
      BY <2>1
    <2>3. thread[r].at = "engines" /\ row' = row /\ file' = file /\ row[r].status = "running"
      BY <1>4 DEF RunEngine, ResultInv
    <2>4. /\ thread'[r].at = "engines"
          /\ thread'[r].statuses = Noted(thread[r].statuses, AdapterOrder[i], o.status)
          /\ thread'[r].findings = thread[r].findings \o o.findings
      BY <2>2, <2>3
    <2>5. EnginePart(r) => EnginePart(r)'
      BY <1>a, <2>3, <2>4, TurnFinds
    <2> QED
      BY <1>a, <1>c, <2>3, <2>4, <2>5 DEF FoundPart
  <1>5. CASE Hang(r)
    <2>1. row' = row /\ thread'[r].at = "hung" /\ row[r].status = "running"
      BY <1>5 DEF Hang, ResultInv
    <2> QED
      BY <2>1 DEF FoundPart
  <1>6. CASE Assess(r)
    <2>1. /\ row' = row /\ thread[r].at = "engines" /\ row[r].status = "running" /\ Waiting(r) = {}
          /\ thread'[r].at = "payloads"
          /\ thread'[r].report = Report(SampleOf(r), AllStatuses(r), thread[r].findings)
      BY <1>6 DEF Assess, ResultInv
    <2>2. EnginePart(r) => ScoreIsTold(r, thread'[r].report)
      BY <1>a, <2>1, ScoreTells
    <2> QED
      BY <1>a, <1>b, <1>c, <2>1, <2>2 DEF FoundPart
  <1>7. ASSUME thread[r].at \in {"payloads", "emit", "write"}, row' = row,
               thread'[r].at \in {"payloads", "emit", "write", "fail"},
               thread'[r].report = thread[r].report
        PROVE  FoundPart(r)'
    BY <1>7, <1>a, <1>b, <1>c DEF FoundPart
  <1>8. CASE RecoverPayload(r)
    <2>1. /\ thread[r].at = "payloads" /\ row' = row /\ thread'[r].at = "payloads"
          /\ thread'[r].report = thread[r].report
      BY <1>8 DEF RecoverPayload
    <2> QED
      BY <1>7, <2>1
  <1>9. CASE PayloadsDone(r)
    BY <1>7, <1>9 DEF PayloadsDone
  <1>10. CASE EmitInvalid(r)
    BY <1>7, <1>10 DEF EmitInvalid, Emitting
  <1>11. CASE Emit(r)
    BY <1>7, <1>11 DEF Emit, Emitting
  <1>12. CASE EmitRead(r)
    BY <1>7, <1>12 DEF EmitRead, Emitting
  <1>13. CASE EmitWrite(r)
    <2>1. /\ thread[r].at = "write" /\ row' = row /\ thread'[r].at \in {"emit", "fail"}
          /\ thread'[r].report = thread[r].report
      BY <1>13 DEF EmitWrite
    <2> QED
      BY <1>7, <2>1
  <1>14. CASE EmitFault(r)
    BY <1>7, <1>14 DEF EmitFault, Emitting
  <1>15. CASE Complete(r)
    <2>1. /\ thread[r].at = "emit" /\ thread'[r].at \in {"unlink", "fail"}
          /\ row'[r] = row[r] \/ row'[r] = [status |-> "completed", report |-> thread[r].report]
      BY <1>15 DEF Complete
    <2>2. req[r].at = "running" => ScoreIsTold(r, thread[r].report)
      BY <1>c, <2>1 DEF FoundPart
    <2> QED
      BY <1>a, <1>b, <1>c, <1>d, <2>1, <2>2 DEF FoundPart
  <1>16. CASE Fail(r)
    <2>1. /\ thread[r].at = "fail" /\ thread'[r].at = "unlink"
          /\ row'[r] = row[r] \/ row'[r].status = "failed"
      BY <1>16 DEF Fail
    <2> QED
      BY <1>a, <1>b, <1>c, <2>1 DEF FoundPart
  <1>17. CASE Unlink(r)
    <2>1. row' = row /\ thread'[r].at = "over"
      BY <1>17 DEF Unlink
    <2> QED
      BY <1>a, <1>b, <1>c, <2>1 DEF FoundPart
  <1> QED
    BY <1>1, <1>2, <1>3, <1>4, <1>5, <1>6, <1>8, <1>9, <1>10, <1>11, <1>12, <1>13, <1>14,
       <1>15, <1>16, <1>17 DEF ThreadStep

\* A request runs from its slot to its answer; that of a thread in time is
\* "created" only while it does.
LEMMA StepKeepsFound ==
  ASSUME RequestInv, ThreadInv, StartInv, ResultInv, FoundInv, [Next]_vars
  PROVE  FoundInv'
  <1>0. world' = world /\ \A q \in Request : FoundPart(q)
    BY WorldStays DEF FoundInv
  <1>1. ASSUME NEW r \in Request, ThreadStep(r) PROVE FoundInv'
    <2>1. FoundPart(r)'
      BY <1>1, ThreadStepFound
    <2>2. ASSUME NEW q \in Request, q # r PROVE FoundPart(q)'
      <3>1. /\ thread'[q] = thread[q] /\ req'[q] = req[q] /\ file'[q] = file[q]
        BY <1>1, <2>2, StepFrame DEF ThreadFrame, RequestInv
      <3>2. row'[q] = row[q]
        BY <1>1, <2>2 DEF ThreadStep, ThreadInv, Create, MarkRunning, Extract, RunEngine, Hang, Assess,
           RecoverPayload, PayloadsDone, EmitInvalid, Emit, EmitRead, EmitWrite, EmitFault, Complete,
           Fail, Unlink, Writes
      <3> QED
        BY <1>0, <3>1, <3>2, FoundStays
    <2> QED
      BY <2>1, <2>2 DEF FoundInv
  <1>2. ASSUME NEW r \in Request, Acquire(r) PROVE FoundInv'
    <2>1. /\ thread[r].at = "none" /\ row[r].status = "none"
          /\ row' = row /\ file' = file
          /\ thread' = [thread EXCEPT ![r].at = "create"]
      BY <1>2 DEF Acquire, StartInv, ResultInv
    <2>2. FoundPart(r)'
      <3>1. thread'[r].at = "create" /\ thread'[r].statuses = thread[r].statuses
            /\ thread'[r].findings = thread[r].findings
        BY <2>1 DEF ThreadInv, ThreadField
      <3> QED
        BY <1>0, <2>1, <3>1 DEF FoundPart
    <2>3. ASSUME NEW q \in Request, q # r PROVE FoundPart(q)'
      <3>1. thread'[q] = thread[q] /\ req'[q] = req[q]
        BY <1>2, <2>1, <2>3 DEF Acquire, ThreadInv, RequestInv
      <3> QED
        BY <1>0, <2>1, <3>1, FoundStays
    <2> QED
      BY <2>2, <2>3 DEF FoundInv
  <1>3. ASSUME NEW r \in Request,
               Arrive(r) \/ Refuse(r) \/ Store(r) \/ Answer(r) \/ Timeout(r) \/ Cancel(r)
        PROVE  FoundInv'
    <2>1. UNCHANGED <<thread, row>>
      BY <1>3 DEF Arrive, Refuse, Store, Answer, Timeout, Cancel
    <2>2. \A q \in Request \ {r} : req'[q] = req[q] /\ file'[q] = file[q]
      BY <1>3 DEF Arrive, Refuse, Store, Answer, Timeout, Cancel, Ended, Finally, RequestInv
    <2>3. \/ req'[r].at # "running" /\ req'[r].answer # "created"
          \/ req[r].at = "running" /\ req'[r].at # "running"
      <3>1. req[r].answer = "created" => thread[r].at = "over"
        BY DEF ResultInv
      <3>2. req[r].at \in {"out", "storing", "waiting"} => thread[r].at = "none"
        BY DEF StartInv
      <3> QED
        BY <1>3, <3>1, <3>2 DEF Arrive, Refuse, Store, Answer, Timeout, Cancel, Ended, RequestInv
    <2>4. ASSUME NEW q \in Request PROVE FoundPart(q)'
      BY <1>0, <2>1, <2>2, <2>3, FoundStays
    <2> QED
      BY <2>4 DEF FoundInv
  <1>4. CASE Crash
    <2>1. /\ row' = row
          /\ \A q \in Request : \/ thread'[q] = thread[q]
                                \/ thread'[q] = [NoThread EXCEPT !.at = "dead"]
          /\ \A q \in Request : \/ req'[q] = req[q] /\ req[q].at # "running"
                                \/ req'[q].at = "ended" /\ req'[q].answer = "lost"
      BY <1>4 DEF Crash, RequestInv
    <2>2. [NoThread EXCEPT !.at = "dead"].at = "dead"
      BY DEF NoThread
    <2>3. ASSUME NEW q \in Request PROVE FoundPart(q)'
      <3>1. SampleOf(q)' = SampleOf(q) /\ Enabled' = Enabled
        BY <1>0 DEF SampleOf, Enabled
      <3>2. \A report : ScoreIsTold(q, report)' <=> ScoreIsTold(q, report)
        BY <3>1 DEF ScoreIsTold
      <3>3. req'[q].at # "running"
            /\ (req'[q].answer = "created" => req[q].answer = "created")
        BY <2>1
      <3>4. thread'[q] = thread[q] \/ thread'[q].at = "dead"
        BY <2>1, <2>2
      <3> QED
        BY <1>0, <2>1, <3>2, <3>3, <3>4 DEF FoundPart
    <2> QED
      BY <2>3 DEF FoundInv
  <1>5. CASE Manual \/ Cleanup \/ UNCHANGED vars
    <2>1. UNCHANGED <<thread, row, req, file>>
      BY <1>5 DEF Manual, Cleanup, vars
    <2>2. ASSUME NEW q \in Request PROVE FoundPart(q)'
      BY <1>0, <2>1, FoundStays
    <2> QED
      BY <2>2 DEF FoundInv
  <1> QED
    BY <1>1, <1>2, <1>3, <1>4, <1>5 DEF Next, RequestStep

-----------------------------------------------------------------------------
(* The theorems.                                                           *)

\* What old demonstration data name was seen once each, by one analysis.
LEMMA InitIsCounted ==
  ASSUME Init
  PROVE  TableInv
  <1>1. world \in World /\ world.old \subseteq Indicator
    BY AnalysesAssumption DEF Init
  <1>2. IsFiniteSet(sightings)
    <2>1. IsFiniteSet(world.old)
      BY <1>1, AnalysesAssumption, FS_Subset
    <2>2. IsFiniteSet({Synthetic})
      BY FS_Singleton
    <2> QED
      BY <2>1, <2>2, FS_Product DEF Init
  <1>3. ASSUME NEW i \in Indicator
        PROVE  IF ioc[i] = NULL THEN Sightings(i) = {}
               ELSE ioc[i].count = Cardinality(Sightings(i)) + purged[i]
    <2>1. CASE i \in world.old
      <3>1. Sightings(i) = {<<i, Synthetic>>}
        BY <2>1 DEF Init, Sightings
      <3>2. Cardinality(Sightings(i)) = 1
        BY <3>1, FS_Singleton
      <3>3. ioc[i] = [severity |-> "LOW", count |-> 1] /\ purged[i] = 0
        BY <2>1 DEF Init
      <3>4. ioc[i] \in IndicatorRow
        BY <3>3 DEF IndicatorRow, Severities
      <3> QED
        BY <3>2, <3>3, <3>4, AnalysesAssumption
    <2>2. CASE i \notin world.old
      BY <2>2 DEF Init, Sightings
    <2> QED
      BY <2>1, <2>2
  <1>4. ioc \in [Indicator -> {NULL} \cup IndicatorRow]
    BY DEF Init, IndicatorRow, Severities
  <1>5. purged \in [Indicator -> Nat] /\ \A i \in Indicator : purged[i] = 0
    BY DEF Init
  <1>6. SightingsAreCounted
    BY <1>3 DEF SightingsAreCounted, Sightings
  <1> QED
    BY <1>2, <1>4, <1>5, <1>6 DEF TableInv

LEMMA InitInv ==
  ASSUME Init
  PROVE  IInv
  <1>1. RequestInv
    <2>1. Running = {}
      BY DEF Init, Running, NoRequest
    <2>2. free = world.slots - Cardinality(Running)
      BY <2>1, FS_EmptySet, AnalysesAssumption DEF Init
    <2> QED
      BY <2>2, AnalysesAssumption DEF Init, RequestInv, NoRequest, UploadsAreRemoved
  <1>2. ThreadInv
    BY AnalysesAssumption DEF Init, ThreadInv, NoThread, NoRow, ThreadField, Status
  <1>3. StartInv /\ BringsInv
    BY DEF Init, StartInv, BringsInv, NoThread
  <1>4. ResultInv /\ IndexInv
    BY AnalysesAssumption
       DEF Init, ResultInv, IndexInv, CompletedPart, NoThread, NoRow, NoRequest, Outcome
  <1>5. LookupInv
    BY AnalysesAssumption DEF Init, LookupInv, Heard, NoThread, NoRow
  <1>6. FoundInv
    BY DEF Init, FoundInv, FoundPart, NoThread, NoRow, NoRequest
  <1> QED
    BY <1>1, <1>2, <1>3, <1>4, <1>5, <1>6, InitIsCounted DEF IInv

\* The inductive invariant: whatever the requests, their threads, the analysts,
\* the clean-up and the faults of the process do, in any order, the slots, the
\* uploads, the rows, the payload numbers and the counts of sightings fit.
THEOREM Invariance == Spec => []IInv
  <1>1. Init => IInv
    BY InitInv
  <1>2. IInv /\ [Next]_vars => IInv'
    BY StepKeepsRequests, StepKeepsThreads, StepKeepsTable, StepKeepsBrings, StepKeepsResults,
       StepKeepsIndex, StepKeepsLookup, StepKeepsFound DEF IInv
  <1> QED
    BY <1>1, <1>2, PTL DEF Spec

\* The slots of the semaphore that are taken are those of the requests that are
\* running (however they end, and whatever becomes of their threads), and no two
\* threads of a process hold a payload of the same number.
THEOREM SlotsAndTypes == Spec => []AnalysesTypeOK
  <1>1. IInv => AnalysesTypeOK
    BY DEF IInv, RequestInv, ThreadInv, TableInv, AnalysesTypeOK, Running
  <1> QED
    BY <1>1, Invariance, PTL

\* Every upload is removed by the time its request has ended, unless the
\* removal itself failed, the storing was cancelled, or the process died.
THEOREM UploadsEnd == Spec => []UploadsAreRemoved
  <1>1. IInv => UploadsAreRemoved
    BY DEF IInv, RequestInv
  <1> QED
    BY <1>1, Invariance, PTL

\* The number an indicator shows is the number of its sources, those that the
\* clean-up deleted included, on SQLite and on PostgreSQL.
THEOREM CountsAreRight == Spec => []SightingsAreCounted
  <1>1. IInv => SightingsAreCounted
    BY DEF IInv, TableInv
  <1> QED
    BY <1>1, Invariance, PTL

\* With serial transactions the severity of an indicator only rises.  (On
\* PostgreSQL an upsert may write over what another one wrote after its read.)
THEOREM SeverityOnlyRises == Spec => SeverityNeverFalls
  <1> DEFINE Rises == world.db = "sqlite" =>
               \A i \in Indicator :
                 ioc[i] # NULL /\ ioc'[i] # NULL => Rank(ioc'[i].severity) >= Rank(ioc[i].severity)
  <1>1. IInv /\ [Next]_vars => [Rises]_vars
    BY SeverityRises DEF IInv
  <1> QED
    BY <1>1, Invariance, PTL DEF Spec, SeverityNeverFalls

\* What the client was told is what the row says, whenever the thread ends and
\* whatever fails once: on both routes, before and after a commit.
THEOREM AnswersMatchRows == Spec => []AnswerMatchesRow
  <1>1. IInv => AnswerMatchesRow
    BY Bounds DEF IInv, RequestInv, ThreadInv, ResultInv, AnswerMatchesRow, Status
  <1> QED
    BY <1>1, Invariance, PTL

\* The indicators of a completed analysis of high risk are in the index, with a
\* sighting by this analysis that nothing takes away, and as grave as it was.
THEOREM CompletedMeansIndexed == Spec => []CompletedIsIndexed
  <1>1. IInv => CompletedIsIndexed
    <2> SUFFICES ASSUME IInv, NEW r \in Request,
                        row[r].status = "completed", row[r].report.score >= 50,
                        NEW i \in ToSet(SampleOf(r).iocs)
                 PROVE  Indexed(i, r, row[r].report.severity) /\ ioc[i] # NULL
      BY DEF CompletedIsIndexed, Indexed
    <2>1. Indexed(i, r, row[r].report.severity)
      BY DEF IInv, IndexInv, CompletedPart
    <2> QED
      BY <2>1, SightedIsThere DEF IInv, Indexed
  <1> QED
    BY <1>1, Invariance, PTL

\* An answer that admits no gap hides none, whatever fails and however late it is:
\* its score is what the engines that are enabled find, give or take those that
\* stop early, and a sample that a provider knows as malicious is called so.
THEOREM GapsAreTold == Spec => []GapsAreReported
  <1>1. IInv => GapsAreReported
    BY DEF IInv, ResultInv, LookupInv, FoundInv, FoundPart, GapsAreReported
  <1> QED
    BY <1>1, Invariance, PTL

=============================================================================
