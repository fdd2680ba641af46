------------------------------ MODULE ApkJobs ------------------------------
(***************************************************************************)
(* The job queue at work: the routes of fraudshield/api/routes/jobs.py     *)
(* that submit, cancel and retry jobs, DurableWorker._process_apk, and the *)
(* artifact store that both share (fraudshield/core/storage.py).           *)
(*                                                                         *)
(* The store is content-addressed: the artifact of a job is               *)
(* apk-jobs/<sha256>.apk, one object for all jobs about the same APK, and  *)
(* no transaction covers a row and its object.  Each call of the store and *)
(* each transaction of the queue is a step; between them requests, workers *)
(* and crashes interleave.                                                 *)
(***************************************************************************)
EXTENDS JobQueue

CONSTANTS
  Request,        \* HTTP requests to the job routes, each used once
  RetainUploads,  \* settings.retain_uploads
  MaxFaults       \* bound: how many calls raise and workers crash, together

ASSUME ApkJobsAssumption ==
  /\ RetainUploads \in BOOLEAN
  /\ MaxFaults \in Nat
  /\ NULL \notin Apk

VARIABLES
  store,     \* the APKs that have an artifact in the store
  work,      \* [Worker -> progress in _process_apk and _cleanup_terminal_apk]
  req,       \* [Request -> local state of the route's handler]
  analysed,  \* the pairs <<job, attempt>> whose analysis completed
  faults     \* number of calls that raised so far

apkVars == <<store, work, req, analysed, faults>>

allVars == <<vars, apkVars>>

WorkStep == {"none", "copy", "analyse", "discard", "judge", "cleanup"}

NoWork == [step |-> "none", job |-> NULL]

ReqPc == {"new", "put", "recheck", "insert", "settle", "undo", "drop", "requeue", "done"}

NewRequest == [pc |-> "new", kind |-> "none", apk |-> NULL, key |-> NULL,
               job |-> NULL, seen |-> "absent", created |-> FALSE]

ApkInit ==
  /\ Init
  /\ store = {}
  /\ work = [w \in Worker |-> NoWork]
  /\ req = [r \in Request |-> NewRequest]
  /\ analysed = {}
  /\ faults = 0

Goto(r, pc) == req' = [req EXCEPT ![r].pc = pc]

MayFail == faults + crashes < MaxFaults

Fault == MayFail /\ faults' = faults + 1

-----------------------------------------------------------------------------
(* POST /api/v1/jobs/apk-analysis *)

\* Does a row have r's key, and was it submitted for the same request?
Rivals(k) == IF k = NULL THEN {} ELSE {j \in Job : jobs[j].key = k}

\* The handler found row j under its key: the same request gets that job, a
\* different one idempotency_conflict.  A request is more than its APK (name,
\* category, dynamic), so two about the same APK may be the same or differ.
Found(r, j, begun, same, conflict) ==
  \/ /\ jobs[j].apk = begun.apk
     /\ req' = [req EXCEPT ![r] = [begun EXCEPT !.pc = same, !.job = j,
                                                !.seen = jobs[j].status]]
  \/ req' = [req EXCEPT ![r] = [begun EXCEPT !.pc = conflict, !.seen = jobs[j].status]]

\* find_by_idempotency_key, before anything is stored.
SubmitLookup(r) ==
  /\ req[r].pc = "new"
  /\ \E a \in Apk, k \in Key \cup {NULL} :
       LET begun == [NewRequest EXCEPT !.kind = "submit", !.apk = a, !.key = k] IN
       \/ /\ Rivals(k) = {}
          /\ req' = [req EXCEPT ![r] = [begun EXCEPT !.pc = "put"]]
       \/ \E j \in Rivals(k) : Found(r, j, begun, "done", "done")
  /\ UNCHANGED <<vars, store, work, analysed, faults>>

SubmitPut(r) ==
  /\ req[r].pc = "put"
  /\ store' = store \cup {req[r].apk}
  /\ Goto(r, IF req[r].key = NULL THEN "insert" ELSE "recheck")
  /\ UNCHANGED <<vars, work, analysed, faults>>

\* The lookup at the head of JobRepository.enqueue.
SubmitRecheck(r) ==
  /\ req[r].pc = "recheck"
  /\ \/ Rivals(req[r].key) = {} /\ Goto(r, "insert")
     \/ \E j \in Rivals(req[r].key) : Found(r, j, req[r], "settle", "undo")
  /\ UNCHANGED <<vars, store, work, analysed, faults>>

\* The INSERT commits; re-reading the row may raise after the commit.
SubmitInsert(r) ==
  /\ req[r].pc = "insert"
  /\ \E j \in Job, p \in Priority, m \in 1 .. MaxAttempts :
       /\ Enqueue(j, req[r].apk, req[r].key, p, m)
       /\ \/ /\ req' = [req EXCEPT ![r] = [@ EXCEPT !.pc = "done", !.job = j,
                                                    !.created = TRUE]]
             /\ UNCHANGED faults
          \/ Goto(r, "undo") /\ Fault
  /\ UNCHANGED <<store, work, analysed>>

\* The INSERT raises: a request with the same key was faster, and enqueue looks
\* the row up again; or the database is away, and it does not.
SubmitInsertRaises(r) ==
  /\ req[r].pc = "insert"
  /\ \/ /\ \E j \in Rivals(req[r].key) : Found(r, j, req[r], "settle", "undo")
        /\ UNCHANGED faults
     \/ Goto(r, "undo") /\ Fault
  /\ UNCHANGED <<vars, store, work, analysed>>

\* Not created: the artifact is deleted unless the job that was read is live.
SubmitSettle(r) ==
  /\ req[r].pc = "settle"
  /\ store' = IF req[r].seen \in {"queued", "running"} THEN store
              ELSE store \ {req[r].apk}
  /\ Goto(r, "done")
  /\ UNCHANGED <<vars, work, analysed, faults>>

\* except Exception: the artifact is deleted, whoever else uses it.
SubmitUndo(r) ==
  /\ req[r].pc = "undo"
  /\ store' = store \ {req[r].apk}
  /\ Goto(r, "done")
  /\ UNCHANGED <<vars, work, analysed, faults>>

-----------------------------------------------------------------------------
(* POST /api/v1/jobs/{job_id}/cancel and .../retry *)

CancelJob(r) ==
  /\ req[r].pc = "new"
  /\ \E j \in Job :
       /\ Cancel(j)
       /\ req' = [req EXCEPT ![r] =
            [@ EXCEPT !.pc = IF RetainUploads THEN "done" ELSE "drop",
                      !.kind = "cancel", !.apk = jobs[j].apk, !.job = j]]
  /\ UNCHANGED <<store, work, analysed, faults>>

CancelDrop(r) ==
  /\ req[r].pc = "drop"
  /\ store' = store \ {req[r].apk}
  /\ Goto(r, "done")
  /\ UNCHANGED <<vars, work, analysed, faults>>

\* The artifact must still be retained ...
RetryCheck(r) ==
  /\ req[r].pc = "new"
  /\ \E j \in Job :
       /\ Exists(j)
       /\ req' = [req EXCEPT ![r] =
            [@ EXCEPT !.pc = IF jobs[j].apk \in store THEN "requeue" ELSE "done",
                      !.kind = "retry", !.job = j]]
  /\ UNCHANGED <<vars, store, work, analysed, faults>>

\* ... before the row is queued again.
RetryRequeue(r) ==
  /\ req[r].pc = "requeue"
  /\ Retry(req[r].job)
  /\ Goto(r, "done")
  /\ UNCHANGED <<store, work, analysed, faults>>

RetryRefused(r) ==
  /\ req[r].pc = "requeue"
  /\ jobs[req[r].job].status \notin {"failed", "cancelled"}
  /\ Goto(r, "done")
  /\ UNCHANGED <<vars, store, work, analysed, faults>>

-----------------------------------------------------------------------------
(* DurableWorker *)

Progress(w, step) == work' = [work EXCEPT ![w].step = step]

Artifact(w) == jobs[work[w].job].apk

ClaimJob(w) ==
  /\ work[w].step = "none"
  /\ Claim(w)
  /\ work' = [work EXCEPT ![w] = [step |-> "copy", job |-> held'[w].job]]
  /\ UNCHANGED <<store, req, analysed, faults>>

\* Mutant of CopyArtifact: a missing artifact passes for a processed one.
CopyArtifactSkipsMissing(w) ==
  /\ work[w].step = "copy"
  /\ \/ Artifact(w) \in store /\ Progress(w, "analyse") /\ UNCHANGED vars
     \/ Artifact(w) \notin store /\ WorkReturns(w) /\ Progress(w, "none")
  /\ UNCHANGED <<store, req, analysed, faults>>

\* _validated_artifact_uri, materialize and the hash check.
CopyArtifact(w) ==
  /\ work[w].step = "copy"
  /\ \/ Artifact(w) \in store /\ Progress(w, "analyse") /\ UNCHANGED vars
     \/ Artifact(w) \notin store /\ WorkRaises(w) /\ Progress(w, "none")
  /\ UNCHANGED <<store, req, analysed, faults>>

\* apk_pipeline.analyze_uploaded stores a completed analysis, or raises.
Analyse(w) ==
  /\ work[w].step = "analyse"
  /\ \/ /\ Progress(w, "discard")
        /\ analysed' = analysed \cup {<<work[w].job, held[w].attempt>>}
        /\ UNCHANGED vars
     \/ WorkRaises(w) /\ Progress(w, "none") /\ UNCHANGED analysed
  /\ UNCHANGED <<store, req, faults>>

\* Mutant of Discard: the test of retain_uploads is inverted.
DiscardInverted(w) ==
  /\ work[w].step = "discard"
  /\ Progress(w, "none")
  /\ WorkReturns(w)
  /\ store' = IF RetainUploads THEN store \ {Artifact(w)} ELSE store
  /\ UNCHANGED <<req, analysed, faults>>

\* The artifact goes before the job is completed; the store may raise.
Discard(w) ==
  /\ work[w].step = "discard"
  /\ Progress(w, "none")
  /\ \/ /\ WorkReturns(w)
        /\ store' = IF RetainUploads THEN store ELSE store \ {Artifact(w)}
        /\ UNCHANGED faults
     \/ ~RetainUploads /\ WorkRaises(w) /\ Fault /\ UNCHANGED store
  /\ UNCHANGED <<req, analysed>>

CompleteJob(w) ==
  /\ Complete(w) \/ CompleteLost(w) \/ FailRead(w)
  /\ UNCHANGED apkVars

\* fail; when it owned the row, its re-read decides on the terminal cleanup.
FailJob(w) ==
  /\ FailWrite(w)
  /\ work' = [work EXCEPT ![w] =
       IF FailOwns(w) THEN [step |-> "judge", job |-> held[w].job] ELSE NoWork]
  /\ UNCHANGED <<store, req, analysed, faults>>

\* Mutant of JudgeTerminal: every failed attempt is cleaned up.
JudgeEveryFailure(w) ==
  /\ work[w].step = "judge"
  /\ work' = [work EXCEPT ![w] =
       IF ~RetainUploads THEN [@ EXCEPT !.step = "cleanup"] ELSE NoWork]
  /\ UNCHANGED <<vars, store, req, analysed, faults>>

JudgeTerminal(w) ==
  /\ work[w].step = "judge"
  /\ work' = [work EXCEPT ![w] =
       IF jobs[work[w].job].status = "failed" /\ ~RetainUploads
       THEN [@ EXCEPT !.step = "cleanup"] ELSE NoWork]
  /\ UNCHANGED <<vars, store, req, analysed, faults>>

CleanupTerminal(w) ==
  /\ work[w].step = "cleanup"
  /\ store' = store \ {Artifact(w)}
  /\ work' = [work EXCEPT ![w] = NoWork]
  /\ UNCHANGED <<vars, req, analysed, faults>>

CrashWorker(w) ==
  /\ MayFail
  /\ Crash(w)
  /\ work' = [work EXCEPT ![w] = NoWork]
  /\ UNCHANGED <<store, req, analysed, faults>>

RenewJob(w, j) == Renew(w, j) /\ UNCHANGED apkVars

TickAll == Tick /\ UNCHANGED apkVars

-----------------------------------------------------------------------------

RequestNext(r) ==
  \/ SubmitLookup(r) \/ SubmitPut(r) \/ SubmitRecheck(r) \/ SubmitInsert(r)
  \/ SubmitInsertRaises(r) \/ SubmitSettle(r) \/ SubmitUndo(r)
  \/ CancelJob(r) \/ CancelDrop(r)
  \/ RetryCheck(r) \/ RetryRequeue(r) \/ RetryRefused(r)

DurableWorkerNext(w) ==
  \/ ClaimJob(w) \/ CopyArtifact(w) \/ Analyse(w) \/ Discard(w)
  \/ CompleteJob(w) \/ FailJob(w) \/ JudgeTerminal(w) \/ CleanupTerminal(w)
  \/ CrashWorker(w)
  \/ \E j \in Job : RenewJob(w, j)

ApkNext ==
  \/ \E r \in Request : RequestNext(r)
  \/ \E w \in Worker : DurableWorkerNext(w)
  \/ TickAll

ApkSpec == ApkInit /\ [][ApkNext]_allVars

-----------------------------------------------------------------------------
(* Properties *)

ApkTypeOK ==
  /\ TypeOK
  /\ store \subseteq Apk
  /\ work \in [Worker -> [step : WorkStep, job : Job \cup {NULL}]]
  /\ req \in [Request -> [pc : ReqPc, kind : {"none", "submit", "cancel", "retry"},
                          apk : Apk \cup {NULL}, key : Key \cup {NULL},
                          job : Job \cup {NULL}, seen : Status, created : BOOLEAN]]
  /\ analysed \subseteq Job \X (1 .. MaxAttempts)
  /\ faults \in 0 .. MaxFaults

Accepted(r) == req[r].kind = "submit" /\ req[r].pc = "done" /\ req[r].job # NULL

\* Idempotency: requests that race with the same Idempotency-Key for the same
\* APK are answered with one and the same job, only one of them as its creator,
\* and nobody is answered with a job about another APK.
SameKeySameJob ==
  \A r, s \in Request :
    Accepted(r) /\ Accepted(s) /\ req[r].key = req[s].key /\ req[r].key # NULL
      => /\ req[r].job = req[s].job
         /\ req[r].created /\ req[s].created => r = s
         /\ jobs[req[r].job].apk = req[r].apk

\* A completed job points at an analysis that its own attempt completed.
CompletedWasAnalysed ==
  \A j \in Job :
    jobs[j].status = "completed" => <<j, jobs[j].result>> \in analysed

\* No request and no job but j's own is about j's APK, and j was accepted.
Unshared(j) ==
  /\ \A i \in Job : i # j => jobs[i].apk # jobs[j].apk
  /\ \E r \in Request : /\ Accepted(r) /\ req[r].job = j /\ req[r].created
                        /\ \A s \in Request : s # r => req[s].apk # jobs[j].apk

\* As long as its APK is nobody else's, a job that was not retried keeps its
\* artifact until an analysis of it has completed: crashes, lost leases and
\* takeovers do not lose an upload that was never analysed.
UnsharedUploadSurvives ==
  \A j \in Job :
    jobs[j].status \in {"queued", "running"} /\ retried[j] = 0 /\ Unshared(j)
      => jobs[j].apk \in store \/ \E n \in 1 .. MaxAttempts : <<j, n>> \in analysed

\* README.md:128, "Uploaded files are deleted after processing unless retention
\* is explicitly enabled": the artifact is gone once its only job completed.
ProcessedUploadIsDeleted ==
  \A j \in Job :
    jobs[j].status = "completed" /\ Unshared(j) /\ ~RetainUploads
      => jobs[j].apk \notin store

\* The same line of the README, for every job: the upload of a job that no
\* worker has started on is there.
UnprocessedUploadIsKept ==
  \A j \in Job :
    jobs[j].status = "queued" /\ jobs[j].attempts = 0 /\ retried[j] = 0
      => jobs[j].apk \in store
=============================================================================
