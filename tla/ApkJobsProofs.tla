--------------------------- MODULE ApkJobsProofs ---------------------------
(***************************************************************************)
(* Proofs about ApkJobs, for any sets of requests, workers, jobs and APKs  *)
(* and any number of faults and crashes.                                   *)
(*                                                                         *)
(* The invariant joins that of the queue with what the routes and the      *)
(* worker know besides: the locals of a request at each call, the step of  *)
(* _process_apk next to the phase of process_next, and who else is about   *)
(* the APK whose artifact is put or deleted.                               *)
(***************************************************************************)
EXTENDS ApkJobs, JobQueueProofs

Handler ==
  [pc : ReqPc, kind : {"none", "submit", "cancel", "retry"},
   apk : Apk \cup {NULL}, key : Key \cup {NULL},
   job : Job \cup {NULL}, seen : Status, created : BOOLEAN]

\* What the locals of one request are at each of its calls.
LocalInv(q) ==
  /\ q.pc = "new" => q = NewRequest
  /\ q.pc \in {"put", "recheck", "insert", "settle", "undo"}
       => q.kind = "submit" /\ q.apk \in Apk
  /\ q.pc \in {"put", "recheck", "insert", "undo"} => q.job = NULL
  /\ q.pc = "requeue" => q.job \in Job
  /\ q.created => q.kind = "submit" /\ q.pc = "done" /\ q.job # NULL

ReqInv == \A r \in Request : LocalInv(req[r])

\* Rows have an APK, places without a row have neither APK nor key, and no two
\* rows have the same key.
RowInv ==
  /\ \A j \in Job : IF Exists(j) THEN jobs[j].apk \in Apk
                    ELSE jobs[j].apk = NULL /\ jobs[j].key = NULL
  /\ \A i, j \in Job : jobs[i].key = jobs[j].key /\ jobs[i].key # NULL => i = j

\* A submission that was given a job was given one about its own APK and under
\* its own key, and a job has one creator.
AnswerInv ==
  /\ \A r \in Request :
       req[r].kind = "submit" /\ req[r].job # NULL
         => /\ Exists(req[r].job)
            /\ jobs[req[r].job].apk = req[r].apk
            /\ jobs[req[r].job].key = req[r].key
  /\ \A r, s \in Request :
       req[r].created /\ req[s].created /\ req[r].job = req[s].job => r = s

\* Somebody else's request or a row is about r's APK.
Contested(r) ==
  \/ \E s \in Request : s # r /\ req[s].apk = req[r].apk
  \/ \E j \in Job : jobs[j].apk = req[r].apk

\* Between its put and its insert a request has its artifact, or shares it.
StoredInv ==
  \A r \in Request :
    req[r].pc \in {"recheck", "insert"} => req[r].apk \in store \/ Contested(r)

\* The step of _process_apk agrees with the phase of process_next; what is
\* about to be completed was analysed; what is about to be cleaned up failed.
WorkInv ==
  \A w \in Worker :
    /\ work[w].step \in {"copy", "analyse", "discard"}
         => held[w].phase = "working" /\ held[w].job = work[w].job
    /\ work[w].step \in {"judge", "cleanup"}
         => held[w].phase = "idle" /\ work[w].job \in Job
    /\ work[w].step = "none" => held[w].phase # "working"
    /\ held[w].phase # "idle" => held[w].attempt # 0 /\ Exists(held[w].job)
    /\ held[w].phase = "completing" \/ work[w].step = "discard"
         => <<held[w].job, held[w].attempt>> \in analysed
    /\ work[w].step = "cleanup"
         => jobs[work[w].job].status = "failed" \/ retried[work[w].job] > 0

\* Nobody completes a job whose upload is still there.
DiscardedInv ==
  \A w \in Worker :
    held[w].phase = "completing" /\ Unshared(held[w].job) /\ ~RetainUploads
      => jobs[held[w].job].apk \notin store

ApkTypes ==
  /\ store \subseteq Apk
  /\ work \in [Worker -> [step : WorkStep, job : Job \cup {NULL}]]
  /\ req \in [Request -> Handler]
  /\ analysed \subseteq Job \X (1 .. MaxAttempts)
  /\ faults \in 0 .. MaxFaults

ApkInv ==
  /\ IInv
  /\ ApkTypes
  /\ ReqInv
  /\ RowInv
  /\ AnswerInv
  /\ StoredInv
  /\ WorkInv
  /\ DiscardedInv
  /\ CompletedWasAnalysed
  /\ UnsharedUploadSurvives
  /\ ProcessedUploadIsDeleted

LEMMA ApkInitInv == ApkInit => ApkInv
  <1> SUFFICES ASSUME ApkInit PROVE ApkInv
    OBVIOUS
  <1> USE QueueAssumption, ApkJobsAssumption DEF ApkInit
  <1>1. IInv
    BY InitInv
  <1>2. NewRequest \in Handler /\ LocalInv(NewRequest)
    BY DEF NewRequest, Handler, ReqPc, Status, LocalInv
  <1>3. NoWork \in [step : WorkStep, job : Job \cup {NULL}]
    BY DEF NoWork, WorkStep
  <1>4. ApkTypes /\ ReqInv
    BY <1>2, <1>3 DEF ApkTypes, ReqInv
  <1>5. /\ \A j \in Job : jobs[j].status = "absent" /\ jobs[j].apk = NULL /\ jobs[j].key = NULL
        /\ \A w \in Worker : held[w].phase = "idle" /\ work[w].step = "none"
        /\ \A r \in Request : req[r].kind = "none" /\ ~req[r].created /\ req[r].pc = "new"
    BY DEF Init, NoRow, Idle, NoWork, NewRequest
  <1>6. RowInv /\ AnswerInv /\ StoredInv /\ WorkInv /\ DiscardedInv
    BY <1>5 DEF RowInv, Exists, AnswerInv, StoredInv, WorkInv, DiscardedInv
  <1>7. CompletedWasAnalysed /\ UnsharedUploadSurvives /\ ProcessedUploadIsDeleted
    BY <1>5 DEF CompletedWasAnalysed, UnsharedUploadSurvives, ProcessedUploadIsDeleted
  <1> QED
    BY <1>1, <1>4, <1>6, <1>7 DEF ApkInv

-----------------------------------------------------------------------------
(* The queue inside: every step of ApkJobs is one of JobQueue or none. *)

LEMMA QueueStep == ApkTypes /\ ReqInv /\ IInv /\ [ApkNext]_allVars => [Next]_vars
  <1> SUFFICES ASSUME ApkTypes, ReqInv, IInv, [ApkNext]_allVars PROVE [Next]_vars
    OBVIOUS
  <1>1. ASSUME NEW r \in Request, RequestNext(r) PROVE [Next]_vars
    <2>1. CASE SubmitInsert(r)
      <3>1. PICK j \in Job, p \in Priority, m \in 1 .. MaxAttempts :
              Enqueue(j, req[r].apk, req[r].key, p, m)
        BY <2>1 DEF SubmitInsert
      <3>2. req[r].apk \in Apk /\ req[r].key \in Key \cup {NULL}
        BY <2>1 DEF SubmitInsert, ReqInv, LocalInv, ApkTypes, Handler
      <3> QED
        BY <3>1, <3>2 DEF Next, ClientNext
    <2>2. CASE CancelJob(r)
      BY <2>2 DEF CancelJob, Next, ClientNext
    <2>3. CASE RetryRequeue(r)
      <3>1. req[r].job \in Job
        BY <2>3 DEF RetryRequeue, ReqInv, LocalInv
      <3> QED
        BY <2>3, <3>1 DEF RetryRequeue, Next, ClientNext
    <2> QED
      BY <1>1, <2>1, <2>2, <2>3
         DEF RequestNext, SubmitLookup, SubmitPut, SubmitRecheck, SubmitInsertRaises,
             SubmitSettle, SubmitUndo, CancelDrop, RetryCheck, RetryRefused
  <1>2. ASSUME NEW w \in Worker, DurableWorkerNext(w) PROVE [Next]_vars
    <2>1. \/ UNCHANGED vars
          \/ WorkerStep(w)
          \/ Crash(w)
          \/ \E j \in Job : Renew(w, j)
      BY <1>2 DEF DurableWorkerNext, ClaimJob, CopyArtifact, Analyse, Discard, CompleteJob,
                  FailJob, JudgeTerminal, CleanupTerminal, CrashWorker, RenewJob, WorkerStep
    <2> QED
      BY <2>1 DEF Next, WorkerNext
  <1>3. CASE TickAll
    BY <1>3 DEF TickAll, Next
  <1>4. CASE UNCHANGED allVars
    BY <1>4 DEF allVars
  <1> QED
    BY <1>1, <1>2, <1>3, <1>4 DEF ApkNext

-----------------------------------------------------------------------------
(* What a step of a request does to its locals. *)

LEMMA HandlerFields ==
  ASSUME NEW q \in Handler
  PROVE  /\ \A x \in ReqPc : [q EXCEPT !.pc = x] \in Handler
         /\ \A x \in {"submit", "cancel", "retry"} : [q EXCEPT !.kind = x] \in Handler
         /\ \A x \in Apk \cup {NULL} : [q EXCEPT !.apk = x] \in Handler
         /\ \A x \in Key \cup {NULL} : [q EXCEPT !.key = x] \in Handler
         /\ \A x \in Job \cup {NULL} : [q EXCEPT !.job = x] \in Handler
         /\ \A x \in Status : [q EXCEPT !.seen = x] \in Handler
         /\ \A x \in BOOLEAN : [q EXCEPT !.created = x] \in Handler
  BY DEF Handler

LEMMA NewRequestType == NewRequest \in Handler
  BY DEF NewRequest, Handler, ReqPc, Status

\* A submission begins with the request's APK and key.
LEMMA BegunType ==
  ASSUME NEW a \in Apk, NEW k \in Key \cup {NULL}
  PROVE  [NewRequest EXCEPT !.kind = "submit", !.apk = a, !.key = k] \in Handler
  <1> DEFINE q1 == [NewRequest EXCEPT !.kind = "submit"]
             q2 == [q1 EXCEPT !.apk = a]
             q3 == [q2 EXCEPT !.key = k]
  <1> HIDE DEF q1, q2, q3
  <1>1. q1 \in Handler
    BY NewRequestType, HandlerFields DEF q1
  <1>2. q2 \in Handler
    BY <1>1, HandlerFields DEF q2
  <1>3. q3 \in Handler
    BY <1>2, HandlerFields DEF q3
  <1> QED
    BY ONLY <1>3 DEF q1, q2, q3

\* What the row that is found does to the locals, in both outcomes.
LEMMA FoundType ==
  ASSUME IInv, NEW q \in Handler, NEW j \in Job, NEW x \in ReqPc
  PROVE  /\ [q EXCEPT !.pc = x, !.job = j, !.seen = jobs[j].status] \in Handler
         /\ [q EXCEPT !.pc = x, !.seen = jobs[j].status] \in Handler
  <1> DEFINE q1 == [q EXCEPT !.pc = x]
             q2 == [q1 EXCEPT !.job = j]
  <1> HIDE DEF q1, q2
  <1>1. jobs[j].status \in Status
    BY DEF IInv, TypeOK, Row
  <1>2. q1 \in Handler
    BY HandlerFields DEF q1
  <1>3. q2 \in Handler
    BY <1>2, HandlerFields DEF q2
  <1>4. [q2 EXCEPT !.seen = jobs[j].status] \in Handler
    BY <1>1, <1>3, HandlerFields
  <1>5. [q1 EXCEPT !.seen = jobs[j].status] \in Handler
    BY <1>1, <1>2, HandlerFields
  <1> QED
    BY ONLY <1>4, <1>5 DEF q1, q2

\* The new locals of a request: their type, and what they keep of the old ones.
LocalStep(q, new) ==
  /\ new \in Handler
  /\ LocalInv(new)
  /\ q.pc # "new" => new.apk = q.apk /\ new.key = q.key /\ new.kind = q.kind
  /\ new.created => q.pc = "insert"

\* Looking a row up leads to locals of that kind, wherever it is done.
LEMMA FoundStep ==
  ASSUME IInv, ApkTypes, NEW r \in Request, NEW j \in Job,
         NEW begun \in Handler, NEW same, NEW conflict,
         begun.kind = "submit", begun.apk \in Apk, begun.job = NULL, ~begun.created,
         req[r].pc # "new" => begun = req[r],
         <<same, conflict>> \in {<<"done", "done">>, <<"settle", "undo">>},
         Found(r, j, begun, same, conflict)
  PROVE  /\ LocalStep(req[r], req'[r])
         /\ req' = [req EXCEPT ![r] = req'[r]]
         /\ req'[r].apk = begun.apk /\ req'[r].key = begun.key
         /\ ~req'[r].created
         /\ \/ req'[r].job = j /\ jobs[j].apk = begun.apk
            \/ req'[r].job = NULL
         /\ req'[r].pc \in {same, conflict}
  <1>1. same \in ReqPc /\ conflict \in ReqPc
    BY DEF ReqPc
  <1> DEFINE yes == [begun EXCEPT !.pc = same, !.job = j, !.seen = jobs[j].status]
             no == [begun EXCEPT !.pc = conflict, !.seen = jobs[j].status]
  <1>2. yes \in Handler /\ no \in Handler
    BY <1>1, FoundType
  <1>3. /\ yes.pc = same /\ yes.job = j /\ yes.apk = begun.apk /\ yes.key = begun.key
        /\ yes.kind = begun.kind /\ yes.created = begun.created
        /\ no.pc = conflict /\ no.job = begun.job /\ no.apk = begun.apk
        /\ no.key = begun.key /\ no.kind = begun.kind /\ no.created = begun.created
    BY DEF Handler
  <1>4. \/ jobs[j].apk = begun.apk /\ req' = [req EXCEPT ![r] = yes]
        \/ req' = [req EXCEPT ![r] = no]
    BY DEF Found
  <1>5. req \in [Request -> Handler]
    BY DEF ApkTypes
  <1> HIDE DEF yes, no
  <1>6. \/ jobs[j].apk = begun.apk /\ req'[r] = yes
        \/ req'[r] = no
    BY <1>4, <1>5
  <1>7. req' = [req EXCEPT ![r] = req'[r]]
    BY <1>4, <1>5
  <1>8. LocalStep(req[r], yes) /\ LocalStep(req[r], no)
    BY <1>2, <1>3 DEF LocalStep, LocalInv
  <1> QED
    BY <1>3, <1>6, <1>7, <1>8

LEMMA RequestEffect ==
  ASSUME ApkTypes, ReqInv, RowInv, IInv, NEW r \in Request, RequestNext(r)
  PROVE  /\ LocalStep(req[r], req'[r])
         /\ req' = [req EXCEPT ![r] = req'[r]]
         /\ work' = work /\ analysed' = analysed /\ held' = held
         /\ faults' \in 0 .. MaxFaults
  <1>0. /\ req \in [Request -> Handler] /\ req[r] \in Handler /\ LocalInv(req[r])
        /\ faults \in 0 .. MaxFaults
    BY DEF ApkTypes, ReqInv
  <1>1. CASE SubmitLookup(r)
    <2>1. PICK a \in Apk, k \in Key \cup {NULL} :
            LET begun == [NewRequest EXCEPT !.kind = "submit", !.apk = a, !.key = k] IN
            \/ /\ Rivals(k) = {}
               /\ req' = [req EXCEPT ![r] = [begun EXCEPT !.pc = "put"]]
            \/ \E j \in Rivals(k) : Found(r, j, begun, "done", "done")
      BY <1>1 DEF SubmitLookup
    <2> DEFINE begun == [NewRequest EXCEPT !.kind = "submit", !.apk = a, !.key = k]
    <2>2. begun \in Handler
      BY BegunType
    <2>3. begun.kind = "submit" /\ begun.apk = a /\ begun.job = NULL /\ ~begun.created
      BY DEF NewRequest
    <2>4. req[r].pc = "new" /\ UNCHANGED <<vars, work, analysed, faults>>
      BY <1>1 DEF SubmitLookup
    <2> HIDE DEF begun
    <2>5. CASE req' = [req EXCEPT ![r] = [begun EXCEPT !.pc = "put"]]
      <3>1. [begun EXCEPT !.pc = "put"] \in Handler
        BY <2>2, HandlerFields DEF ReqPc
      <3>2. LocalStep(req[r], [begun EXCEPT !.pc = "put"])
        BY <2>2, <2>3, <2>4, <3>1 DEF LocalStep, LocalInv, Handler
      <3> QED
        BY <1>0, <2>4, <2>5, <3>2 DEF vars
    <2>6. CASE \E j \in Rivals(k) : Found(r, j, begun, "done", "done")
      <3>1. PICK j \in Job : Found(r, j, begun, "done", "done")
        BY <2>6 DEF Rivals
      <3> QED
        BY <1>0, <2>2, <2>3, <2>4, <3>1, FoundStep DEF vars
    <2> QED
      BY <2>1, <2>5, <2>6 DEF begun
  <1>2. CASE SubmitRecheck(r) \/ SubmitInsertRaises(r)
    <2>1. req[r].pc \in {"recheck", "insert"} /\ UNCHANGED <<vars, work, analysed>>
      BY <1>2 DEF SubmitRecheck, SubmitInsertRaises
    <2>2. /\ req[r].kind = "submit" /\ req[r].apk \in Apk /\ req[r].job = NULL
          /\ ~req[r].created
      BY <1>0, <2>1 DEF LocalInv
    <2>3. \/ \E x \in {"insert", "undo"} : Goto(r, x)
          \/ \E j \in Job : Found(r, j, req[r], "settle", "undo")
      BY <1>2 DEF SubmitRecheck, SubmitInsertRaises, Rivals
    <2>4. faults' \in 0 .. MaxFaults
      BY <1>0, <1>2, ApkJobsAssumption
         DEF SubmitRecheck, SubmitInsertRaises, Fault, MayFail, IInv, TypeOK
    <2>5. ASSUME NEW x \in {"insert", "undo"}, Goto(r, x)
          PROVE LocalStep(req[r], req'[r]) /\ req' = [req EXCEPT ![r] = req'[r]]
      <3>1. [req[r] EXCEPT !.pc = x] \in Handler
        BY <1>0, HandlerFields DEF ReqPc
      <3>2. LocalStep(req[r], [req[r] EXCEPT !.pc = x])
        BY <1>0, <2>1, <2>2, <3>1 DEF LocalStep, LocalInv, Handler
      <3>3. req'[r] = [req[r] EXCEPT !.pc = x]
        BY <1>0, <2>5 DEF Goto
      <3> QED
        BY <1>0, <2>5, <3>2, <3>3 DEF Goto
    <2>6. ASSUME NEW j \in Job, Found(r, j, req[r], "settle", "undo")
          PROVE LocalStep(req[r], req'[r]) /\ req' = [req EXCEPT ![r] = req'[r]]
      BY <1>0, <2>1, <2>2, <2>6, FoundStep
    <2> QED
      BY <2>1, <2>3, <2>4, <2>5, <2>6 DEF vars
  <1>3. CASE SubmitInsert(r)
    <2>1. PICK j \in Job, p \in Priority, m \in 1 .. MaxAttempts :
            /\ Enqueue(j, req[r].apk, req[r].key, p, m)
            /\ \/ /\ req' = [req EXCEPT ![r] = [@ EXCEPT !.pc = "done", !.job = j,
                                                         !.created = TRUE]]
                  /\ UNCHANGED faults
               \/ Goto(r, "undo") /\ Fault
      BY <1>3 DEF SubmitInsert
    <2>2. req[r].pc = "insert" /\ UNCHANGED <<work, analysed>> /\ held' = held
      BY <1>3, <2>1 DEF SubmitInsert, Enqueue
    <2>3. req[r].kind = "submit" /\ req[r].apk \in Apk
      BY <1>0, <2>2 DEF LocalInv
    <2>4. CASE Goto(r, "undo") /\ Fault
      <3>1. [req[r] EXCEPT !.pc = "undo"] \in Handler
        BY <1>0, HandlerFields DEF ReqPc
      <3>2. LocalStep(req[r], [req[r] EXCEPT !.pc = "undo"])
        BY <1>0, <2>2, <2>3, <3>1 DEF LocalStep, LocalInv, Handler
      <3>3. req'[r] = [req[r] EXCEPT !.pc = "undo"]
        BY <1>0, <2>4 DEF Goto
      <3>4. faults' \in 0 .. MaxFaults
        BY <1>0, <2>4, ApkJobsAssumption DEF Fault, MayFail, IInv, TypeOK
      <3> QED
        BY <1>0, <2>2, <2>4, <3>2, <3>3, <3>4 DEF Goto
    <2>5. CASE req' = [req EXCEPT ![r] = [@ EXCEPT !.pc = "done", !.job = j,
                                                   !.created = TRUE]]
               /\ UNCHANGED faults
      <3> DEFINE q1 == [req[r] EXCEPT !.pc = "done"]
                 q2 == [q1 EXCEPT !.job = j]
                 q3 == [q2 EXCEPT !.created = TRUE]
      <3>1. req'[r] = q3 /\ req' = [req EXCEPT ![r] = req'[r]]
        BY <1>0, <2>5
      <3>2. /\ q3.kind = req[r].kind /\ q3.apk = req[r].apk /\ q3.key = req[r].key
            /\ q3.pc = "done" /\ q3.job = j
        BY <1>0 DEF Handler
      <3> HIDE DEF q1, q2, q3
      <3>3. q1 \in Handler
        BY <1>0, HandlerFields DEF ReqPc, q1
      <3>4. q2 \in Handler
        BY <3>3, HandlerFields DEF q2
      <3>5. q3 \in Handler
        BY <3>4, HandlerFields DEF q3
      <3>6. LocalStep(req[r], q3)
        BY <2>2, <2>3, <3>2, <3>5, QueueAssumption DEF LocalStep, LocalInv
      <3> QED
        BY <1>0, <2>2, <2>5, <3>1, <3>6
    <2> QED
      BY <2>1, <2>4, <2>5
  <1>4. CASE CancelJob(r)
    <2>1. PICK j \in Job :
            /\ Cancel(j)
            /\ req' = [req EXCEPT ![r] =
                 [@ EXCEPT !.pc = IF RetainUploads THEN "done" ELSE "drop",
                           !.kind = "cancel", !.apk = jobs[j].apk, !.job = j]]
      BY <1>4 DEF CancelJob
    <2>2. /\ req[r].pc = "new" /\ UNCHANGED <<work, analysed, faults>> /\ held' = held
          /\ ~req[r].created
      BY <1>0, <1>4, <2>1 DEF CancelJob, Cancel, LocalInv, NewRequest
    <2> DEFINE pc == IF RetainUploads THEN "done" ELSE "drop"
               q1 == [req[r] EXCEPT !.pc = pc]
               q2 == [q1 EXCEPT !.kind = "cancel"]
               q3 == [q2 EXCEPT !.apk = jobs[j].apk]
               q4 == [q3 EXCEPT !.job = j]
    <2>3. req'[r] = q4 /\ req' = [req EXCEPT ![r] = req'[r]]
      BY <1>0, <2>1
    <2>4. q4.pc = pc /\ q4.created = req[r].created
      BY <1>0 DEF Handler
    <2>5. pc \in {"done", "drop"}
      OBVIOUS
    <2> HIDE DEF q1, q2, q3, q4, pc
    <2>6. q1 \in Handler
      BY <1>0, <2>5, HandlerFields DEF ReqPc, q1
    <2>7. q2 \in Handler
      BY <2>6, HandlerFields DEF q2
    <2>8. q3 \in Handler
      <3>1. jobs[j].apk \in Apk \cup {NULL}
        BY DEF RowInv
      <3> QED
        BY <2>7, <3>1, HandlerFields DEF q3
    <2>9. q4 \in Handler
      BY <2>8, HandlerFields DEF q4
    <2>10. LocalStep(req[r], q4)
      BY <2>2, <2>4, <2>5, <2>9 DEF LocalStep, LocalInv
    <2> QED
      BY <1>0, <2>2, <2>3, <2>10
  <1>5. CASE RetryCheck(r)
    <2>1. PICK j \in Job :
            req' = [req EXCEPT ![r] =
              [@ EXCEPT !.pc = IF jobs[j].apk \in store THEN "requeue" ELSE "done",
                        !.kind = "retry", !.job = j]]
      BY <1>5 DEF RetryCheck
    <2>2. /\ req[r].pc = "new" /\ UNCHANGED <<vars, work, analysed, faults>>
          /\ ~req[r].created
      BY <1>0, <1>5 DEF RetryCheck, LocalInv, NewRequest
    <2> DEFINE pc == IF jobs[j].apk \in store THEN "requeue" ELSE "done"
               q1 == [req[r] EXCEPT !.pc = pc]
               q2 == [q1 EXCEPT !.kind = "retry"]
               q3 == [q2 EXCEPT !.job = j]
    <2>3. req'[r] = q3 /\ req' = [req EXCEPT ![r] = req'[r]]
      BY <1>0, <2>1
    <2>4. q3.pc = pc /\ q3.created = req[r].created /\ q3.job = j
      BY <1>0 DEF Handler
    <2>5. pc \in {"done", "requeue"}
      OBVIOUS
    <2> HIDE DEF q1, q2, q3, pc
    <2>6. q1 \in Handler
      BY <1>0, <2>5, HandlerFields DEF ReqPc, q1
    <2>7. q2 \in Handler
      BY <2>6, HandlerFields DEF q2
    <2>8. q3 \in Handler
      BY <2>7, HandlerFields DEF q3
    <2>9. LocalStep(req[r], q3)
      BY <2>2, <2>4, <2>5, <2>8 DEF LocalStep, LocalInv
    <2> QED
      BY <1>0, <2>2, <2>3, <2>9 DEF vars
  <1>6. CASE \/ SubmitPut(r) \/ SubmitSettle(r) \/ SubmitUndo(r)
             \/ CancelDrop(r) \/ RetryRequeue(r) \/ RetryRefused(r)
    <2>1. PICK x \in {"insert", "recheck", "done"} :
            /\ Goto(r, x)
            /\ x # "done" => req[r].pc = "put"
      BY <1>6 DEF SubmitPut, SubmitSettle, SubmitUndo, CancelDrop, RetryRequeue, RetryRefused
    <2>2. /\ UNCHANGED <<work, analysed, faults>> /\ held' = held
          /\ req[r].pc \in {"put", "settle", "undo", "drop", "requeue"}
      BY <1>6 DEF SubmitPut, SubmitSettle, SubmitUndo, CancelDrop, RetryRequeue, RetryRefused,
                  Retry, vars
    <2>3. [req[r] EXCEPT !.pc = x] \in Handler
      BY <1>0, HandlerFields DEF ReqPc
    <2>4. LocalStep(req[r], [req[r] EXCEPT !.pc = x])
      BY <1>0, <2>1, <2>2, <2>3 DEF LocalStep, LocalInv, Handler
    <2>5. req'[r] = [req[r] EXCEPT !.pc = x]
      BY <1>0, <2>1 DEF Goto
    <2> QED
      BY <1>0, <2>1, <2>2, <2>4, <2>5 DEF Goto
  <1> QED
    BY <1>1, <1>2, <1>3, <1>4, <1>5, <1>6 DEF RequestNext

-----------------------------------------------------------------------------
(* What a step does to the rows. *)

\* A step of the queue that adds no row.
QuietStep ==
  \/ UNCHANGED vars
  \/ \E j \in Job : Cancel(j) \/ Retry(j)
  \/ WorkerNext
  \/ Tick

LEMMA QuietOrInsert ==
  ASSUME ReqInv, ApkNext \/ UNCHANGED allVars
  PROVE  QuietStep \/ \E r \in Request : SubmitInsert(r)
  <1>1. ASSUME NEW r \in Request, RequestNext(r) PROVE QuietStep \/ SubmitInsert(r)
    <2>1. CASE RetryRequeue(r)
      <3>1. req[r].job \in Job
        BY <2>1 DEF RetryRequeue, ReqInv, LocalInv
      <3> QED
        BY <2>1, <3>1 DEF RetryRequeue, QuietStep
    <2> QED
      BY <1>1, <2>1
         DEF RequestNext, SubmitLookup, SubmitPut, SubmitRecheck, SubmitInsertRaises,
             SubmitSettle, SubmitUndo, CancelJob, CancelDrop, RetryCheck, RetryRefused,
             QuietStep
  <1>2. ASSUME NEW w \in Worker, DurableWorkerNext(w) PROVE QuietStep
    <2>1. \/ UNCHANGED vars
          \/ WorkerStep(w)
          \/ Crash(w)
          \/ \E j \in Job : Renew(w, j)
      BY <1>2 DEF DurableWorkerNext, ClaimJob, CopyArtifact, Analyse, Discard, CompleteJob,
                  FailJob, JudgeTerminal, CleanupTerminal, CrashWorker, RenewJob, WorkerStep
    <2> QED
      BY <2>1 DEF WorkerNext, QuietStep
  <1>3. TickAll \/ UNCHANGED allVars => QuietStep
    BY DEF TickAll, allVars, QuietStep
  <1> QED
    BY <1>1, <1>2, <1>3 DEF ApkNext

Live == {"queued", "running"}

\* A row that stays: what it is about is fixed, a failed job stays failed until a
\* client retries it, and a job is completed by its holder's attempt only.
RowKept(j) ==
  /\ jobs'[j].apk = jobs[j].apk /\ jobs'[j].key = jobs[j].key
  /\ Exists(j)' <=> Exists(j)
  /\ jobs[j].status = "failed" \/ retried[j] > 0
       => jobs'[j].status = "failed" \/ retried'[j] > 0
  /\ jobs'[j].status \in Live /\ retried'[j] = 0
       => jobs[j].status \in Live /\ retried[j] = 0
  /\ jobs'[j].status = "completed"
       => \/ jobs[j].status = "completed" /\ jobs'[j].result = jobs[j].result
          \/ \E w \in Worker : /\ held[w].phase = "completing" /\ held[w].job = j
                               /\ jobs'[j].result = held[w].attempt

LEMMA QuietKeepsRows ==
  ASSUME IInv, QuietStep
  PROVE  \A j \in Job : RowKept(j)
  <1>0. TypeOK /\ RowConsistent
    BY DEF IInv
  <1>1. ASSUME NEW i \in Job, Cancel(i) PROVE \A j \in Job : RowKept(j)
    BY <1>0, <1>1 DEF Cancel, RowKept, Exists, Live, TypeOK, Row
  <1>2. ASSUME NEW i \in Job, Retry(i) PROVE \A j \in Job : RowKept(j)
    BY <1>0, <1>2, QueueAssumption DEF Retry, RowKept, Exists, Live, TypeOK, Row
  <1>3. ASSUME NEW w \in Worker, WorkerStep(w) \/ Crash(w) \/ \E i \in Job : Renew(w, i)
        PROVE  \A j \in Job : RowKept(j)
    <2>1. CASE UNCHANGED jobs /\ UNCHANGED retried
      BY <2>1 DEF RowKept, Exists
    <2>2. CASE Claim(w)
      BY <1>0, <2>2 DEF Claim, Claimable, RowKept, Exists, Live, TypeOK, Row
    <2>3. CASE \E i \in Job : Renew(w, i)
      BY <1>0, <2>3 DEF Renew, RowKept, Exists, TypeOK, Row
    <2>4. CASE Complete(w)
      <3>1. held[w].job \in Job
        BY <1>0, <2>4 DEF Complete, TypeOK
      <3> QED
        BY <1>0, <2>4, <3>1 DEF Complete, Owns, RowKept, Exists, Live, TypeOK, Row
    <2>5. CASE FailWrite(w)
      <3>1. held[w].job \in Job /\ held[w].next \in {"queued", "failed"}
        BY <1>0, <2>5 DEF FailWrite, TypeOK, Holding
      <3>2. FailOwns(w) => jobs[held[w].job].status = "running"
        BY <1>0, <3>1, QueueAssumption DEF FailOwns, RowConsistent
      <3> QED
        BY <1>0, <2>5, <3>1, <3>2 DEF FailWrite, RowKept, Exists, Live, TypeOK, Row
    <2> QED
      BY <1>3, <2>1, <2>2, <2>3, <2>4, <2>5
         DEF WorkerStep, WorkReturns, WorkRaises, CompleteLost, FailRead, Crash
  <1>4. CASE Tick
    <2>1. ASSUME NEW j \in Job PROVE RowKept(j)
      <3>1. /\ jobs[j] \in Row /\ UNCHANGED retried
            /\ jobs'[j] = [jobs[j] EXCEPT !.wait = Down(@), !.lease = Down(@)]
        BY <1>0, <1>4 DEF Tick, TypeOK
      <3>2. /\ jobs'[j].status = jobs[j].status /\ jobs'[j].result = jobs[j].result
            /\ jobs'[j].apk = jobs[j].apk /\ jobs'[j].key = jobs[j].key
        BY <3>1 DEF Row
      <3> QED
        BY <3>1, <3>2 DEF RowKept, Exists
    <2> QED
      BY <2>1
  <1>5. CASE UNCHANGED vars
    BY <1>5 DEF vars, RowKept, Exists
  <1> QED
    BY <1>1, <1>2, <1>3, <1>4, <1>5 DEF QuietStep, WorkerNext

\* The row that an insert adds, next to the ones that were there.
RowAdded(r, j) ==
  /\ ~Exists(j) /\ Exists(j)'
  /\ jobs'[j].status = "queued"
  /\ jobs'[j].apk = req[r].apk /\ jobs'[j].key = req[r].key
  /\ KeyIsFree(req[r].key)
  /\ \A i \in Job : i # j => jobs'[i] = jobs[i]
  /\ retried' = retried

LEMMA InsertAddsRow ==
  ASSUME IInv, ApkTypes, ReqInv, NEW r \in Request, SubmitInsert(r)
  PROVE  /\ req[r].pc = "insert"
         /\ \E j \in Job :
              /\ RowAdded(r, j)
              /\ req'[r].created => req'[r].job = j
              /\ req'[r].job # req[r].job => req'[r].job = j
  <1>1. PICK j \in Job, p \in Priority, m \in 1 .. MaxAttempts :
          /\ Enqueue(j, req[r].apk, req[r].key, p, m)
          /\ \/ /\ req' = [req EXCEPT ![r] = [@ EXCEPT !.pc = "done", !.job = j,
                                                       !.created = TRUE]]
                /\ UNCHANGED faults
             \/ Goto(r, "undo") /\ Fault
    BY DEF SubmitInsert
  <1>2. /\ jobs' = [jobs EXCEPT ![j] =
             [NoRow EXCEPT !.status = "queued", !.apk = req[r].apk, !.key = req[r].key,
                           !.priority = p, !.max_attempts = m,
                           !.older = {i \in Job : Exists(i)}]]
        /\ ~Exists(j) /\ KeyIsFree(req[r].key) /\ retried' = retried
    BY <1>1 DEF Enqueue
  <1>3. jobs \in [Job -> Row] /\ req \in [Request -> Handler]
    BY DEF IInv, TypeOK, ApkTypes
  <1>4. /\ jobs'[j].status = "queued"
        /\ jobs'[j].apk = req[r].apk /\ jobs'[j].key = req[r].key
        /\ \A i \in Job : i # j => jobs'[i] = jobs[i]
    BY <1>2, <1>3 DEF NoRow
  <1>5. RowAdded(r, j)
    BY <1>2, <1>4 DEF RowAdded, Exists
  <1>6. req'[r].created => req'[r].job = j
    <2>1. ~req[r].created
      BY DEF SubmitInsert, ReqInv, LocalInv
    <2> QED
      BY <1>1, <1>3, <2>1 DEF Goto, Handler
  <1>7. req'[r].job = j \/ req'[r].job = req[r].job
    BY <1>1, <1>3 DEF Goto, Handler
  <1> QED
    BY <1>5, <1>6, <1>7 DEF SubmitInsert

-----------------------------------------------------------------------------
(* What a step does to the workers and the store. *)

\* What WorkInv says of one worker.
WorkOk(w) ==
  /\ work[w].step \in {"copy", "analyse", "discard"}
       => held[w].phase = "working" /\ held[w].job = work[w].job
  /\ work[w].step \in {"judge", "cleanup"}
       => held[w].phase = "idle" /\ work[w].job \in Job
  /\ work[w].step = "none" => held[w].phase # "working"
  /\ held[w].phase # "idle" => held[w].attempt # 0 /\ Exists(held[w].job)
  /\ held[w].phase = "completing" \/ work[w].step = "discard"
       => <<held[w].job, held[w].attempt>> \in analysed
  /\ work[w].step = "cleanup"
       => jobs[work[w].job].status = "failed" \/ retried[work[w].job] > 0

Stage == [step : WorkStep, job : Job \cup {NULL}]

\* A worker touches only its own variables.
LEMMA WorkerEffect ==
  ASSUME IInv, ApkTypes, NEW w \in Worker, DurableWorkerNext(w)
  PROVE  /\ req' = req
         /\ \A v \in Worker : v # w => held'[v] = held[v] /\ work'[v] = work[v]
         /\ analysed \subseteq analysed'
  <1> USE DEF ApkTypes, IInv, TypeOK
  <1>1. req' = req
    BY DEF DurableWorkerNext, ClaimJob, CopyArtifact, Analyse, Discard, CompleteJob, FailJob,
           JudgeTerminal, CleanupTerminal, CrashWorker, RenewJob, apkVars
  <1>2. analysed \subseteq analysed'
    BY DEF DurableWorkerNext, ClaimJob, CopyArtifact, Analyse, Discard, CompleteJob, FailJob,
           JudgeTerminal, CleanupTerminal, CrashWorker, RenewJob, apkVars
  <1>3. ASSUME NEW v \in Worker, v # w PROVE held'[v] = held[v]
    BY <1>3 DEF DurableWorkerNext, ClaimJob, CopyArtifact, Analyse, Discard, CompleteJob,
           FailJob, JudgeTerminal, CleanupTerminal, CrashWorker, RenewJob, vars,
           Claim, WorkReturns, WorkRaises, Complete, CompleteLost, FailRead, FailWrite,
           Crash, Renew
  <1>4. ASSUME NEW v \in Worker, v # w PROVE work'[v] = work[v]
    BY <1>4 DEF DurableWorkerNext, ClaimJob, CopyArtifact, Analyse, Discard, CompleteJob,
           FailJob, JudgeTerminal, CleanupTerminal, CrashWorker, RenewJob, apkVars, Progress
  <1> QED
    BY <1>1, <1>2, <1>3, <1>4

\* One worker's step keeps WorkInv of that worker.
LEMMA WorkerStepOk ==
  ASSUME IInv, IInv', ApkTypes, WorkInv, NEW w \in Worker, DurableWorkerNext(w)
  PROVE  WorkOk(w)'
  <1>0. /\ work \in [Worker -> Stage] /\ held \in [Worker -> Holding]
        /\ held' \in [Worker -> Holding] /\ WorkOk(w)
        /\ jobs \in [Job -> Row] /\ jobs' \in [Job -> Row]
        /\ retried \in [Job -> 0 .. MaxRetries]
    BY DEF ApkTypes, IInv, TypeOK, WorkInv, WorkOk, Stage
  <1>k. ASSUME QuietStep PROVE \A j \in Job : RowKept(j)
    BY <1>k, QuietKeepsRows
  <1>h. held[w].phase # "idle" => held[w].job \in Job
    BY DEF IInv, TypeOK
  <1>1. CASE ClaimJob(w)
    <2>1. PICK j \in Job :
            /\ jobs' = [jobs EXCEPT ![j] =
                 [jobs[j] EXCEPT !.status = "running", !.lease_owner = w, !.lease = LeaseTicks,
                                 !.attempts = jobs[j].attempts + 1, !.error = FALSE]]
            /\ held' = [held EXCEPT ![w] =
                 [phase |-> "working", job |-> j, attempt |-> jobs[j].attempts + 1,
                  next |-> "queued"]]
      BY <1>1 DEF ClaimJob, Claim
    <2>2. /\ held'[w].phase = "working" /\ held'[w].job = j
          /\ held'[w].attempt = jobs[j].attempts + 1
      BY <1>0, <2>1
    <2>3. jobs'[j].status = "running"
      BY <1>0, <2>1 DEF Row
    <2>4. jobs[j].attempts \in Nat
      BY <1>0, QueueAssumption DEF Row
    <2>5. held'[w].attempt # 0
      BY <2>2, <2>4
    <2>6. work'[w].step = "copy" /\ work'[w].job = j
      BY <1>0, <1>1, <2>2 DEF ClaimJob
    <2> QED
      BY <2>2, <2>3, <2>5, <2>6 DEF WorkOk, Exists
  <1>2. CASE CopyArtifact(w) \/ Analyse(w) \/ Discard(w)
    <2>1. /\ work[w].step \in {"copy", "analyse", "discard"}
          /\ held[w].phase = "working" /\ held[w].job = work[w].job /\ UNCHANGED jobs
      BY <1>0, <1>2
         DEF CopyArtifact, Analyse, Discard, WorkOk, vars, WorkRaises, WorkReturns
    <2>2. CASE WorkRaises(w) /\ Progress(w, "none") /\ analysed' = analysed
      BY <1>0, <2>1, <2>2 DEF WorkRaises, Progress, WorkOk, Stage, Holding, Exists
    <2>3. CASE work[w].step = "copy" /\ Progress(w, "analyse") /\ UNCHANGED vars
      BY <1>0, <2>1, <2>3 DEF Progress, WorkOk, Stage, vars, Exists
    <2>4. CASE /\ Progress(w, "discard") /\ UNCHANGED vars
               /\ analysed' = analysed \cup {<<work[w].job, held[w].attempt>>}
      BY <1>0, <2>1, <2>4 DEF Progress, WorkOk, Stage, vars, Exists
    <2>5. CASE work[w].step = "discard" /\ Progress(w, "none") /\ WorkReturns(w)
               /\ analysed' = analysed
      <3>1. /\ held'[w].phase = "completing" /\ held'[w].job = held[w].job
            /\ held'[w].attempt = held[w].attempt
        BY <1>0, <2>5 DEF WorkReturns, Holding
      <3>2. work'[w].step = "none"
        BY <1>0, <2>5 DEF Progress, Stage
      <3>3. <<held[w].job, held[w].attempt>> \in analysed
        BY <1>0, <2>5 DEF WorkOk
      <3>4. held[w].attempt # 0 /\ Exists(held[w].job)
        BY <1>0, <2>1 DEF WorkOk
      <3> QED
        BY <2>1, <2>5, <3>1, <3>2, <3>3, <3>4 DEF WorkOk, Exists
    <2> QED
      BY <1>2, <2>2, <2>3, <2>4, <2>5 DEF CopyArtifact, Analyse, Discard
  <1>3. CASE CompleteJob(w)
    <2>1. QuietStep
      BY <1>3 DEF CompleteJob, QuietStep, WorkerNext, WorkerStep
    <2>2. /\ held[w].phase \in {"completing", "failing"} /\ UNCHANGED <<work, analysed>>
      BY <1>3 DEF CompleteJob, Complete, CompleteLost, FailRead, apkVars
    <2>3. \/ held'[w] = Idle
          \/ /\ held'[w].phase \in {"failing", "fail_write"}
             /\ held'[w].job = held[w].job /\ held'[w].attempt = held[w].attempt
      BY <1>0, <1>3 DEF CompleteJob, Complete, CompleteLost, FailRead, Holding
    <2>4. held[w].job \in Job /\ jobs'[held[w].job].status # "absent"
      BY <1>0, <1>h, <1>k, <2>1, <2>2 DEF WorkOk, RowKept, Exists
    <2>5. work[w].step = "none"
      BY <1>0, <2>2 DEF WorkOk, Stage, WorkStep
    <2>6. CASE held'[w] = Idle
      BY <2>2, <2>5, <2>6 DEF Idle, WorkOk
    <2>7. CASE held'[w].phase \in {"failing", "fail_write"}
      <3>1. held'[w].job = held[w].job /\ held'[w].attempt = held[w].attempt
        BY <2>3, <2>7 DEF Idle
      <3>2. held'[w].attempt # 0 /\ jobs'[held'[w].job].status # "absent"
        BY <1>0, <2>2, <2>4, <3>1 DEF WorkOk
      <3> QED
        BY <2>2, <2>5, <2>7, <3>2 DEF WorkOk, Exists
    <2> QED
      BY <2>3, <2>6, <2>7
  <1>4. CASE FailJob(w)
    <2>1. held[w].phase = "fail_write" /\ held'[w] = Idle /\ held[w].job \in Job
      BY <1>0, <1>4, <1>h DEF FailJob, FailWrite
    <2>2. \/ work'[w].step = "judge" /\ work'[w].job = held[w].job
          \/ work'[w].step = "none"
      BY <1>0, <1>4 DEF FailJob, NoWork
    <2> QED
      BY <2>1, <2>2 DEF Idle, WorkOk
  <1>5. CASE JudgeTerminal(w)
    <2>1. /\ held[w].phase = "idle" /\ UNCHANGED vars /\ work[w].job \in Job
      BY <1>0, <1>5 DEF JudgeTerminal, WorkOk
    <2>2. \/ /\ work'[w].step = "cleanup" /\ work'[w].job = work[w].job
             /\ jobs[work[w].job].status = "failed"
          \/ work'[w].step = "none"
      BY <1>0, <1>5 DEF JudgeTerminal, NoWork, Stage
    <2> QED
      BY <2>1, <2>2 DEF WorkOk, vars
  <1>6. CASE CleanupTerminal(w)
    BY <1>0, <1>6 DEF CleanupTerminal, WorkOk, NoWork, vars
  <1>7. CASE CrashWorker(w)
    BY <1>0, <1>7 DEF CrashWorker, Crash, WorkOk, NoWork, Idle
  <1>8. CASE \E j \in Job : RenewJob(w, j)
    <2>1. QuietStep /\ held' = held /\ work' = work /\ analysed' = analysed
      BY <1>8 DEF RenewJob, QuietStep, WorkerNext, Renew, apkVars
    <2>2. \A j \in Job : RowKept(j)
      BY <1>k, <2>1
    <2> QED
      BY <1>0, <1>h, <2>1, <2>2 DEF WorkOk, RowKept, Exists
  <1> QED
    BY <1>1, <1>2, <1>3, <1>4, <1>5, <1>6, <1>7, <1>8 DEF DurableWorkerNext

-----------------------------------------------------------------------------
(* The invariants of the requests and the rows. *)

\* A request that has begun keeps what it is about; one that created a job is
\* done; one that is new is about no APK.
LocalKept(s) ==
  /\ req[s].pc # "new" => /\ req'[s].apk = req[s].apk
                          /\ req'[s].key = req[s].key
                          /\ req'[s].kind = req[s].kind
  /\ req[s].created => req'[s] = req[s]
  /\ req[s].pc = "new" => req[s].apk = NULL

LEMMA RequestsStep ==
  ASSUME ApkTypes, ReqInv, RowInv, IInv, ApkNext \/ UNCHANGED allVars
  PROVE  /\ req' \in [Request -> Handler]
         /\ ReqInv'
         /\ faults' \in 0 .. MaxFaults
         /\ \A s \in Request : LocalKept(s)
         /\ \A s \in Request :
              req'[s].created /\ ~req[s].created
                => \E j \in Job : RowAdded(s, j) /\ req'[s].job = j
  <1>0. req \in [Request -> Handler] /\ faults \in 0 .. MaxFaults
    BY DEF ApkTypes
  <1>1. ASSUME NEW r \in Request, RequestNext(r)
        PROVE  /\ req' \in [Request -> Handler]
               /\ ReqInv'
               /\ faults' \in 0 .. MaxFaults
               /\ \A s \in Request : LocalKept(s)
               /\ \A s \in Request :
                    req'[s].created /\ ~req[s].created
                      => \E j \in Job : RowAdded(s, j) /\ req'[s].job = j
    <2>1. /\ LocalStep(req[r], req'[r]) /\ req' = [req EXCEPT ![r] = req'[r]]
          /\ faults' \in 0 .. MaxFaults
      BY <1>1, RequestEffect
    <2>2. req' \in [Request -> Handler]
      BY <1>0, <2>1 DEF LocalStep
    <2>3. \A s \in Request : s # r => req'[s] = req[s]
      BY <1>0, <2>1
    <2>4. ReqInv'
      BY <2>1, <2>3 DEF ReqInv, LocalStep
    <2>5. \A s \in Request : req[s].pc = "new" => req[s].apk = NULL /\ ~req[s].created
      BY DEF ReqInv, LocalInv, NewRequest
    <2>6. req[r].pc # "done"
      BY <1>1 DEF RequestNext, SubmitLookup, SubmitPut, SubmitRecheck, SubmitInsert,
           SubmitInsertRaises, SubmitSettle, SubmitUndo, CancelJob, CancelDrop, RetryCheck,
           RetryRequeue, RetryRefused
    <2>7. ~req[r].created
      BY <2>6 DEF ReqInv, LocalInv
    <2>8. \A s \in Request : LocalKept(s)
      BY <2>1, <2>3, <2>5, <2>7 DEF LocalKept, LocalStep
    <2>9. ASSUME req'[r].created PROVE \E j \in Job : RowAdded(r, j) /\ req'[r].job = j
      <3>1. req[r].pc = "insert"
        BY <2>1, <2>9 DEF LocalStep
      <3>2. SubmitInsert(r) \/ SubmitInsertRaises(r)
        BY <1>1, <3>1 DEF RequestNext, SubmitLookup, SubmitPut, SubmitRecheck,
             SubmitSettle, SubmitUndo, CancelJob, CancelDrop, RetryCheck, RetryRequeue,
             RetryRefused
      <3>3. CASE SubmitInsertRaises(r)
        BY <1>0, <2>7, <2>9, <3>3 DEF SubmitInsertRaises, Found, Goto, Handler
      <3>4. CASE SubmitInsert(r)
        BY <2>9, <3>4, InsertAddsRow
      <3> QED
        BY <3>2, <3>3, <3>4
    <2>10. \A s \in Request :
             req'[s].created /\ ~req[s].created
               => \E j \in Job : RowAdded(s, j) /\ req'[s].job = j
      BY <2>3, <2>9
    <2> QED
      BY <2>1, <2>2, <2>4, <2>8, <2>10
  <1>2. ASSUME req' = req
        PROVE  /\ req' \in [Request -> Handler]
               /\ ReqInv'
               /\ \A s \in Request : LocalKept(s)
               /\ \A s \in Request :
                    req'[s].created /\ ~req[s].created
                      => \E j \in Job : RowAdded(s, j) /\ req'[s].job = j
    BY <1>0, <1>2 DEF ReqInv, LocalInv, LocalKept, NewRequest
  <1>3. ASSUME NEW w \in Worker, DurableWorkerNext(w)
        PROVE  req' = req /\ faults' \in 0 .. MaxFaults
    <2>1. faults' = faults \/ Fault
      BY <1>3 DEF DurableWorkerNext, ClaimJob, CopyArtifact, Analyse, Discard, CompleteJob,
             FailJob, JudgeTerminal, CleanupTerminal, CrashWorker, RenewJob, apkVars
    <2> QED
      BY <1>0, <1>3, <2>1, WorkerEffect, ApkJobsAssumption DEF Fault, MayFail, IInv, TypeOK
  <1>4. TickAll \/ UNCHANGED allVars => UNCHANGED <<req, faults>>
    BY DEF TickAll, allVars, apkVars
  <1> QED
    BY <1>0, <1>1, <1>2, <1>3, <1>4 DEF ApkNext

\* A row is kept, or was inserted by a request that had come to its insert.
LEMMA RowsStep ==
  ASSUME ApkTypes, ReqInv, IInv, ApkNext \/ UNCHANGED allVars
  PROVE  \/ \A j \in Job : RowKept(j)
         \/ \E r \in Request, j \in Job :
              /\ SubmitInsert(r) /\ req[r].pc = "insert" /\ RowAdded(r, j)
              /\ \A i \in Job : i # j => RowKept(i)
  <1>1. CASE QuietStep
    BY <1>1, QuietKeepsRows
  <1>2. ASSUME NEW r \in Request, SubmitInsert(r)
        PROVE  \E j \in Job : /\ SubmitInsert(r) /\ req[r].pc = "insert" /\ RowAdded(r, j)
                              /\ \A i \in Job : i # j => RowKept(i)
    <2>1. PICK j \in Job : RowAdded(r, j)
      BY <1>2, InsertAddsRow
    <2>2. \A i \in Job : i # j => RowKept(i)
      BY <2>1 DEF RowAdded, RowKept, Exists
    <2> QED
      BY <1>2, <2>1, <2>2, InsertAddsRow
  <1> QED
    BY <1>1, <1>2, QuietOrInsert

LEMMA RowInvStep ==
  ASSUME ApkTypes, ReqInv, RowInv, IInv, ApkNext \/ UNCHANGED allVars
  PROVE  RowInv'
  <1>1. CASE \A j \in Job : RowKept(j)
    BY <1>1 DEF RowInv, RowKept, Exists
  <1>2. ASSUME NEW r \in Request, NEW j \in Job, req[r].pc = "insert", RowAdded(r, j),
               \A i \in Job : i # j => RowKept(i)
        PROVE  RowInv'
    <2>1. req[r].apk \in Apk
      BY <1>2 DEF ReqInv, LocalInv
    <2>2. \A i \in Job : i # j /\ req[r].key # NULL => jobs[i].key # req[r].key
      BY <1>2 DEF RowAdded, KeyIsFree
    <2>3. /\ \A i \in Job : i # j => /\ jobs'[i].key = jobs[i].key /\ jobs'[i].apk = jobs[i].apk
                                     /\ Exists(i)' <=> Exists(i)
          /\ jobs'[j].key = req[r].key /\ jobs'[j].apk = req[r].apk /\ Exists(j)'
      BY <1>2 DEF RowAdded, RowKept
    <2>4. (\A i \in Job : IF Exists(i) THEN jobs[i].apk \in Apk
                         ELSE jobs[i].apk = NULL /\ jobs[i].key = NULL)'
      BY <2>1, <2>3 DEF RowInv, Exists
    <2>5. \A h, i \in Job : jobs'[h].key = jobs'[i].key /\ jobs'[h].key # NULL => h = i
      BY <2>2, <2>3 DEF RowInv
    <2> QED
      BY <2>4, <2>5 DEF RowInv
  <1> QED
    BY <1>1, <1>2, RowsStep

\* Where the answer of a submission comes from.
LEMMA AnswerStep ==
  ASSUME ApkTypes, ReqInv, RowInv, IInv, NEW r \in Request, RequestNext(r),
         req'[r].kind = "submit", req'[r].job # NULL
  PROVE  \/ req[r].pc # "new" /\ req'[r].job = req[r].job
         \/ \E j \in Job : /\ req'[r].job = j /\ Exists(j)
                           /\ jobs[j].apk = req'[r].apk /\ jobs[j].key = req'[r].key
         \/ \E j \in Job : req'[r].job = j /\ RowAdded(r, j)
  <1>0. /\ req \in [Request -> Handler] /\ req[r] \in Handler /\ LocalInv(req[r])
    BY DEF ApkTypes, ReqInv
  <1>1. \A k \in Key \cup {NULL} : \A j \in Rivals(k) : j \in Job /\ jobs[j].key = k /\ Exists(j)
    BY DEF Rivals, RowInv
  <1>2. CASE SubmitLookup(r)
    <2>1. PICK a \in Apk, k \in Key \cup {NULL} :
            LET begun == [NewRequest EXCEPT !.kind = "submit", !.apk = a, !.key = k] IN
            \/ /\ Rivals(k) = {}
               /\ req' = [req EXCEPT ![r] = [begun EXCEPT !.pc = "put"]]
            \/ \E j \in Rivals(k) : Found(r, j, begun, "done", "done")
      BY <1>2 DEF SubmitLookup
    <2> DEFINE begun == [NewRequest EXCEPT !.kind = "submit", !.apk = a, !.key = k]
    <2>2. begun \in Handler
      BY BegunType
    <2>3. /\ begun.kind = "submit" /\ begun.apk = a /\ begun.job = NULL /\ ~begun.created
          /\ begun.key = k /\ req[r].pc = "new"
      BY <1>2 DEF NewRequest, SubmitLookup
    <2> HIDE DEF begun
    <2>4. CASE req' = [req EXCEPT ![r] = [begun EXCEPT !.pc = "put"]]
      BY <1>0, <2>2, <2>3, <2>4 DEF Handler
    <2>5. ASSUME NEW j \in Rivals(k), Found(r, j, begun, "done", "done")
          PROVE  /\ req'[r].job = j /\ Exists(j) /\ j \in Job
                 /\ jobs[j].apk = req'[r].apk /\ jobs[j].key = req'[r].key
      <3>1. j \in Job /\ jobs[j].key = k /\ Exists(j)
        BY <1>1
      <3>2. /\ req'[r].apk = begun.apk /\ req'[r].key = begun.key
            /\ \/ req'[r].job = j /\ jobs[j].apk = begun.apk
               \/ req'[r].job = NULL
        BY <1>0, <2>2, <2>3, <2>5, <3>1, FoundStep
      <3> QED
        BY <2>3, <3>1, <3>2
    <2> QED
      BY <2>1, <2>4, <2>5 DEF begun
  <1>3. CASE SubmitRecheck(r) \/ SubmitInsertRaises(r)
    <2>1. req[r].pc \in {"recheck", "insert"}
      BY <1>3 DEF SubmitRecheck, SubmitInsertRaises
    <2>2. /\ req[r].kind = "submit" /\ req[r].apk \in Apk /\ req[r].job = NULL
          /\ ~req[r].created /\ req[r].key \in Key \cup {NULL}
      BY <1>0, <2>1 DEF LocalInv, Handler
    <2>3. \/ \E x \in {"insert", "undo"} : Goto(r, x)
          \/ \E j \in Rivals(req[r].key) : Found(r, j, req[r], "settle", "undo")
      BY <1>3 DEF SubmitRecheck, SubmitInsertRaises
    <2>4. ASSUME NEW x, Goto(r, x) PROVE FALSE
      BY <1>0, <2>2, <2>4 DEF Goto, Handler
    <2>5. ASSUME NEW j \in Rivals(req[r].key), Found(r, j, req[r], "settle", "undo")
          PROVE  /\ req'[r].job = j /\ Exists(j) /\ j \in Job
                 /\ jobs[j].apk = req'[r].apk /\ jobs[j].key = req'[r].key
      <3>1. j \in Job /\ jobs[j].key = req[r].key /\ Exists(j)
        BY <1>1, <2>2
      <3>2. /\ req'[r].apk = req[r].apk /\ req'[r].key = req[r].key
            /\ \/ req'[r].job = j /\ jobs[j].apk = req[r].apk
               \/ req'[r].job = NULL
        BY <1>0, <2>1, <2>2, <2>5, <3>1, FoundStep
      <3> QED
        BY <3>1, <3>2
    <2> QED
      BY <2>3, <2>4, <2>5
  <1>4. CASE SubmitInsert(r)
    <2>1. req[r].pc = "insert" /\ (req'[r].job # req[r].job => \E j \in Job : req'[r].job = j /\ RowAdded(r, j))
      BY <1>4, InsertAddsRow
    <2> QED
      BY <2>1
  <1>5. CASE CancelJob(r) \/ RetryCheck(r)
    <2>1. CASE CancelJob(r)
      <3>1. PICK j \in Job :
              req' = [req EXCEPT ![r] =
                [@ EXCEPT !.pc = IF RetainUploads THEN "done" ELSE "drop",
                          !.kind = "cancel", !.apk = jobs[j].apk, !.job = j]]
        BY <2>1 DEF CancelJob
      <3>2. req'[r].kind = "cancel"
        BY <1>0, <3>1 DEF Handler
      <3> QED
        BY <3>2
    <2>2. CASE RetryCheck(r)
      <3>1. PICK j \in Job :
              req' = [req EXCEPT ![r] =
                [@ EXCEPT !.pc = IF jobs[j].apk \in store THEN "requeue" ELSE "done",
                          !.kind = "retry", !.job = j]]
        BY <2>2 DEF RetryCheck
      <3>2. req'[r].kind = "retry"
        BY <1>0, <3>1 DEF Handler
      <3> QED
        BY <3>2
    <2> QED
      BY <1>5, <2>1, <2>2
  <1>6. CASE \/ SubmitPut(r) \/ SubmitSettle(r) \/ SubmitUndo(r)
             \/ CancelDrop(r) \/ RetryRequeue(r) \/ RetryRefused(r)
    BY <1>0, <1>6 DEF SubmitPut, SubmitSettle, SubmitUndo, CancelDrop, RetryRequeue,
                      RetryRefused, Goto, Handler
  <1> QED
    BY <1>2, <1>3, <1>4, <1>5, <1>6 DEF RequestNext

LEMMA OneRequestMoves ==
  ASSUME ApkTypes, ReqInv, RowInv, IInv, ApkNext \/ UNCHANGED allVars
  PROVE  \/ req' = req
         \/ \E r \in Request : /\ RequestNext(r)
                               /\ \A s \in Request : s # r => req'[s] = req[s]
  <1>1. ASSUME NEW r \in Request, RequestNext(r)
        PROVE  \A s \in Request : s # r => req'[s] = req[s]
    <2>1. req' = [req EXCEPT ![r] = req'[r]]
      BY <1>1, RequestEffect
    <2> QED
      BY <2>1 DEF ApkTypes
  <1>2. ASSUME NEW w \in Worker, DurableWorkerNext(w) PROVE req' = req
    BY <1>2, WorkerEffect
  <1>3. TickAll \/ UNCHANGED allVars => req' = req
    BY DEF TickAll, allVars, apkVars
  <1> QED
    BY <1>1, <1>2, <1>3 DEF ApkNext

LEMMA RowsPersist ==
  ASSUME ApkTypes, ReqInv, IInv, ApkNext \/ UNCHANGED allVars, NEW j \in Job, Exists(j)
  PROVE  jobs'[j].apk = jobs[j].apk /\ jobs'[j].key = jobs[j].key /\ Exists(j)'
  BY RowsStep DEF RowKept, RowAdded

LEMMA AnswerInvStep ==
  ASSUME ApkTypes, ReqInv, RowInv, AnswerInv, IInv, ApkNext \/ UNCHANGED allVars
  PROVE  AnswerInv'
  <1>1. ASSUME NEW r \in Request, req'[r].kind = "submit", req'[r].job # NULL
        PROVE  /\ jobs'[req'[r].job].status # "absent"
               /\ jobs'[req'[r].job].apk = req'[r].apk
               /\ jobs'[req'[r].job].key = req'[r].key
    <2>1. CASE req'[r] = req[r]
      <3>1. /\ Exists(req[r].job) /\ jobs[req[r].job].apk = req[r].apk
            /\ jobs[req[r].job].key = req[r].key
        BY <1>1, <2>1 DEF AnswerInv
      <3>2. req[r].job \in Job
        BY <1>1, <2>1 DEF ApkTypes, Handler
      <3> QED
        BY <2>1, <3>1, <3>2, RowsPersist DEF Exists
    <2>2. CASE RequestNext(r)
      <3>1. CASE req[r].pc # "new" /\ req'[r].job = req[r].job
        <4>1. req'[r].apk = req[r].apk /\ req'[r].key = req[r].key /\ req[r].kind = "submit"
          BY <1>1, <3>1, RequestsStep DEF LocalKept
        <4>2. /\ Exists(req[r].job) /\ jobs[req[r].job].apk = req[r].apk
              /\ jobs[req[r].job].key = req[r].key
          BY <1>1, <3>1, <4>1 DEF AnswerInv
        <4>3. req[r].job \in Job
          BY <1>1, <3>1 DEF ApkTypes, Handler
        <4> QED
          BY <3>1, <4>1, <4>2, <4>3, RowsPersist DEF Exists
      <3>2. ASSUME NEW j \in Job, req'[r].job = j, Exists(j),
                   jobs[j].apk = req'[r].apk, jobs[j].key = req'[r].key
            PROVE  /\ jobs'[j].status # "absent"
                   /\ jobs'[j].apk = req'[r].apk
                   /\ jobs'[j].key = req'[r].key
        BY <3>2, RowsPersist DEF Exists
      <3>3. ASSUME NEW j \in Job, req'[r].job = j, RowAdded(r, j)
            PROVE  /\ jobs'[j].status # "absent"
                   /\ jobs'[j].apk = req'[r].apk
                   /\ jobs'[j].key = req'[r].key
        <4>1. req[r].pc # "new"
          <5>1. SUFFICES ASSUME req[r].pc = "new" PROVE FALSE
            OBVIOUS
          <5>2. req[r].apk = NULL
            BY <5>1, RequestsStep DEF LocalKept
          <5>3. jobs'[j].apk \in Apk
            BY <3>3, RowInvStep DEF RowInv, RowAdded
          <5> QED
            BY <3>3, <5>2, <5>3, ApkJobsAssumption DEF RowAdded
        <4>2. req'[r].apk = req[r].apk /\ req'[r].key = req[r].key
          BY <4>1, RequestsStep DEF LocalKept
        <4> QED
          BY <3>3, <4>2 DEF RowAdded, Exists
      <3> QED
        BY <1>1, <2>2, <3>1, <3>2, <3>3, AnswerStep
    <2> QED
      BY <2>1, <2>2, OneRequestMoves
  <1>2. ASSUME NEW r \in Request, req'[r].created, ~req[r].created,
               NEW s \in Request, req'[s].created, req'[r].job = req'[s].job
        PROVE  r = s
    <2>1. PICK j \in Job : RowAdded(r, j) /\ req'[r].job = j
      BY <1>2, RequestsStep
    <2>2. SUFFICES ASSUME s # r PROVE FALSE
      OBVIOUS
    <2>3. req'[s] = req[s]
      BY <1>2, <2>2, OneRequestMoves
    <2>4. req[s].kind = "submit" /\ req[s].job # NULL
      BY <1>2, <2>3 DEF ReqInv, LocalInv
    <2>5. Exists(j)
      BY <1>2, <2>1, <2>3, <2>4 DEF AnswerInv
    <2> QED
      BY <2>1, <2>5 DEF RowAdded
  <1>3. ASSUME NEW r \in Request, req'[r].created, req[r].created,
               NEW s \in Request, req'[s].created, req[s].created,
               req'[r].job = req'[s].job
        PROVE  r = s
    <2>1. req'[r] = req[r] /\ req'[s] = req[s]
      BY <1>3, RequestsStep DEF LocalKept
    <2> QED
      BY <1>3, <2>1 DEF AnswerInv
  <1>4. \A r, s \in Request :
          req'[r].created /\ req'[s].created /\ req'[r].job = req'[s].job => r = s
    BY <1>2, <1>3
  <1> QED
    BY <1>1, <1>4 DEF AnswerInv, Exists

LEMMA WorkInvStep ==
  ASSUME ApkTypes, ReqInv, RowInv, WorkInv, IInv, IInv', ApkNext \/ UNCHANGED allVars
  PROVE  WorkInv'
  <1>1. ASSUME NEW w \in Worker, held'[w] = held[w], work'[w] = work[w],
               analysed \subseteq analysed'
        PROVE  WorkOk(w)'
    <2>1. WorkOk(w)
      BY DEF WorkInv, WorkOk
    <2>2. held[w].phase # "idle" => held[w].job \in Job
      BY DEF IInv, TypeOK
    <2>3. held[w].phase # "idle" => Exists(held[w].job) /\ jobs'[held[w].job].status # "absent"
      BY <2>1, <2>2, RowsPersist DEF WorkOk, Exists
    <2>4. ASSUME work[w].step = "cleanup"
          PROVE  jobs'[work[w].job].status = "failed" \/ retried'[work[w].job] > 0
      <3>1. /\ work[w].job \in Job
            /\ jobs[work[w].job].status = "failed" \/ retried[work[w].job] > 0
        BY <2>1, <2>4 DEF WorkOk
      <3>2. \/ RowKept(work[w].job)
            \/ retried' = retried /\ ~Exists(work[w].job)
        <4>1. CASE \A j \in Job : RowKept(j)
          BY <3>1, <4>1
        <4>2. ASSUME NEW r \in Request, NEW j \in Job, RowAdded(r, j),
                     \A i \in Job : i # j => RowKept(i)
              PROVE  \/ RowKept(work[w].job)
                     \/ retried' = retried /\ ~Exists(work[w].job)
          BY <3>1, <4>2 DEF RowAdded
        <4> QED
          BY <4>1, <4>2, RowsStep
      <3> QED
        BY <3>1, <3>2 DEF RowKept, Exists
    <2> QED
      BY <1>1, <2>1, <2>3, <2>4 DEF WorkOk, Exists
  <1>2. ASSUME NEW r \in Request, RequestNext(r)
        PROVE  held' = held /\ work' = work /\ analysed' = analysed
    BY <1>2, RequestEffect
  <1>3. TickAll \/ UNCHANGED allVars => held' = held /\ work' = work /\ analysed' = analysed
    BY DEF TickAll, Tick, allVars, vars, apkVars
  <1>4. ASSUME NEW v \in Worker, DurableWorkerNext(v)
        PROVE  \A w \in Worker : WorkOk(w)'
    BY <1>1, <1>4, WorkerEffect, WorkerStepOk
  <1>5. \A w \in Worker : WorkOk(w)'
    BY <1>1, <1>2, <1>3, <1>4 DEF ApkNext
  <1> QED
    BY <1>5 DEF WorkInv, WorkOk

-----------------------------------------------------------------------------
(* The store. *)

\* Who deletes an artifact: a request about that APK, or a worker whose job is.
LEMMA StoreShrinks ==
  ASSUME ApkTypes, ReqInv, WorkInv, IInv, ApkNext \/ UNCHANGED allVars,
         NEW a, a \in store, a \notin store'
  PROVE  \/ \E s \in Request : /\ req[s].pc \in {"settle", "undo", "drop"}
                               /\ req[s].apk = a /\ ~req[s].created
         \/ \E w \in Worker : /\ work[w].step \in {"discard", "cleanup"}
                              /\ work[w].job \in Job /\ jobs[work[w].job].apk = a
  <1>1. ASSUME NEW r \in Request, RequestNext(r)
        PROVE  req[r].pc \in {"settle", "undo", "drop"} /\ req[r].apk = a /\ ~req[r].created
    <2>1. req[r].pc \in {"settle", "undo", "drop"} /\ req[r].apk = a
      BY <1>1 DEF RequestNext, SubmitLookup, SubmitPut, SubmitRecheck, SubmitInsert,
           SubmitInsertRaises, SubmitSettle, SubmitUndo, CancelJob, CancelDrop, RetryCheck,
           RetryRequeue, RetryRefused
    <2> QED
      BY <2>1 DEF ReqInv, LocalInv
  <1>2. ASSUME NEW w \in Worker, DurableWorkerNext(w)
        PROVE  /\ work[w].step \in {"discard", "cleanup"}
               /\ work[w].job \in Job /\ jobs[work[w].job].apk = a
    <2>1. work[w].step \in {"discard", "cleanup"} /\ jobs[work[w].job].apk = a
      BY <1>2 DEF DurableWorkerNext, ClaimJob, CopyArtifact, Analyse, Discard, CompleteJob,
           FailJob, JudgeTerminal, CleanupTerminal, CrashWorker, RenewJob, apkVars, Artifact
    <2>2. work[w].job \in Job
      BY <2>1 DEF WorkInv, IInv, TypeOK
    <2> QED
      BY <2>1, <2>2
  <1>3. TickAll \/ UNCHANGED allVars => store' = store
    BY DEF TickAll, allVars, apkVars
  <1> QED
    BY <1>1, <1>2, <1>3 DEF ApkNext

\* Only a submission that has not yet a job puts one there.
LEMMA StoreGrows ==
  ASSUME ReqInv, ApkNext \/ UNCHANGED allVars, NEW a, a \notin store, a \in store'
  PROVE  \E s \in Request : req[s].pc = "put" /\ req[s].apk = a /\ ~req[s].created /\ a \in Apk
  <1>1. ASSUME NEW r \in Request, RequestNext(r)
        PROVE  req[r].pc = "put" /\ req[r].apk = a /\ ~req[r].created /\ a \in Apk
    <2>1. req[r].pc = "put" /\ req[r].apk = a
      BY <1>1 DEF RequestNext, SubmitLookup, SubmitPut, SubmitRecheck, SubmitInsert,
           SubmitInsertRaises, SubmitSettle, SubmitUndo, CancelJob, CancelDrop, RetryCheck,
           RetryRequeue, RetryRefused
    <2> QED
      BY <2>1 DEF ReqInv, LocalInv
  <1>2. ASSUME NEW w \in Worker, DurableWorkerNext(w) PROVE store' \subseteq store
    BY <1>2 DEF DurableWorkerNext, ClaimJob, CopyArtifact, Analyse, Discard, CompleteJob,
         FailJob, JudgeTerminal, CleanupTerminal, CrashWorker, RenewJob, apkVars
  <1>3. TickAll \/ UNCHANGED allVars => store' = store
    BY DEF TickAll, allVars, apkVars
  <1> QED
    BY <1>1, <1>2, <1>3 DEF ApkNext

LEMMA ApkTypesStep ==
  ASSUME ApkTypes, ReqInv, RowInv, WorkInv, IInv, IInv', ApkNext \/ UNCHANGED allVars
  PROVE  ApkTypes'
  <1>1. store' \subseteq Apk
    BY StoreGrows DEF ApkTypes
  <1>2. req' \in [Request -> Handler] /\ faults' \in 0 .. MaxFaults
    BY RequestsStep
  <1>3. work' \in [Worker -> Stage]
    <2>0. work \in [Worker -> Stage]
      BY DEF ApkTypes, Stage
    <2>1. ASSUME NEW r \in Request, RequestNext(r) PROVE work' = work
      BY <2>1, RequestEffect
    <2>2. ASSUME NEW w \in Worker, DurableWorkerNext(w) PROVE work' \in [Worker -> Stage]
      <3>1. NoWork \in Stage
        BY DEF NoWork, Stage, WorkStep
      <3>2. ASSUME NEW x \in WorkStep, work' = [work EXCEPT ![w].step = x]
            PROVE  work' \in [Worker -> Stage]
        BY <2>0, <3>2 DEF Stage
      <3>3. CASE ClaimJob(w)
        <4>1. held'[w].job \in Job
          BY <3>3 DEF ClaimJob, Claim, IInv, TypeOK
        <4>2. [step |-> "copy", job |-> held'[w].job] \in Stage
          BY <4>1 DEF Stage, WorkStep
        <4> QED
          BY <2>0, <3>3, <4>2 DEF ClaimJob
      <3>4. CASE FailJob(w)
        <4>1. held[w].job \in Job
          BY <3>4 DEF FailJob, FailWrite, IInv, TypeOK
        <4>2. [step |-> "judge", job |-> held[w].job] \in Stage
          BY <4>1 DEF Stage, WorkStep
        <4> QED
          BY <2>0, <3>1, <3>4, <4>2 DEF FailJob
      <3>5. CASE JudgeTerminal(w)
        <4>1. [work[w] EXCEPT !.step = "cleanup"] \in Stage
          BY <2>0 DEF Stage, WorkStep
        <4> QED
          BY <2>0, <3>1, <3>5, <4>1 DEF JudgeTerminal
      <3>6. CASE CopyArtifact(w) \/ Analyse(w) \/ Discard(w)
        BY <3>2, <3>6 DEF CopyArtifact, Analyse, Discard, Progress, WorkStep
      <3>7. CASE \/ CompleteJob(w) \/ CleanupTerminal(w) \/ CrashWorker(w)
                 \/ \E j \in Job : RenewJob(w, j)
        BY <2>0, <3>1, <3>7 DEF CompleteJob, CleanupTerminal, CrashWorker, RenewJob, apkVars
      <3> QED
        BY <2>2, <3>3, <3>4, <3>5, <3>6, <3>7 DEF DurableWorkerNext
    <2>3. TickAll \/ UNCHANGED allVars => work' = work
      BY DEF TickAll, allVars, apkVars
    <2> QED
      BY <2>0, <2>1, <2>2, <2>3 DEF ApkNext
  <1>4. analysed' \subseteq Job \X (1 .. MaxAttempts)
    <2>0. analysed \subseteq Job \X (1 .. MaxAttempts)
      BY DEF ApkTypes
    <2>1. ASSUME NEW r \in Request, RequestNext(r) PROVE analysed' = analysed
      BY <2>1, RequestEffect
    <2>2. ASSUME NEW w \in Worker, DurableWorkerNext(w)
          PROVE  analysed' \subseteq Job \X (1 .. MaxAttempts)
      <3>1. CASE Analyse(w)
        <4>1. /\ held[w].phase = "working" /\ held[w].job = work[w].job
              /\ held[w].attempt # 0
          BY <3>1 DEF Analyse, WorkInv
        <4>2. work[w].job \in Job /\ held[w].attempt \in 0 .. MaxAttempts
          BY <4>1 DEF IInv, TypeOK, Holding
        <4>3. held[w].attempt \in 1 .. MaxAttempts
          BY <4>1, <4>2, QueueAssumption
        <4> QED
          BY <2>0, <3>1, <4>2, <4>3 DEF Analyse
      <3>2. CASE ~Analyse(w)
        BY <2>0, <2>2, <3>2
           DEF DurableWorkerNext, ClaimJob, CopyArtifact, Discard, CompleteJob,
               FailJob, JudgeTerminal, CleanupTerminal, CrashWorker, RenewJob, apkVars
      <3> QED
        BY <3>1, <3>2
    <2>3. TickAll \/ UNCHANGED allVars => analysed' = analysed
      BY DEF TickAll, allVars, apkVars
    <2> QED
      BY <2>0, <2>1, <2>2, <2>3 DEF ApkNext
  <1> QED
    BY <1>1, <1>2, <1>3, <1>4 DEF ApkTypes, Stage

\* Sharing is for good: what is about nobody else's APK after a step was so before.
LEMMA UnsharedBefore ==
  ASSUME ApkTypes, ReqInv, RowInv, IInv, ApkNext \/ UNCHANGED allVars,
         NEW j \in Job, Exists(j), Unshared(j)'
  PROVE  Unshared(j)
  <1>1. jobs'[j].apk = jobs[j].apk /\ jobs[j].apk \in Apk
    BY RowsPersist DEF RowInv
  <1>2. ASSUME NEW i \in Job, i # j PROVE jobs[i].apk # jobs[j].apk
    <2>1. jobs'[i].apk # jobs'[j].apk
      BY <1>2 DEF Unshared
    <2>2. CASE Exists(i)
      BY <1>1, <2>1, <2>2, RowsPersist
    <2>3. CASE ~Exists(i)
      BY <1>1, <2>3, ApkJobsAssumption DEF RowInv
    <2> QED
      BY <2>2, <2>3
  <1>3. PICK r \in Request :
          /\ req'[r].kind = "submit" /\ req'[r].pc = "done" /\ req'[r].job # NULL
          /\ req'[r].job = j /\ req'[r].created
          /\ \A s \in Request : s # r => req'[s].apk # jobs'[j].apk
    BY DEF Unshared, Accepted
  <1>4. req[r].created
    BY <1>3, RequestsStep DEF RowAdded
  <1>5. req'[r] = req[r]
    BY <1>4, RequestsStep DEF LocalKept
  <1>6. ASSUME NEW s \in Request, s # r PROVE req[s].apk # jobs[j].apk
    BY <1>1, <1>3, <1>6, RequestsStep, ApkJobsAssumption DEF LocalKept
  <1> QED
    BY <1>2, <1>3, <1>5, <1>6 DEF Unshared, Accepted

\* Who is about an unshared APK created its job.
LEMMA OnlyCreator ==
  ASSUME NEW j \in Job, Unshared(j), NEW s \in Request, req[s].apk = jobs[j].apk
  PROVE  req[s].created
  BY DEF Unshared

LEMMA StoredInvStep ==
  ASSUME ApkTypes, ReqInv, RowInv, WorkInv, StoredInv, IInv, ApkNext \/ UNCHANGED allVars
  PROVE  StoredInv'
  <1> SUFFICES ASSUME NEW r \in Request, req'[r].pc \in {"recheck", "insert"}
               PROVE  req'[r].apk \in store' \/ Contested(r)'
    BY DEF StoredInv
  <1>1. CASE req[r].pc \in {"recheck", "insert"}
    <2>1. req'[r].apk = req[r].apk /\ req[r].apk \in Apk
      BY <1>1, RequestsStep DEF LocalKept, ReqInv, LocalInv
    <2>2. ASSUME Contested(r) PROVE Contested(r)'
      <3>1. CASE \E j \in Job : jobs[j].apk = req[r].apk
        BY <2>1, <3>1, RowsPersist, ApkJobsAssumption DEF RowInv, Contested
      <3>2. ASSUME NEW s \in Request, s # r, req[s].apk = req[r].apk
            PROVE  req'[s].apk = req'[r].apk
        BY <2>1, <3>2, RequestsStep, ApkJobsAssumption DEF LocalKept
      <3> QED
        BY <2>2, <3>1, <3>2 DEF Contested
    <2>3. CASE req[r].apk \in store /\ req[r].apk \notin store'
      <3>1. Contested(r)
        BY <1>1, <2>3, StoreShrinks DEF Contested
      <3> QED
        BY <2>2, <3>1
    <2> QED
      BY <1>1, <2>1, <2>2, <2>3 DEF StoredInv
  <1>2. CASE req[r].pc \notin {"recheck", "insert"}
    <2>1. RequestNext(r)
      BY <1>2, OneRequestMoves
    <2>2. SubmitPut(r)
      <3>1. \/ SubmitLookup(r) \/ SubmitPut(r) \/ SubmitSettle(r) \/ SubmitUndo(r)
            \/ CancelJob(r) \/ CancelDrop(r) \/ RetryCheck(r) \/ RetryRequeue(r)
            \/ RetryRefused(r)
        BY <1>2, <2>1 DEF RequestNext, SubmitRecheck, SubmitInsert, SubmitInsertRaises
      <3>2. req \in [Request -> Handler]
        BY DEF ApkTypes
      <3>3. ASSUME \/ SubmitSettle(r) \/ SubmitUndo(r) \/ CancelDrop(r)
                   \/ RetryRequeue(r) \/ RetryRefused(r)
            PROVE  FALSE
        BY <3>2, <3>3 DEF SubmitSettle, SubmitUndo, CancelDrop, RetryRequeue, RetryRefused,
                          Goto, Handler
      <3>4. ASSUME CancelJob(r) PROVE FALSE
        <4>1. PICK j \in Job :
                req' = [req EXCEPT ![r] =
                  [@ EXCEPT !.pc = IF RetainUploads THEN "done" ELSE "drop",
                            !.kind = "cancel", !.apk = jobs[j].apk, !.job = j]]
          BY <3>4 DEF CancelJob
        <4> QED
          BY <3>2, <4>1 DEF Handler
      <3>5. ASSUME RetryCheck(r) PROVE FALSE
        <4>1. PICK j \in Job :
                req' = [req EXCEPT ![r] =
                  [@ EXCEPT !.pc = IF jobs[j].apk \in store THEN "requeue" ELSE "done",
                            !.kind = "retry", !.job = j]]
          BY <3>5 DEF RetryCheck
        <4> QED
          BY <3>2, <4>1 DEF Handler
      <3>6. ASSUME SubmitLookup(r) PROVE FALSE
        <4>1. PICK a \in Apk, k \in Key \cup {NULL} :
                LET begun == [NewRequest EXCEPT !.kind = "submit", !.apk = a, !.key = k] IN
                \/ /\ Rivals(k) = {}
                   /\ req' = [req EXCEPT ![r] = [begun EXCEPT !.pc = "put"]]
                \/ \E j \in Rivals(k) : Found(r, j, begun, "done", "done")
          BY <3>6 DEF SubmitLookup
        <4> DEFINE begun == [NewRequest EXCEPT !.kind = "submit", !.apk = a, !.key = k]
        <4>2. begun \in Handler
          BY BegunType
        <4>3. /\ begun.kind = "submit" /\ begun.apk = a /\ begun.job = NULL /\ ~begun.created
              /\ req[r].pc = "new"
          BY <3>6 DEF NewRequest, SubmitLookup
        <4> HIDE DEF begun
        <4>4. \/ req'[r] = [begun EXCEPT !.pc = "put"]
              \/ \E j \in Job : Found(r, j, begun, "done", "done")
          BY <3>2, <4>1 DEF Rivals, begun
        <4>5. CASE req'[r] = [begun EXCEPT !.pc = "put"]
          <5>1. req'[r].pc = "put"
            BY <4>2, <4>5 DEF Handler
          <5> QED
            BY <5>1
        <4>6. ASSUME NEW j \in Job, Found(r, j, begun, "done", "done") PROVE FALSE
          <5>1. req'[r].pc = "done"
            BY <4>2, <4>3, <4>6, FoundStep
          <5> QED
            BY <5>1
        <4> QED
          BY <4>4, <4>5, <4>6
      <3> QED
        BY <3>1, <3>3, <3>4, <3>5, <3>6
    <2>3. req'[r].apk = req[r].apk
      BY <2>2, RequestsStep DEF SubmitPut, LocalKept
    <2> QED
      BY <2>2, <2>3 DEF SubmitPut
  <1> QED
    BY <1>1, <1>2

-----------------------------------------------------------------------------
(* Analyses, uploads and completions. *)

LEMMA CompletedStep ==
  ASSUME ApkTypes, ReqInv, WorkInv, CompletedWasAnalysed, IInv, analysed \subseteq analysed',
         ApkNext \/ UNCHANGED allVars
  PROVE  CompletedWasAnalysed'
  <1> SUFFICES ASSUME NEW j \in Job, jobs'[j].status = "completed"
               PROVE  <<j, jobs'[j].result>> \in analysed'
    BY DEF CompletedWasAnalysed
  <1>1. RowKept(j)
    BY RowsStep DEF RowAdded
  <1>2. CASE jobs[j].status = "completed" /\ jobs'[j].result = jobs[j].result
    BY <1>2 DEF CompletedWasAnalysed
  <1>3. CASE \E w \in Worker : /\ held[w].phase = "completing" /\ held[w].job = j
                               /\ jobs'[j].result = held[w].attempt
    BY <1>3 DEF WorkInv
  <1> QED
    BY <1>1, <1>2, <1>3 DEF RowKept

LEMMA AnalysedGrows ==
  ASSUME ApkTypes, ReqInv, RowInv, IInv, ApkNext \/ UNCHANGED allVars
  PROVE  analysed \subseteq analysed'
  <1>1. TickAll \/ UNCHANGED allVars => analysed' = analysed
    BY DEF TickAll, allVars, apkVars
  <1> QED
    BY <1>1, RequestEffect, WorkerEffect DEF ApkNext

\* A step leaves the artifact of an unshared live job alone, unless it was analysed.
LEMMA SurvivesStep ==
  ASSUME ApkInv, analysed \subseteq analysed', ApkNext \/ UNCHANGED allVars
  PROVE  UnsharedUploadSurvives'
  <1> USE DEF ApkInv
  <1> SUFFICES ASSUME NEW j \in Job, jobs'[j].status \in Live, retried'[j] = 0, Unshared(j)'
               PROVE  \/ jobs'[j].apk \in store'
                      \/ \E n \in 1 .. MaxAttempts : <<j, n>> \in analysed'
    BY DEF UnsharedUploadSurvives, Live
  <1>1. CASE Exists(j)
    <2>1. Unshared(j) /\ jobs'[j].apk = jobs[j].apk
      BY <1>1, UnsharedBefore, RowsPersist
    <2>2. RowKept(j)
      BY <1>1, RowsStep DEF RowAdded
    <2>3. jobs[j].status \in Live /\ retried[j] = 0
      BY <2>2 DEF RowKept
    <2>4. CASE \E n \in 1 .. MaxAttempts : <<j, n>> \in analysed
      BY <2>4
    <2>5. CASE jobs[j].apk \in store /\ jobs[j].apk \notin store'
      <3>1. CASE \E s \in Request : req[s].apk = jobs[j].apk /\ ~req[s].created
        BY <2>1, <3>1, OnlyCreator
      <3>2. ASSUME NEW w \in Worker, work[w].step \in {"discard", "cleanup"},
                   work[w].job \in Job, jobs[work[w].job].apk = jobs[j].apk
            PROVE  \E n \in 1 .. MaxAttempts : <<j, n>> \in analysed
        <4>1. work[w].job = j
          BY <2>1, <3>2 DEF Unshared
        <4>2. work[w].step = "discard"
          <5>1. ASSUME work[w].step = "cleanup"
                PROVE  jobs[j].status = "failed" \/ retried[j] > 0
            BY <4>1, <5>1 DEF WorkInv
          <5>2. ~(retried[j] > 0) /\ jobs[j].status # "failed"
            BY <2>3 DEF Live
          <5> QED
            BY <3>2, <5>1, <5>2
        <4>3. <<j, held[w].attempt>> \in analysed
          BY <4>1, <4>2 DEF WorkInv
        <4> QED
          BY <4>3 DEF ApkTypes
      <3> QED
        BY <2>5, <3>1, <3>2, StoreShrinks
    <2>6. jobs[j].apk \in store \/ \E n \in 1 .. MaxAttempts : <<j, n>> \in analysed
      BY <2>1, <2>3 DEF UnsharedUploadSurvives, Live
    <2> QED
      BY <2>1, <2>4, <2>5, <2>6
  <1>2. CASE ~Exists(j)
    <2>1. ~RowKept(j)
      BY <1>2 DEF RowKept, Exists, Live
    <2>2. PICK r \in Request : SubmitInsert(r) /\ req[r].pc = "insert" /\ RowAdded(r, j)
      BY <2>1, RowsStep
    <2>3. jobs'[j].apk = req[r].apk /\ req[r].apk \in Apk /\ req'[r].apk = req[r].apk
      BY <2>2, RequestsStep DEF RowAdded, LocalKept, ReqInv, LocalInv
    <2>4. PICK t \in Request :
            /\ req'[t].job = j /\ req'[t].created
            /\ \A s \in Request : s # t => req'[s].apk # jobs'[j].apk
      BY DEF Unshared
    <2>5. t = r
      BY <2>3, <2>4
    <2>6. ~Contested(r)
      <3>1. ASSUME NEW s \in Request, s # r PROVE req[s].apk # req[r].apk
        BY <2>3, <2>4, <2>5, <3>1, RequestsStep, ApkJobsAssumption DEF LocalKept
      <3>2. ASSUME NEW i \in Job PROVE jobs[i].apk # req[r].apk
        <4>1. CASE i = j
          BY <1>2, <2>3, <4>1, ApkJobsAssumption DEF RowInv
        <4>2. CASE i # j
          BY <2>2, <2>3, <4>2 DEF RowAdded, Unshared
        <4> QED
          BY <4>1, <4>2
      <3> QED
        BY <3>1, <3>2 DEF Contested
    <2>7. store' = store
      BY <2>2 DEF SubmitInsert
    <2> QED
      BY <2>2, <2>3, <2>6, <2>7 DEF StoredInv
  <1> QED
    BY <1>1, <1>2

\* Nobody but the creator's own submission, long done, could put it back.
LEMMA GoneStaysGone ==
  ASSUME ReqInv, ApkNext \/ UNCHANGED allVars, NEW j \in Job, Unshared(j),
         jobs[j].apk \notin store
  PROVE  jobs[j].apk \notin store'
  BY StoreGrows, OnlyCreator

LEMMA DiscardedStep ==
  ASSUME ApkInv, ApkNext \/ UNCHANGED allVars
  PROVE  DiscardedInv'
  <1> USE DEF ApkInv
  <1> SUFFICES ASSUME NEW w \in Worker, held'[w].phase = "completing", ~RetainUploads,
                      NEW j, j = held'[w].job, Unshared(j)'
               PROVE  jobs'[j].apk \notin store'
    BY DEF DiscardedInv
  <1>0. held \in [Worker -> Holding] /\ (held[w].phase # "idle" => held[w].job \in Job)
    BY DEF IInv, TypeOK
  <1>1. CASE held'[w] = held[w]
    <2>1. j \in Job /\ Exists(j)
      BY <1>0, <1>1 DEF WorkInv
    <2>2. Unshared(j) /\ jobs'[j].apk = jobs[j].apk
      BY <2>1, UnsharedBefore, RowsPersist
    <2>3. jobs[j].apk \notin store
      BY <1>1, <2>2 DEF DiscardedInv
    <2> QED
      BY <2>1, <2>2, <2>3, GoneStaysGone
  <1>2. CASE held'[w] # held[w]
    <2>1. DurableWorkerNext(w)
      <3>1. TickAll \/ UNCHANGED allVars => held' = held
        BY DEF TickAll, Tick, allVars, vars
      <3> QED
        BY <1>2, <3>1, RequestEffect, WorkerEffect DEF ApkNext
    <2>2. Discard(w) /\ WorkReturns(w) /\ store' = store \ {Artifact(w)}
      <3>1. ASSUME ClaimJob(w) PROVE FALSE
        BY <1>0, <3>1 DEF ClaimJob, Claim
      <3>2. ASSUME WorkRaises(w) \/ FailRead(w) \/ CompleteLost(w) PROVE FALSE
        BY <1>0, <3>2 DEF WorkRaises, CompleteLost, FailRead, Holding
      <3>3. ASSUME Complete(w) \/ FailWrite(w) \/ Crash(w) PROVE FALSE
        BY <1>0, <3>3 DEF Complete, FailWrite, Crash, Idle, Holding
      <3>4. ASSUME \/ UNCHANGED vars \/ \E i \in Job : RenewJob(w, i) PROVE FALSE
        BY <1>2, <3>4 DEF vars, RenewJob, Renew
      <3> QED
        BY <2>1, <3>1, <3>2, <3>3, <3>4
           DEF DurableWorkerNext, CopyArtifact, Analyse, Discard, JudgeTerminal, CleanupTerminal,
               CompleteJob, FailJob, CrashWorker
    <2>3. /\ held'[w].job = held[w].job /\ held[w].job = work[w].job /\ UNCHANGED jobs
      BY <1>0, <2>2 DEF WorkReturns, Discard, Holding, WorkInv
    <2> QED
      BY <2>2, <2>3 DEF Artifact
  <1> QED
    BY <1>1, <1>2

LEMMA ProcessedStep ==
  ASSUME ApkInv, ApkNext \/ UNCHANGED allVars
  PROVE  ProcessedUploadIsDeleted'
  <1> USE DEF ApkInv
  <1> SUFFICES ASSUME NEW j \in Job, jobs'[j].status = "completed", Unshared(j)', ~RetainUploads
               PROVE  jobs'[j].apk \notin store'
    BY DEF ProcessedUploadIsDeleted
  <1>1. RowKept(j)
    BY RowsStep DEF RowAdded
  <1>2. Exists(j)
    BY <1>1 DEF RowKept, Exists
  <1>3. Unshared(j) /\ jobs'[j].apk = jobs[j].apk
    BY <1>2, UnsharedBefore, RowsPersist
  <1>4. jobs[j].apk \notin store
    BY <1>1, <1>3 DEF RowKept, ProcessedUploadIsDeleted, DiscardedInv
  <1> QED
    BY <1>3, <1>4, GoneStaysGone

-----------------------------------------------------------------------------
(* Theorems *)

LEMMA ApkNextInv == ApkInv /\ [ApkNext]_allVars => ApkInv'
  <1> SUFFICES ASSUME ApkInv, ApkNext \/ UNCHANGED allVars PROVE ApkInv'
    OBVIOUS
  <1>1. IInv'
    BY QueueStep, NextInv DEF ApkInv
  <1>2. ApkTypes' /\ WorkInv'
    BY <1>1, ApkTypesStep, WorkInvStep DEF ApkInv
  <1>3. ReqInv' /\ RowInv' /\ AnswerInv' /\ StoredInv'
    BY RequestsStep, RowInvStep, AnswerInvStep, StoredInvStep DEF ApkInv
  <1>4. analysed \subseteq analysed'
    BY AnalysedGrows DEF ApkInv
  <1>5. CompletedWasAnalysed' /\ UnsharedUploadSurvives'
    BY <1>4, CompletedStep, SurvivesStep DEF ApkInv
  <1>6. DiscardedInv' /\ ProcessedUploadIsDeleted'
    BY DiscardedStep, ProcessedStep
  <1> QED
    BY <1>1, <1>2, <1>3, <1>5, <1>6 DEF ApkInv

\* The routes, the workers and the artifact store keep the invariant above, through
\* faults of any call, crashes and takeovers.
THEOREM ApkInvariance == ApkSpec => []ApkInv
  <1>1. ApkInit => ApkInv
    BY ApkInitInv
  <1>2. ApkInv /\ [ApkNext]_allVars => ApkInv'
    BY ApkNextInv
  <1> QED
    BY <1>1, <1>2, PTL DEF ApkSpec

\* The queue inside ApkJobs is the queue of JobQueue: whatever the routes and
\* _process_apk do with it, every theorem about Spec holds of the whole.
THEOREM QueueInside == ApkSpec => Spec
  <1>1. ApkInit => Init
    BY DEF ApkInit
  <1>2. ApkInv /\ [ApkNext]_allVars => [Next]_vars
    BY QueueStep DEF ApkInv
  <1> QED
    BY <1>1, <1>2, ApkInvariance, PTL DEF ApkSpec, Spec

\* The contract of GET /jobs/{id} and the finality of a completed job therefore
\* hold of the deployed system, not only of the table.
THEOREM ContractKept == ApkSpec => ImplementsContract /\ CompletedIsFinal
  BY QueueInside, QueueKeepsContract, CompletedStays, PTL

\* The variables of routes, workers and store have the types of the code.
THEOREM ApkTypesCorrect == ApkSpec => []ApkTypeOK
  <1>1. ApkInv => ApkTypeOK
    BY DEF ApkInv, IInv, ApkTypes, ApkTypeOK, Handler
  <1> QED
    BY <1>1, ApkInvariance, PTL

\* Idempotency-Key: racing submissions with one key for one APK are answered with
\* one job, which is about that APK and which only one of them created.
THEOREM KeysAreIdempotent == ApkSpec => []SameKeySameJob
  <1>1. ApkInv => SameKeySameJob
    <2> SUFFICES ASSUME ApkInv, NEW r \in Request, NEW s \in Request,
                        Accepted(r), Accepted(s), req[r].key = req[s].key, req[r].key # NULL
                 PROVE  /\ req[r].job = req[s].job
                        /\ req[r].created /\ req[s].created => r = s
                        /\ jobs[req[r].job].apk = req[r].apk
      BY DEF SameKeySameJob
    <2>1. /\ jobs[req[r].job].key = req[r].key /\ jobs[req[s].job].key = req[s].key
          /\ jobs[req[r].job].apk = req[r].apk
      BY DEF ApkInv, AnswerInv, Accepted
    <2>2. req[r].job \in Job /\ req[s].job \in Job
      BY DEF ApkInv, ApkTypes, Handler, Accepted
    <2>3. req[r].job = req[s].job
      BY <2>1, <2>2 DEF ApkInv, RowInv
    <2> QED
      BY <2>1, <2>3 DEF ApkInv, AnswerInv
  <1> QED
    BY <1>1, ApkInvariance, PTL

\* The worker completes a job only with the analysis of the attempt that owns it.
THEOREM CompletedHasAnalysis == ApkSpec => []CompletedWasAnalysed
  <1>1. ApkInv => CompletedWasAnalysed
    BY DEF ApkInv
  <1> QED
    BY <1>1, ApkInvariance, PTL

\* An upload that only one job is about is not lost before it is analysed ...
THEOREM UploadsSurvive == ApkSpec => []UnsharedUploadSurvives
  <1>1. ApkInv => UnsharedUploadSurvives
    BY DEF ApkInv
  <1> QED
    BY <1>1, ApkInvariance, PTL

\* ... and is gone once the job has completed, unless uploads are retained.
THEOREM UploadsAreDeleted == ApkSpec => []ProcessedUploadIsDeleted
  <1>1. ApkInv => ProcessedUploadIsDeleted
    BY DEF ApkInv
  <1> QED
    BY <1>1, ApkInvariance, PTL
=============================================================================
