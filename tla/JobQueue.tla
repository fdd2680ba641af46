------------------------------ MODULE JobQueue ------------------------------
(***************************************************************************)
(* The durable job queue: the table `jobs` as class JobRepository          *)
(* (fraudshield/core/repository.py) reads and writes it, and the workers   *)
(* of fraudshield/worker.py that claim, renew, complete and fail its rows. *)
(*                                                                         *)
(* Every transaction of the repository is one action: SQLite runs it under *)
(* BEGIN IMMEDIATE, and on PostgreSQL each one is a single conditional     *)
(* UPDATE or a SELECT ... FOR UPDATE SKIP LOCKED followed by an UPDATE of  *)
(* the row it locked.  What the code does OUTSIDE a transaction is a step  *)
(* of its own: JobRepository.fail reads the row first and updates it in a  *)
(* later transaction, and complete re-reads the row after its commit.      *)
(*                                                                         *)
(* Timestamps are countdowns: `wait` is what is left until available_at,   *)
(* `lease` what is left until lease_expires_at lies in the past; Tick lets *)
(* time pass for all of them.  The order of created_at is kept as the set  *)
(* of older rows.                                                          *)
(***************************************************************************)
EXTENDS Naturals

CONSTANTS
  Job,          \* identifiers of job rows
  Worker,       \* worker ids (hostname:pid); a restarted worker keeps its id
  Apk,          \* the payloads: which APK a job is about
  Key,          \* values of the Idempotency-Key header
  NULL,         \* SQL NULL
  Priority,     \* the priorities that clients ask for
  MaxAttempts,  \* the largest max_attempts that clients ask for
  LeaseTicks,   \* settings.job_lease_seconds
  RetryTicks,   \* retry_delay_seconds of JobRepository.fail
  MaxRetries,   \* bound: how often clients retry one job
  MaxCrashes    \* bound: how often workers crash

ASSUME QueueAssumption ==
  /\ NULL \notin Worker \cup Key \cup Job
  /\ Priority \subseteq Nat
  /\ MaxAttempts \in Nat \ {0}
  /\ LeaseTicks \in Nat \ {0}
  /\ RetryTicks \in Nat
  /\ MaxRetries \in Nat
  /\ MaxCrashes \in Nat

VARIABLES
  jobs,     \* [Job -> Row], the table; status "absent" where there is no row
  held,     \* [Worker -> what process_next has in its local variables]
  beats,    \* [Worker -> the jobs its heartbeat threads may still renew]
  retried,  \* [Job -> number of client retries so far]
  crashes   \* number of worker crashes so far

vars == <<jobs, held, beats, retried, crashes>>

Status == {"absent", "queued", "running", "completed", "failed", "cancelled"}

Terminal == {"completed", "failed", "cancelled"}

Row ==
  [status       : Status,
   apk          : Apk \cup {NULL},
   key          : Key \cup {NULL},
   priority     : Nat,
   older        : SUBSET Job,            \* rows with an earlier created_at
   attempts     : 0 .. MaxAttempts,
   max_attempts : 1 .. MaxAttempts,
   wait         : 0 .. RetryTicks,
   lease_owner  : Worker \cup {NULL},
   lease        : 0 .. LeaseTicks,
   result       : 0 .. MaxAttempts,      \* the attempt whose result is stored; 0: none
   finished     : BOOLEAN,               \* completed_at IS NOT NULL
   error        : BOOLEAN]               \* error_code IS NOT NULL

NoRow ==
  [status |-> "absent", apk |-> NULL, key |-> NULL, priority |-> 0, older |-> {},
   attempts |-> 0, max_attempts |-> 1, wait |-> 0, lease_owner |-> NULL,
   lease |-> 0, result |-> 0, finished |-> FALSE, error |-> FALSE]

Phase == {"idle", "working", "completing", "failing", "fail_write"}

Holding ==
  [phase   : Phase,
   job     : Job \cup {NULL},
   attempt : 0 .. MaxAttempts,           \* attempts of the row claim returned
   next    : {"queued", "failed"}]       \* next_status computed by fail

Idle == [phase |-> "idle", job |-> NULL, attempt |-> 0, next |-> "queued"]

Exists(j) == jobs[j].status # "absent"

\* Mutant of Owns: the owner is not compared.
OwnsAnyRunning(w, j) == jobs[j].status = "running"

\* The row still belongs to w: WHERE id=? AND status='running' AND lease_owner=?
Owns(w, j) == jobs[j].status = "running" /\ jobs[j].lease_owner = w

Working(w, j) == held[w].phase = "working" /\ held[w].job = j

-----------------------------------------------------------------------------
(* Clients *)

Init ==
  /\ jobs = [j \in Job |-> NoRow]
  /\ held = [w \in Worker |-> Idle]
  /\ beats = [w \in Worker |-> {}]
  /\ retried = [j \in Job |-> 0]
  /\ crashes = 0

\* Mutant of KeyIsFree: the column is not UNIQUE.
KeyIsNotUnique(k) == TRUE

\* idempotency_key TEXT UNIQUE: no row has the key yet
KeyIsFree(k) == k = NULL \/ \A i \in Job : jobs[i].key # k

\* The INSERT of JobRepository.enqueue.
Enqueue(j, a, k, p, m) ==
  /\ ~Exists(j)
  /\ KeyIsFree(k)
  /\ jobs' = [jobs EXCEPT ![j] =
       [NoRow EXCEPT !.status = "queued", !.apk = a, !.key = k, !.priority = p,
                     !.max_attempts = m, !.older = {i \in Job : Exists(i)}]]
  /\ UNCHANGED <<held, beats, retried, crashes>>

Cancel(j) ==
  /\ jobs[j].status = "queued"
  /\ jobs' = [jobs EXCEPT ![j].status = "cancelled", ![j].finished = TRUE]
  /\ UNCHANGED <<held, beats, retried, crashes>>

\* Mutant of Retry: completed_at is not reset.
RetryKeepsFinish(j) ==
  /\ jobs[j].status \in {"failed", "cancelled"}
  /\ retried[j] < MaxRetries
  /\ jobs' = [jobs EXCEPT ![j] =
       [@ EXCEPT !.status = "queued", !.attempts = 0, !.wait = 0,
                 !.lease_owner = NULL, !.lease = 0, !.error = FALSE]]
  /\ retried' = [retried EXCEPT ![j] = @ + 1]
  /\ UNCHANGED <<held, beats, crashes>>

Retry(j) ==
  /\ jobs[j].status \in {"failed", "cancelled"}
  /\ retried[j] < MaxRetries
  /\ jobs' = [jobs EXCEPT ![j] =
       [@ EXCEPT !.status = "queued", !.attempts = 0, !.wait = 0, !.finished = FALSE,
                 !.lease_owner = NULL, !.lease = 0, !.error = FALSE]]
  /\ retried' = [retried EXCEPT ![j] = @ + 1]
  /\ UNCHANGED <<held, beats, crashes>>

-----------------------------------------------------------------------------
(* Workers *)

\* Mutant of Claimable: without attempts < max_attempts.
ClaimableForEver(j) ==
  /\ jobs[j].wait = 0
  /\ \/ jobs[j].status = "queued"
     \/ jobs[j].status = "running" /\ jobs[j].lease = 0

\* The WHERE clause of claim: a lease counts as expired when it lies in the past.
Claimable(j) ==
  /\ jobs[j].attempts < jobs[j].max_attempts
  /\ jobs[j].wait = 0
  /\ \/ jobs[j].status = "queued"
     \/ jobs[j].status = "running" /\ jobs[j].lease = 0

\* ORDER BY priority ASC, created_at ASC
Precedes(i, j) ==
  \/ jobs[i].priority < jobs[j].priority
  \/ jobs[i].priority = jobs[j].priority /\ i \in jobs[j].older

\* Mutant of Claim: lease_owner=COALESCE(lease_owner, ?).
ClaimKeepsOwner(w) ==
  /\ held[w].phase = "idle"
  /\ \E j \in Job :
       /\ Claimable(j)
       /\ \A i \in Job : Claimable(i) => ~Precedes(i, j)
       /\ jobs' = [jobs EXCEPT ![j] =
            [@ EXCEPT !.status = "running", !.lease = LeaseTicks,
                      !.lease_owner = IF @ = NULL THEN w ELSE @,
                      !.attempts = @ + 1, !.error = FALSE]]
       /\ held' = [held EXCEPT ![w] =
            [phase |-> "working", job |-> j, attempt |-> jobs[j].attempts + 1,
             next |-> "queued"]]
       /\ beats' = [beats EXCEPT ![w] = @ \cup {j}]
  /\ UNCHANGED <<retried, crashes>>

Claim(w) ==
  /\ held[w].phase = "idle"
  /\ \E j \in Job :
       /\ Claimable(j)
       /\ \A i \in Job : Claimable(i) => ~Precedes(i, j)
       /\ jobs' = [jobs EXCEPT ![j] =
            [jobs[j] EXCEPT !.status = "running", !.lease_owner = w, !.lease = LeaseTicks,
                            !.attempts = jobs[j].attempts + 1, !.error = FALSE]]
       /\ held' = [held EXCEPT ![w] =
            [phase |-> "working", job |-> j, attempt |-> jobs[j].attempts + 1,
             next |-> "queued"]]
       /\ beats' = [beats EXCEPT ![w] = @ \cup {j}]
  /\ UNCHANGED <<retried, crashes>>

\* One renewal by a heartbeat thread of w for job j.  The thread ends when it
\* no longer owns the row, or when it was told to stop while it was renewing
\* (leaving the `with` block joins it for two seconds only).
Renew(w, j) ==
  /\ j \in beats[w]
  /\ jobs' = IF Owns(w, j) THEN [jobs EXCEPT ![j].lease = LeaseTicks] ELSE jobs
  /\ beats' = IF Owns(w, j) /\ Working(w, j) THEN beats
              ELSE [beats EXCEPT ![w] = @ \ {j}]
  /\ UNCHANGED <<held, retried, crashes>>

\* Leaving the heartbeat's context: the thread stops, or outlives its join.
LeaveHeartbeat(w) ==
  \/ beats' = [beats EXCEPT ![w] = @ \ {held[w].job}]
  \/ UNCHANGED beats

\* _process_apk returned a result or raised.
WorkReturns(w) ==
  /\ held[w].phase = "working"
  /\ held' = [held EXCEPT ![w].phase = "completing"]
  /\ LeaveHeartbeat(w)
  /\ UNCHANGED <<jobs, retried, crashes>>

WorkRaises(w) ==
  /\ held[w].phase = "working"
  /\ held' = [held EXCEPT ![w].phase = "failing"]
  /\ LeaveHeartbeat(w)
  /\ UNCHANGED <<jobs, retried, crashes>>

\* Mutant of Complete: lease_owner is not cleared.
CompleteKeepsLease(w) ==
  LET j == held[w].job IN
  /\ held[w].phase = "completing"
  /\ Owns(w, j)
  /\ jobs' = [jobs EXCEPT ![j] =
       [@ EXCEPT !.status = "completed", !.result = held[w].attempt, !.finished = TRUE]]
  /\ \/ held' = [held EXCEPT ![w] = Idle]
     \/ held' = [held EXCEPT ![w].phase = "failing"]
  /\ UNCHANGED <<beats, retried, crashes>>

\* complete committed; the re-read that follows may still raise, which takes
\* process_next to its exception handler and so to fail.
Complete(w) ==
  LET j == held[w].job IN
  /\ held[w].phase = "completing"
  /\ Owns(w, j)
  /\ jobs' = [jobs EXCEPT ![j] =
       [@ EXCEPT !.status = "completed", !.result = held[w].attempt, !.finished = TRUE,
                 !.lease_owner = NULL, !.lease = 0]]
  /\ \/ held' = [held EXCEPT ![w] = Idle]
     \/ held' = [held EXCEPT ![w].phase = "failing"]
  /\ UNCHANGED <<beats, retried, crashes>>

\* complete raised job_not_running: a FraudShieldError, handled by fail.
CompleteLost(w) ==
  /\ held[w].phase = "completing"
  /\ ~Owns(w, held[w].job)
  /\ held' = [held EXCEPT ![w].phase = "failing"]
  /\ UNCHANGED <<jobs, beats, retried, crashes>>

\* Mutant of FailRead: attempts <= max_attempts.
FailReadOffByOne(w) ==
  LET row == jobs[held[w].job] IN
  /\ held[w].phase = "failing"
  /\ held' = [held EXCEPT ![w].phase = "fail_write",
                          ![w].next = IF row.attempts <= row.max_attempts
                                      THEN "queued" ELSE "failed"]
  /\ UNCHANGED <<jobs, beats, retried, crashes>>

\* fail, before its transaction: the read that decides on queued or failed.
FailRead(w) ==
  LET row == jobs[held[w].job] IN
  /\ held[w].phase = "failing"
  /\ held' = [held EXCEPT ![w].phase = "fail_write",
                          ![w].next = IF row.attempts < row.max_attempts
                                      THEN "queued" ELSE "failed"]
  /\ UNCHANGED <<jobs, beats, retried, crashes>>

\* Mutant of FailOwns: WHERE id=?
FailOwnsAny(w) == TRUE

\* WHERE id=? AND lease_owner=?  (fail does not look at the status)
FailOwns(w) == jobs[held[w].job].lease_owner = w

\* fail, its transaction.
FailWrite(w) ==
  LET j == held[w].job
      next == held[w].next IN
  /\ held[w].phase = "fail_write"
  /\ jobs' = IF FailOwns(w)
             THEN [jobs EXCEPT ![j] =
                    [@ EXCEPT !.status = next, !.wait = RetryTicks,
                              !.finished = (next = "failed"), !.error = TRUE,
                              !.lease_owner = NULL, !.lease = 0]]
             ELSE jobs
  /\ held' = [held EXCEPT ![w] = Idle]
  /\ UNCHANGED <<beats, retried, crashes>>

\* The process dies and is started again under the same id.
Crash(w) ==
  /\ crashes < MaxCrashes
  /\ held' = [held EXCEPT ![w] = Idle]
  /\ beats' = [beats EXCEPT ![w] = {}]
  /\ crashes' = crashes + 1
  /\ UNCHANGED <<jobs, retried>>

-----------------------------------------------------------------------------
(* Time *)

Down(n) == IF n = 0 THEN 0 ELSE n - 1

Tick ==
  /\ \E j \in Job : jobs[j].wait > 0 \/ jobs[j].lease > 0
  /\ jobs' = [j \in Job |-> [jobs[j] EXCEPT !.wait = Down(@), !.lease = Down(@)]]
  /\ UNCHANGED <<held, beats, retried, crashes>>

-----------------------------------------------------------------------------

ClientNext ==
  \E j \in Job :
    \/ \E a \in Apk, k \in Key \cup {NULL}, p \in Priority, m \in 1 .. MaxAttempts :
         Enqueue(j, a, k, p, m)
    \/ Cancel(j)
    \/ Retry(j)

\* The steps of the worker's own thread, run_forever -> process_next.
WorkerStep(w) ==
  \/ Claim(w)
  \/ WorkReturns(w)
  \/ WorkRaises(w)
  \/ Complete(w)
  \/ CompleteLost(w)
  \/ FailRead(w)
  \/ FailWrite(w)

WorkerNext ==
  \E w \in Worker :
    \/ WorkerStep(w)
    \/ \E j \in Job : Renew(w, j)
    \/ Crash(w)

Next == ClientNext \/ WorkerNext \/ Tick

Spec == Init /\ [][Next]_vars

\* Time passes, and a worker that is not inside _process_apk takes its next step:
\* run_forever polls for ever.  An analysis need not end: run_guarded reports a
\* timeout only after the executor it leaves has waited for the engine's thread.
\* Clients, heartbeats (their database may be away) and crashes are not fair.
Fairness ==
  /\ WF_vars(Tick)
  /\ \A w \in Worker : WF_vars(WorkerStep(w) /\ held[w].phase # "working")

FairSpec == Spec /\ Fairness

-----------------------------------------------------------------------------
(* Properties *)

\* The rows and the workers' variables have the types of the schema and the
\* code; no row counts more attempts than its client may ask for.
TypeOK ==
  /\ jobs \in [Job -> Row]
  /\ held \in [Worker -> Holding]
  /\ beats \in [Worker -> SUBSET Job]
  /\ retried \in [Job -> 0 .. MaxRetries]
  /\ crashes \in 0 .. MaxCrashes
  /\ \A w \in Worker : held[w].phase # "idle" => held[w].job \in Job

\* The columns of a row agree with its status, whatever order claim, complete,
\* fail, cancel and retry came in: a lease is held exactly while the job runs,
\* completed_at is set exactly on terminal jobs, a result is stored exactly on
\* completed ones, and neither a running nor a completed job shows an error.
RowConsistent ==
  \A j \in Job :
    /\ jobs[j].lease_owner # NULL <=> jobs[j].status = "running"
    /\ jobs[j].finished <=> jobs[j].status \in Terminal
    /\ jobs[j].result # 0 <=> jobs[j].status = "completed"
    /\ jobs[j].status \in {"running", "completed"} => ~jobs[j].error

\* A worker that still owns a running row works on the row's current attempt,
\* although retry resets the counter and leases change hands: lease_owner
\* alone, without the attempt number, identifies the attempt.
HolderIsFresh ==
  \A w \in Worker :
    held[w].phase # "idle" /\ jobs[held[w].job].lease_owner = w
      => held[w].attempt = jobs[held[w].job].attempts

\* The attempt budget decides the outcome of a failure, although fail reads
\* attempts outside the transaction that uses it: a job is back in the queue
\* only while it has attempts left, and fails only when it has used them all.
AttemptBudget ==
  \A j \in Job :
    /\ jobs[j].status = "queued" => jobs[j].attempts < jobs[j].max_attempts
    /\ jobs[j].status = "failed" => jobs[j].attempts = jobs[j].max_attempts
    /\ jobs[j].status \in {"running", "completed"} => jobs[j].attempts > 0

\* A job stops running only by the hand of the worker whose current attempt
\* owns its lease; a worker that lost the lease changes nothing.
SettledByHolder ==
  [][\A j \in Job :
       jobs[j].status = "running" /\ jobs'[j].status # "running"
         => \E w \in Worker :
              /\ Owns(w, j)
              /\ held[w].job = j
              /\ held[w].attempt = jobs[j].attempts
              /\ held'[w] # held[w]]_vars

\* A completed job never changes again, although fail has no guard on the
\* status and a late heartbeat may still renew.
CompletedIsFinal ==
  [][\A j \in Job : jobs[j].status = "completed" => jobs'[j] = jobs[j]]_vars

\* The last attempt at j died with its worker: the recorded owner no longer works
\* on the row, and claim no longer selects it.
Abandoned(j) ==
  /\ jobs[j].status = "running"
  /\ jobs[j].attempts = jobs[j].max_attempts
  /\ \A w \in Worker : Owns(w, j) => held[w].job # j

\* The worker that owns the job is inside an analysis that never ends, or every
\* worker is: heartbeats renew the lease, and a lease that expires all the same
\* helps only while another worker and another attempt are left.
HeldUp(j) ==
  \/ \E w \in Worker : <>[](Working(w, j) /\ Owns(w, j))
  \/ <>[](\A w \in Worker : held[w].phase = "working")

\* Every queued job ends, whatever the order of failures, expired leases,
\* takeovers, retries and crashes, unless the worker process dies in the job's
\* last attempt, or engines hang for ever: the one that owns the job, or one in
\* every worker.  In particular a worker that hangs in another job, or in one it
\* has lost, keeps nobody from ending this one.
EveryJobEnds ==
  \A j \in Job :
    \/ jobs[j].status = "queued" ~> (jobs[j].status \in Terminal \/ Abandoned(j))
    \/ HeldUp(j)

\* docs/runbooks/BACKUP_RESTORE.md:51: "Jobs that were `running` at the
\* recovery point may be reclaimed after their lease expires": a running job
\* that no worker works on any more satisfies the WHERE clause of claim once
\* its lease has expired.
AbandonedIsReclaimable ==
  \A j \in Job :
    /\ jobs[j].status = "running" /\ jobs[j].lease = 0
    /\ \A w \in Worker : held[w].job # j
    => Claimable(j)

\* The queue keeps the promise of JobContract: the public columns of the table,
\* read while workers race, look as if every attempt were taken, given back,
\* exhausted or finished in one step.
Contract ==
  INSTANCE JobContract WITH
    status   <- [j \in Job |-> jobs[j].status],
    attempts <- [j \in Job |-> jobs[j].attempts],
    budget   <- [j \in Job |-> jobs[j].max_attempts],
    result   <- [j \in Job |-> jobs[j].result]

ImplementsContract == Contract!Spec
=============================================================================
