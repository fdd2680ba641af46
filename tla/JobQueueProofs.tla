--------------------------- MODULE JobQueueProofs ---------------------------
(***************************************************************************)
(* Proofs about JobQueue, for every number of jobs, workers, attempts and  *)
(* crashes and for every length of a lease.                                *)
(*                                                                         *)
(* The inductive invariant is the type invariant, the three invariants of  *)
(* the runs, and what they need to survive a step: the decision that fail  *)
(* has read is still true while its worker owns the row, no attempt is     *)
(* counted beyond the budget, and no clock runs for a row at rest.         *)
(***************************************************************************)
EXTENDS JobQueue, TLAPS

\* fail decides on `next` outside its transaction.  As long as the worker still
\* owns the row the decision is the one it would take inside.
FailDecision ==
  \A w \in Worker :
    held[w].phase = "fail_write" /\ jobs[held[w].job].lease_owner = w
      => held[w].next = IF jobs[held[w].job].attempts < jobs[held[w].job].max_attempts
                        THEN "queued" ELSE "failed"

WithinBudget == \A j \in Job : jobs[j].attempts <= jobs[j].max_attempts

\* A row that is not running has no lease to expire, and one that runs or has
\* completed waits for nothing.
ClocksAtRest ==
  \A j \in Job :
    /\ jobs[j].status # "running" => jobs[j].lease = 0
    /\ jobs[j].status \in {"running", "completed"} => jobs[j].wait = 0

IInv ==
  /\ TypeOK
  /\ RowConsistent
  /\ HolderIsFresh
  /\ AttemptBudget
  /\ FailDecision
  /\ WithinBudget
  /\ ClocksAtRest

\* The empty table and idle workers satisfy the invariant.
LEMMA InitInv == Init => IInv
  <1> SUFFICES ASSUME Init PROVE IInv
    OBVIOUS
  <1> USE QueueAssumption DEF Init
  <1>1. NoRow \in Row
    BY DEF NoRow, Row, Status
  <1>2. Idle \in Holding
    BY DEF Idle, Holding, Phase
  <1>3. TypeOK
    BY <1>1, <1>2 DEF TypeOK, Idle
  <1>4. RowConsistent
    BY DEF RowConsistent, NoRow, Terminal
  <1>5. HolderIsFresh /\ FailDecision
    BY DEF HolderIsFresh, FailDecision, Idle
  <1>6. AttemptBudget /\ WithinBudget /\ ClocksAtRest
    BY DEF AttemptBudget, WithinBudget, ClocksAtRest, NoRow
  <1> QED
    BY <1>3, <1>4, <1>5, <1>6 DEF IInv

\* Each column may be updated on its own, within its type.
LEMMA RowFields ==
  ASSUME NEW r \in Row
  PROVE  /\ \A s \in Status : [r EXCEPT !.status = s] \in Row
         /\ \A a \in Apk \cup {NULL} : [r EXCEPT !.apk = a] \in Row
         /\ \A k \in Key \cup {NULL} : [r EXCEPT !.key = k] \in Row
         /\ \A n \in Nat : [r EXCEPT !.priority = n] \in Row
         /\ \A o \in SUBSET Job : [r EXCEPT !.older = o] \in Row
         /\ \A n \in 0 .. MaxAttempts : [r EXCEPT !.attempts = n] \in Row
         /\ \A n \in 1 .. MaxAttempts : [r EXCEPT !.max_attempts = n] \in Row
         /\ \A n \in 0 .. RetryTicks : [r EXCEPT !.wait = n] \in Row
         /\ \A w \in Worker \cup {NULL} : [r EXCEPT !.lease_owner = w] \in Row
         /\ \A n \in 0 .. LeaseTicks : [r EXCEPT !.lease = n] \in Row
         /\ \A n \in 0 .. MaxAttempts : [r EXCEPT !.result = n] \in Row
         /\ \A b \in BOOLEAN : [r EXCEPT !.finished = b] \in Row
         /\ \A b \in BOOLEAN : [r EXCEPT !.error = b] \in Row
  BY DEF Row

LEMMA HoldingFields ==
  ASSUME NEW h \in Holding
  PROVE  /\ \A p \in Phase : [h EXCEPT !.phase = p] \in Holding
         /\ \A n \in {"queued", "failed"} : [h EXCEPT !.next = n] \in Holding
  BY DEF Holding

\* The values that the actions assign have the types of their columns.
LEMMA RowValues ==
  /\ {"queued", "running", "completed", "failed", "cancelled"} \subseteq Status
  /\ NULL \in Worker \cup {NULL}
  /\ 0 \in 0 .. MaxAttempts
  /\ {0, LeaseTicks} \subseteq 0 .. LeaseTicks
  /\ {0, RetryTicks} \subseteq 0 .. RetryTicks
  BY QueueAssumption DEF Status

\* A row as enqueue inserts it has the types of its columns.
LEMMA NewRowType ==
  ASSUME NEW a \in Apk, NEW k \in Key \cup {NULL}, NEW p \in Priority,
         NEW m \in 1 .. MaxAttempts, NEW o \in SUBSET Job
  PROVE  [NoRow EXCEPT !.status = "queued", !.apk = a, !.key = k, !.priority = p,
                       !.max_attempts = m, !.older = o] \in Row
  <1> DEFINE r1 == [NoRow EXCEPT !.status = "queued"]
             r2 == [r1 EXCEPT !.apk = a]
             r3 == [r2 EXCEPT !.key = k]
             r4 == [r3 EXCEPT !.priority = p]
             r5 == [r4 EXCEPT !.max_attempts = m]
             r6 == [r5 EXCEPT !.older = o]
  <1> HIDE DEF r1, r2, r3, r4, r5, r6
  <1>0. NoRow \in Row
    BY QueueAssumption DEF NoRow, Row, Status
  <1>1. r1 \in Row
    BY <1>0, RowFields, RowValues DEF r1
  <1>2. r2 \in Row
    BY <1>1, RowFields DEF r2
  <1>3. r3 \in Row
    BY <1>2, RowFields DEF r3
  <1>4. r4 \in Row
    <2>1. p \in Nat
      BY QueueAssumption
    <2> QED
      BY <1>3, <2>1, RowFields DEF r4
  <1>5. r5 \in Row
    BY <1>4, RowFields DEF r5
  <1>6. r6 \in Row
    BY <1>5, RowFields DEF r6
  <1> QED
    BY ONLY <1>6 DEF r1, r2, r3, r4, r5, r6

\* A row enters the table as a queued one with its whole budget.
LEMMA EnqueueInv ==
  ASSUME IInv, NEW j \in Job, NEW a \in Apk, NEW k \in Key \cup {NULL},
         NEW p \in Priority, NEW m \in 1 .. MaxAttempts, Enqueue(j, a, k, p, m)
  PROVE  IInv'
  <1> USE QueueAssumption DEF IInv, Enqueue, NoRow, Exists
  <1>1. TypeOK'
    <2> DEFINE row == [NoRow EXCEPT !.status = "queued", !.apk = a, !.key = k,
                         !.priority = p, !.max_attempts = m,
                         !.older = {i \in Job : Exists(i)}]
    <2>1. row \in Row
      BY NewRowType
    <2>2. jobs' = [jobs EXCEPT ![j] = row]
      OBVIOUS
    <2>3. jobs' \in [Job -> Row]
      BY <2>1, <2>2 DEF TypeOK
    <2> QED
      BY <2>3 DEF TypeOK
  <1>2. RowConsistent'
    BY DEF RowConsistent, Terminal, TypeOK, Row, Status, Holding, Phase, HolderIsFresh, AttemptBudget
  <1>3. HolderIsFresh'
    BY DEF HolderIsFresh, TypeOK, Row, Holding, RowConsistent
  <1>4. AttemptBudget'
    BY DEF AttemptBudget, TypeOK, Row, Holding, RowConsistent, FailDecision, WithinBudget
  <1>5. FailDecision'
    BY DEF FailDecision, TypeOK, Row, Holding, RowConsistent
  <1>6. WithinBudget'
    BY DEF WithinBudget, TypeOK, Row
  <1>7. ClocksAtRest'
    BY DEF ClocksAtRest, TypeOK, Row, RowConsistent, Status
  <1> QED
    BY <1>1, <1>2, <1>3, <1>4, <1>5, <1>6, <1>7

\* cancel.
LEMMA CancelInv ==
  ASSUME IInv, NEW j \in Job, Cancel(j)
  PROVE  IInv'
  <1> USE QueueAssumption DEF IInv, Cancel
  <1>1. TypeOK'
    <2> DEFINE row == [jobs[j] EXCEPT !.status = "cancelled", !.finished = TRUE]
    <2>1. row \in Row
      BY RowFields, RowValues DEF TypeOK
    <2>2. jobs' = [jobs EXCEPT ![j] = row]
      BY DEF TypeOK
    <2> QED
      BY <2>1, <2>2 DEF TypeOK
  <1>2. RowConsistent'
    BY DEF RowConsistent, Terminal, TypeOK, Row, Status, Holding, Phase, HolderIsFresh, AttemptBudget
  <1>3. HolderIsFresh'
    BY DEF HolderIsFresh, TypeOK, Row, Holding, RowConsistent
  <1>4. AttemptBudget'
    BY DEF AttemptBudget, TypeOK, Row, Holding, RowConsistent, FailDecision, WithinBudget
  <1>5. FailDecision'
    BY DEF FailDecision, TypeOK, Row, Holding, RowConsistent
  <1>6. WithinBudget'
    BY DEF WithinBudget, TypeOK, Row
  <1>7. ClocksAtRest'
    BY DEF ClocksAtRest, TypeOK, Row, RowConsistent, Status
  <1> QED
    BY <1>1, <1>2, <1>3, <1>4, <1>5, <1>6, <1>7

\* retry.
LEMMA RetryInv ==
  ASSUME IInv, NEW j \in Job, Retry(j)
  PROVE  IInv'
  <1> USE QueueAssumption DEF IInv, Retry
  <1>1. TypeOK'
    <2> DEFINE row == [jobs[j] EXCEPT !.status = "queued", !.attempts = 0, !.wait = 0,
                         !.finished = FALSE, !.lease_owner = NULL, !.lease = 0,
                         !.error = FALSE]
    <2>1. row \in Row
      BY RowFields, RowValues DEF TypeOK
    <2>2. jobs' = [jobs EXCEPT ![j] = row] /\ retried' \in [Job -> 0 .. MaxRetries]
      BY DEF TypeOK
    <2> QED
      BY <2>1, <2>2 DEF TypeOK
  <1>2. RowConsistent'
    BY DEF RowConsistent, Terminal, TypeOK, Row, Status, Holding, Phase, HolderIsFresh, AttemptBudget
  <1>3. HolderIsFresh'
    BY DEF HolderIsFresh, TypeOK, Row, Holding, RowConsistent
  <1>4. AttemptBudget'
    BY DEF AttemptBudget, TypeOK, Row, Holding, RowConsistent, FailDecision, WithinBudget
  <1>5. FailDecision'
    BY DEF FailDecision, TypeOK, Row, Holding, RowConsistent
  <1>6. WithinBudget'
    BY DEF WithinBudget, TypeOK, Row
  <1>7. ClocksAtRest'
    BY DEF ClocksAtRest, TypeOK, Row, RowConsistent, Status
  <1> QED
    BY <1>1, <1>2, <1>3, <1>4, <1>5, <1>6, <1>7

\* claim: a queued row, or one whose lease has expired, gets a new owner.
LEMMA ClaimInv ==
  ASSUME IInv, NEW w \in Worker, Claim(w)
  PROVE  IInv'
  <1> USE QueueAssumption DEF IInv
  <1>a. PICK j \in Job :
          /\ Claimable(j)
          /\ jobs' = [jobs EXCEPT ![j] =
               [jobs[j] EXCEPT !.status = "running", !.lease_owner = w, !.lease = LeaseTicks,
                               !.attempts = jobs[j].attempts + 1, !.error = FALSE]]
          /\ held' = [held EXCEPT ![w] =
               [phase |-> "working", job |-> j, attempt |-> jobs[j].attempts + 1,
                next |-> "queued"]]
          /\ beats' = [beats EXCEPT ![w] = @ \cup {j}]
    BY DEF Claim
  <1> DEFINE row == [jobs[j] EXCEPT !.status = "running", !.lease_owner = w,
                       !.lease = LeaseTicks, !.attempts = jobs[j].attempts + 1,
                       !.error = FALSE]
  <1>b. jobs' = [jobs EXCEPT ![j] = row]
    BY <1>a
  <1>c. /\ jobs[j] \in Row /\ jobs[j].attempts \in Nat /\ jobs[j].max_attempts \in 1 .. MaxAttempts
        /\ jobs[j].attempts + 1 <= jobs[j].max_attempts
    BY <1>a DEF TypeOK, Row, Claimable
  <1>d. /\ jobs[j].wait = 0 /\ jobs[j].status \in {"queued", "running"}
        /\ ~jobs[j].finished /\ jobs[j].result = 0
    BY <1>a DEF Claimable, RowConsistent, Terminal
  <1>e. UNCHANGED <<retried, crashes>> /\ held[w].phase = "idle"
    BY DEF Claim
  <1>f. row \in Row
    <2>1. jobs[j].attempts + 1 \in 0 .. MaxAttempts
      BY <1>c
    <2> QED
      BY <1>c, <2>1, RowFields, RowValues
  <1>g. /\ row.status = "running" /\ row.lease_owner = w /\ row.lease = LeaseTicks
        /\ row.attempts = jobs[j].attempts + 1 /\ row.error = FALSE
        /\ row.max_attempts = jobs[j].max_attempts /\ row.wait = jobs[j].wait
        /\ row.finished = jobs[j].finished /\ row.result = jobs[j].result
    BY <1>c DEF Row
  <1>h. jobs'[j] = row /\ \A i \in Job \ {j} : jobs'[i] = jobs[i]
    BY <1>b DEF TypeOK
  <1>i. /\ held'[w].job = j /\ held'[w].attempt = jobs[j].attempts + 1
        /\ held'[w].phase = "working"
        /\ \A v \in Worker \ {w} : held'[v] = held[v]
    BY <1>a DEF TypeOK
  <1> HIDE DEF row
  <1>1. TypeOK'
    <2>1. held' \in [Worker -> Holding]
      BY <1>a, <1>c DEF TypeOK, Holding, Phase
    <2>2. beats' \in [Worker -> SUBSET Job]
      BY <1>a DEF TypeOK
    <2>3. \A v \in Worker : held'[v].phase # "idle" => held'[v].job \in Job
      BY <1>i DEF TypeOK
    <2> QED
      BY <1>b, <1>e, <1>f, <2>1, <2>2, <2>3 DEF TypeOK
  <1>2. RowConsistent'
    BY <1>d, <1>g, <1>h DEF RowConsistent, Terminal
  <1>3. HolderIsFresh'
    BY <1>a, <1>g, <1>h, <1>i DEF HolderIsFresh, TypeOK
  <1>4. AttemptBudget'
    BY <1>c, <1>g, <1>h DEF AttemptBudget
  <1>5. FailDecision'
    BY <1>g, <1>h, <1>i DEF FailDecision, TypeOK
  <1>6. WithinBudget'
    BY <1>c, <1>g, <1>h DEF WithinBudget
  <1>7. ClocksAtRest'
    BY <1>d, <1>g, <1>h DEF ClocksAtRest
  <1> QED
    BY <1>1, <1>2, <1>3, <1>4, <1>5, <1>6, <1>7

\* renew_lease touches the lease of a running row only.
LEMMA RenewInv ==
  ASSUME IInv, NEW w \in Worker, NEW j \in Job, Renew(w, j)
  PROVE  IInv'
  <1> USE QueueAssumption DEF IInv, Renew, Owns
  <1>1. TypeOK'
    <2>1. [jobs[j] EXCEPT !.lease = LeaseTicks] \in Row
      BY DEF TypeOK, Row
    <2>2. jobs' \in [Job -> Row]
      BY <2>1 DEF TypeOK
    <2>3. beats' \in [Worker -> SUBSET Job]
      BY DEF TypeOK
    <2> QED
      BY <2>2, <2>3 DEF TypeOK
  <1>2. RowConsistent'
    BY DEF RowConsistent, Terminal, TypeOK, Row, Status, Holding, Phase, HolderIsFresh, AttemptBudget
  <1>3. HolderIsFresh'
    BY DEF HolderIsFresh, TypeOK, Row, Holding, RowConsistent
  <1>4. AttemptBudget'
    BY DEF AttemptBudget, TypeOK, Row, Holding, RowConsistent, FailDecision, WithinBudget
  <1>5. FailDecision'
    BY DEF FailDecision, TypeOK, Row, Holding, RowConsistent
  <1>6. WithinBudget'
    BY DEF WithinBudget, TypeOK, Row
  <1>7. ClocksAtRest'
    BY DEF ClocksAtRest, TypeOK, Row, RowConsistent, Status
  <1> QED
    BY <1>1, <1>2, <1>3, <1>4, <1>5, <1>6, <1>7

\* complete: the owner's attempt is the current one, so a result is stored.
LEMMA CompleteInv ==
  ASSUME IInv, NEW w \in Worker, Complete(w)
  PROVE  IInv'
  <1> USE QueueAssumption DEF IInv, Complete, Owns, Idle
  <1> DEFINE j == held[w].job
             row == [jobs[j] EXCEPT !.status = "completed", !.result = held[w].attempt,
                       !.finished = TRUE, !.lease_owner = NULL, !.lease = 0]
  <1>a. /\ j \in Job /\ jobs[j] \in Row /\ held[w] \in Holding
        /\ jobs[j].status = "running" /\ jobs[j].lease_owner = w
    BY DEF TypeOK
  <1>b. jobs' = [jobs EXCEPT ![j] = row]
    OBVIOUS
  <1>1. TypeOK'
    <2>1. row \in Row
      <3>1. held[w].attempt \in 0 .. MaxAttempts
        BY <1>a DEF Holding
      <3> QED
        BY <1>a, <3>1, RowFields, RowValues
    <2>2. held' \in [Worker -> Holding]
      BY DEF TypeOK, Holding, Phase
    <2>3. \A v \in Worker : held'[v].phase # "idle" => held'[v].job \in Job
      <3>1. \A v \in Worker : held'[v].phase # "idle" =>
              held'[v].job = held[v].job /\ held[v].phase # "idle"
        BY DEF TypeOK, Holding
      <3> QED
        BY <3>1 DEF TypeOK
    <2> QED
      BY <1>a, <1>b, <2>1, <2>2, <2>3 DEF TypeOK
  <1>2. RowConsistent'
    BY DEF RowConsistent, Terminal, TypeOK, Row, Status, Holding, Phase, HolderIsFresh, AttemptBudget
  <1>3. HolderIsFresh'
    <2> SUFFICES ASSUME NEW v \in Worker, held'[v].phase # "idle",
                        jobs'[held'[v].job].lease_owner = v
                 PROVE  held'[v].attempt = jobs'[held'[v].job].attempts
      BY DEF HolderIsFresh
    <2>1. held'[v].job = held[v].job /\ held'[v].attempt = held[v].attempt
          /\ held[v].phase # "idle"
      BY DEF TypeOK, Holding
    <2>2. held[v].job # j
      BY <1>a, <1>b, <2>1 DEF TypeOK, Row
    <2>3. jobs'[held[v].job] = jobs[held[v].job]
      BY <1>b, <2>1, <2>2 DEF TypeOK
    <2> QED
      BY <2>1, <2>3 DEF HolderIsFresh
  <1>4. AttemptBudget'
    BY DEF AttemptBudget, TypeOK, Row, Holding, RowConsistent, FailDecision, WithinBudget
  <1>5. FailDecision'
    <2> SUFFICES ASSUME NEW v \in Worker, held'[v].phase = "fail_write",
                        jobs'[held'[v].job].lease_owner = v
                 PROVE  held'[v].next = IF jobs'[held'[v].job].attempts < jobs'[held'[v].job].max_attempts
                                        THEN "queued" ELSE "failed"
      BY DEF FailDecision
    <2>1. held'[v] = held[v]
      BY DEF TypeOK, Holding
    <2>2. held[v].job # j
      BY <1>a, <1>b, <2>1 DEF TypeOK, Row
    <2>3. jobs'[held[v].job] = jobs[held[v].job]
      BY <1>b, <2>1, <2>2 DEF TypeOK
    <2> QED
      BY <2>1, <2>3 DEF FailDecision
  <1>6. WithinBudget'
    BY DEF WithinBudget, TypeOK, Row
  <1>7. ClocksAtRest'
    BY DEF ClocksAtRest, TypeOK, Row, RowConsistent, Status
  <1> QED
    BY <1>1, <1>2, <1>3, <1>4, <1>5, <1>6, <1>7

\* fail takes its decision from the row that it reads.
LEMMA FailReadInv ==
  ASSUME IInv, NEW w \in Worker, FailRead(w)
  PROVE  IInv'
  <1> USE QueueAssumption DEF IInv, FailRead
  <1>1. TypeOK'
    <2> DEFINE next == IF jobs[held[w].job].attempts < jobs[held[w].job].max_attempts
                       THEN "queued" ELSE "failed"
    <2>1. [held[w] EXCEPT !.phase = "fail_write", !.next = next] \in Holding
      <3>1. next \in {"queued", "failed"} /\ held[w] \in Holding /\ "fail_write" \in Phase
        BY DEF TypeOK, Phase
      <3> HIDE DEF next
      <3> QED
        BY <3>1, HoldingFields
    <2>2. held' = [held EXCEPT ![w] = [held[w] EXCEPT !.phase = "fail_write", !.next = next]]
      OBVIOUS
    <2>3. \A v \in Worker : held'[v].phase # "idle" => held'[v].job \in Job
      BY DEF TypeOK, Holding
    <2> QED
      BY <2>1, <2>2, <2>3 DEF TypeOK
  <1>2. RowConsistent'
    BY DEF RowConsistent, Terminal, TypeOK, Row, Status, Holding, Phase, HolderIsFresh, AttemptBudget
  <1>3. HolderIsFresh'
    BY DEF HolderIsFresh, TypeOK, Row, Holding, RowConsistent
  <1>4. AttemptBudget'
    BY DEF AttemptBudget, TypeOK, Row, Holding, RowConsistent, FailDecision, WithinBudget
  <1>5. FailDecision'
    BY DEF FailDecision, TypeOK, Row, Holding, RowConsistent
  <1>6. WithinBudget'
    BY DEF WithinBudget, TypeOK, Row
  <1>7. ClocksAtRest'
    BY DEF ClocksAtRest, TypeOK, Row, RowConsistent, Status
  <1> QED
    BY <1>1, <1>2, <1>3, <1>4, <1>5, <1>6, <1>7

\* fail gives the row back, or ends it, by a decision that is still true.
LEMMA FailWriteInv ==
  ASSUME IInv, NEW w \in Worker, FailWrite(w)
  PROVE  IInv'
  <1> USE QueueAssumption DEF IInv
  <1>a. PICK j \in Job, next \in {"queued", "failed"} :
          j = held[w].job /\ next = held[w].next
    BY DEF FailWrite, TypeOK, Holding
  <1>b. /\ held[w].phase = "fail_write"
        /\ held' = [held EXCEPT ![w] = Idle]
        /\ UNCHANGED <<beats, retried, crashes>>
    BY DEF FailWrite
  <1>c. /\ held' \in [Worker -> Holding]
        /\ held'[w].phase = "idle"
        /\ \A v \in Worker \ {w} : held'[v] = held[v]
    BY <1>b DEF TypeOK, Idle, Holding, Phase
  <1>1. CASE ~FailOwns(w)
    <2>1. jobs' = jobs
      BY <1>1 DEF FailWrite
    <2>2. TypeOK'
      BY <1>b, <1>c, <2>1 DEF TypeOK
    <2>3. HolderIsFresh' /\ FailDecision'
      BY <1>c, <2>1 DEF HolderIsFresh, FailDecision
    <2>4. RowConsistent' /\ AttemptBudget' /\ WithinBudget' /\ ClocksAtRest'
      BY <2>1 DEF RowConsistent, AttemptBudget, WithinBudget, ClocksAtRest
    <2> QED
      BY <2>2, <2>3, <2>4
  <1>2. CASE FailOwns(w)
    <2> DEFINE row == [jobs[j] EXCEPT !.status = next, !.wait = RetryTicks,
                         !.finished = (next = "failed"), !.error = TRUE,
                         !.lease_owner = NULL, !.lease = 0]
    <2>a. jobs' = [jobs EXCEPT ![j] = row]
      BY <1>a, <1>2 DEF FailWrite
    <2>b. jobs[j] \in Row /\ jobs[j].attempts \in Nat /\ jobs[j].max_attempts \in Nat
      BY DEF TypeOK, Row
    <2>c. jobs[j].status = "running" /\ jobs[j].result = 0 /\ jobs[j].attempts > 0
      BY <1>2, <1>a DEF FailOwns, RowConsistent, AttemptBudget
    <2>d. next = IF jobs[j].attempts < jobs[j].max_attempts THEN "queued" ELSE "failed"
      BY <1>2, <1>a, <1>b DEF FailOwns, FailDecision
    <2>e. row \in Row
      <3>1. next \in Status /\ (next = "failed") \in BOOLEAN
        BY DEF Status
      <3> QED
        BY <2>b, <3>1, RowFields, RowValues
    <2>f. /\ row.status = next /\ row.wait = RetryTicks /\ row.lease_owner = NULL
          /\ row.lease = 0 /\ (row.finished <=> next = "failed") /\ row.error = TRUE
          /\ row.attempts = jobs[j].attempts /\ row.max_attempts = jobs[j].max_attempts
          /\ row.result = jobs[j].result
      BY <2>b DEF Row
    <2>g. jobs'[j] = row /\ \A i \in Job \ {j} : jobs'[i] = jobs[i]
      BY <2>a DEF TypeOK
    <2> HIDE DEF row
    <2>1. TypeOK'
      BY <1>b, <1>c, <2>a, <2>e DEF TypeOK
    <2>2. RowConsistent'
      BY <2>c, <2>f, <2>g DEF RowConsistent, Terminal
    <2>3. HolderIsFresh'
      BY <1>c, <2>f, <2>g DEF HolderIsFresh, TypeOK
    <2>4. AttemptBudget'
      BY <2>b, <2>c, <2>d, <2>f, <2>g DEF AttemptBudget, WithinBudget
    <2>5. FailDecision'
      BY <1>c, <2>f, <2>g DEF FailDecision, TypeOK
    <2>6. WithinBudget'
      BY <2>f, <2>g DEF WithinBudget
    <2>7. ClocksAtRest'
      BY <2>f, <2>g DEF ClocksAtRest
    <2> QED
      BY <2>1, <2>2, <2>3, <2>4, <2>5, <2>6, <2>7
  <1> QED
    BY <1>1, <1>2

\* A crash forgets local variables only.
LEMMA CrashInv ==
  ASSUME IInv, NEW w \in Worker, Crash(w)
  PROVE  IInv'
  <1> USE QueueAssumption DEF IInv, Crash, Idle
  <1>1. TypeOK'
    BY DEF TypeOK, Holding, Phase
  <1>2. RowConsistent'
    BY DEF RowConsistent, Terminal, TypeOK, Row, Status, Holding, Phase, HolderIsFresh, AttemptBudget
  <1>3. HolderIsFresh'
    BY DEF HolderIsFresh, TypeOK, Row, Holding, RowConsistent
  <1>4. AttemptBudget'
    BY DEF AttemptBudget, TypeOK, Row, Holding, RowConsistent, FailDecision, WithinBudget
  <1>5. FailDecision'
    BY DEF FailDecision, TypeOK, Row, Holding, RowConsistent
  <1>6. WithinBudget'
    BY DEF WithinBudget, TypeOK, Row
  <1>7. ClocksAtRest'
    BY DEF ClocksAtRest, TypeOK, Row, RowConsistent, Status
  <1> QED
    BY <1>1, <1>2, <1>3, <1>4, <1>5, <1>6, <1>7

\* The other steps of a worker change its own phase and heartbeats only.
LEMMA ReturnInv ==
  ASSUME IInv, NEW w \in Worker, WorkReturns(w) \/ WorkRaises(w) \/ CompleteLost(w)
  PROVE  IInv'
  <1> USE QueueAssumption DEF IInv, WorkReturns, WorkRaises, CompleteLost, LeaveHeartbeat
  <1>1. TypeOK'
    <2>1. held' \in [Worker -> Holding]
      BY DEF TypeOK, Holding, Phase
    <2>2. beats' \in [Worker -> SUBSET Job]
      BY DEF TypeOK
    <2>3. \A v \in Worker : held'[v].phase # "idle" => held'[v].job \in Job
      BY DEF TypeOK, Holding
    <2> QED
      BY <2>1, <2>2, <2>3 DEF TypeOK
  <1>2. RowConsistent'
    BY DEF RowConsistent, Terminal, TypeOK, Row, Status, Holding, Phase, HolderIsFresh, AttemptBudget
  <1>3. HolderIsFresh'
    BY DEF HolderIsFresh, TypeOK, Row, Holding, RowConsistent
  <1>4. AttemptBudget'
    BY DEF AttemptBudget, TypeOK, Row, Holding, RowConsistent, FailDecision, WithinBudget
  <1>5. FailDecision'
    BY DEF FailDecision, TypeOK, Row, Holding, RowConsistent
  <1>6. WithinBudget'
    BY DEF WithinBudget, TypeOK, Row
  <1>7. ClocksAtRest'
    BY DEF ClocksAtRest, TypeOK, Row, RowConsistent, Status
  <1> QED
    BY <1>1, <1>2, <1>3, <1>4, <1>5, <1>6, <1>7

\* Time: only the clocks move, and those at rest stay so.
LEMMA TickInv ==
  ASSUME IInv, Tick
  PROVE  IInv'
  <1> USE QueueAssumption DEF IInv
  <1>a. /\ jobs' = [j \in Job |-> [jobs[j] EXCEPT !.wait = Down(@), !.lease = Down(@)]]
        /\ UNCHANGED <<held, beats, retried, crashes>>
    BY DEF Tick
  <1>b. \A j \in Job :
          /\ jobs'[j] \in Row
          /\ jobs'[j].wait = Down(jobs[j].wait) /\ jobs'[j].lease = Down(jobs[j].lease)
          /\ jobs'[j].status = jobs[j].status /\ jobs'[j].attempts = jobs[j].attempts
          /\ jobs'[j].max_attempts = jobs[j].max_attempts
          /\ jobs'[j].lease_owner = jobs[j].lease_owner
          /\ jobs'[j].result = jobs[j].result /\ jobs'[j].finished = jobs[j].finished
          /\ jobs'[j].error = jobs[j].error
    <2> SUFFICES ASSUME NEW j \in Job
                 PROVE  LET row == [jobs[j] EXCEPT !.wait = Down(@), !.lease = Down(@)]
                        IN /\ row \in Row
                           /\ row.wait = Down(jobs[j].wait) /\ row.lease = Down(jobs[j].lease)
                           /\ row.status = jobs[j].status /\ row.attempts = jobs[j].attempts
                           /\ row.max_attempts = jobs[j].max_attempts
                           /\ row.lease_owner = jobs[j].lease_owner
                           /\ row.result = jobs[j].result /\ row.finished = jobs[j].finished
                           /\ row.error = jobs[j].error
      BY <1>a
    <2>1. jobs[j] \in Row
      BY DEF TypeOK
    <2>2. Down(jobs[j].wait) \in 0 .. RetryTicks /\ Down(jobs[j].lease) \in 0 .. LeaseTicks
      BY <2>1 DEF Row, Down
    <2> QED
      BY <2>1, <2>2 DEF Row
  <1>1. TypeOK'
    BY <1>a, <1>b DEF TypeOK
  <1>2. RowConsistent'
    BY <1>b DEF RowConsistent
  <1>3. HolderIsFresh'
    <2> SUFFICES ASSUME NEW w \in Worker, held[w].phase # "idle",
                        jobs'[held[w].job].lease_owner = w
                 PROVE  held[w].attempt = jobs'[held[w].job].attempts
      BY <1>a DEF HolderIsFresh
    <2>1. held[w].job \in Job
      BY DEF TypeOK
    <2> QED
      BY <1>b, <2>1 DEF HolderIsFresh
  <1>4. AttemptBudget'
    BY <1>b DEF AttemptBudget
  <1>5. FailDecision'
    <2> SUFFICES ASSUME NEW w \in Worker, held[w].phase = "fail_write",
                        jobs'[held[w].job].lease_owner = w
                 PROVE  held[w].next =
                          IF jobs'[held[w].job].attempts < jobs'[held[w].job].max_attempts
                          THEN "queued" ELSE "failed"
      BY <1>a DEF FailDecision
    <2>1. held[w].job \in Job
      BY DEF TypeOK
    <2> QED
      BY <1>b, <2>1 DEF FailDecision
  <1>6. WithinBudget'
    BY <1>b DEF WithinBudget
  <1>7. ClocksAtRest'
    BY <1>b DEF ClocksAtRest, Down
  <1> QED
    BY <1>1, <1>2, <1>3, <1>4, <1>5, <1>6, <1>7
\* Every step of the system, and the step that changes nothing.
LEMMA NextInv == IInv /\ [Next]_vars => IInv'
  <1> SUFFICES ASSUME IInv, [Next]_vars PROVE IInv'
    OBVIOUS
  <1>1. CASE ClientNext
    BY <1>1, EnqueueInv, CancelInv, RetryInv DEF ClientNext
  <1>2. CASE WorkerNext
    <2>1. PICK w \in Worker :
            WorkerStep(w) \/ (\E j \in Job : Renew(w, j)) \/ Crash(w)
      BY <1>2 DEF WorkerNext
    <2> QED
      BY <2>1, ClaimInv, RenewInv, CompleteInv, FailReadInv, FailWriteInv, CrashInv,
         ReturnInv DEF WorkerStep
  <1>3. CASE Tick
    BY <1>3, TickInv
  <1>4. CASE UNCHANGED vars
    BY <1>4 DEF vars, IInv, TypeOK, RowConsistent, HolderIsFresh, AttemptBudget,
                FailDecision, WithinBudget, ClocksAtRest
  <1> QED
    BY <1>1, <1>2, <1>3, <1>4 DEF Next

THEOREM Invariance == Spec => []IInv
  BY InitInv, NextInv, PTL DEF Spec

-----------------------------------------------------------------------------
(* The properties *)

\* Rows and local variables keep the types of the schema; in particular claim
\* never counts an attempt beyond the largest budget a client may ask for.
THEOREM TypeCorrect == Spec => []TypeOK
  <1>1. IInv => TypeOK
    BY DEF IInv
  <1> QED
    BY Invariance, <1>1, PTL

\* The columns of a row agree with its status after every sequence of claims,
\* completions, failures, cancellations and retries.
THEOREM RowsAreConsistent == Spec => []RowConsistent
  <1>1. IInv => RowConsistent
    BY DEF IInv
  <1> QED
    BY Invariance, <1>1, PTL

\* lease_owner alone identifies the current attempt.
THEOREM HoldersAreFresh == Spec => []HolderIsFresh
  <1>1. IInv => HolderIsFresh
    BY DEF IInv
  <1> QED
    BY Invariance, <1>1, PTL

\* fail decides by the attempt budget although it reads attempts too early.
THEOREM BudgetDecides == Spec => []AttemptBudget
  <1>1. IInv => AttemptBudget
    BY DEF IInv
  <1> QED
    BY Invariance, <1>1, PTL

\* A running row stops running only by complete or by the write of fail, in
\* the hands of its owner; a completed row does not change at all.
LEMMA SettlingSteps ==
  ASSUME IInv, [Next]_vars, NEW j \in Job, jobs[j].status \in {"running", "completed"}
  PROVE  \/ jobs[j].status = "completed" /\ jobs'[j] = jobs[j]
         \/ jobs[j].status = "running" /\ jobs'[j].status = "running"
         \/ \E w \in Worker : /\ Complete(w) \/ FailWrite(w)
                              /\ held[w].job = j
                              /\ Owns(w, j)
  <1> USE DEF IInv, TypeOK
  <1>1. CASE jobs'[j] = jobs[j]
    BY <1>1
  <1>2. CASE ClientNext
    <2>1. jobs'[j] = jobs[j]
      BY <1>2 DEF ClientNext, Enqueue, Exists, Cancel, Retry
    <2> QED
      BY <2>1, <1>1
  <1>3. ASSUME NEW w \in Worker, Claim(w) PROVE jobs[j].status = "running" =>
               jobs'[j].status = "running"
    BY <1>3 DEF Claim, Row
  <1>4. ASSUME NEW w \in Worker, Claim(w) PROVE jobs[j].status = "completed" =>
               jobs'[j] = jobs[j]
    BY <1>4 DEF Claim, Claimable
  <1>5. ASSUME NEW w \in Worker, NEW i \in Job, Renew(w, i)
        PROVE  IF jobs[j].status = "completed" THEN jobs'[j] = jobs[j]
               ELSE jobs'[j].status = jobs[j].status
    BY <1>5 DEF Renew, Owns, Row
  <1>6. ASSUME NEW w \in Worker, Complete(w), jobs'[j] # jobs[j]
        PROVE  held[w].job = j /\ Owns(w, j)
    BY <1>6 DEF Complete, Owns
  <1>7. ASSUME NEW w \in Worker, FailWrite(w), jobs'[j] # jobs[j]
        PROVE  held[w].job = j /\ Owns(w, j)
    <2>1. held[w].job = j /\ FailOwns(w)
      BY <1>7 DEF FailWrite
    <2> QED
      BY <2>1, QueueAssumption DEF FailOwns, Owns, RowConsistent
  <1>8. ASSUME NEW w \in Worker,
               WorkReturns(w) \/ WorkRaises(w) \/ CompleteLost(w) \/ FailRead(w) \/ Crash(w)
        PROVE  jobs'[j] = jobs[j]
    BY <1>8 DEF WorkReturns, WorkRaises, CompleteLost, FailRead, Crash
  <1>9. CASE WorkerNext
    BY <1>9, <1>1, <1>3, <1>4, <1>5, <1>6, <1>7, <1>8 DEF WorkerNext, WorkerStep
  <1>10. CASE Tick
    <2> DEFINE row == [jobs[j] EXCEPT !.wait = Down(@), !.lease = Down(@)]
    <2>1. jobs'[j] = row
      BY <1>10 DEF Tick
    <2>2. row.status = jobs[j].status
      BY DEF Row
    <2>3. ASSUME jobs[j].status = "completed" PROVE row = jobs[j]
      <3>1. jobs[j].wait = 0 /\ jobs[j].lease = 0
        BY <2>3 DEF ClocksAtRest
      <3> QED
        BY <3>1 DEF Row, Down
    <2> QED
      BY <2>1, <2>2, <2>3
  <1>11. CASE UNCHANGED vars
    BY <1>11, <1>1 DEF vars
  <1> QED
    BY <1>2, <1>9, <1>10, <1>11 DEF Next

\* A job stops running only by the hand of the worker whose current attempt
\* owns its lease.
THEOREM OnlyHoldersSettle == Spec => SettledByHolder
  <1>1. ASSUME IInv, [Next]_vars, NEW j \in Job,
               jobs[j].status = "running", jobs'[j].status # "running"
        PROVE  \E w \in Worker : /\ Owns(w, j)
                                /\ held[w].job = j
                                /\ held[w].attempt = jobs[j].attempts
                                /\ held'[w] # held[w]
    <2>1. PICK w \in Worker : /\ Complete(w) \/ FailWrite(w)
                              /\ held[w].job = j
                              /\ Owns(w, j)
      BY <1>1, SettlingSteps
    <2>2. held[w].attempt = jobs[j].attempts
      BY <1>1, <2>1 DEF Complete, FailWrite, Owns, IInv, HolderIsFresh
    <2>3. held'[w].phase # held[w].phase
      BY <1>1, <2>1 DEF Complete, FailWrite, Idle, IInv, TypeOK, Holding
    <2> QED
      BY <2>1, <2>2, <2>3
  <1>2. IInv /\ [Next]_vars =>
          [\A j \in Job :
             jobs[j].status = "running" /\ jobs'[j].status # "running"
               => \E w \in Worker :
                    /\ Owns(w, j)
                    /\ held[w].job = j
                    /\ held[w].attempt = jobs[j].attempts
                    /\ held'[w] # held[w]]_vars
    BY <1>1
  <1> QED
    BY Invariance, <1>2, PTL DEF Spec, SettledByHolder

\* A completed job never changes again.
THEOREM CompletedStays == Spec => CompletedIsFinal
  <1>1. IInv /\ [Next]_vars =>
          [\A j \in Job : jobs[j].status = "completed" => jobs'[j] = jobs[j]]_vars
    <2> SUFFICES ASSUME IInv, [Next]_vars, NEW j \in Job, jobs[j].status = "completed"
                 PROVE  jobs'[j] = jobs[j]
      OBVIOUS
    <2> QED
      BY SettlingSteps DEF Owns
  <1> QED
    BY Invariance, <1>1, PTL DEF Spec, CompletedIsFinal

-----------------------------------------------------------------------------
(* The abstract specification *)

LEMMA ContractInit == Init => Contract!Init
  BY DEF Init, NoRow, Contract!Init

\* A step that changes no public column is a stutter of the contract.
LEMMA ContractStutters ==
  ASSUME \A j \in Job : /\ jobs'[j].status = jobs[j].status
                        /\ jobs'[j].attempts = jobs[j].attempts
                        /\ jobs'[j].max_attempts = jobs[j].max_attempts
                        /\ jobs'[j].result = jobs[j].result
  PROVE  UNCHANGED Contract!vars
  BY DEF Contract!vars

\* A step that replaces one row replaces its public columns, and no others.
LEMMA ContractColumns ==
  ASSUME NEW j \in Job, \A i \in Job \ {j} : jobs'[i] = jobs[i]
  PROVE  /\ [i \in Job |-> jobs'[i].status]
              = [[i \in Job |-> jobs[i].status] EXCEPT ![j] = jobs'[j].status]
         /\ [i \in Job |-> jobs'[i].attempts]
              = [[i \in Job |-> jobs[i].attempts] EXCEPT ![j] = jobs'[j].attempts]
         /\ [i \in Job |-> jobs'[i].max_attempts]
              = [[i \in Job |-> jobs[i].max_attempts] EXCEPT ![j] = jobs'[j].max_attempts]
         /\ [i \in Job |-> jobs'[i].result]
              = [[i \in Job |-> jobs[i].result] EXCEPT ![j] = jobs'[j].result]
         /\ jobs'[j].attempts = jobs[j].attempts
              => [i \in Job |-> jobs'[i].attempts] = [i \in Job |-> jobs[i].attempts]
         /\ jobs'[j].max_attempts = jobs[j].max_attempts
              => [i \in Job |-> jobs'[i].max_attempts] = [i \in Job |-> jobs[i].max_attempts]
         /\ jobs'[j].result = jobs[j].result
              => [i \in Job |-> jobs'[i].result] = [i \in Job |-> jobs[i].result]
  OBVIOUS

\* Every step of the queue is a step of the contract or changes nothing in it.
LEMMA ContractStep == IInv /\ IInv' /\ [Next]_vars => [Contract!Next]_Contract!vars
  <1> SUFFICES ASSUME IInv, IInv', [Next]_vars
               PROVE  Contract!Next \/ UNCHANGED Contract!vars
    OBVIOUS
  <1>a. /\ jobs \in [Job -> Row]
        /\ held \in [Worker -> Holding]
        /\ \A w \in Worker : held[w].phase # "idle" => held[w].job \in Job
    BY DEF IInv, TypeOK
  <1>1. ASSUME NEW j \in Job, NEW a \in Apk, NEW k \in Key \cup {NULL},
               NEW p \in Priority, NEW m \in 1 .. MaxAttempts, Enqueue(j, a, k, p, m)
        PROVE  Contract!Submit(j)
    <2>1. /\ jobs[j].status = "absent" /\ jobs'[j].status = "queued"
          /\ jobs'[j].attempts = 0 /\ jobs'[j].max_attempts = m /\ jobs'[j].result = 0
          /\ \A i \in Job \ {j} : jobs'[i] = jobs[i]
      BY <1>1, <1>a, QueueAssumption DEF Enqueue, Exists, NoRow
    <2>2. jobs[j].result = 0
      BY <2>1 DEF IInv, RowConsistent
    <2> QED
      BY <2>1, <2>2, ContractColumns DEF Contract!Submit, Contract!Become
  <1>2. ASSUME NEW j \in Job, Cancel(j) PROVE Contract!Cancel(j)
    <2>1. /\ jobs[j].status = "queued" /\ jobs'[j].status = "cancelled"
          /\ jobs'[j].attempts = jobs[j].attempts /\ jobs'[j].result = jobs[j].result
          /\ jobs'[j].max_attempts = jobs[j].max_attempts
          /\ \A i \in Job \ {j} : jobs'[i] = jobs[i]
      BY <1>2, <1>a DEF Cancel, Row
    <2> QED
      BY <2>1, ContractColumns DEF Contract!Cancel, Contract!Become
  <1>3. ASSUME NEW j \in Job, Retry(j) PROVE Contract!Retry(j)
    <2>1. /\ jobs[j].status \in {"failed", "cancelled"} /\ jobs'[j].status = "queued"
          /\ jobs'[j].attempts = 0 /\ jobs'[j].result = jobs[j].result
          /\ jobs'[j].max_attempts = jobs[j].max_attempts
          /\ \A i \in Job \ {j} : jobs'[i] = jobs[i]
      BY <1>3, <1>a DEF Retry, Row
    <2> QED
      BY <2>1, ContractColumns DEF Contract!Retry, Contract!Become
  <1>4. ASSUME NEW w \in Worker, Claim(w) PROVE \E j \in Job : Contract!Start(j)
    <2>1. PICK j \in Job :
            /\ Claimable(j)
            /\ jobs' = [jobs EXCEPT ![j] =
                 [jobs[j] EXCEPT !.status = "running", !.lease_owner = w, !.lease = LeaseTicks,
                                 !.attempts = jobs[j].attempts + 1, !.error = FALSE]]
      BY <1>4 DEF Claim
    <2>2. /\ jobs[j].status \in {"queued", "running"} /\ jobs'[j].status = "running"
          /\ jobs[j].attempts < jobs[j].max_attempts
          /\ jobs'[j].attempts = jobs[j].attempts + 1 /\ jobs'[j].result = jobs[j].result
          /\ jobs'[j].max_attempts = jobs[j].max_attempts
          /\ \A i \in Job \ {j} : jobs'[i] = jobs[i]
      BY <2>1, <1>a DEF Claimable, Row
    <2> QED
      BY <2>2, ContractColumns DEF Contract!Start, Contract!Become
  <1>5. ASSUME NEW w \in Worker, Complete(w) PROVE \E j \in Job : Contract!Finish(j)
    <2>1. PICK j \in Job : j = held[w].job
      BY <1>5, <1>a DEF Complete
    <2>2. held[w].attempt = jobs[j].attempts
      BY <1>5, <2>1 DEF Complete, Owns, IInv, HolderIsFresh
    <2>3. /\ jobs[j].status = "running" /\ jobs'[j].status = "completed"
          /\ jobs'[j].attempts = jobs[j].attempts /\ jobs'[j].result = jobs[j].attempts
          /\ jobs'[j].max_attempts = jobs[j].max_attempts
          /\ \A i \in Job \ {j} : jobs'[i] = jobs[i]
      BY <1>5, <1>a, <2>1, <2>2 DEF Complete, Owns, Row
    <2>4. Contract!Finish(j)
      BY <2>3, ContractColumns DEF Contract!Finish, Contract!Become
    <2> QED
      BY <2>4
  <1>6. ASSUME NEW w \in Worker, FailWrite(w), FailOwns(w)
        PROVE  \E j \in Job : Contract!GiveBack(j) \/ Contract!Exhaust(j)
    <2>1. PICK j \in Job, next \in {"queued", "failed"} :
            j = held[w].job /\ next = held[w].next
      BY <1>6, <1>a DEF FailWrite, Holding
    <2>2. /\ jobs'[j].status = next /\ jobs'[j].attempts = jobs[j].attempts
          /\ jobs'[j].result = jobs[j].result /\ jobs'[j].max_attempts = jobs[j].max_attempts
          /\ \A i \in Job \ {j} : jobs'[i] = jobs[i]
      BY <1>6, <1>a, <2>1 DEF FailWrite, Row
    <2>3. /\ jobs[j].status = "running"
          /\ jobs[j].attempts \in Nat /\ jobs[j].max_attempts \in Nat
          /\ next = IF jobs[j].attempts < jobs[j].max_attempts THEN "queued" ELSE "failed"
      BY <1>6, <1>a, <2>1, QueueAssumption
      DEF FailWrite, FailOwns, IInv, RowConsistent, FailDecision, Row
    <2>4. jobs[j].attempts <= jobs[j].max_attempts
      BY DEF IInv, WithinBudget
    <2>5. \/ next = "queued" /\ jobs[j].attempts < jobs[j].max_attempts
          \/ next = "failed" /\ jobs[j].attempts = jobs[j].max_attempts
      BY <2>3, <2>4
    <2>6. Contract!GiveBack(j) \/ Contract!Exhaust(j)
      BY <2>2, <2>3, <2>5, ContractColumns
      DEF Contract!GiveBack, Contract!Exhaust, Contract!Become
    <2> QED
      BY <2>6
  <1>7. ASSUME NEW w \in Worker,
               \/ WorkReturns(w) \/ WorkRaises(w) \/ CompleteLost(w) \/ FailRead(w)
               \/ Crash(w)
               \/ FailWrite(w) /\ ~FailOwns(w)
        PROVE  jobs' = jobs
    BY <1>7 DEF WorkReturns, WorkRaises, CompleteLost, FailRead, Crash, FailWrite
  <1>8. ASSUME NEW w \in Worker, NEW j \in Job, Renew(w, j) PROVE UNCHANGED Contract!vars
    BY <1>8, <1>a, ContractStutters DEF Renew, Row
  <1>9. CASE ClientNext
    BY <1>9, <1>1, <1>2, <1>3 DEF ClientNext, Contract!Next
  <1>10. CASE WorkerNext
    <2>1. PICK w \in Worker :
            WorkerStep(w) \/ (\E j \in Job : Renew(w, j)) \/ Crash(w)
      BY <1>10 DEF WorkerNext
    <2>2. CASE Claim(w) \/ Complete(w)
      BY <2>2, <1>4, <1>5 DEF Contract!Next
    <2>3. CASE FailWrite(w)
      BY <2>3, <1>6, <1>7, ContractStutters DEF Contract!Next
    <2>4. CASE WorkReturns(w) \/ WorkRaises(w) \/ CompleteLost(w) \/ FailRead(w) \/ Crash(w)
      <3>1. jobs' = jobs
        BY <2>4, <1>7
      <3> QED
        BY <3>1, ContractStutters
    <2>5. CASE \E j \in Job : Renew(w, j)
      BY <2>5, <1>8
    <2> QED
      BY <2>1, <2>2, <2>3, <2>4, <2>5 DEF WorkerStep
  <1>11. CASE Tick
    <2>1. ASSUME NEW j \in Job
          PROVE  /\ jobs'[j].status = jobs[j].status
                 /\ jobs'[j].attempts = jobs[j].attempts
                 /\ jobs'[j].max_attempts = jobs[j].max_attempts
                 /\ jobs'[j].result = jobs[j].result
      <3>1. jobs'[j] = [jobs[j] EXCEPT !.wait = Down(@), !.lease = Down(@)]
        BY <1>11 DEF Tick
      <3> QED
        BY <3>1, <1>a DEF Row
    <2> QED
      BY <2>1, ContractStutters
  <1>12. CASE UNCHANGED vars
    BY <1>12, ContractStutters DEF vars
  <1> QED
    BY <1>9, <1>10, <1>11, <1>12 DEF Next

\* The public columns of the table behave as JobContract promises: leases,
\* takeovers, crashes and the two transactions of fail are invisible in them.
THEOREM QueueKeepsContract == Spec => ImplementsContract
  BY Invariance, ContractInit, ContractStep, PTL DEF Spec, ImplementsContract, Contract!Spec
=============================================================================
