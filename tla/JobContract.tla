---------------------------- MODULE JobContract ----------------------------
(***************************************************************************)
(* What the queue promises the client of GET /api/v1/jobs/{job_id}, with   *)
(* nothing said of leases, workers, clocks or transactions: the life of a  *)
(* job as its public status, attempts and result show it.                  *)
(***************************************************************************)
EXTENDS Naturals

CONSTANTS Job, MaxAttempts

VARIABLES
  status,    \* [Job -> the public status; "absent" before the job exists]
  attempts,  \* [Job -> attempts used since the job was submitted or retried]
  budget,    \* [Job -> max_attempts]
  result     \* [Job -> the attempt whose result is published; 0: none]

vars == <<status, attempts, budget, result>>

Init ==
  /\ status = [j \in Job |-> "absent"]
  /\ attempts = [j \in Job |-> 0]
  /\ budget = [j \in Job |-> 1]
  /\ result = [j \in Job |-> 0]

Become(j, s) == status' = [status EXCEPT ![j] = s]

Submit(j) ==
  /\ status[j] = "absent"
  /\ Become(j, "queued")
  /\ \E m \in 1 .. MaxAttempts : budget' = [budget EXCEPT ![j] = m]
  /\ attempts' = [attempts EXCEPT ![j] = 0]
  /\ UNCHANGED result

\* A worker starts, or takes over, the job: it uses up one attempt.
Start(j) ==
  /\ status[j] \in {"queued", "running"}
  /\ attempts[j] < budget[j]
  /\ Become(j, "running")
  /\ attempts' = [attempts EXCEPT ![j] = @ + 1]
  /\ UNCHANGED <<budget, result>>

\* The attempt failed and another one is left.
GiveBack(j) ==
  /\ status[j] = "running" /\ attempts[j] < budget[j]
  /\ Become(j, "queued")
  /\ UNCHANGED <<attempts, budget, result>>

\* The last attempt failed.
Exhaust(j) ==
  /\ status[j] = "running" /\ attempts[j] = budget[j]
  /\ Become(j, "failed")
  /\ UNCHANGED <<attempts, budget, result>>

\* The current attempt succeeded; its result is published with the status.
Finish(j) ==
  /\ status[j] = "running"
  /\ Become(j, "completed")
  /\ result' = [result EXCEPT ![j] = attempts[j]]
  /\ UNCHANGED <<attempts, budget>>

Cancel(j) ==
  /\ status[j] = "queued"
  /\ Become(j, "cancelled")
  /\ UNCHANGED <<attempts, budget, result>>

Retry(j) ==
  /\ status[j] \in {"failed", "cancelled"}
  /\ Become(j, "queued")
  /\ attempts' = [attempts EXCEPT ![j] = 0]
  /\ UNCHANGED <<budget, result>>

Next ==
  \E j \in Job :
    \/ Submit(j) \/ Start(j) \/ GiveBack(j) \/ Exhaust(j)
    \/ Finish(j) \/ Cancel(j) \/ Retry(j)

Spec == Init /\ [][Next]_vars
=============================================================================
