--------------------------- MODULE Investigation ---------------------------
(***************************************************************************)
(* One analysis of AnalysisPipeline.analyze_uploaded                       *)
(* (deceptiscope/pipeline.py) from the preliminary score on: the language  *)
(* model proposes hypotheses and experiments (AIInvestigatorClient,        *)
(* deceptiscope/investigation.py), the emulator runs them (DynamicRun),    *)
(* the marker is followed (Lineage), the verifier judges (Verifier), and   *)
(* the score is taken again (RiskScore).                                   *)
(*                                                                         *)
(* Rows, uploads and indicators of an analysis are in Analyses.            *)
(***************************************************************************)
EXTENDS DynamicRun, Lineage, Verifier, RiskScore

CONSTANTS
  Sample,        \* static extractions: signals, baseline, engine findings
  Environment,   \* settings and hosts
  Answer         \* what the language model may answer

\* An environment: dynamic analysis was asked for ("requested"), the emulator
\* settings are in place ("lite"), the emulator answers ("reachable"), Frida is
\* "off", enabled but "missing", or "ready"; observers that are enabled; the
\* network policy; the provider of the language model.
ASSUME InvestigationAssumption ==
  /\ \A e \in Environment :
       /\ e.requested \in BOOLEAN /\ e.lite \in BOOLEAN /\ e.reachable \in BOOLEAN
       /\ e.frida \in {"off", "missing", "ready"} /\ e.network \in BOOLEAN
       /\ e.llm \in {"disabled", "unavailable", "configured"}
  /\ \A a \in Answer :
       /\ TypedAnswer(a)
       /\ \A h \in ToSet(a.hypotheses) : h.valid => h.status \in HypothesisStatus
  /\ \A s \in Sample : s.findings \in Seq(ToSet(s.findings))
                      /\ \A f \in ToSet(s.findings) : f.points \in Nat

VARIABLES
  stage,       \* where the pipeline is
  sample,      \* what was extracted
  early,       \* the preliminary score
  ai,          \* status of the investigation
  hypotheses,  \* the hypotheses that passed validation
  plan,        \* the plan of experiments, with their statuses
  planned,     \* history: the plan as it was made
  coverage,    \* extraction["coverage"]["dynamic"]
  evidence,    \* runtime_evidence
  tested,      \* experiment_results
  verdicts,    \* verified statuses, one per hypothesis
  published,   \* the statuses of the hypotheses in the report
  rounds,      \* feedback rounds completed
  score        \* the final score and its runtime adjustment

ownVars == <<stage, sample, early, ai, hypotheses, plan, planned, coverage, evidence, tested,
             verdicts, published, rounds, score>>
vars == <<runVars, ownVars>>

NoScore == [overall |-> 0, adjustment |-> 0]

Init ==
  /\ RunInit
  /\ env \in Environment /\ sample \in Sample
  /\ stage = "static" /\ early = 0 /\ ai = "PENDING"
  /\ hypotheses = <<>> /\ plan = <<>> /\ planned = <<>> /\ coverage = FALSE
  /\ evidence = <<>> /\ tested = <<>> /\ verdicts = <<>> /\ published = <<>>
  /\ rounds = 0 /\ score = NoScore

-----------------------------------------------------------------------------

\* Extraction, engines, fraud delta and the preliminary score.
Preliminary ==
  /\ stage = "static"
  /\ stage' = "plan"
  /\ early' = StaticScore(sample.static, sample.expected, sample.findings)
  /\ UNCHANGED <<runVars, sample, ai, hypotheses, plan, planned, coverage, evidence, tested,
                 verdicts, published, rounds, score>>

\* environment_capabilities: Frida need not be reachable to be planned for.
Capabilities ==
  (IF env.lite THEN {"lite"} ELSE {}) \cup (IF env.frida = "ready" THEN {"frida"} ELSE {})

\* plan_investigation without an answer: disabled, not configured, or the call
\* failed, timed out or returned no JSON object.
NoAnswer ==
  /\ stage = "plan"
  /\ ai' \in (CASE env.llm = "disabled" -> {"DISABLED"}
                [] env.llm = "unavailable" -> {"UNAVAILABLE"}
                [] env.llm = "configured" -> {"UNAVAILABLE", "FAILED"})
  /\ stage' = "dynamic"
  /\ UNCHANGED <<runVars, sample, early, hypotheses, plan, planned, coverage, evidence, tested,
                 verdicts, published, rounds, score>>

RequestErrors(a) ==
  a.requests # NULL /\ Len(AcceptedRequests(a.requests, Grounded(a))) < Len(First(a.requests, 30))

\* plan_investigation with an answer: nothing usable and something refused is a
\* failure.
PlanInvestigation ==
  /\ stage = "plan" /\ env.llm = "configured"
  /\ \E a \in Answer :
       IF Grounded(a) = <<>> /\ (ValidationErrors(a) # {} \/ RequestErrors(a))
       THEN ai' = "FAILED" /\ UNCHANGED <<hypotheses, plan, planned>>
       ELSE /\ ai' = "COMPLETED"
            /\ hypotheses' = Grounded(a)
            /\ plan' = Plan(a, hypotheses', Capabilities)
            /\ planned' = plan'
  /\ stage' = "dynamic"
  /\ UNCHANGED <<runVars, sample, early, coverage, evidence, tested, verdicts, published,
                 rounds, score>>

-----------------------------------------------------------------------------

WithStatus(status) == [i \in DOMAIN plan |-> [plan[i] EXCEPT !.status = status[i]]]

\* runtime_ready of DynamicLiteAnalyzer.status: with Frida enabled, its server
\* must answer too.
Ready == env.lite /\ env.reachable /\ env.frida # "missing"

\* Dynamic analysis was not asked for, or cannot be done.
NotDynamic ==
  /\ stage = "dynamic" /\ phase = "idle" /\ ~(env.requested /\ Ready)
  /\ stage' = "correlate"
  /\ plan' = WithStatus([i \in DOMAIN plan |->
       IF ~env.requested THEN "SKIPPED"
       ELSE IF plan[i].status = "PLANNED" THEN "UNAVAILABLE" ELSE plan[i].status])
  /\ UNCHANGED <<runVars, sample, early, ai, hypotheses, planned, coverage, evidence, tested,
                 verdicts, published, rounds, score>>

\* observe begins with every item of the plan, whatever its status, or with the
\* default experiments.
StartObserve ==
  /\ stage = "dynamic" /\ phase = "idle" /\ env.requested /\ Ready
  /\ phase' = "preflight"
  /\ todo' = IF plan # <<>> THEN [i \in DOMAIN plan |-> [id |-> plan[i].id, type |-> plan[i].type]]
             ELSE [i \in DOMAIN DefaultExperiments |-> [id |-> i, type |-> DefaultExperiments[i]]]
  /\ UNCHANGED <<ownVars, env, items, results, log, launched, snapshot, session, outcome,
                 deviceVars, hist, acted, faults>>

Observe == stage = "dynamic" /\ RunStep /\ UNCHANGED ownVars

\* observe returned: its evidence and its results are taken over.
ObserveReturned ==
  /\ stage = "dynamic" /\ phase = "returned"
  /\ stage' = "payloads"
  /\ evidence' = items /\ tested' = results /\ coverage' = TRUE
  /\ UNCHANGED <<runVars, sample, early, ai, hypotheses, plan, planned, verdicts, published,
                 rounds, score>>

\* The except of the dynamic block: what was taken over before it stays.
DynamicFailed ==
  /\ stage' = "correlate"
  /\ coverage' = FALSE
  /\ plan' = WithStatus([i \in DOMAIN plan |-> "FAILED"])
  /\ UNCHANGED <<runVars, sample, early, ai, hypotheses, planned, evidence, tested, verdicts,
                 published, rounds, score>>

ObserveRaised == stage = "dynamic" /\ phase = "raised" /\ DynamicFailed

\* The files of loaded code are fetched and analysed, which may raise.
PayloadsRaised ==
  /\ stage = "payloads" /\ OfType(ToSet(evidence), {"dynamic_code_load"}) # {}
  /\ DynamicFailed

\* A bug: results are looked up by the kind of experiment.
StatusByType ==
  WithStatus([i \in DOMAIN plan |->
    LET of == {k \in DOMAIN tested : tested[k].type = plan[i].type} IN
    IF of = {} THEN plan[i].status
    ELSE tested[CHOOSE k \in of : \A l \in of : l <= k].status])

\* results_by_id: every item gets the status of its own result.
StatusById ==
  WithStatus([i \in DOMAIN plan |->
    IF \E k \in DOMAIN tested : tested[k].id = plan[i].id
    THEN (CHOOSE r \in ToSet(tested) : r.id = plan[i].id).status
    ELSE plan[i].status])

Payloads ==
  /\ stage = "payloads"
  /\ stage' = "correlate"
  /\ plan' = StatusById
  /\ UNCHANGED <<runVars, sample, early, ai, hypotheses, planned, coverage, evidence, tested,
                 verdicts, published, rounds, score>>

-----------------------------------------------------------------------------

\* DataLineageCorrelator.correlate, and the item that proves an exfiltration.
Correlate ==
  /\ stage = "correlate"
  /\ stage' = "verify"
  /\ evidence' = WithLineage(evidence)
  /\ UNCHANGED <<runVars, sample, early, ai, hypotheses, plan, planned, coverage, tested,
                 verdicts, published, rounds, score>>

\* _run_feedback_round: the model may be asked once more to reword what was
\* tested, and fail to; what it sends of a status is ignored.
FeedbackRounds ==
  IF hypotheses # <<>> /\ (evidence # <<>> \/ tested # <<>>) THEN {0, 1} ELSE {0}

\* verify_and_finalize, with its feedback round.
VerifyHypotheses ==
  /\ stage = "verify"
  /\ stage' = "score"
  /\ verdicts' = [i \in DOMAIN hypotheses |->
                    Verify(hypotheses[i], sample.static, ToSet(evidence), ToSet(tested))]
  /\ published' = Applied(hypotheses, verdicts')
  /\ rounds' \in FeedbackRounds
  /\ UNCHANGED <<runVars, sample, early, ai, hypotheses, plan, planned, coverage, evidence,
                 tested, score>>

\* The score is taken again: the static part of it is what it was, and neither
\* the plan nor the verdicts enter into the rest.
FinalScore ==
  /\ stage = "score"
  /\ stage' = "done"
  /\ LET adjustment == RuntimeAdjustment(ToSet(evidence)) IN
     score' = [overall |-> AtMost(100, early + adjustment), adjustment |-> adjustment]
  /\ UNCHANGED <<runVars, sample, early, ai, hypotheses, plan, planned, coverage, evidence,
                 tested, verdicts, published, rounds>>

Next ==
  \/ Preliminary \/ NoAnswer \/ PlanInvestigation \/ NotDynamic \/ StartObserve \/ Observe
  \/ ObserveReturned \/ ObserveRaised \/ PayloadsRaised \/ Payloads \/ Correlate
  \/ VerifyHypotheses \/ FinalScore

\* The analysis is over; nothing else may stop it.
Ended == stage = "done" /\ UNCHANGED vars

Spec == Init /\ [][Next \/ Ended]_vars

-----------------------------------------------------------------------------

\* Every variable has its type: items, results, plans and verdicts are as the
\* schemas of the code require.
InvestigationTypeOK ==
  /\ phase \in {"idle", "preflight", "install", "next", "collect", "exit", "uninstall",
                "returned", "raised"}
  /\ stage \in {"static", "plan", "dynamic", "payloads", "correlate", "verify", "score", "done"}
  /\ items \in Seq(Item)
  /\ \A i \in DOMAIN results : results[i].status \in {"UNAVAILABLE", "COMPLETED", "FAILED", "TIMED_OUT"}
  /\ \A i \in DOMAIN plan : plan[i].status \in ExperimentStatus /\ plan[i].type \in ExperimentType
  /\ \A i \in DOMAIN verdicts : verdicts[i] \in HypothesisStatus
  /\ score.overall \in 0 .. 100 /\ early \in 0 .. 100
  /\ score.adjustment \in 0 .. GlobalRuntimeCap
  /\ app \in {"stopped", "running", "frozen"} /\ faults \in 0 .. MaxFaults
  /\ ai \in {"PENDING", "DISABLED", "UNAVAILABLE", "FAILED", "COMPLETED"}

\* What the run really saw: the emulator took the SMS, and a hook of a session
\* fired, or the system listed the app's service.
OtpObserved == "delivered" \in hist /\ hist \cap {"sms", "body"} # {}
ExfiltrationObserved == received /\ "body" \in hist
AccessibilityObserved ==
  "accessibility" \in hist \/ "bound" \in hist \/ \E e \in ToSet(evidence) : e.dump

\* A hypothesis is confirmed only by what this run observed on the emulator
\* under instrumentation, whatever the language model claims and the log says.
ConfirmedWasObserved ==
  \A i \in DOMAIN verdicts : verdicts[i] = "CONFIRMED" =>
    CASE hypotheses[i].category = "OTP_INTERCEPTION" -> OtpObserved
      [] hypotheses[i].category = "DATA_EXFILTRATION" -> ExfiltrationObserved
      [] hypotheses[i].category = "ACCESSIBILITY_ABUSE" -> AccessibilityObserved
      [] OTHER -> FALSE

\* The verifier contradicts a hypothesis by itself only if the SMS was delivered
\* while hooks were in place, and every attempt at it and at the log came to its
\* end: what a failed or missing experiment did not show is no counter-evidence.
ContradictedWasTested ==
  \A i \in DOMAIN verdicts :
    verdicts[i] = "CONTRADICTED" /\ hypotheses[i].status # "CONTRADICTED" =>
      /\ hypotheses[i].category = "OTP_INTERCEPTION"
      /\ "delivered" \in hist
      /\ \A r \in ToSet(tested) :
           r.type \in {"SYNTHETIC_SMS", "LOGCAT_CAPTURE"} => r.status \in {"COMPLETED", "UNAVAILABLE"}
      /\ hist \cap {"sms"} = {}

\* Every item of evidence is cited by exactly one experiment (or was added by
\* the lineage), every cited item exists, and no number is given twice.
EvidenceIsAccounted ==
  LET ids == {evidence[i].id : i \in DOMAIN evidence} IN
  /\ Cardinality(ids) = Len(evidence)
  /\ UNION {r.ids : r \in ToSet(tested)}
       = {evidence[i].id : i \in {k \in DOMAIN evidence : evidence[k].src # "lineage"}}
  /\ \A j, k \in DOMAIN tested : j # k => tested[j].ids \cap tested[k].ids = {}

\* An experiment that the planner found unsupported never acts on the emulator,
\* although the executor is given every item of the plan: the two decide alike.
UnsupportedNeverActs ==
  \A i \in DOMAIN planned : planned[i].status = "UNSUPPORTED" => planned[i].id \notin acted

\* What a run may leave on the emulator.  One that returned has removed the
\* sample, whatever its experiments did, unless the uninstall failed.  One that
\* raised leaves the sample in exactly one case, for which the code has no clean-up
\* at all: the install timed out after it had taken effect.  The temporary
\* screenshot is gone unless its rm failed.
DeviceIsCleaned ==
  /\ phase = "returned" /\ installed => "uninstall failed" \in hist
  /\ phase = "raised" /\ installed => "install timed out" \in hist
  /\ phase \in {"returned", "raised"} /\ shot => "rm failed" \in hist

\* In the report, an experiment is completed only if this very experiment was,
\* and none is left as merely planned.
PlanTellsResults ==
  stage = "done" =>
    \A i \in DOMAIN plan :
      /\ plan[i].status # "PLANNED"
      /\ plan[i].status = "COMPLETED" =>
           \E r \in ToSet(tested) : r.id = plan[i].id /\ r.status = "COMPLETED"
      /\ plan[i].status = "UNSUPPORTED" => ~(env.requested /\ Ready)

\* Runtime points are earned: those for an interception by a delivered SMS,
\* those for an exfiltration by a captured body, those for traffic by a hook (a
\* log line alone does not score it), and never more than the global cap; no
\* item that is cited is missing.
PointsAreObserved ==
  stage = "done" =>
    LET rules == {r \in ToSet(RuntimeRules(ToSet(evidence))) : r.cited # {}} IN
    /\ score.adjustment <= GlobalRuntimeCap /\ score.overall - early <= GlobalRuntimeCap
    /\ \A r \in rules :
         /\ r.cited \subseteq 1 .. Len(evidence)
         /\ r.id = "OTP" => "delivered" \in hist
         /\ r.id = "EXFIL" => ExfiltrationObserved
         /\ r.id = "NET" => hist \cap {"network", "body", "url"} # {}
=============================================================================
