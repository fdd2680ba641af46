--------------------------- MODULE ExperimentPlan ---------------------------
(***************************************************************************)
(* From the answer of the language model to a plan of experiments:         *)
(* validate_hypothesis_payload (deceptiscope/investigation.py) and         *)
(* ExperimentPlanner with TrustedExperimentRegistry                        *)
(* (deceptiscope/experiments.py).                                          *)
(*                                                                         *)
(* An answer has a sequence of hypotheses and a sequence of requests, or   *)
(* NULL in place of the requests.  A hypothesis that "cites" cites a known *)
(* evidence id; one that is not "valid", like a request that is not, fails *)
(* its schema (or carries a forbidden field).                              *)
(***************************************************************************)
EXTENDS Evidence

CONSTANTS
  NULL,
  PlanLimit      \* the lesser of ai_experiment_plan_limit and
                 \* max_experiments_per_round

ASSUME PlanAssumption == PlanLimit \in Nat

\* A capability that an experiment needs: the sandbox, and instrumentation.
Required(t) == {"lite"} \cup (IF t \in FridaDependent THEN {"frida"} ELSE {})

\* ExperimentDefinition.timeout_seconds.
Timeout(t) ==
  CASE t \in {"UI_SCREENSHOT", "PACKAGE_STATE_CAPTURE", "LOGCAT_CAPTURE"} -> 30
    [] t = "LAUNCH_APP" -> 45
    [] t = "OBSERVE_STARTUP" -> 60
    [] t \in {"SYNTHETIC_SMS", "ACCESSIBILITY_OBSERVATION", "WEBVIEW_OBSERVATION"} -> 90
    [] OTHER -> 120

\* _banking_impact.
Impact(category) ==
  CASE category \in {"OTP_INTERCEPTION", "CREDENTIAL_PHISHING"} -> 10
    [] category \in {"REMOTE_CONTROL", "BANK_IMPERSONATION"} -> 9
    [] category \in {"ACCESSIBILITY_ABUSE", "OVERLAY_ATTACK", "DATA_EXFILTRATION"} -> 8
    [] category = "DYNAMIC_CODE_LOADING" -> 7
    [] category = "DEVICE_RECONNAISSANCE" -> 6
    [] category = "UNKNOWN_SUSPICIOUS_BEHAVIOR" -> 4
    [] OTHER -> 3

\* _priority_for_hypothesis.
PriorityOf(h) ==
  IF Impact(h.category) >= 9 /\ h.conf >= 60 THEN 1
  ELSE IF Impact(h.category) >= 7 \/ h.conf >= 50 THEN 2 ELSE 3

First(s, n) == SubSeq(s, 1, IF Len(s) <= n THEN Len(s) ELSE n)

\* Of an answer, what passes its schema has the types of the schema.
TypedAnswer(answer) ==
  /\ answer.hypotheses \in Seq(ToSet(answer.hypotheses))
  /\ \A h \in ToSet(answer.hypotheses) : h.valid =>
       h.conf \in 0 .. 100 /\ h.missing \in 0 .. 12 /\ h.recommends \in Seq(ExperimentType)
  /\ answer.requests # NULL =>
       /\ answer.requests \in Seq(ToSet(answer.requests))
       /\ \A r \in ToSet(answer.requests) : r.valid =>
            r.type \in ExperimentType /\ r.priority \in 1 .. 10

-----------------------------------------------------------------------------

\* validate_hypothesis_payload: at most 20, each grounded in known evidence.
\* Nothing here refuses an id that was given before.
Grounded(answer) ==
  Kept(First(answer.hypotheses, 20),
       {i \in DOMAIN answer.hypotheses : answer.hypotheses[i].cites /\ answer.hypotheses[i].valid})

ValidationErrors(answer) ==
  {i \in DOMAIN First(answer.hypotheses, 20) :
     ~(answer.hypotheses[i].cites /\ answer.hypotheses[i].valid)}

\* _validate_raw_requests: at most 30; of two with one id, the first.
AcceptedRequests(raw, hypotheses) ==
  LET asked == First(raw, 30)
      known == {hypotheses[i].id : i \in DOMAIN hypotheses}
      fit == {i \in DOMAIN asked : asked[i].valid /\ asked[i].hyp \in known}
  IN Kept([i \in DOMAIN asked |-> [id |-> asked[i].id, hyp |-> asked[i].hyp,
                                    type |-> asked[i].type, priority |-> asked[i].priority]],
          {i \in fit : \A j \in fit : asked[j].id = asked[i].id => i <= j})

\* _requests_from_hypotheses: the experiments each hypothesis recommends, five
\* at most, numbered in order.
RecommendedRequests(hypotheses) ==
  LET slots == [n \in 1 .. 5 * Len(hypotheses) |->
                  [of |-> (n - 1) \div 5 + 1, nth |-> ((n - 1) % 5) + 1]]
      given == Kept(slots, {n \in DOMAIN slots :
                              slots[n].nth <= Len(hypotheses[slots[n].of].recommends)})
      Request(k, h, nth) ==
        [id |-> k, hyp |-> h.id, type |-> h.recommends[nth], priority |-> PriorityOf(h)]
  IN [k \in DOMAIN given |-> Request(k, hypotheses[given[k].of], given[k].nth)]

\* environment_capabilities decides what can be supported (_plan_only_handler):
\* every definition of the catalog is safe by default.
PlannedStatus(t, capabilities) ==
  IF Required(t) \subseteq capabilities THEN "PLANNED" ELSE "UNSUPPORTED"

\* hypothesis_by_id keeps the last hypothesis of an id.
HypothesisOf(id, hypotheses) ==
  hypotheses[CHOOSE i \in DOMAIN hypotheses :
               /\ hypotheses[i].id = id
               /\ \A j \in DOMAIN hypotheses : hypotheses[j].id = id => j <= i]

\* _score_request.
RequestScore(r, hypotheses, capabilities) ==
  LET h == HypothesisOf(r.hyp, hypotheses) IN
  (IF PlannedStatus(r.type, capabilities) = "PLANNED" THEN 1000 ELSE 0)
    + h.conf + 10 * Impact(h.category)
    + 5 * (IF h.missing <= 5 THEN h.missing ELSE 5)
    + 4 * (11 - r.priority) - Timeout(r.type) \div 15

\* plan_requests: the best first, in their order where scores are equal (the
\* sort is stable), up to the limit.
PlanOf(requests, hypotheses, capabilities) ==
  LET Score(i) == RequestScore(requests[i], hypotheses, capabilities)
      Before(i, j) == Score(i) > Score(j) \/ (Score(i) = Score(j) /\ i < j)
      Place(i) == Cardinality({j \in DOMAIN requests : Before(j, i)}) + 1
      Placed(k) == requests[CHOOSE i \in DOMAIN requests : Place(i) = k]
      AsPlanned(r) == [id |-> r.id, hyp |-> r.hyp, type |-> r.type,
                       status |-> PlannedStatus(r.type, capabilities)]
  IN First([k \in DOMAIN requests |-> AsPlanned(Placed(k))], PlanLimit)

\* plan_from_payload.
Plan(answer, hypotheses, capabilities) ==
  PlanOf(IF answer.requests = NULL THEN RecommendedRequests(hypotheses)
         ELSE AcceptedRequests(answer.requests, hypotheses),
         hypotheses, capabilities)
=============================================================================
