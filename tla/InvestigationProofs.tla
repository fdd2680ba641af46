------------------------ MODULE InvestigationProofs ------------------------
(***************************************************************************)
(* Proofs about Investigation, for any sample, environment, log and answer *)
(* of the language model, and any number of faults and events: what the    *)
(* verdicts of an analysis rest on, and in which state a run leaves the    *)
(* emulator.                                                               *)
(***************************************************************************)
EXTENDS Investigation, RunProofs

-----------------------------------------------------------------------------
(* The emulator.                                                           *)

\* Nothing is installed before the install; a run that raised did so there or
\* before, and leaves the sample only by an install that timed out; one that
\* returned only by an uninstall that failed; the screenshot is only left behind by
\* an rm that failed.
CleanInv ==
  /\ phase \in {"idle", "preflight", "install"} => ~installed
  /\ phase = "returned" /\ installed => "uninstall failed" \in hist
  /\ phase = "raised" /\ installed => "install timed out" \in hist
  /\ shot => "rm failed" \in hist

\* What a step of a run must do to the emulator.
Leaves(toPhase) ==
  /\ phase' \in toPhase
  /\ installed' = installed
  /\ shot' => shot \/ "rm failed" \in hist'
  /\ hist \subseteq hist'

\* The collectors and what surrounds them neither install nor remove the sample,
\* forget nothing, and leave a screenshot only if rm failed.
LEMMA CollectLeaves == Collect => Leaves({"exit"})
  <1> USE DEF Leaves, Collects, Done, Raise, deviceVars
  <1>1. CASE CollectLaunch
    BY <1>1 DEF CollectLaunch
  <1>2. CASE CollectStartup
    BY <1>2 DEF CollectStartup
  <1>3. CASE CollectPackageState
    BY <1>3 DEF CollectPackageState
  <1>4. CASE SmsNotSent
    BY <1>4 DEF SmsNotSent
  <1>5. CASE CollectSms
    BY <1>5 DEF CollectSms
  <1>6. CASE CollectLogcat
    BY <1>6 DEF CollectLogcat
  <1>7. CASE CollectNetwork
    BY <1>7 DEF CollectNetwork, LogCollector, FromLatestLog
  <1>8. CASE CollectAccessibility
    BY <1>8 DEF CollectAccessibility, LogCollector, FromLatestLog
  <1>9. CASE CollectToken
    BY <1>9 DEF CollectToken, LogCollector, FromLatestLog
  <1>10. CASE FilesUnavailable
    BY <1>10 DEF FilesUnavailable
  <1>11. CASE CollectFiles
    BY <1>11 DEF CollectFiles, LaunchEffect
  <1>12. CASE ScreenshotNotTried
    BY <1>12 DEF ScreenshotNotTried, LaunchEffect
  <1>13. CASE CollectScreenshot
    BY <1>13 DEF CollectScreenshot, LaunchEffect
  <1> QED
    BY <1>1, <1>2, <1>3, <1>4, <1>5, <1>6, <1>7, <1>8, <1>9, <1>10, <1>11, <1>12, <1>13
       DEF Collect

\* Every step of a run keeps the account of the emulator.
LEMMA RunKeepsClean ==
  ASSUME CleanInv, RunStep
  PROVE  CleanInv'
  <1> USE DEF CleanInv, deviceVars
  <1>1. CASE Preflight
    BY <1>1 DEF Preflight
  <1>2. CASE Install
    <2>1. PICK r \in Reply :
            /\ phase' = IF r = "ok" THEN "next" ELSE "raised"
            /\ installed' \in (CASE r = "ok" -> {TRUE} [] r = "error" -> {FALSE}
                                 [] r = "timeout" -> BOOLEAN)
            /\ hist' = IF r = "timeout" THEN hist \cup {"install timed out"} ELSE hist
      BY <1>2 DEF Install
    <2>2. shot' = shot
      BY <1>2 DEF Install
    <2>3. r \in {"ok", "error", "timeout"}
      BY DEF Reply
    <2>4. CASE r = "ok"
      BY <2>1, <2>2, <2>4
    <2>5. CASE r = "error"
      <3>1. installed' = FALSE /\ hist' = hist /\ phase' = "raised"
        BY <2>1, <2>5
      <3> QED
        BY <2>2, <3>1
    <2>6. CASE r = "timeout"
      <3>1. phase' = "raised" /\ hist' = hist \cup {"install timed out"}
        BY <2>1, <2>6
      <3> QED
        BY <2>2, <3>1
    <2> QED
      BY <2>3, <2>4, <2>5, <2>6
  <1>3. CASE SkipUninstrumented
    BY <1>3 DEF SkipUninstrumented, Conclude
  <1>4. CASE BeginPlain
    BY <1>4 DEF BeginPlain
  <1>5. CASE EnterSession
    BY <1>5 DEF EnterSession
  <1>6. CASE SessionFails
    BY <1>6 DEF SessionFails, Conclude
  <1>7. CASE Collect
    BY <1>7, CollectLeaves DEF Leaves
  <1>8. CASE EndExperiment
    BY <1>8 DEF EndExperiment, Conclude
  <1>9. CASE Finish
    BY <1>9 DEF Finish
  <1>10. CASE Uninstall
    BY <1>10 DEF Uninstall
  <1> QED
    BY <1>1, <1>2, <1>3, <1>4, <1>5, <1>6, <1>7, <1>8, <1>9, <1>10 DEF RunStep

\* Only Observe and StartObserve touch a run.
LEMMA OutsideRun ==
  ASSUME Next, ~Observe, ~StartObserve
  PROVE  UNCHANGED runVars
  <1>1. CASE Preliminary
    BY <1>1 DEF Preliminary
  <1>2. CASE NoAnswer
    BY <1>2 DEF NoAnswer
  <1>3. CASE PlanInvestigation
    BY <1>3 DEF PlanInvestigation
  <1>4. CASE NotDynamic
    BY <1>4 DEF NotDynamic
  <1>5. CASE ObserveReturned
    BY <1>5 DEF ObserveReturned
  <1>6. CASE ObserveRaised
    BY <1>6 DEF ObserveRaised, DynamicFailed
  <1>7. CASE PayloadsRaised
    BY <1>7 DEF PayloadsRaised, DynamicFailed
  <1>8. CASE Payloads
    BY <1>8 DEF Payloads
  <1>9. CASE Correlate
    BY <1>9 DEF Correlate
  <1>10. CASE VerifyHypotheses
    BY <1>10 DEF VerifyHypotheses
  <1>11. CASE FinalScore
    BY <1>11 DEF FinalScore
  <1> QED
    BY <1>1, <1>2, <1>3, <1>4, <1>5, <1>6, <1>7, <1>8, <1>9, <1>10, <1>11 DEF Next

\* The stages of the pipeline touch the emulator only through a run.
LEMMA StepKeepsClean ==
  ASSUME CleanInv, [Next \/ Ended]_vars
  PROVE  CleanInv'
  <1>1. CASE Observe
    BY <1>1, RunKeepsClean DEF Observe
  <1>2. CASE StartObserve
    BY <1>2 DEF StartObserve, CleanInv, deviceVars
  <1>3. ASSUME UNCHANGED runVars PROVE CleanInv'
    BY <1>3 DEF runVars, CleanInv
  <1>4. Next => Observe \/ StartObserve \/ UNCHANGED runVars
    BY OutsideRun
  <1>5. CASE Ended \/ UNCHANGED vars
    BY <1>3, <1>5 DEF Ended, vars
  <1> QED
    BY <1>1, <1>2, <1>3, <1>4, <1>5

\* Whatever experiments were planned and in whatever order they failed: after a
\* run that returned the sample is off the emulator unless the uninstall failed
\* (observe's finally), after one that raised unless the install timed out, which
\* nothing undoes; and the screenshot is gone unless its rm failed.
THEOREM DeviceEndsClean == Spec => []DeviceIsCleaned
  <1>1. Init => CleanInv
    BY DEF Init, RunInit, CleanInv
  <1>2. CleanInv /\ [Next \/ Ended]_vars => CleanInv'
    BY StepKeepsClean
  <1>3. CleanInv => DeviceIsCleaned
    BY DEF CleanInv, DeviceIsCleaned
  <1> QED
    BY <1>1, <1>2, <1>3, PTL DEF Spec

-----------------------------------------------------------------------------
(* Verdicts.                                                               *)

\* What a confirmation rests on: evidence of the category's own kind that a hook
\* or the system reports.  The status that the language model claims does not
\* occur in it.
Justified(category, static, ev) ==
  \/ /\ category = "OTP_INTERCEPTION"
     /\ OtpStatic(static)
     /\ \E d, t \in ev :
          /\ d.type = "synthetic_sms_delivered" /\ d.trust # "LOG_OBSERVED"
          /\ t.type \in {"sms_access", "synthetic_marker_correlation"}
          /\ t.trust \in {"INSTRUMENTED", "PAYLOAD_CORRELATED"}
  \/ /\ category = "DATA_EXFILTRATION"
     /\ \E m, n, p \in ev :
          /\ m.type = "synthetic_marker_correlation"
          /\ n.type \in NetworkType /\ n.at >= m.at
          /\ p.type \in NetworkType \cup {"synthetic_marker_correlation"}
          /\ p.trust = "PAYLOAD_CORRELATED"
  \/ /\ category = "ACCESSIBILITY_ABUSE"
     /\ AccessibilityStatic(static)
     /\ \E e \in ev :
          /\ e.type = "accessibility_behavior"
          /\ e.trust \in {"SYSTEM_OBSERVED", "INSTRUMENTED"} \/ e.dump

\* The experiments whose failure makes an absence inconclusive.
KindsOf(category) ==
  CASE category = "OTP_INTERCEPTION" -> {"SYNTHETIC_SMS", "LOGCAT_CAPTURE"}
    [] category = "DATA_EXFILTRATION" -> {"NETWORK_OBSERVATION", "SYNTHETIC_SMS"}
    [] category = "ACCESSIBILITY_ABUSE" -> {"ACCESSIBILITY_OBSERVATION", "LOGCAT_CAPTURE"}
    [] OTHER -> ExperimentType

\* Whatever the model claims and whatever else was found, a confirmation is
\* justified (HypothesisVerifier.verify).
LEMMA ConfirmationIsJustified ==
  ASSUME NEW h, NEW static, NEW ev, NEW res, Verify(h, static, ev, res) = "CONFIRMED"
  PROVE  Justified(h.category, static, ev)
  <1>1. CASE h.category = "OTP_INTERCEPTION"
    <2>1. OtpConfirmed(static, ev)
      BY <1>1 DEF Verify, VerifyOtp
    <2> QED
      BY <1>1, <2>1 DEF OtpConfirmed, Justified, AnyTrusted, Delivered, Taken, OfType
  <1>2. CASE h.category = "DATA_EXFILTRATION"
    <2>1. ExfilConfirmed(ev)
      BY <1>2 DEF Verify, VerifyExfiltration, Downgraded
    <2> QED
      BY <1>2, <2>1
         DEF ExfilConfirmed, Justified, MarkerPrecedesNetwork, AnyTrusted, Markers, Network, OfType
  <1>3. CASE h.category = "ACCESSIBILITY_ABUSE"
    <2>1. AccessibilityConfirmed(static, ev)
      BY <1>3 DEF Verify, VerifyAccessibility, Downgraded
    <2> QED
      BY <1>3, <2>1 DEF AccessibilityConfirmed, Justified, AccessibilityItems, OfType
  <1>4. CASE h.category \notin {"OTP_INTERCEPTION", "DATA_EXFILTRATION", "ACCESSIBILITY_ABUSE"}
    BY <1>4 DEF Verify, VerifyGeneral
  <1> QED
    BY <1>1, <1>2, <1>3, <1>4

\* A contradiction that the model did not claim follows no failed experiment.
LEMMA ContradictionWasTested ==
  ASSUME NEW h, NEW static, NEW ev, NEW res, Verify(h, static, ev, res) = "CONTRADICTED",
         h.status # "CONTRADICTED"
  PROVE  ~Failed(res, KindsOf(h.category))
  <1>1. CASE h.category = "OTP_INTERCEPTION"
    BY <1>1 DEF Verify, VerifyOtp, KindsOf
  <1>2. CASE h.category = "DATA_EXFILTRATION"
    BY <1>2 DEF Verify, VerifyExfiltration, Downgraded, KindsOf
  <1>3. CASE h.category = "ACCESSIBILITY_ABUSE"
    BY <1>3 DEF Verify, VerifyAccessibility, Downgraded, KindsOf
  <1>4. CASE h.category \notin {"OTP_INTERCEPTION", "DATA_EXFILTRATION", "ACCESSIBILITY_ABUSE"}
    BY <1>4 DEF Verify, VerifyGeneral, KindsOf
  <1> QED
    BY <1>1, <1>2, <1>3, <1>4

\* Verdicts are taken once, and nothing they were taken from changes afterwards.
VerdictInv ==
  IF stage \in {"score", "done"}
  THEN verdicts = [i \in DOMAIN hypotheses |->
                     Verify(hypotheses[i], sample.static, ToSet(evidence), ToSet(tested))]
  ELSE verdicts = <<>>

\* The report's verdicts are justified by the report's own evidence, and by no
\* failed experiment: what was judged is what is published.
VerdictsAreJustified ==
  \A i \in DOMAIN verdicts :
    /\ verdicts[i] = "CONFIRMED" =>
         Justified(hypotheses[i].category, sample.static, ToSet(evidence))
    /\ verdicts[i] = "CONTRADICTED" /\ hypotheses[i].status # "CONTRADICTED" =>
         ~Failed(ToSet(tested), KindsOf(hypotheses[i].category))

\* Only the verifier writes verdicts; later stages change none of its inputs.
LEMMA StepKeepsVerdicts ==
  ASSUME VerdictInv, [Next \/ Ended]_vars
  PROVE  VerdictInv'
  <1> USE DEF VerdictInv
  <1>1. CASE Preliminary
    BY <1>1 DEF Preliminary
  <1>2. CASE NoAnswer
    BY <1>2 DEF NoAnswer
  <1>3. CASE PlanInvestigation
    BY <1>3 DEF PlanInvestigation
  <1>4. CASE NotDynamic
    BY <1>4 DEF NotDynamic
  <1>5. CASE StartObserve
    BY <1>5 DEF StartObserve, ownVars
  <1>6. CASE Observe
    BY <1>6 DEF Observe, ownVars
  <1>7. CASE ObserveReturned
    BY <1>7 DEF ObserveReturned
  <1>8. CASE ObserveRaised
    BY <1>8 DEF ObserveRaised, DynamicFailed
  <1>9. CASE PayloadsRaised
    BY <1>9 DEF PayloadsRaised, DynamicFailed
  <1>10. CASE Payloads
    BY <1>10 DEF Payloads
  <1>11. CASE Correlate
    BY <1>11 DEF Correlate
  <1>12. CASE VerifyHypotheses
    BY <1>12 DEF VerifyHypotheses
  <1>13. CASE FinalScore
    BY <1>13 DEF FinalScore
  <1>14. CASE Ended \/ UNCHANGED vars
    BY <1>14 DEF Ended, vars, ownVars
  <1> QED
    BY <1>1, <1>2, <1>3, <1>4, <1>5, <1>6, <1>7, <1>8, <1>9, <1>10, <1>11, <1>12, <1>13, <1>14
       DEF Next

\* Every verdict of every analysis is justified, for any answer of the language
\* model, any log and any failures of the emulator.
THEOREM VerdictsHold == Spec => []VerdictsAreJustified
  <1>1. Init => VerdictInv
    BY DEF Init, VerdictInv
  <1>2. VerdictInv /\ [Next \/ Ended]_vars => VerdictInv'
    BY StepKeepsVerdicts
  <1>3. VerdictInv => VerdictsAreJustified
    <2> SUFFICES ASSUME VerdictInv, NEW i \in DOMAIN verdicts
                 PROVE  /\ verdicts[i] = "CONFIRMED" =>
                             Justified(hypotheses[i].category, sample.static, ToSet(evidence))
                        /\ verdicts[i] = "CONTRADICTED" /\ hypotheses[i].status # "CONTRADICTED" =>
                             ~Failed(ToSet(tested), KindsOf(hypotheses[i].category))
      BY DEF VerdictsAreJustified
    <2>1. verdicts[i] = Verify(hypotheses[i], sample.static, ToSet(evidence), ToSet(tested))
      BY DEF VerdictInv
    <2> QED
      BY <2>1, ConfirmationIsJustified, ContradictionWasTested
  <1> QED
    BY <1>1, <1>2, <1>3, PTL DEF Spec

-----------------------------------------------------------------------------
(* Lineage.                                                                *)

\* The pipeline adds the item that proves an exfiltration only for a marker that
\* came in and that a hook saw in the body of a request; a log line, a URL or a
\* destination alone never make one (_is_verified_body_egress).
THEOREM CorrelationNeedsBody ==
  ASSUME NEW list, WithLineage(list) # list
  PROVE  /\ \E e \in ToSet(list) :
              e.type = "network_destination" /\ e.trust = "INSTRUMENTED" /\ e.marked /\ e.body
         /\ \E e \in ToSet(list) :
              e.type \in {"synthetic_sms_delivered", "sms_access"} /\ e.marked
  <1>1. CompleteExfiltration(ToSet(list))
    BY DEF WithLineage
  <1> QED
    BY <1>1 DEF CompleteExfiltration, Egress, Ingress, VerifiedBodyEgress, Matched, OfType
-----------------------------------------------------------------------------
(* The invariant of an analysis.                                           *)

\* The plan as it was made is valid; it is told with the results, once the
\* dynamic stage is over.
PlanInv ==
  /\ ValidPlan(planned, Capabilities)
  /\ stage \in {"static", "plan"} => planned = <<>> /\ plan = <<>>
  /\ stage \in {"dynamic", "payloads"} => plan = planned
  /\ stage \in {"correlate", "verify", "score", "done"} =>
       /\ DOMAIN plan = DOMAIN planned
       /\ \A i \in DOMAIN plan :
            /\ plan[i].type \in ExperimentType /\ plan[i].status \in ExperimentStatus \ {"PLANNED"}
            /\ plan[i].status = "COMPLETED" =>
                 \E k \in DOMAIN tested : tested[k].id = plan[i].id /\ tested[k].status = "COMPLETED"
            /\ plan[i].status = "UNSUPPORTED" => ~(env.requested /\ Ready)

\* A run was asked for and possible, and executes the plan if there is one.
AskedInv ==
  /\ stage \in {"static", "plan"} => phase = "idle"
  /\ phase # "idle" =>
       /\ env.requested /\ Ready
       /\ planned # <<>> =>
            /\ DOMAIN todo = DOMAIN planned
            /\ \A k \in DOMAIN todo : todo[k].id = planned[k].id /\ todo[k].type = planned[k].type

\* Evidence and results are those of a run that returned, or there are none.
TakenInv ==
  /\ stage \in {"static", "plan", "dynamic"} => evidence = <<>> /\ tested = <<>>
  /\ stage = "payloads" => evidence = items /\ tested = results /\ phase = "returned"
  /\ stage = "correlate" =>
       \/ evidence = <<>> /\ tested = <<>>
       \/ evidence = items /\ tested = results /\ phase = "returned"
  /\ stage \in {"verify", "score", "done"} =>
       \/ evidence = <<>> /\ tested = <<>>
       \/ evidence = WithLineage(items) /\ tested = results /\ phase = "returned"

\* What is set once, and the scores.
SetInv ==
  /\ env \in Environment /\ sample \in Sample
  /\ stage \in {"static", "plan", "dynamic", "payloads", "correlate", "verify", "score", "done"}
  /\ ai \in {"PENDING", "DISABLED", "UNAVAILABLE", "FAILED", "COMPLETED"}
  /\ \A i \in DOMAIN hypotheses : hypotheses[i].status \in HypothesisStatus
  /\ early \in 0 .. 100
  /\ IF stage = "done"
     THEN score = [overall |-> AtMost(100, early + RuntimeAdjustment(ToSet(evidence))),
                   adjustment |-> RuntimeAdjustment(ToSet(evidence))]
     ELSE score = NoScore

AnalysisInv == RunInv /\ PlanInv /\ AskedInv /\ TakenInv /\ SetInv /\ VerdictInv

-----------------------------------------------------------------------------
(* Each step keeps the invariant of an analysis.                           *)

LEMMA SameRun ==
  ASSUME RunInv, UNCHANGED runVars
  PROVE  RunInv'
  <1> USE DEF RunInv, runVars
  <1>1. RunTypeInv'
    BY DEF RunTypeInv
  <1>2. StartInv'
    BY DEF StartInv
  <1>3. ItemsInv'
    BY DEF ItemsInv
  <1>4. TodoInv'
    BY DEF TodoInv
  <1>5. ResultsInv'
    BY DEF ResultsInv, Current
  <1>6. SharesInv'
    BY DEF SharesInv, Counted
  <1>7. ActedInv'
    BY DEF ActedInv, MayAct
  <1> QED
    BY <1>1, <1>2, <1>3, <1>4, <1>5, <1>6, <1>7

\* observe begins with experiments of the catalog (StartObserve).
LEMMA StartKeepsRun ==
  ASSUME RunInv, PlanInv, StartObserve
  PROVE  RunInv'
  <1> USE DEF RunInv
  <1>1. /\ phase = "idle" /\ phase' = "preflight" /\ stage = "dynamic"
        /\ UNCHANGED <<env, items, results, outcome, received, app, hist, acted, faults>>
        /\ todo' = IF plan # <<>> THEN [i \in DOMAIN plan |-> [id |-> plan[i].id, type |-> plan[i].type]]
                   ELSE [i \in DOMAIN DefaultExperiments |-> [id |-> i, type |-> DefaultExperiments[i]]]
    BY DEF StartObserve, deviceVars
  <1>2. items = <<>> /\ results = <<>> /\ acted = {}
    BY <1>1 DEF StartInv
  <1>3. RunTypeInv'
    BY <1>1 DEF RunTypeInv
  <1>4. StartInv'
    BY <1>1, <1>2 DEF StartInv
  <1>5. ItemsInv'
    BY <1>1 DEF ItemsInv
  <1>6. todo' \in Seq(ToSet(todo')) /\ \A k \in DOMAIN todo' : (todo'[k]).type \in ExperimentType
    <2>1. CASE plan # <<>>
      <3>1. plan \in Seq(ToSet(plan)) /\ \A k \in DOMAIN plan : plan[k].type \in ExperimentType
        BY <1>1 DEF PlanInv, ValidPlan
      <3>2. DOMAIN plan = 1 .. Len(plan) /\ Len(plan) \in Nat
        BY <3>1
      <3>3. DOMAIN todo' = 1 .. Len(plan) /\ \A k \in 1 .. Len(plan) : (todo'[k]).type = plan[k].type
        BY <1>1, <2>1, <3>2
      <3>4. todo' = [k \in 1 .. Len(plan) |-> todo'[k]]
        BY <1>1, <2>1, <3>2
      <3> HIDE DEF ExperimentType
      <3> QED
        BY <3>1, <3>2, <3>3, <3>4 DEF ToSet
    <2>2. CASE plan = <<>>
      <3>1. /\ DefaultExperiments \in Seq(ExperimentType)
            /\ DOMAIN DefaultExperiments = 1 .. Len(DefaultExperiments) /\ Len(DefaultExperiments) \in Nat
        BY RunAssumption
      <3>2. /\ DOMAIN todo' = 1 .. Len(DefaultExperiments)
            /\ \A k \in 1 .. Len(DefaultExperiments) : (todo'[k]).type = DefaultExperiments[k]
        BY <1>1, <2>2, <3>1
      <3>3. todo' = [k \in 1 .. Len(DefaultExperiments) |-> todo'[k]]
        BY <1>1, <2>2, <3>1
      <3> HIDE DEF ExperimentType
      <3> QED
        BY <3>1, <3>2, <3>3 DEF ToSet
    <2> QED
      BY <2>1, <2>2
  <1>7. TodoInv'
    <2>1. Len(results') = 0 /\ Len(todo') \in Nat
      BY <1>1, <1>2, <1>6
    <2>2. phase' = "preflight"
      BY <1>1
    <2>3. \A k \in DOMAIN todo' : (todo'[k]).type \in ExperimentType
      BY <1>6
    <2>4. todo' \in Seq(ToSet(todo'))
      BY <1>6
    <2> QED
      BY <2>1, <2>2, <2>3, <2>4 DEF TodoInv
  <1>8. ResultsInv'
    BY <1>1, <1>2 DEF ResultsInv, ToSet
  <1>9. SharesInv'
    BY <1>1, <1>2 DEF SharesInv, Counted
  <1>10. ActedInv'
    BY <1>1, <1>2 DEF ActedInv
  <1> QED
    BY <1>3, <1>4, <1>5, <1>7, <1>8, <1>9, <1>10

LEMMA StepKeepsRun ==
  ASSUME RunInv, PlanInv, [Next \/ Ended]_vars
  PROVE  RunInv'
  <1>1. CASE Observe
    BY <1>1, RunKeepsInv DEF Observe
  <1>2. CASE StartObserve
    BY <1>2, StartKeepsRun
  <1>3. CASE Next /\ ~Observe /\ ~StartObserve
    BY <1>3, OutsideRun, SameRun
  <1>4. CASE Ended \/ UNCHANGED vars
    <2>1. UNCHANGED runVars
      BY <1>4 DEF Ended, vars
    <2> QED
      BY <2>1, SameRun
  <1> QED
    BY <1>1, <1>2, <1>3, <1>4

\* A step of a run ends nothing that has begun, and keeps what it executes.
LEMMA RunKeepsTask ==
  ASSUME RunStep
  PROVE  env' = env /\ todo' = todo /\ phase # "idle" /\ phase' # "idle"
  <1> USE DEF deviceVars
  <1>1. CASE Preflight
    BY <1>1 DEF Preflight
  <1>2. CASE Install
    BY <1>2 DEF Install
  <1>3. CASE SkipUninstrumented
    BY <1>3 DEF SkipUninstrumented, Conclude, More
  <1>4. CASE BeginPlain
    BY <1>4 DEF BeginPlain, More
  <1>5. CASE EnterSession
    BY <1>5 DEF EnterSession, More
  <1>6. CASE SessionFails
    BY <1>6 DEF SessionFails, Conclude, More
  <1>7. CASE Collect
    BY <1>7, CollectMoves DEF Moves
  <1>8. CASE EndExperiment
    BY <1>8 DEF EndExperiment, Conclude
  <1>9. CASE Finish
    BY <1>9 DEF Finish
  <1>10. CASE Uninstall
    BY <1>10 DEF Uninstall
  <1> QED
    BY <1>1, <1>2, <1>3, <1>4, <1>5, <1>6, <1>7, <1>8, <1>9, <1>10 DEF RunStep

LEMMA StepKeepsAsked ==
  ASSUME PlanInv, AskedInv, [Next \/ Ended]_vars
  PROVE  AskedInv'
  <1> USE DEF AskedInv, Ready
  <1>1. CASE Preliminary
    BY <1>1 DEF Preliminary, runVars
  <1>2. CASE NoAnswer
    BY <1>2 DEF NoAnswer, runVars
  <1>3. CASE PlanInvestigation
    BY <1>3 DEF PlanInvestigation, runVars
  <1>4. CASE NotDynamic
    BY <1>4 DEF NotDynamic, runVars
  <1>5. CASE StartObserve
    <2>1. /\ plan = planned /\ planned' = planned /\ stage' = "dynamic" /\ env' = env
          /\ env.requested /\ Ready
          /\ planned # <<>> => todo' = [i \in DOMAIN plan |-> [id |-> plan[i].id, type |-> plan[i].type]]
      BY <1>5 DEF StartObserve, ownVars, PlanInv
    <2>2. planned' # <<>> =>
            /\ DOMAIN todo' = DOMAIN planned'
            /\ \A k \in DOMAIN todo' : (todo'[k]).id = (planned'[k]).id /\ (todo'[k]).type = (planned'[k]).type
      BY <2>1
    <2>3. Ready'
      BY <2>1
    <2> QED
      BY <2>1, <2>2, <2>3
  <1>6. CASE Observe
    <2>1. env' = env /\ todo' = todo /\ phase # "idle" /\ UNCHANGED ownVars /\ stage = "dynamic"
      BY <1>6, RunKeepsTask DEF Observe
    <2> QED
      BY <2>1 DEF ownVars
  <1>7. CASE ObserveReturned
    BY <1>7 DEF ObserveReturned, runVars
  <1>8. CASE ObserveRaised
    BY <1>8 DEF ObserveRaised, DynamicFailed, runVars
  <1>9. CASE PayloadsRaised
    BY <1>9 DEF PayloadsRaised, DynamicFailed, runVars
  <1>10. CASE Payloads
    BY <1>10 DEF Payloads, runVars
  <1>11. CASE Correlate
    BY <1>11 DEF Correlate, runVars
  <1>12. CASE VerifyHypotheses
    BY <1>12 DEF VerifyHypotheses, runVars
  <1>13. CASE FinalScore
    BY <1>13 DEF FinalScore, runVars
  <1>14. CASE Ended \/ UNCHANGED vars
    BY <1>14 DEF Ended, vars, ownVars, runVars
  <1> QED
    BY <1>1, <1>2, <1>3, <1>4, <1>5, <1>6, <1>7, <1>8, <1>9, <1>10, <1>11, <1>12, <1>13, <1>14
       DEF Next

\* The environment of an analysis is settled before it begins.
LEMMA StepKeepsEnv ==
  ASSUME [Next \/ Ended]_vars
  PROVE  env' = env
  <1>1. CASE Observe
    BY <1>1, RunKeepsTask DEF Observe
  <1>2. CASE StartObserve
    BY <1>2 DEF StartObserve
  <1>3. CASE Next /\ ~Observe /\ ~StartObserve
    BY <1>3, OutsideRun DEF runVars
  <1>4. CASE Ended \/ UNCHANGED vars
    BY <1>4 DEF Ended, vars, runVars
  <1> QED
    BY <1>1, <1>2, <1>3, <1>4

\* The plan is told once, with a status for each experiment.
Tells(status) ==
  \A i \in DOMAIN plan :
    /\ status[i] \in ExperimentStatus \ {"PLANNED"}
    /\ status[i] = "COMPLETED" =>
         \E k \in DOMAIN tested : tested[k].id = plan[i].id /\ tested[k].status = "COMPLETED"
    /\ status[i] = "UNSUPPORTED" => ~(env.requested /\ Ready)

LEMMA ToldPlan ==
  ASSUME PlanInv, stage \in {"dynamic", "payloads"}, stage' = "correlate",
         env' = env, planned' = planned, tested' = tested,
         NEW status, Tells(status), plan' = WithStatus(status)
  PROVE  PlanInv'
  <1>1. plan = planned /\ ValidPlan(plan, Capabilities)
    BY DEF PlanInv
  <1>2. \A i \in DOMAIN plan : IsExperiment(plan[i]) /\ plan[i].type \in ExperimentType
    BY <1>1 DEF ValidPlan
  <1>3. DOMAIN plan' = DOMAIN plan
    BY DEF WithStatus
  <1>4. ASSUME NEW i \in DOMAIN plan
        PROVE  /\ (plan'[i]).type \in ExperimentType
               /\ (plan'[i]).id = plan[i].id /\ (plan'[i]).status = status[i]
    <2>1. plan'[i] = [plan[i] EXCEPT !.status = status[i]]
      BY DEF WithStatus
    <2>2. plan[i] = [id |-> plan[i].id, hyp |-> plan[i].hyp, type |-> plan[i].type,
                     status |-> plan[i].status]
      BY <1>2 DEF IsExperiment
    <2>3. plan'[i] = [id |-> plan[i].id, hyp |-> plan[i].hyp, type |-> plan[i].type,
                      status |-> status[i]]
      BY <2>1, <2>2
    <2>4. plan[i].type \in ExperimentType
      BY <1>2
    <2> HIDE DEF ExperimentType
    <2> QED
      BY <2>3, <2>4
  <1>5. Ready' = Ready /\ Capabilities' = Capabilities
    BY DEF Ready, Capabilities
  <1>6. ValidPlan(planned', Capabilities')
    BY <1>1, <1>5
  <1> QED
    BY <1>1, <1>3, <1>4, <1>5, <1>6 DEF PlanInv, Tells

\* results_by_id: each experiment of the plan has a result of its own id.
LEMMA ResultsTell ==
  ASSUME RunInv, PlanInv, AskedInv, TakenInv, stage = "payloads"
  PROVE  Tells([i \in DOMAIN plan |->
                 IF \E k \in DOMAIN tested : tested[k].id = plan[i].id
                 THEN (CHOOSE r \in ToSet(tested) : r.id = plan[i].id).status
                 ELSE plan[i].status])
  <1>1. /\ plan = planned /\ tested = results /\ phase = "returned"
        /\ plan \in Seq(ToSet(plan)) /\ results \in Seq(ToSet(results)) /\ todo \in Seq(ToSet(todo))
        /\ Len(results) = Len(todo)
    BY DEF PlanInv, ValidPlan, TakenInv, RunInv, TodoInv, ResultsInv
  <1>2. /\ DOMAIN results = 1 .. Len(results) /\ DOMAIN todo = 1 .. Len(todo)
        /\ plan # <<>> => DOMAIN todo = DOMAIN plan
    BY <1>1 DEF AskedInv
  <1>3. \A i \in DOMAIN plan : plan # <<>>
    BY <1>1
  <1>4. ASSUME NEW i \in DOMAIN plan PROVE \E k \in DOMAIN tested : tested[k].id = plan[i].id
    <2>1. plan # <<>> /\ i \in DOMAIN results
      BY <1>1, <1>2, <1>3
    <2>2. results[i].id = todo[i].id
      BY <2>1 DEF RunInv, ResultsInv
    <2>3. todo[i].id = plan[i].id
      BY <1>1, <1>2, <2>1 DEF AskedInv
    <2> QED
      BY <1>1, <2>1, <2>2, <2>3
  <1>5. ASSUME NEW i \in DOMAIN plan
        PROVE  \E k \in DOMAIN tested :
                 /\ tested[k].id = plan[i].id /\ tested[k].status \in EndStatus
                 /\ tested[k] = CHOOSE r \in ToSet(tested) : r.id = plan[i].id
    <2> DEFINE r == CHOOSE r \in ToSet(tested) : r.id = plan[i].id
    <2>1. \E q \in ToSet(tested) : q.id = plan[i].id
      BY <1>4 DEF ToSet
    <2>2. r \in ToSet(tested) /\ r.id = plan[i].id
      BY <2>1
    <2> HIDE DEF r
    <2>3. PICK k \in DOMAIN tested : tested[k] = r
      BY <2>2 DEF ToSet
    <2>4. tested[k].status \in EndStatus
      BY <1>1, <2>3 DEF RunInv, ResultsInv
    <2> QED
      BY <2>2, <2>3, <2>4 DEF r
  <1> DEFINE status == [i \in DOMAIN plan |->
                 IF \E k \in DOMAIN tested : tested[k].id = plan[i].id
                 THEN (CHOOSE r \in ToSet(tested) : r.id = plan[i].id).status
                 ELSE plan[i].status]
  <1>6. ASSUME NEW i \in DOMAIN plan
        PROVE  /\ status[i] \in EndStatus
               /\ \E k \in DOMAIN tested : tested[k].id = plan[i].id /\ tested[k].status = status[i]
    <2>1. status[i] = (CHOOSE r \in ToSet(tested) : r.id = plan[i].id).status
      BY <1>4
    <2>2. PICK k \in DOMAIN tested :
                 /\ tested[k].id = plan[i].id /\ tested[k].status \in EndStatus
                 /\ tested[k] = CHOOSE r \in ToSet(tested) : r.id = plan[i].id
      BY <1>5
    <2> HIDE DEF status
    <2> QED
      BY <2>1, <2>2
  <1> HIDE DEF status
  <1>7. EndStatus \subseteq ExperimentStatus \ {"PLANNED", "UNSUPPORTED"}
    BY DEF EndStatus, ExperimentStatus
  <1>8. Tells(status)
    <2> HIDE DEF ExperimentStatus, EndStatus
    <2> QED
      BY <1>6, <1>7 DEF Tells
  <1> QED
    BY <1>8 DEF status

\* Whatever the model answers: no experiment that the catalog does not know, no
\* id that is given twice, and a status for each (plan_from_payload).
LEMMA PlanIsMade ==
  ASSUME PlanInv, PlanInvestigation
  PROVE  PlanInv'
  <1>1. /\ stage = "plan" /\ stage' = "dynamic" /\ UNCHANGED runVars
        /\ \E a \in Answer :
             \/ UNCHANGED <<hypotheses, plan, planned>>
             \/ /\ hypotheses' = Grounded(a) /\ plan' = Plan(a, hypotheses', Capabilities)
                /\ planned' = plan'
    BY DEF PlanInvestigation
  <1>2. Capabilities' = Capabilities
    BY <1>1 DEF Capabilities, runVars
  <1>3. CASE UNCHANGED <<hypotheses, plan, planned>>
    BY <1>1, <1>2, <1>3 DEF PlanInv
  <1>4. ASSUME NEW a \in Answer, hypotheses' = Grounded(a),
               plan' = Plan(a, hypotheses', Capabilities), planned' = plan'
        PROVE  PlanInv'
    <2>1. TypedAnswer(a)
      BY InvestigationAssumption
    <2>2. ValidPlan(Plan(a, Grounded(a), Capabilities), Capabilities)
      BY <2>1, PlanType
    <2>3. ValidPlan(planned', Capabilities')
      BY <1>2, <1>4, <2>2
    <2> QED
      BY <1>1, <1>4, <2>3 DEF PlanInv
  <1> QED
    BY <1>1, <1>3, <1>4

LEMMA StepKeepsPlan ==
  ASSUME RunInv, PlanInv, AskedInv, TakenInv, [Next \/ Ended]_vars
  PROVE  PlanInv'
  <1>0. env' = env /\ Ready' = Ready /\ Capabilities' = Capabilities
    BY StepKeepsEnv DEF Ready, Capabilities
  <1>a. ASSUME planned' = planned, plan' = plan, tested' = tested,
               \/ stage' = stage
               \/ stage \in {"static", "plan"} /\ stage' \in {"plan", "dynamic"}
               \/ /\ stage \in {"correlate", "verify", "score"}
                  /\ stage' \in {"verify", "score", "done"}
        PROVE  PlanInv'
    BY <1>0, <1>a DEF PlanInv
  <1>1. CASE Preliminary
    BY <1>1, <1>a DEF Preliminary
  <1>2. CASE NoAnswer
    BY <1>2, <1>a DEF NoAnswer
  <1>3. CASE PlanInvestigation
    BY <1>3, PlanIsMade
  <1>4. CASE NotDynamic
    <2> DEFINE status == [i \in DOMAIN plan |->
                 IF ~env.requested THEN "SKIPPED"
                 ELSE IF plan[i].status = "PLANNED" THEN "UNAVAILABLE" ELSE plan[i].status]
    <2>1. /\ stage = "dynamic" /\ stage' = "correlate" /\ ~(env.requested /\ Ready)
          /\ planned' = planned /\ tested' = tested /\ plan' = WithStatus(status)
      BY <1>4 DEF NotDynamic
    <2>2. \A i \in DOMAIN plan : plan[i].status \in {"PLANNED", "UNSUPPORTED"}
      BY <2>1 DEF PlanInv, ValidPlan, PlannedStatus
    <2>3. \A i \in DOMAIN plan : status[i] \in {"SKIPPED", "UNAVAILABLE", "UNSUPPORTED"}
      BY <2>2
    <2> HIDE DEF status
    <2>4. Tells(status)
      BY <2>1, <2>3 DEF Tells, ExperimentStatus
    <2> QED
      BY <1>0, <2>1, <2>4, ToldPlan
  <1>5. CASE StartObserve
    BY <1>5, <1>a DEF StartObserve, ownVars
  <1>6. CASE Observe
    BY <1>6, <1>a DEF Observe, ownVars
  <1>7. CASE ObserveReturned
    BY <1>0, <1>7 DEF ObserveReturned, PlanInv
  <1>f. ASSUME DynamicFailed, stage \in {"dynamic", "payloads"} PROVE PlanInv'
    <2> DEFINE status == [i \in DOMAIN plan |-> "FAILED"]
    <2>1. /\ stage' = "correlate"
          /\ planned' = planned /\ tested' = tested /\ plan' = WithStatus(status)
      BY <1>f DEF DynamicFailed
    <2>2. Tells(status)
      BY DEF Tells, ExperimentStatus
    <2> HIDE DEF status
    <2> QED
      BY <1>0, <1>f, <2>1, <2>2, ToldPlan
  <1>8. CASE ObserveRaised
    BY <1>8, <1>f DEF ObserveRaised
  <1>9. CASE PayloadsRaised
    BY <1>9, <1>f DEF PayloadsRaised
  <1>10. CASE Payloads
    <2> DEFINE status == [i \in DOMAIN plan |->
                 IF \E k \in DOMAIN tested : tested[k].id = plan[i].id
                 THEN (CHOOSE r \in ToSet(tested) : r.id = plan[i].id).status
                 ELSE plan[i].status]
    <2>1. /\ stage = "payloads" /\ stage' = "correlate"
          /\ planned' = planned /\ tested' = tested /\ plan' = WithStatus(status)
      BY <1>10 DEF Payloads, StatusById
    <2>2. Tells(status)
      BY <2>1, ResultsTell
    <2> HIDE DEF status
    <2> QED
      BY <1>0, <2>1, <2>2, ToldPlan
  <1>11. CASE Correlate
    BY <1>11, <1>a DEF Correlate
  <1>12. CASE VerifyHypotheses
    BY <1>12, <1>a DEF VerifyHypotheses
  <1>13. CASE FinalScore
    BY <1>13, <1>a DEF FinalScore
  <1>14. CASE Ended \/ UNCHANGED vars
    BY <1>14, <1>a DEF Ended, vars, ownVars
  <1> QED
    BY <1>1, <1>2, <1>3, <1>4, <1>5, <1>6, <1>7, <1>8, <1>9, <1>10, <1>11, <1>12, <1>13, <1>14
       DEF Next

\* What a run leaves is taken over when it has returned, and not before.
LEMMA StepKeepsTaken ==
  ASSUME TakenInv, [Next \/ Ended]_vars
  PROVE  TakenInv'
  <1> USE DEF TakenInv
  <1>1. CASE Preliminary
    BY <1>1 DEF Preliminary
  <1>2. CASE NoAnswer
    BY <1>2 DEF NoAnswer
  <1>3. CASE PlanInvestigation
    BY <1>3 DEF PlanInvestigation
  <1>4. CASE NotDynamic
    BY <1>4 DEF NotDynamic
  <1>5. CASE StartObserve
    BY <1>5 DEF StartObserve, ownVars
  <1>6. CASE Observe
    BY <1>6 DEF Observe, ownVars
  <1>7. CASE ObserveReturned
    BY <1>7 DEF ObserveReturned, runVars
  <1>8. CASE ObserveRaised
    BY <1>8 DEF ObserveRaised, DynamicFailed
  <1>9. CASE PayloadsRaised
    BY <1>9 DEF PayloadsRaised, DynamicFailed, runVars
  <1>10. CASE Payloads
    BY <1>10 DEF Payloads, runVars
  <1>11. CASE Correlate
    <2>1. ToSet(<<>>) = {}
      BY DEF ToSet
    <2>2. WithLineage(<<>>) = <<>>
      BY <2>1 DEF WithLineage, CompleteExfiltration, Ingress, OfType, Matched
    <2>3. WithLineage(items)' = WithLineage(items)
      BY <1>11 DEF Correlate, runVars
    <2> QED
      BY <1>11, <2>2, <2>3 DEF Correlate, runVars
  <1>12. CASE VerifyHypotheses
    BY <1>12 DEF VerifyHypotheses, runVars
  <1>13. CASE FinalScore
    BY <1>13 DEF FinalScore, runVars
  <1>14. CASE Ended \/ UNCHANGED vars
    BY <1>14 DEF Ended, vars, ownVars, runVars
  <1> QED
    BY <1>1, <1>2, <1>3, <1>4, <1>5, <1>6, <1>7, <1>8, <1>9, <1>10, <1>11, <1>12, <1>13, <1>14
       DEF Next

\* What is set once stays; scores stay in their bounds.
LEMMA StepKeepsSet ==
  ASSUME SetInv, [Next \/ Ended]_vars
  PROVE  SetInv'
  <1>0. env' = env
    BY StepKeepsEnv
  <1>a. ASSUME sample' = sample, hypotheses' = hypotheses, early' = early, score' = score,
               evidence' = evidence \/ stage # "done",
               \/ stage # "done" /\ stage' # "done"
               \/ stage' = stage,
               stage' \in {"static", "plan", "dynamic", "payloads", "correlate", "verify", "score", "done"},
               ai' \in {"PENDING", "DISABLED", "UNAVAILABLE", "FAILED", "COMPLETED"}
        PROVE  SetInv'
    BY <1>0, <1>a DEF SetInv, NoScore
  <1>1. CASE Preliminary
    <2> DEFINE new == StaticScore(sample.static, sample.expected, sample.findings)
    <2>1. sample \in Sample
      BY DEF SetInv
    <2>2. sample.findings \in Seq(ToSet(sample.findings))
          /\ \A f \in ToSet(sample.findings) : f.points \in Nat
      BY <2>1, InvestigationAssumption
    <2>3. new \in 0 .. 100
      BY <2>2, StaticScoreBounds
    <2>4. /\ stage = "static" /\ stage' = "plan" /\ early' = new
          /\ UNCHANGED <<sample, ai, hypotheses, evidence, score>>
      BY <1>1 DEF Preliminary
    <2> HIDE DEF new
    <2> QED
      BY <1>0, <2>3, <2>4 DEF SetInv, NoScore
  <1>2. CASE NoAnswer
    <2>1. env.llm \in {"disabled", "unavailable", "configured"}
      BY InvestigationAssumption DEF SetInv
    <2>2. ai' \in {"DISABLED", "UNAVAILABLE", "FAILED"}
      BY <1>2, <2>1 DEF NoAnswer
    <2> QED
      BY <1>2, <1>a, <2>2 DEF NoAnswer
  <1>3. CASE PlanInvestigation
    <2>1. PICK a \in Answer : hypotheses' = hypotheses \/ hypotheses' = Grounded(a)
      BY <1>3 DEF PlanInvestigation
    <2>2. \A i \in DOMAIN hypotheses' : (hypotheses'[i]).status \in HypothesisStatus
      <3>1. CASE hypotheses' = hypotheses
        BY <3>1 DEF SetInv
      <3>2. CASE hypotheses' = Grounded(a)
        <4> DEFINE X == {h \in ToSet(a.hypotheses) : h.valid /\ ValidHypothesis(h)}
        <4>1. TypedAnswer(a) /\ \A h \in ToSet(a.hypotheses) : h.valid => h.status \in HypothesisStatus
          BY InvestigationAssumption
        <4>2. Grounded(a) \in Seq(X)
          BY <4>1, GroundedType
        <4>3. \A h \in X : h.status \in HypothesisStatus
          BY <4>1
        <4> HIDE DEF X, HypothesisStatus
        <4> QED
          BY <3>2, <4>2, <4>3
      <3> QED
        BY <2>1, <3>1, <3>2
    <2>3. /\ stage = "plan" /\ stage' = "dynamic" /\ ai' \in {"FAILED", "COMPLETED"}
          /\ UNCHANGED <<sample, early, score>>
      BY <1>3 DEF PlanInvestigation
    <2> HIDE DEF HypothesisStatus
    <2> QED
      BY <1>0, <2>2, <2>3 DEF SetInv, NoScore
  <1>4. CASE NotDynamic
    BY <1>4, <1>a DEF NotDynamic, SetInv
  <1>5. CASE StartObserve
    BY <1>5, <1>a DEF StartObserve, ownVars, SetInv
  <1>6. CASE Observe
    BY <1>6, <1>a DEF Observe, ownVars, SetInv
  <1>7. CASE ObserveReturned
    BY <1>7, <1>a DEF ObserveReturned, SetInv
  <1>8. CASE ObserveRaised
    BY <1>8, <1>a DEF ObserveRaised, DynamicFailed, SetInv
  <1>9. CASE PayloadsRaised
    BY <1>9, <1>a DEF PayloadsRaised, DynamicFailed, SetInv
  <1>10. CASE Payloads
    BY <1>10, <1>a DEF Payloads, SetInv
  <1>11. CASE Correlate
    BY <1>11, <1>a DEF Correlate, SetInv
  <1>12. CASE VerifyHypotheses
    BY <1>12, <1>a DEF VerifyHypotheses, SetInv
  <1>13. CASE FinalScore
    <2> DEFINE new == RuntimeAdjustment(ToSet(evidence))
    <2>1. /\ stage' = "done"
          /\ score' = [overall |-> AtMost(100, early + new), adjustment |-> new]
          /\ UNCHANGED <<sample, ai, hypotheses, early, evidence>>
      BY <1>13 DEF FinalScore
    <2>2. RuntimeAdjustment(ToSet(evidence))' = new
      BY <2>1
    <2> HIDE DEF new
    <2> QED
      BY <1>0, <2>1, <2>2 DEF SetInv
  <1>14. CASE Ended \/ UNCHANGED vars
    BY <1>14, <1>a DEF Ended, vars, ownVars, SetInv
  <1> QED
    BY <1>1, <1>2, <1>3, <1>4, <1>5, <1>6, <1>7, <1>8, <1>9, <1>10, <1>11, <1>12, <1>13, <1>14
       DEF Next

LEMMA InitSettles ==
  ASSUME Init
  PROVE  AnalysisInv
  <1> USE DEF Init, RunInit
  <1>1. RunInv
    <2>1. RunTypeInv
      BY RunAssumption DEF RunTypeInv
    <2>2. StartInv
      BY DEF StartInv
    <2>3. ItemsInv
      BY DEF ItemsInv, Sound
    <2>4. TodoInv
      BY DEF TodoInv, ToSet
    <2>5. ResultsInv
      BY DEF ResultsInv, ToSet
    <2>6. SharesInv
      BY DEF SharesInv, Counted
    <2>7. ActedInv
      BY DEF ActedInv
    <2> QED
      BY <2>1, <2>2, <2>3, <2>4, <2>5, <2>6, <2>7 DEF RunInv
  <1>2. PlanInv
    <2>1. ValidPlan(<<>>, Capabilities)
      BY DEF ValidPlan, ToSet
    <2> QED
      BY <2>1 DEF PlanInv
  <1>3. AskedInv
    BY DEF AskedInv
  <1>4. TakenInv
    BY DEF TakenInv
  <1>5. SetInv
    BY DEF SetInv
  <1>6. VerdictInv
    BY DEF VerdictInv
  <1> QED
    BY <1>1, <1>2, <1>3, <1>4, <1>5, <1>6 DEF AnalysisInv

LEMMA StepKeepsAnalysis ==
  ASSUME AnalysisInv, [Next \/ Ended]_vars
  PROVE  AnalysisInv'
  BY StepKeepsRun, StepKeepsPlan, StepKeepsAsked, StepKeepsTaken, StepKeepsSet, StepKeepsVerdicts
     DEF AnalysisInv

\* For any sample, environment, log and answer, and any faults and events.
THEOREM AnalysisHolds == Spec => []AnalysisInv
  <1>1. Init => AnalysisInv
    BY InitSettles
  <1>2. AnalysisInv /\ [Next \/ Ended]_vars => AnalysisInv'
    BY StepKeepsAnalysis
  <1> QED
    BY <1>1, <1>2, PTL DEF Spec

-----------------------------------------------------------------------------
(* What the evidence of an analysis tells.                                 *)

\* The item that the pipeline adds of its own, and what it stands on.
FromLineage(e, happened, taken) ==
  /\ e.type = "synthetic_marker_correlation" /\ e.trust = "PAYLOAD_CORRELATED"
  /\ e.src = "lineage" /\ ~e.body
  /\ "body" \in happened /\ taken

\* Evidence that is sound stays, and at most one item of the lineage follows it.
LEMMA LineageExtends ==
  ASSUME NEW list, NEW happened, NEW taken, Sound(list, happened, taken)
  PROVE  /\ WithLineage(list) \in Seq(Item)
         /\ Len(WithLineage(list)) \in Len(list) .. Len(list) + 1
         /\ \A i \in 1 .. Len(list) : WithLineage(list)[i] = list[i]
         /\ \A i \in 1 .. Len(WithLineage(list)) : WithLineage(list)[i].id = i
         /\ \A i \in 1 .. Len(WithLineage(list)) :
              i > Len(list) => FromLineage(WithLineage(list)[i], happened, taken)
  <1> DEFINE type == "synthetic_marker_correlation"
             trust == "PAYLOAD_CORRELATED"
             src == "lineage"
             yes == TRUE
             no == FALSE
             said == Numbered(Correlation, Len(list) + 1, 0)
  <1>1. /\ list \in Seq(Item) /\ Len(list) \in Nat
        /\ \A i \in 1 .. Len(list) : list[i].id = i /\ Genuine(list[i], happened, taken)
    BY DEF Sound
  <1>2. WithLineage(list) = list \/ WithLineage(list) = Append(list, said)
    BY DEF WithLineage
  <1>3. CASE WithLineage(list) = list
    BY <1>1, <1>3
  <1>4. CASE WithLineage(list) # list
    <2>1. PICK e \in ToSet(list) : e.body
      BY <1>4, CorrelationNeedsBody
    <2>2. "body" \in happened /\ taken
      BY <1>1, <2>1 DEF ToSet, Genuine
    <2>3. /\ yes \in BOOLEAN /\ no \in BOOLEAN /\ ~no
          /\ type \in EvidenceType /\ trust \in TrustLevel /\ src \in Source
      BY DEF EvidenceType, TrustLevel, Source
    <2>4. Correlation = [Seen(type, trust, 100, src) EXCEPT !.marked = yes]
      BY DEF Correlation
    <2>5. Seen(type, trust, 100, src) = [type |-> type, trust |-> trust, conf |-> 100, src |-> src,
                                         marked |-> no, body |-> no, dump |-> no]
      BY DEF Seen
    <2>6. /\ said \in Item /\ said.id = Len(list) + 1
          /\ said.type = type /\ said.trust = trust /\ said.src = src /\ ~said.body
      <3> HIDE DEF type, trust, src, yes, no, said
      <3>1. Correlation = [type |-> type, trust |-> trust, conf |-> 100, src |-> src,
                           marked |-> yes, body |-> no, dump |-> no]
        BY <2>4, <2>5
      <3>2. Correlation \in Observation
        BY <2>3, <3>1 DEF Observation
      <3>3. said \in Item
        <4>1. Len(list) + 1 \in Nat /\ 0 \in Nat
          BY <1>1
        <4>2. Numbered(Correlation, Len(list) + 1, 0) \in Item
          BY <3>2, <4>1, NumberedIsItem
        <4> QED
          BY <4>2 DEF said
      <3>4. /\ said.id = Len(list) + 1 /\ said.type = Correlation.type
            /\ said.trust = Correlation.trust /\ said.src = Correlation.src
            /\ said.body = Correlation.body
        BY DEF said, Numbered
      <3> QED
        BY <2>3, <3>1, <3>3, <3>4
    <2>7. FromLineage(said, happened, taken)
      BY <2>2, <2>6 DEF FromLineage
    <2> HIDE DEF said
    <2>8. WithLineage(list) = Append(list, said)
      BY <1>2, <1>4
    <2>9. /\ said \in Item /\ said.id = Len(list) + 1
      BY <2>6
    <2>10. /\ Append(list, said) \in Seq(Item) /\ Len(Append(list, said)) = Len(list) + 1
           /\ \A i \in 1 .. Len(list) : Append(list, said)[i] = list[i]
           /\ Append(list, said)[Len(list) + 1] = said
      BY <1>1, <2>9
    <2> HIDE DEF type, trust, src, yes, no
    <2> QED
      BY <1>1, <2>7, <2>8, <2>9, <2>10
  <1> QED
    BY <1>3, <1>4

\* What is judged and scored: items that are genuine, or follow from them.
LEMMA EvidenceTells ==
  ASSUME AnalysisInv, stage \in {"verify", "score", "done"}
  PROVE  /\ \A e \in ToSet(evidence) :
              Genuine(e, hist, received) \/ FromLineage(e, hist, received)
         /\ tested # <<>> => tested = results /\ evidence = WithLineage(items)
         /\ tested # <<>> \/ evidence # <<>> =>
              \A i \in DOMAIN items : items[i] \in ToSet(evidence)
  <1>1. Sound(items, hist, received)
    BY DEF AnalysisInv, RunInv, ItemsInv
  <1>2. \/ evidence = <<>> /\ tested = <<>>
        \/ evidence = WithLineage(items) /\ tested = results
    BY DEF AnalysisInv, TakenInv
  <1>3. CASE evidence = <<>> /\ tested = <<>>
    BY <1>3 DEF ToSet
  <1>4. CASE evidence = WithLineage(items) /\ tested = results
    <2>1. /\ evidence \in Seq(Item) /\ Len(evidence) \in Len(items) .. Len(items) + 1
          /\ \A i \in 1 .. Len(items) : evidence[i] = items[i]
          /\ \A i \in 1 .. Len(evidence) :
               i > Len(items) => FromLineage(evidence[i], hist, received)
      BY <1>1, <1>4, LineageExtends
    <2>2. /\ items \in Seq(Item) /\ Len(items) \in Nat
          /\ \A i \in 1 .. Len(items) : Genuine(items[i], hist, received)
      BY <1>1 DEF Sound
    <2>3. DOMAIN evidence = 1 .. Len(evidence) /\ DOMAIN items = 1 .. Len(items)
      BY <2>1, <2>2
    <2>4. ASSUME NEW i \in 1 .. Len(evidence)
          PROVE  Genuine(evidence[i], hist, received) \/ FromLineage(evidence[i], hist, received)
      <3>1. CASE i \in 1 .. Len(items)
        BY <2>1, <2>2, <3>1
      <3>2. CASE i > Len(items)
        BY <2>1, <3>2
      <3> QED
        BY <2>1, <2>2, <3>1, <3>2
    <2>5. \A e \in ToSet(evidence) :
            Genuine(e, hist, received) \/ FromLineage(e, hist, received)
      BY <2>3, <2>4 DEF ToSet
    <2>6. \A i \in DOMAIN items : items[i] \in ToSet(evidence)
      BY <2>1, <2>2, <2>3 DEF ToSet
    <2> QED
      BY <1>4, <2>5, <2>6
  <1> QED
    BY <1>2, <1>3, <1>4

-----------------------------------------------------------------------------
(* What verdicts say of the emulator.                                      *)

\* A verdict is what the verifier makes of a hypothesis and of what was taken
\* over, and is given after the lineage.
LEMMA VerdictOf ==
  ASSUME AnalysisInv, NEW i \in DOMAIN verdicts
  PROVE  /\ stage \in {"score", "done"}
         /\ verdicts[i] = Verify(hypotheses[i], sample.static, ToSet(evidence), ToSet(tested))
  <1>1. stage \in {"score", "done"}
    BY DEF AnalysisInv, VerdictInv
  <1> QED
    BY <1>1 DEF AnalysisInv, VerdictInv

LEMMA ConfirmedRests ==
  ASSUME AnalysisInv, NEW i \in DOMAIN verdicts, verdicts[i] = "CONFIRMED"
  PROVE  CASE hypotheses[i].category = "OTP_INTERCEPTION" -> OtpObserved
           [] hypotheses[i].category = "DATA_EXFILTRATION" -> ExfiltrationObserved
           [] hypotheses[i].category = "ACCESSIBILITY_ABUSE" -> AccessibilityObserved
           [] OTHER -> FALSE
  <1> DEFINE ev == ToSet(evidence)
  <1>1. stage \in {"score", "done"} /\ Justified(hypotheses[i].category, sample.static, ev)
    BY VerdictOf, ConfirmationIsJustified
  <1>2. \A e \in ev : Genuine(e, hist, received) \/ FromLineage(e, hist, received)
    BY <1>1, EvidenceTells
  <1>a. \A e : e \in ev <=> e \in ToSet(evidence)
    OBVIOUS
  <1> HIDE DEF ev
  <1>3. CASE hypotheses[i].category = "OTP_INTERCEPTION"
    <2>1. PICK d \in ev, t \in ev :
            /\ d.type = "synthetic_sms_delivered"
            /\ t.type \in {"sms_access", "synthetic_marker_correlation"}
            /\ t.trust \in {"INSTRUMENTED", "PAYLOAD_CORRELATED"}
      BY <1>1, <1>3 DEF Justified
    <2>2. "delivered" \in hist
      BY <1>2, <2>1 DEF Genuine, FromLineage
    <2>3. CASE Genuine(t, hist, received)
      <3>1. "sms" \in hist
        BY <2>1, <2>3 DEF Genuine
      <3> QED
        BY <1>3, <2>2, <3>1 DEF OtpObserved
    <2>4. CASE FromLineage(t, hist, received)
      <3>1. "body" \in hist
        BY <2>4 DEF FromLineage
      <3> QED
        BY <1>3, <2>2, <3>1 DEF OtpObserved
    <2> QED
      BY <1>2, <2>1, <2>3, <2>4
  <1>4. CASE hypotheses[i].category = "DATA_EXFILTRATION"
    <2>1. PICK p \in ev : p.trust = "PAYLOAD_CORRELATED"
      BY <1>1, <1>4 DEF Justified
    <2>2. FromLineage(p, hist, received)
      BY <1>2, <2>1 DEF Genuine
    <2> QED
      BY <1>4, <2>2 DEF FromLineage, ExfiltrationObserved
  <1>5. CASE hypotheses[i].category = "ACCESSIBILITY_ABUSE"
    <2>1. PICK e \in ev :
            /\ e.type = "accessibility_behavior"
            /\ e.trust \in {"SYSTEM_OBSERVED", "INSTRUMENTED"} \/ e.dump
      BY <1>1, <1>5 DEF Justified
    <2>2. Genuine(e, hist, received)
      BY <1>2, <2>1 DEF FromLineage
    <2>3. AccessibilityObserved
      <3>1. CASE e.dump
        BY <1>a, <3>1 DEF AccessibilityObserved
      <3>2. CASE e.trust \in {"SYSTEM_OBSERVED", "INSTRUMENTED"}
        BY <2>1, <2>2, <3>2 DEF Genuine, AccessibilityObserved
      <3> QED
        BY <2>1, <3>1, <3>2
    <2> QED
      BY <1>5, <2>3
  <1> QED
    BY <1>1, <1>3, <1>4, <1>5 DEF Justified

\* A hypothesis is confirmed only by what this run observed on the emulator under
\* instrumentation, for whatever the language model claims and the log says.
THEOREM ConfirmationWasObserved == Spec => []ConfirmedWasObserved
  <1>1. AnalysisInv => ConfirmedWasObserved
    BY ConfirmedRests DEF ConfirmedWasObserved
  <1> QED
    BY <1>1, AnalysisHolds, PTL

\* A completed observation of the network, or of accessibility, left an item, so
\* that its absence contradicts nothing.
LEMMA CompletedShows ==
  ASSUME AnalysisInv, stage \in {"verify", "score", "done"}
  PROVE  /\ Completed(ToSet(tested), "NETWORK_OBSERVATION") => Network(ToSet(evidence)) # {}
         /\ Completed(ToSet(tested), "ACCESSIBILITY_OBSERVATION") =>
              AccessibilityItems(ToSet(evidence)) # {}
  <1> DEFINE ev == ToSet(evidence)
  <1>1. ASSUME NEW t, Completed(ToSet(tested), t)
        PROVE  Showed(t, "COMPLETED", items) /\ \A n \in DOMAIN items : items[n] \in ev
    <2>1. PICK k \in DOMAIN tested : tested[k].type = t /\ tested[k].status = "COMPLETED"
      BY <1>1 DEF Completed, ToSet
    <2>2. tested # <<>>
      BY <2>1
    <2>3. tested = results /\ \A n \in DOMAIN items : items[n] \in ev
      BY <2>2, EvidenceTells
    <2>4. \A n \in DOMAIN results : Showed(results[n].type, results[n].status, items)
      BY DEF AnalysisInv, RunInv, ResultsInv
    <2> QED
      BY <2>1, <2>3, <2>4
  <1> HIDE DEF ev
  <1>2. Completed(ToSet(tested), "NETWORK_OBSERVATION") => Network(ev) # {}
    BY <1>1 DEF Showed, Network, OfType
  <1>3. Completed(ToSet(tested), "ACCESSIBILITY_OBSERVATION") => AccessibilityItems(ev) # {}
    BY <1>1 DEF Showed, AccessibilityItems, OfType
  <1> QED
    BY <1>2, <1>3 DEF ev

LEMMA ContradictedRests ==
  ASSUME AnalysisInv, NEW i \in DOMAIN verdicts, verdicts[i] = "CONTRADICTED",
         hypotheses[i].status # "CONTRADICTED"
  PROVE  /\ hypotheses[i].category = "OTP_INTERCEPTION"
         /\ "delivered" \in hist
         /\ \A r \in ToSet(tested) :
              r.type \in {"SYNTHETIC_SMS", "LOGCAT_CAPTURE"} =>
                r.status \in {"COMPLETED", "UNAVAILABLE"}
         /\ hist \cap {"sms"} = {}
  <1> DEFINE ev == ToSet(evidence)
             res == ToSet(tested)
  <1>1. stage \in {"score", "done"} /\ Verify(hypotheses[i], sample.static, ev, res) = "CONTRADICTED"
    BY VerdictOf
  <1>2. /\ \A e \in ev : Genuine(e, hist, received) \/ FromLineage(e, hist, received)
        /\ tested # <<>> => tested = results
        /\ tested # <<>> \/ evidence # <<>> => \A n \in DOMAIN items : items[n] \in ev
    BY <1>1, EvidenceTells
  <1>3. /\ Completed(res, "NETWORK_OBSERVATION") => Network(ev) # {}
        /\ Completed(res, "ACCESSIBILITY_OBSERVATION") => AccessibilityItems(ev) # {}
    BY <1>1, CompletedShows
  <1>4. \A r \in res : r.status \in EndStatus
    <2>1. \A n \in DOMAIN results : results[n].status \in EndStatus
      BY DEF AnalysisInv, RunInv, ResultsInv
    <2> HIDE DEF EndStatus
    <2>2. \A n \in DOMAIN tested : tested[n].status \in EndStatus
      BY <1>2, <2>1
    <2> QED
      BY <2>2 DEF ToSet
  <1>5. tested = <<>> => res = {}
    BY DEF ToSet
  <1> HIDE DEF ev, res
  <1>6. CASE hypotheses[i].category = "OTP_INTERCEPTION"
    <2>1. /\ ~Failed(res, {"SYNTHETIC_SMS", "LOGCAT_CAPTURE"})
          /\ Completed(res, "SYNTHETIC_SMS") /\ Delivered(ev) # {} /\ Taken(ev) = {}
      BY <1>1, <1>6 DEF Verify, VerifyOtp
    <2>2. "delivered" \in hist
      <3>1. PICK e \in ev : e.type = "synthetic_sms_delivered"
        BY <2>1 DEF Delivered, OfType
      <3> QED
        BY <1>2, <3>1 DEF Genuine, FromLineage
    <2>3. \A r \in res : r.type \in {"SYNTHETIC_SMS", "LOGCAT_CAPTURE"} =>
                           r.status \in {"COMPLETED", "UNAVAILABLE"}
      BY <1>4, <2>1 DEF Failed, EndStatus
    <2>4. "sms" \notin hist
      <3> SUFFICES ASSUME "sms" \in hist PROVE FALSE
        OBVIOUS
      <3>1. PICK n \in DOMAIN items : items[n].type = "sms_access"
        BY DEF AnalysisInv, RunInv, ItemsInv
      <3>2. tested # <<>>
        BY <1>5, <2>1 DEF Completed
      <3>3. items[n] \in Taken(ev)
        BY <1>2, <3>1, <3>2 DEF Taken, OfType
      <3> QED
        BY <2>1, <3>3
    <2> QED
      BY <1>6, <2>2, <2>3, <2>4 DEF res
  <1>7. hypotheses[i].category # "DATA_EXFILTRATION"
    BY <1>1, <1>3 DEF Verify, VerifyExfiltration, Downgraded
  <1>8. hypotheses[i].category # "ACCESSIBILITY_ABUSE"
    BY <1>1, <1>3 DEF Verify, VerifyAccessibility, Downgraded
  <1>9. hypotheses[i].category \in {"OTP_INTERCEPTION", "DATA_EXFILTRATION", "ACCESSIBILITY_ABUSE"}
    BY <1>1 DEF Verify, VerifyGeneral
  <1> QED
    BY <1>6, <1>7, <1>8, <1>9

\* The verifier contradicts a hypothesis by itself only when the SMS was delivered,
\* no hook saw it taken, and no attempt at it or at the log failed.
THEOREM ContradictionIsTested == Spec => []ContradictedWasTested
  <1>1. AnalysisInv => ContradictedWasTested
    BY ContradictedRests DEF ContradictedWasTested
  <1> QED
    BY <1>1, AnalysisHolds, PTL

-----------------------------------------------------------------------------
(* How evidence, plan and results fit together.                            *)

\* The numbers of evidence that is numbered in order.
LEMMA NumbersOf ==
  ASSUME NEW list \in Seq(Item), \A i \in DOMAIN list : list[i].id = i
  PROVE  /\ {list[i].id : i \in DOMAIN list} = 1 .. Len(list)
         /\ Cardinality({list[i].id : i \in DOMAIN list}) = Len(list)
  <1>1. DOMAIN list = 1 .. Len(list) /\ Len(list) \in Nat
    OBVIOUS
  <1>2. {list[i].id : i \in DOMAIN list} = 1 .. Len(list)
    BY <1>1
  <1>3. Cardinality(1 .. Len(list)) = Len(list)
    <2> DEFINE n == Len(list)
    <2>1. n \in Nat /\ (1 <= n \/ n = 0)
      BY <1>1
    <2> HIDE DEF n
    <2>2. Cardinality(1 .. n) = IF 1 > n THEN 0 ELSE n - 1 + 1
      BY <2>1, FS_Interval
    <2>3. Cardinality(1 .. n) = n
      BY <2>1, <2>2
    <2> QED
      BY <2>3 DEF n
  <1> QED
    BY <1>2, <1>3

\* Evidence of a run that returned, with or without an item of the lineage.
LEMMA SharesAccount ==
  ASSUME RunInv, phase = "returned", tested = results,
         evidence \in Seq(Item), \A i \in DOMAIN evidence : evidence[i].id = i,
         Len(items) <= Len(evidence),
         \A i \in DOMAIN evidence : evidence[i].src # "lineage" <=> i <= Len(items)
  PROVE  EvidenceIsAccounted
  <1>1. /\ items \in Seq(Item) /\ Len(items) \in Nat /\ Len(evidence) \in Nat
        /\ DOMAIN evidence = 1 .. Len(evidence)
    BY DEF RunInv, ItemsInv, Sound
  <1>2. Cardinality({evidence[i].id : i \in DOMAIN evidence}) = Len(evidence)
    BY NumbersOf
  <1>3. UNION {r.ids : r \in ToSet(tested)} = 1 .. Len(items)
    <2>1. UNION {results[k].ids : k \in DOMAIN results} = 1 .. Len(items)
      BY DEF RunInv, SharesInv
    <2>2. {r.ids : r \in ToSet(results)} = {results[k].ids : k \in DOMAIN results}
      BY DEF ToSet
    <2> QED
      BY <2>1, <2>2
  <1>4. {evidence[i].id : i \in {k \in DOMAIN evidence : evidence[k].src # "lineage"}}
          = 1 .. Len(items)
    <2>1. {k \in DOMAIN evidence : evidence[k].src # "lineage"} = 1 .. Len(items)
      BY <1>1
    <2>2. \A i \in 1 .. Len(items) : evidence[i].id = i
      BY <1>1
    <2> QED
      BY <2>1, <2>2
  <1>5. \A j, k \in DOMAIN tested : j # k => tested[j].ids \cap tested[k].ids = {}
    BY DEF RunInv, SharesInv
  <1> QED
    BY <1>2, <1>3, <1>4, <1>5 DEF EvidenceIsAccounted

LEMMA AllIsAccounted ==
  ASSUME AnalysisInv
  PROVE  EvidenceIsAccounted
  <1>1. Sound(items, hist, received) /\ RunInv
    BY DEF AnalysisInv, RunInv, ItemsInv
  <1>2. /\ items \in Seq(Item) /\ Len(items) \in Nat /\ DOMAIN items = 1 .. Len(items)
        /\ \A i \in DOMAIN items : items[i].id = i /\ items[i].src # "lineage"
    BY <1>1 DEF Sound, Genuine
  <1>3. \/ evidence = <<>> /\ tested = <<>>
        \/ evidence = items /\ tested = results /\ phase = "returned"
        \/ evidence = WithLineage(items) /\ tested = results /\ phase = "returned"
    BY DEF AnalysisInv, TakenInv, SetInv
  <1>4. CASE evidence = <<>> /\ tested = <<>>
    <2>1. <<>> \in Seq(Item) /\ Len(<<>>) = 0 /\ DOMAIN <<>> = {} /\ ToSet(<<>>) = {}
      BY DEF ToSet
    <2>2. Cardinality({evidence[i].id : i \in DOMAIN evidence}) = Len(evidence)
      BY <1>4, <2>1, NumbersOf
    <2> QED
      BY <1>4, <2>1, <2>2 DEF EvidenceIsAccounted
  <1>5. CASE evidence = items /\ tested = results /\ phase = "returned"
    BY <1>1, <1>2, <1>5, SharesAccount
  <1>6. CASE evidence = WithLineage(items) /\ tested = results /\ phase = "returned"
    <2>1. /\ evidence \in Seq(Item) /\ Len(evidence) \in Len(items) .. Len(items) + 1
          /\ \A i \in 1 .. Len(items) : evidence[i] = items[i]
          /\ \A i \in 1 .. Len(evidence) : evidence[i].id = i
          /\ \A i \in 1 .. Len(evidence) :
               i > Len(items) => FromLineage(evidence[i], hist, received)
      BY <1>1, <1>6, LineageExtends
    <2>2. DOMAIN evidence = 1 .. Len(evidence) /\ Len(evidence) \in Nat
      BY <2>1
    <2>3. \A i \in DOMAIN evidence : i > Len(items) => evidence[i].src = "lineage"
      BY <2>1, <2>2 DEF FromLineage
    <2>4. \A i \in DOMAIN evidence : i <= Len(items) => evidence[i].src # "lineage"
      BY <1>2, <2>1, <2>2
    <2>5. \A i \in DOMAIN evidence : evidence[i].src # "lineage" <=> i <= Len(items)
      BY <1>2, <2>2, <2>3, <2>4
    <2> QED
      BY <1>1, <1>2, <1>6, <2>1, <2>2, <2>5, SharesAccount
  <1> QED
    BY <1>3, <1>4, <1>5, <1>6

\* No number of evidence is given twice, every item is the share of exactly one
\* experiment or of the lineage, and no experiment cites what is not there.
THEOREM EvidenceAccounted == Spec => []EvidenceIsAccounted
  <1>1. AnalysisInv => EvidenceIsAccounted
    BY AllIsAccounted
  <1> QED
    BY <1>1, AnalysisHolds, PTL

LEMMA UnsupportedRests ==
  ASSUME AnalysisInv, NEW i \in DOMAIN planned, planned[i].status = "UNSUPPORTED"
  PROVE  planned[i].id \notin acted
  <1> SUFFICES ASSUME planned[i].id \in acted PROVE FALSE
    OBVIOUS
  <1>1. phase # "idle"
    BY DEF AnalysisInv, RunInv, StartInv
  <1>2. planned # <<>>
    OBVIOUS
  <1>3. /\ Ready /\ DOMAIN todo = DOMAIN planned
        /\ \A k \in DOMAIN todo : todo[k].id = planned[k].id /\ todo[k].type = planned[k].type
    BY <1>1, <1>2 DEF AnalysisInv, AskedInv
  <1>4. PICK k \in DOMAIN todo : MayAct(k) /\ todo[k].id = planned[i].id
    BY DEF AnalysisInv, RunInv, ActedInv
  <1>5. /\ planned[i].status = PlannedStatus(planned[i].type, Capabilities)
        /\ \A j, l \in DOMAIN planned : planned[j].id = planned[l].id => j = l
    BY DEF AnalysisInv, PlanInv, ValidPlan
  <1>6. k = i
    <2>1. k \in DOMAIN planned /\ planned[k].id = planned[i].id
      BY <1>3, <1>4
    <2> HIDE DEF FridaDependent
    <2> QED
      BY <1>5, <2>1
  <1>7. planned[i].type \notin FridaDependent \/ env.frida = "ready"
    BY <1>3, <1>4, <1>6 DEF MayAct
  <1>8. Required(planned[i].type) \subseteq Capabilities
    BY <1>3, <1>7 DEF Required, Capabilities, Ready
  <1> QED
    BY <1>5, <1>8 DEF PlannedStatus

\* Planner and executor decide alike on what the environment supports, although
\* the executor is given every item of the plan.
THEOREM UnsupportedIsIdle == Spec => []UnsupportedNeverActs
  <1>1. AnalysisInv => UnsupportedNeverActs
    BY UnsupportedRests DEF UnsupportedNeverActs
  <1> QED
    BY <1>1, AnalysisHolds, PTL

\* In the report, an experiment is completed only if this very experiment was,
\* and none is left as merely planned.
THEOREM PlanIsTold == Spec => []PlanTellsResults
  <1>1. AnalysisInv => PlanTellsResults
    BY DEF AnalysisInv, PlanInv, PlanTellsResults, ToSet
  <1> QED
    BY <1>1, AnalysisHolds, PTL

-----------------------------------------------------------------------------
(* Points and types.                                                       *)

\* Each rule cites items of the evidence, and those of its own kinds.
LEMMA RulesCite ==
  ASSUME NEW ev, NEW r \in ToSet(RuntimeRules(ev))
  PROVE  \E X \in SUBSET ev :
           /\ r.cited = {e.id : e \in X}
           /\ r.id = "OTP" => X = OtpCited(ev)
           /\ r.id = "EXFIL" => X = ExfilCited(ev)
           /\ r.id = "NET" => X = Strong(ev)
  <1>1. OtpCited(ev) \subseteq ev /\ ExfilCited(ev) \subseteq ev /\ Strong(ev) \subseteq ev
    BY DEF OtpCited, ExfilCited, Strong, OfType
  <1>2. \A types : OfType(ev, types) \subseteq ev
    BY DEF OfType
  <1>3. PICK k \in 1 .. 6 : r = RuntimeRules(ev)[k]
    BY DEF ToSet, RuntimeRules
  <1>4. \A id, category, points, X :
          /\ RuntimeRule(id, category, points, X).id = id
          /\ RuntimeRule(id, category, points, X).cited = {e.id : e \in X}
    BY DEF RuntimeRule
  <1>5. \/ r = RuntimeRule("OTP", "credential_theft", 20, OtpCited(ev))
        \/ r = RuntimeRule("EXFIL", "credential_theft", 15, ExfilCited(ev))
        \/ r = RuntimeRule("ACC", "payment_manipulation", 18, OfType(ev, {"accessibility_behavior"}))
        \/ r = RuntimeRule("DCL", "evasion_resilience", 15, OfType(ev, {"dynamic_code_load"}))
        \/ r = RuntimeRule("NET", "fraud_impersonation", 10, Strong(ev))
        \/ r = RuntimeRule("WEB", "payment_manipulation", 12, OfType(ev, {"webview_activity"}))
    BY <1>3 DEF RuntimeRules
  <1>6. CASE r = RuntimeRule("OTP", "credential_theft", 20, OtpCited(ev))
    <2>1. r.id = "OTP" /\ r.cited = {e.id : e \in OtpCited(ev)}
      BY <1>4, <1>6
    <2> QED
      BY <1>1, <2>1
  <1>7. CASE r = RuntimeRule("EXFIL", "credential_theft", 15, ExfilCited(ev))
    <2>1. r.id = "EXFIL" /\ r.cited = {e.id : e \in ExfilCited(ev)}
      BY <1>4, <1>7
    <2> QED
      BY <1>1, <2>1
  <1>8. CASE r = RuntimeRule("NET", "fraud_impersonation", 10, Strong(ev))
    <2>1. r.id = "NET" /\ r.cited = {e.id : e \in Strong(ev)}
      BY <1>4, <1>8
    <2> QED
      BY <1>1, <2>1
  <1>9. CASE r = RuntimeRule("ACC", "payment_manipulation", 18, OfType(ev, {"accessibility_behavior"}))
    <2>1. r.id = "ACC" /\ r.cited = {e.id : e \in OfType(ev, {"accessibility_behavior"})}
      BY <1>4, <1>9
    <2> QED
      BY <1>2, <2>1
  <1>10. CASE r = RuntimeRule("DCL", "evasion_resilience", 15, OfType(ev, {"dynamic_code_load"}))
    <2>1. r.id = "DCL" /\ r.cited = {e.id : e \in OfType(ev, {"dynamic_code_load"})}
      BY <1>4, <1>10
    <2> QED
      BY <1>2, <2>1
  <1>11. CASE r = RuntimeRule("WEB", "payment_manipulation", 12, OfType(ev, {"webview_activity"}))
    <2>1. r.id = "WEB" /\ r.cited = {e.id : e \in OfType(ev, {"webview_activity"})}
      BY <1>4, <1>11
    <2> QED
      BY <1>2, <2>1
  <1> QED
    BY <1>5, <1>6, <1>7, <1>8, <1>9, <1>10, <1>11

\* The evidence of an analysis is numbered in order.
LEMMA EvidenceNumbers ==
  ASSUME AnalysisInv
  PROVE  evidence \in Seq(Item) /\ \A i \in DOMAIN evidence : evidence[i].id = i
  <1>1. Sound(items, hist, received)
    BY DEF AnalysisInv, RunInv, ItemsInv
  <1>2. CASE evidence = <<>>
    BY <1>2
  <1>3. CASE evidence = items
    BY <1>1, <1>3 DEF Sound
  <1>4. CASE evidence = WithLineage(items)
    <2>1. evidence \in Seq(Item) /\ \A i \in 1 .. Len(evidence) : evidence[i].id = i
      BY <1>1, <1>4, LineageExtends
    <2> QED
      BY <2>1
  <1> QED
    BY <1>2, <1>3, <1>4 DEF AnalysisInv, TakenInv, SetInv

LEMMA RulesEarn ==
  ASSUME AnalysisInv, stage = "done",
         NEW r \in ToSet(RuntimeRules(ToSet(evidence))), r.cited # {}
  PROVE  /\ r.cited \subseteq 1 .. Len(evidence)
         /\ r.id = "OTP" => "delivered" \in hist
         /\ r.id = "EXFIL" => ExfiltrationObserved
         /\ r.id = "NET" => hist \cap {"network", "body", "url"} # {}
  <1> DEFINE ev == ToSet(evidence)
  <1>1. \A e \in ev : Genuine(e, hist, received) \/ FromLineage(e, hist, received)
    BY EvidenceTells
  <1>2. PICK X \in SUBSET ev :
           /\ r.cited = {e.id : e \in X}
           /\ r.id = "OTP" => X = OtpCited(ev)
           /\ r.id = "EXFIL" => X = ExfilCited(ev)
           /\ r.id = "NET" => X = Strong(ev)
    BY RulesCite
  <1>3. \A e \in ev : e.id \in 1 .. Len(evidence)
    <2>1. DOMAIN evidence = 1 .. Len(evidence) /\ \A i \in DOMAIN evidence : evidence[i].id = i
      BY EvidenceNumbers
    <2> QED
      BY <2>1 DEF ToSet
  <1> HIDE DEF ev
  <1>4. X # {}
    BY <1>2
  <1>5. ASSUME r.id = "OTP" PROVE "delivered" \in hist
    <2>1. OfType(ev, {"synthetic_sms_delivered"}) # {}
      BY <1>2, <1>4, <1>5 DEF OtpCited
    <2>2. PICK e \in ev : e.type = "synthetic_sms_delivered"
      BY <2>1 DEF OfType
    <2> QED
      BY <1>1, <2>2 DEF Genuine, FromLineage
  <1>6. ASSUME r.id = "EXFIL" PROVE ExfiltrationObserved
    <2>1. PICK e \in ev : e.trust = "PAYLOAD_CORRELATED"
      BY <1>2, <1>4, <1>6 DEF ExfilCited, AnyTrusted, OfType, Strong
    <2> QED
      BY <1>1, <2>1 DEF Genuine, FromLineage, ExfiltrationObserved
  <1>7. ASSUME r.id = "NET" PROVE hist \cap {"network", "body", "url"} # {}
    <2>1. PICK e \in ev : e.type \in NetworkType /\ e.conf >= 70
      BY <1>2, <1>4, <1>7 DEF Strong, OfType
    <2>2. Genuine(e, hist, received)
      BY <1>1, <2>1 DEF FromLineage, NetworkType
    <2>3. e \in Item
      <3>1. evidence \in Seq(Item)
        BY EvidenceNumbers
      <3> QED
        BY <3>1, IsSequence DEF ev
    <2>4. ~(e.conf < 70)
      BY <2>1, <2>3 DEF Item
    <2> QED
      BY <2>1, <2>2, <2>4 DEF Genuine
  <1> QED
    BY <1>2, <1>3, <1>5, <1>6, <1>7

\* The final score is the early one and what runtime evidence adds, capped.
LEMMA ScoreBounds ==
  ASSUME AnalysisInv
  PROVE  /\ early \in 0 .. 100 /\ score.overall \in 0 .. 100
         /\ score.adjustment \in 0 .. GlobalRuntimeCap
         /\ score.overall - early <= GlobalRuntimeCap
  <1> DEFINE adjustment == RuntimeAdjustment(ToSet(evidence))
  <1>1. adjustment \in 0 .. GlobalRuntimeCap
    BY AdjustmentBounds
  <1>2. early \in 0 .. 100
    BY DEF AnalysisInv, SetInv
  <1>3. CASE stage = "done"
    <2>1. score = [overall |-> AtMost(100, early + adjustment), adjustment |-> adjustment]
      BY <1>3 DEF AnalysisInv, SetInv
    <2> HIDE DEF adjustment
    <2> QED
      BY <1>1, <1>2, <2>1 DEF AtMost, GlobalRuntimeCap
  <1>4. CASE stage # "done"
    <2>1. score = [overall |-> 0, adjustment |-> 0]
      BY <1>4 DEF AnalysisInv, SetInv, NoScore
    <2> QED
      BY <1>2, <2>1 DEF GlobalRuntimeCap
  <1> QED
    BY <1>3, <1>4

\* Runtime points are earned: by a delivered SMS, a captured body, a hook on the
\* network; they cite items there are, and stay below the global cap.
THEOREM PointsWereObserved == Spec => []PointsAreObserved
  <1>1. AnalysisInv => PointsAreObserved
    <2> SUFFICES ASSUME AnalysisInv PROVE PointsAreObserved
      OBVIOUS
    <2>1. score.adjustment <= GlobalRuntimeCap /\ score.overall - early <= GlobalRuntimeCap
      BY ScoreBounds DEF GlobalRuntimeCap
    <2> QED
      BY <2>1, RulesEarn DEF PointsAreObserved
  <1> QED
    BY <1>1, AnalysisHolds, PTL

\* The verifier answers with a status of the schema.
LEMMA VerdictType ==
  ASSUME NEW h, h.status \in HypothesisStatus, NEW static, NEW ev, NEW res
  PROVE  Verify(h, static, ev, res) \in HypothesisStatus
  <1>1. Downgraded(h) \in HypothesisStatus
    BY DEF Downgraded, HypothesisStatus
  <1>2. VerifyOtp(h, static, ev, res) \in HypothesisStatus
    BY DEF VerifyOtp, HypothesisStatus
  <1>3. VerifyExfiltration(h, static, ev, res) \in HypothesisStatus
    BY <1>1 DEF VerifyExfiltration, HypothesisStatus
  <1>4. VerifyAccessibility(h, static, ev, res) \in HypothesisStatus
    BY <1>1 DEF VerifyAccessibility, HypothesisStatus
  <1>5. VerifyGeneral(h, res) \in HypothesisStatus
    BY DEF VerifyGeneral, HypothesisStatus
  <1> QED
    BY <1>2, <1>3, <1>4, <1>5 DEF Verify

\* Every variable of an analysis has its type: evidence, results, plans, verdicts
\* and scores are as the schemas of the code require.
THEOREM TypesHold == Spec => []InvestigationTypeOK
  <1>1. AnalysisInv => InvestigationTypeOK
    <2> SUFFICES ASSUME AnalysisInv PROVE InvestigationTypeOK
      OBVIOUS
    <2>1. /\ RunTypeInv /\ items \in Seq(Item)
          /\ \A i \in DOMAIN results : results[i].status \in EndStatus
      BY DEF AnalysisInv, RunInv, ItemsInv, Sound, ResultsInv
    <2>2. /\ stage \in {"static", "plan", "dynamic", "payloads", "correlate", "verify", "score", "done"}
          /\ ai \in {"PENDING", "DISABLED", "UNAVAILABLE", "FAILED", "COMPLETED"}
          /\ \A i \in DOMAIN hypotheses : hypotheses[i].status \in HypothesisStatus
      BY DEF AnalysisInv, SetInv
    <2>3. \A i \in DOMAIN plan : plan[i].status \in ExperimentStatus /\ plan[i].type \in ExperimentType
      <3>1. \A t : PlannedStatus(t, Capabilities) \in ExperimentStatus
        BY DEF PlannedStatus, ExperimentStatus
      <3>2. CASE stage \in {"static", "plan", "dynamic", "payloads"}
        <4>1. plan = planned \/ plan = <<>>
          BY <3>2 DEF AnalysisInv, PlanInv
        <4> HIDE DEF ExperimentStatus, ExperimentType
        <4> QED
          BY <3>1, <4>1 DEF AnalysisInv, PlanInv, ValidPlan
      <3>3. CASE stage \in {"correlate", "verify", "score", "done"}
        BY <3>3 DEF AnalysisInv, PlanInv
      <3> QED
        BY <2>2, <3>2, <3>3
    <2>4. \A i \in DOMAIN verdicts : verdicts[i] \in HypothesisStatus
      <3>1. CASE stage \in {"score", "done"}
        BY <2>2, <3>1, VerdictType DEF AnalysisInv, VerdictInv
      <3>2. CASE stage \notin {"score", "done"}
        BY <3>2 DEF AnalysisInv, VerdictInv
      <3> QED
        BY <3>1, <3>2
    <2> QED
      BY <2>1, <2>2, <2>3, <2>4, ScoreBounds DEF InvestigationTypeOK, RunTypeInv, EndStatus
  <1> QED
    BY <1>1, AnalysisHolds, PTL
=============================================================================
