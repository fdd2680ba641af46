------------------------------ MODULE Verifier ------------------------------
(***************************************************************************)
(* HypothesisVerifier (deceptiscope/verifier.py): what the deterministic   *)
(* verifier makes of a hypothesis of the language model.                   *)
(*                                                                         *)
(* "h" is a hypothesis with its category and the status the model claims,  *)
(* "static" the set of static signals of the sample, "ev" the set of items *)
(* of runtime evidence, "results" the set of experiment results.           *)
(***************************************************************************)
EXTENDS Evidence

HypothesisStatus == {"PROPOSED", "SUPPORTED", "CONTRADICTED", "INCONCLUSIVE", "CONFIRMED"}

\* _has_failed_experiment and _has_completed_experiment.
Failed(results, types) ==
  \E r \in results : r.type \in types /\ r.status \in {"FAILED", "TIMED_OUT"}

Completed(results, type) == \E r \in results : r.type = type /\ r.status = "COMPLETED"

\* _downgrade_unconfirmed: a claim without support is at most what it was, and
\* never a confirmation.
Downgraded(h) ==
  CASE h.status = "CONFIRMED" -> "SUPPORTED"
    [] h.status \in {"SUPPORTED", "CONTRADICTED", "INCONCLUSIVE"} -> h.status
    [] OTHER -> "PROPOSED"

\* _marker_precedes_network: some destination is not older than the oldest marker.
MarkerPrecedesNetwork(markers, network) ==
  \E m \in markers : /\ \A o \in markers : m.at <= o.at
                     /\ \E n \in network : n.at >= m.at

-----------------------------------------------------------------------------

\* _otp_static_signals, _has_static_network_signal and
\* _has_static_accessibility_signal.
OtpStatic(static) ==
  static \cap {"READ_SMS", "RECEIVE_SMS", "sms_receiver", "sms_api"} # {}

NetworkStatic(static) == static \cap {"INTERNET", "urls", "network_indicators"} # {}

AccessibilityStatic(static) ==
  static \cap {"accessibility_service", "accessibility_api"} # {}

Markers(ev) == OfType(ev, {"synthetic_marker_correlation"})

Network(ev) == OfType(ev, NetworkType)

\* What _verify_otp looks for: the delivery, and a sign that the app took the
\* message or its marker.
Delivered(ev) == OfType(ev, {"synthetic_sms_delivered"})

Taken(ev) == OfType(ev, {"sms_access", "synthetic_marker_correlation"})

\* A bug: a log line about SMS is enough.
OtpConfirmedByLogs(static, ev) ==
  /\ OtpStatic(static)
  /\ AnyTrusted(Delivered(ev), {"INSTRUMENTED", "PAYLOAD_CORRELATED", "SYSTEM_OBSERVED"})
  /\ Taken(ev) # {}

\* confirmation_allowed of _verify_otp.
OtpConfirmed(static, ev) ==
  /\ OtpStatic(static)
  /\ AnyTrusted(Delivered(ev), {"INSTRUMENTED", "PAYLOAD_CORRELATED", "SYSTEM_OBSERVED"})
  /\ AnyTrusted(Taken(ev), {"INSTRUMENTED", "PAYLOAD_CORRELATED"})

\* A bug: an absence is believed before failures are looked at.
VerifyOtpHastily(h, static, ev, results) ==
  IF OtpConfirmed(static, ev) THEN "CONFIRMED"
  ELSE IF Completed(results, "SYNTHETIC_SMS") /\ Delivered(ev) # {} /\ Taken(ev) = {}
       THEN "CONTRADICTED"
  ELSE IF OtpStatic(static) THEN "SUPPORTED"
  ELSE "PROPOSED"

\* _verify_otp.  A failed experiment is no proof of absence: it comes before
\* the contradiction.
VerifyOtp(h, static, ev, results) ==
  IF OtpConfirmed(static, ev) THEN "CONFIRMED"
  ELSE IF Failed(results, {"SYNTHETIC_SMS", "LOGCAT_CAPTURE"}) THEN "INCONCLUSIVE"
  ELSE IF Completed(results, "SYNTHETIC_SMS") /\ Delivered(ev) # {} /\ Taken(ev) = {}
       THEN "CONTRADICTED"
  ELSE IF OtpStatic(static) THEN "SUPPORTED"
  ELSE "PROPOSED"

\* confirmation_allowed of _verify_data_exfiltration.
ExfilConfirmed(ev) ==
  /\ MarkerPrecedesNetwork(Markers(ev), Network(ev))
  /\ AnyTrusted(Markers(ev) \cup Network(ev), {"PAYLOAD_CORRELATED"})

\* _verify_data_exfiltration.
VerifyExfiltration(h, static, ev, results) ==
  IF ExfilConfirmed(ev) THEN "CONFIRMED"
  ELSE IF Failed(results, {"NETWORK_OBSERVATION", "SYNTHETIC_SMS"}) THEN "INCONCLUSIVE"
  ELSE IF /\ Completed(results, "NETWORK_OBSERVATION")
          /\ Markers(ev) # {} /\ Network(ev) = {}
       THEN "CONTRADICTED"
  ELSE IF NetworkStatic(static) \/ Markers(ev) # {} \/ Network(ev) # {} THEN "SUPPORTED"
  ELSE Downgraded(h)

AccessibilityItems(ev) == OfType(ev, {"accessibility_behavior"})

\* confirmation_allowed of _verify_accessibility: the system or a hook reports
\* the binding, or a text of the item has the word dumpsys.
AccessibilityConfirmed(static, ev) ==
  /\ AccessibilityStatic(static)
  /\ \E e \in AccessibilityItems(ev) :
       e.trust \in {"SYSTEM_OBSERVED", "INSTRUMENTED"} \/ e.dump

\* _verify_accessibility.
VerifyAccessibility(h, static, ev, results) ==
  IF AccessibilityConfirmed(static, ev) THEN "CONFIRMED"
  ELSE IF Failed(results, {"ACCESSIBILITY_OBSERVATION", "LOGCAT_CAPTURE"}) THEN "INCONCLUSIVE"
  ELSE IF /\ Completed(results, "ACCESSIBILITY_OBSERVATION")
          /\ AccessibilityStatic(static) /\ AccessibilityItems(ev) = {}
       THEN "CONTRADICTED"
  ELSE IF AccessibilityStatic(static) \/ AccessibilityItems(ev) # {} THEN "SUPPORTED"
  ELSE Downgraded(h)

\* _verify_general: no category of its own, so nothing confirms it.
VerifyGeneral(h, results) ==
  IF Failed(results, ExperimentType) THEN "INCONCLUSIVE"
  ELSE IF h.status = "CONFIRMED" THEN "SUPPORTED"
  ELSE h.status

\* HypothesisVerifier.verify.
Verify(h, static, ev, results) ==
  CASE h.category = "OTP_INTERCEPTION" -> VerifyOtp(h, static, ev, results)
    [] h.category = "DATA_EXFILTRATION" -> VerifyExfiltration(h, static, ev, results)
    [] h.category = "ACCESSIBILITY_ABUSE" -> VerifyAccessibility(h, static, ev, results)
    [] OTHER -> VerifyGeneral(h, results)

\* apply_verifications_to_hypotheses: a hypothesis gets the verified status of
\* the last verification that carries its id.
Applied(hypotheses, verdicts) ==
  [i \in DOMAIN hypotheses |->
     LET named == {j \in DOMAIN hypotheses : hypotheses[j].id = hypotheses[i].id} IN
     verdicts[CHOOSE j \in named : \A k \in named : k <= j]]
=============================================================================
