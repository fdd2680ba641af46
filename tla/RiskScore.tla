----------------------------- MODULE RiskScore -----------------------------
(***************************************************************************)
(* The deterministic risk score: RiskScorer (deceptiscope/scoring.py) and  *)
(* FraudDeltaCalculator (deceptiscope/fraud_delta.py).  A sample is the    *)
(* set of its static signals, engine findings are records, and runtime     *)
(* evidence is a set of items.  Scores are integers; weights, fraud deltas *)
(* and confidences are in percent.                                         *)
(***************************************************************************)
EXTENDS Evidence, TLC

CategoryOrder ==
  <<"credential_theft", "payment_manipulation", "fraud_impersonation", "evasion_resilience">>

Category == ToSet(CategoryOrder)

AtMost(n, bound) == IF n <= bound THEN n ELSE bound

\* The sum of a sequence of numbers.
Total(numbers) ==
  LET sum[n \in 0 .. Len(numbers)] == IF n = 0 THEN 0 ELSE sum[n - 1] + numbers[n]
  IN sum[Len(numbers)]

\* RiskScorer.weights, category_runtime_caps and global_runtime_cap.
Weight(c) ==
  CASE c = "credential_theft" -> 34 [] c = "payment_manipulation" -> 30
    [] c = "fraud_impersonation" -> 20 [] c = "evasion_resilience" -> 16

RuntimeCap(c) ==
  CASE c \in {"credential_theft", "payment_manipulation"} -> 25
    [] c = "evasion_resilience" -> 20 [] c = "fraud_impersonation" -> 15

GlobalRuntimeCap == 35

\* A rule fires on a sample that has all of its signals.
Rule(signals, category, points) ==
  [signals |-> signals, category |-> category, points |-> points]

\* RULES, and the correlated combinations APK-INT-001 to 003.
StaticRules ==
  <<Rule({"READ_SMS"}, "credential_theft", 18),
    Rule({"RECEIVE_SMS"}, "credential_theft", 14),
    Rule({"sms_receiver"}, "credential_theft", 18),
    Rule({"accessibility_service"}, "credential_theft", 22),
    Rule({"sms_api"}, "credential_theft", 10),
    Rule({"SYSTEM_ALERT_WINDOW"}, "payment_manipulation", 22),
    Rule({"installed_app_enumeration"}, "payment_manipulation", 17),
    Rule({"input_injection"}, "payment_manipulation", 28),
    Rule({"accessibility_service"}, "payment_manipulation", 20),
    Rule({"bank_impersonation_flag"}, "fraud_impersonation", 45),
    Rule({"REQUEST_INSTALL_PACKAGES"}, "fraud_impersonation", 18),
    Rule({"dynamic_code_loading"}, "evasion_resilience", 25),
    Rule({"reflection"}, "evasion_resilience", 12),
    Rule({"command_execution"}, "evasion_resilience", 25),
    Rule({"name_obfuscation"}, "evasion_resilience", 18),
    Rule({"embedded_payloads"}, "evasion_resilience", 20),
    Rule({"READ_SMS", "RECEIVE_SMS", "sms_receiver"}, "credential_theft", 18),
    Rule({"SYSTEM_ALERT_WINDOW", "accessibility_service"}, "payment_manipulation", 22),
    Rule({"dynamic_code_loading", "embedded_payloads"}, "evasion_resilience", 15)>>

Fired(rules, static) == {k \in DOMAIN rules : rules[k].signals \subseteq static}

\* What the rules that fired add up to in a category.
Earned(rules, fired, c) ==
  Total([k \in DOMAIN rules |->
           IF k \in fired /\ rules[k].category = c THEN rules[k].points ELSE 0])

Points(static, c) == Earned(StaticRules, Fired(StaticRules, static), c)

-----------------------------------------------------------------------------

\* _engine_evidence: findings of optional engines.  Each counts for at most 30
\* points, and all of one engine for at most 25 in a category.
EngineCredit(findings, engine, c) ==
  AtMost(Total([i \in DOMAIN findings |->
                  LET f == findings[i] IN
                  IF f.engine = engine /\ f.eligible /\ f.conf >= 70 /\ f.category = c
                  THEN AtMost(f.points, 30) ELSE 0]), 25)

\* Every engine counts once: at the first of its findings.
EnginePoints(findings, c) ==
  Total([i \in DOMAIN findings |->
           IF \A j \in DOMAIN findings : findings[j].engine = findings[i].engine => i <= j
           THEN EngineCredit(findings, findings[i].engine, c) ELSE 0])

\* FraudDeltaCalculator.calculate: what the baseline of the declared category
\* does not expect, and what no baseline does.
PermissionWeights ==
  LET Weighs(p, w) == Rule({p}, "permission", w) IN
  <<Weighs("READ_SMS", 14), Weighs("RECEIVE_SMS", 12), Weighs("SEND_SMS", 10),
    Weighs("SYSTEM_ALERT_WINDOW", 14), Weighs("REQUEST_INSTALL_PACKAGES", 10),
    Weighs("QUERY_ALL_PACKAGES", 7), Weighs("READ_CONTACTS", 5), Weighs("READ_CALL_LOG", 7),
    Weighs("RECORD_AUDIO", 4)>>

SignalWeights ==
  LET Weighs(s, w) == Rule({s}, "signal", w) IN
  <<Weighs("dynamic_code_loading", 10), Weighs("installed_app_enumeration", 8),
    Weighs("sms_api", 8), Weighs("command_execution", 10), Weighs("input_injection", 12),
    Weighs("accessibility_service", 13), Weighs("sms_receiver", 10),
    Weighs("bank_impersonation_flag", 15)>>

FraudDelta(static, expected) ==
  AtMost(100,
    Earned(PermissionWeights, Fired(PermissionWeights, static \ expected), "permission")
      + Earned(SignalWeights, Fired(SignalWeights, static), "signal"))

-----------------------------------------------------------------------------

\* Python's round: to the nearest, and to the even one from the middle.
Rounded(hundredths) ==
  LET n == hundredths \div 100 IN
  IF hundredths % 100 > 50 \/ (hundredths % 100 = 50 /\ n % 2 = 1) THEN n + 1 ELSE n

SubScore(static, findings, c) ==
  AtMost(Points(static, c) + EnginePoints(findings, c), 100)

\* Stage 1: the weighted sub-scores and the fraud delta, a tenth of it at most
\* ten points.
StaticScore(static, expected, findings) ==
  AtMost(100, Rounded(
    Total([k \in DOMAIN CategoryOrder |->
             Weight(CategoryOrder[k]) * SubScore(static, findings, CategoryOrder[k])])
      + AtMost(1000, 10 * FraudDelta(static, expected))))

\* A bug: a destination counts however uncertain it is.
AnyNetwork(ev) == OfType(ev, NetworkType)

\* RUNTIME_RULES in order, with the items they cite: a rule that cites none does
\* not fire.
Strong(ev) == {e \in OfType(ev, NetworkType) : e.conf >= 70}

RuntimeRule(id, category, points, cited) ==
  [id |-> id, category |-> category, points |-> points, cited |-> {e.id : e \in cited}]

\* _runtime_otp: a delivery, and what the app did with it; anything trusted
\* among them will do, the delivery itself included.
OtpCited(ev) ==
  LET delivered == OfType(ev, {"synthetic_sms_delivered"})
      accessed == OfType(ev, {"sms_access", "synthetic_marker_correlation"}) IN
  IF /\ delivered # {} /\ accessed # {}
     /\ \E e \in delivered \cup accessed :
          e.trust \in {"INSTRUMENTED", "PAYLOAD_CORRELATED"} \/ e.conf >= 80
  THEN delivered \cup accessed ELSE {}

\* _runtime_exfil.
ExfilCited(ev) ==
  LET markers == OfType(ev, {"synthetic_marker_correlation"}) IN
  IF /\ markers # {} /\ Strong(ev) # {}
     /\ AnyTrusted(markers \cup Strong(ev), {"PAYLOAD_CORRELATED"})
  THEN markers \cup Strong(ev) ELSE {}

RuntimeRules(ev) ==
  <<RuntimeRule("OTP", "credential_theft", 20, OtpCited(ev)),
    RuntimeRule("EXFIL", "credential_theft", 15, ExfilCited(ev)),
    RuntimeRule("ACC", "payment_manipulation", 18, OfType(ev, {"accessibility_behavior"})),
    RuntimeRule("DCL", "evasion_resilience", 15, OfType(ev, {"dynamic_code_load"})),
    RuntimeRule("NET", "fraud_impersonation", 10, Strong(ev)),
    RuntimeRule("WEB", "payment_manipulation", 12, OfType(ev, {"webview_activity"}))>>

RuntimePoints(rules, c) == Earned(rules, {k \in DOMAIN rules : rules[k].cited # {}}, c)

\* A bug: what a category earned is not capped.
UncappedAdjustment(ev) ==
  Total([k \in DOMAIN CategoryOrder |-> RuntimePoints(RuntimeRules(ev), CategoryOrder[k])])

\* Stage 2: every category is capped, and so is their sum.
RuntimeAdjustment(ev) ==
  AtMost(GlobalRuntimeCap,
    Total([k \in DOMAIN CategoryOrder |->
             AtMost(RuntimePoints(RuntimeRules(ev), CategoryOrder[k]),
                    RuntimeCap(CategoryOrder[k]))]))

\* _severity.
Severity(score) ==
  CASE score >= 75 -> "CRITICAL"
    [] score >= 50 /\ score < 75 -> "HIGH"
    [] score >= 25 /\ score < 50 -> "MEDIUM"
    [] OTHER -> "LOW"
=============================================================================
