-------------------------- MODULE MCInvestigation --------------------------
(* Instances of Investigation for TLC. *)
EXTENDS Investigation

CONSTANT Pick    \* which of the answers below an instance uses

\* The log: a line about SMS that carries the marker, one with a destination,
\* one that speaks of accessibility, and one of code that is loaded.
SignalsOf ==
  ("sms line" :> {"sms_access"}) @@ ("net line" :> {"network_destination", "dynamic_code_load"})
    @@ ("acc line" :> {"accessibility_behavior", "webview_activity"})

Hypothesis(id, category, status, conf, recommends) ==
  [id |-> id, category |-> category, status |-> status, conf |-> conf, missing |-> 1,
   cites |-> TRUE, valid |-> TRUE, recommends |-> recommends]

Otp == Hypothesis("h1", "OTP_INTERCEPTION", "CONFIRMED", 80, <<"SYNTHETIC_SMS">>)
Exfil == Hypothesis("h2", "DATA_EXFILTRATION", "CONFIRMED", 50, <<"NETWORK_OBSERVATION">>)
Access == Hypothesis("h3", "ACCESSIBILITY_ABUSE", "PROPOSED", 70,
                     <<"ACCESSIBILITY_OBSERVATION", "UI_SCREENSHOT">>)
Loading == Hypothesis("h4", "DYNAMIC_CODE_LOADING", "CONFIRMED", 60,
                      <<"DYNAMIC_CODE_LOAD_OBSERVATION", "WEBVIEW_OBSERVATION">>)
Unknown == Hypothesis("h5", "UNKNOWN_SUSPICIOUS_BEHAVIOR", "SUPPORTED", 20,
                      <<"FILESYSTEM_DIFF", "PACKAGE_STATE_CAPTURE">>)

Request(id, hyp, type, priority) ==
  [id |-> id, hyp |-> hyp, type |-> type, priority |-> priority, valid |-> TRUE]

Answers ==
  [flow    |-> [hypotheses |-> <<Exfil, Otp>>, requests |-> NULL],
   access  |-> [hypotheses |-> <<Access>>, requests |-> NULL],
   loading |-> [hypotheses |-> <<Loading>>, requests |-> NULL],
   unknown |-> [hypotheses |-> <<Unknown>>, requests |-> NULL],
   twice   |-> [hypotheses |-> <<Otp>>,
                requests |-> <<Request(1, "h1", "SYNTHETIC_SMS", 2),
                               Request(2, "h1", "SYNTHETIC_SMS", 1),
                               Request(2, "h1", "LOGCAT_CAPTURE", 1),
                               Request(3, "h9", "LAUNCH_APP", 1)>>],
   start   |-> [hypotheses |-> <<Otp>>,
                requests |-> <<Request(1, "h1", "LAUNCH_APP", 1),
                               Request(2, "h1", "OBSERVE_STARTUP", 3)>>],
   nothing |-> [hypotheses |-> <<[Otp EXCEPT !.cites = FALSE]>>, requests |-> NULL]]

MCAnswer == {Answers[n] : n \in Pick}

MCLines == <<"sms line", "net line", "acc line">>

MCSample ==
  {[static |-> {"READ_SMS", "accessibility_service"}, expected |-> {}, findings |-> <<>>],
   [static |-> {"INTERNET"}, expected |-> {"READ_SMS"},
    findings |-> <<[engine |-> "yara", category |-> "evasion_resilience", eligible |-> TRUE,
                    conf |-> 80, points |-> 30]>>]}

Env(requested, reachable, frida, network, llm) ==
  [requested |-> requested, lite |-> TRUE, reachable |-> reachable, frida |-> frida,
   observers |-> {"sms", "network", "dynamic_dex", "accessibility"}, network |-> network,
   llm |-> llm]

MCEnvironment ==
  {Env(TRUE, TRUE, "ready", TRUE, "configured"), Env(TRUE, TRUE, "off", TRUE, "configured"),
   Env(TRUE, FALSE, "ready", TRUE, "configured"), Env(FALSE, TRUE, "ready", TRUE, "configured"),
   Env(TRUE, TRUE, "ready", FALSE, "configured"), Env(TRUE, TRUE, "ready", TRUE, "disabled"),
   Env(TRUE, TRUE, "off", TRUE, "unavailable")}

MCDefaultExperiments == <<"SYNTHETIC_SMS", "LOGCAT_CAPTURE">>
=============================================================================
