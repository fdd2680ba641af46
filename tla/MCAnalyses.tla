----------------------------- MODULE MCAnalyses -----------------------------
(* Instances of Analyses for TLC. *)
EXTENDS Analyses

Found(engine, id, severity, points, category) ==
  [engine |-> engine, id |-> id, severity |-> severity, points |-> points, conf |-> 90,
   category |-> category, eligible |-> TRUE]

Banker ==
  [static |-> {"READ_SMS", "RECEIVE_SMS", "sms_receiver", "accessibility_service", "sms_api",
               "SYSTEM_ALERT_WINDOW", "input_injection", "dynamic_code_loading"},
   expected |-> {}, quality |-> "full", defect |-> NULL,
   findings |-> <<Found("apkid", 1, "HIGH", 30, "evasion_resilience"),
                  Found("yara", 2, "HIGH", 30, "fraud_impersonation"),
                  Found("yara", 3, "MEDIUM", 20, "evasion_resilience")>>,
   detections |-> 7, known |-> TRUE, bazaar |-> FALSE,
   iocs |-> <<"host", "cert", "host">>, events |-> <<"ANALYZED">>]

Loader ==
  [Banker EXCEPT !.static = @ \ {"input_injection", "dynamic_code_loading"},
                 !.findings = <<>>, !.quality = "partial", !.detections = 0, !.known = FALSE,
                 !.iocs = <<"cert", "invalid">>,
                 !.events = <<"INVALID_MAGIC", "UNAVAILABLE", "ANALYZED">>]

NotAnApk == [Banker EXCEPT !.defect = "missing_manifest", !.events = <<>>]

On == [enabled |-> TRUE, allowed |-> TRUE, available |-> TRUE]
Off == [On EXCEPT !.enabled = FALSE]

With(engines) ==
  [a \in Adapter |-> IF a \in engines \cup {"archive_native", "androguard"} THEN On ELSE Off]

Bring(route, sample) == [route |-> route, sample |-> sample]

MCWorld ==
  {\* One slot, engines that hang: timeouts, cancellations and crashes.
   [db |-> "sqlite", slots |-> 1, slow |-> TRUE, setup |-> With({}),
    brings |-> [r1 |-> Bring("v1", Banker), r2 |-> Bring("v1", Loader)],
    old |-> {}, faults |-> {"server"}],
   \* The legacy route, which has no timeout, under such an engine.
   [db |-> "sqlite", slots |-> 1, slow |-> TRUE, setup |-> With({}),
    brings |-> [r1 |-> Bring("legacy", NotAnApk), r2 |-> Bring("v1", Banker)],
    old |-> {}, faults |-> {"files"}],
   \* The same sample twice, engines that fail or stop early.
   [db |-> "sqlite", slots |-> 2, slow |-> FALSE, setup |-> With({"apkid", "yara", "virustotal", "malwarebazaar"}),
    brings |-> [r1 |-> Bring("v1", Banker), r2 |-> Bring("legacy", Banker)],
    old |-> {}, faults |-> {"engines"}],
   \* The same indicators at once, with old data.
   [db |-> "sqlite", slots |-> 2, slow |-> FALSE, setup |-> With({}),
    brings |-> [r1 |-> Bring("v1", Loader), r2 |-> Bring("legacy", Banker)],
    old |-> {"host"}, faults |-> {"database"}],
   [db |-> "postgres", slots |-> 2, slow |-> FALSE, setup |-> With({}),
    brings |-> [r1 |-> Bring("legacy", Banker), r2 |-> Bring("legacy", Banker)],
    old |-> {"cert"}, faults |-> {"database"}]}

MCLines == <<>>
=============================================================================
