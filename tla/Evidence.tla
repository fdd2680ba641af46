------------------------------ MODULE Evidence ------------------------------
(***************************************************************************)
(* The vocabulary of an investigation: the experiments of the trusted      *)
(* catalog (deceptiscope/experiments.py), the observers that instrument    *)
(* them (runtime/observer_registry.py, runtime_models.py), the evidence    *)
(* they leave (class RuntimeEvidence and its builder, dynamic.py), and how *)
(* log lines and Frida events become evidence (dynamic.py, frida_host.py). *)
(*                                                                         *)
(* Texts are abstract: a log line is a name with the signals it matches; a *)
(* Frida event is named by what it reports.  "src" stands for the metadata *)
(* that tells two observations of one type apart.                          *)
(***************************************************************************)
EXTENDS Integers, Sequences, FiniteSets, SequencesExt

CONSTANTS
  Lines,       \* log lines that name the analysed package, oldest first
  Signals,     \* [line -> what each of them matches]
  MarkedLine   \* the lines that contain the synthetic marker

Line == ToSet(Lines)

\* The elements of a sequence whose positions are kept, in their order.
Kept(s, keep) ==
  LET kept[n \in 0 .. Len(s)] ==
        IF n = 0 THEN <<>>
        ELSE IF n \in keep THEN Append(kept[n - 1], s[n]) ELSE kept[n - 1]
  IN kept[Len(s)]

\* LOG_SECURITY_PATTERNS, in order, and the destinations that follow them.
LogTypes ==
  <<"sms_access", "accessibility_behavior", "dynamic_code_load", "webview_activity",
    "network_destination", "dns_destination">>

NetworkType == {"network_destination", "dns_destination"}

TokenType == ToSet(LogTypes) \ NetworkType

ASSUME EvidenceAssumption ==
  /\ Lines \in Seq(Line)
  /\ Signals \in [Line -> SUBSET (TokenType \cup NetworkType \cup {"dumpsys"})]
  /\ MarkedLine \subseteq Line
  /\ "lineage" \notin Line    \* the source of what the pipeline adds itself

-----------------------------------------------------------------------------

\* ExperimentType: those that need instrumentation, and the others.
FridaDependent ==
  {"LAUNCH_APP", "OBSERVE_STARTUP", "SYNTHETIC_SMS", "NETWORK_OBSERVATION",
   "ACCESSIBILITY_OBSERVATION", "DYNAMIC_CODE_LOAD_OBSERVATION", "WEBVIEW_OBSERVATION"}

ExperimentType ==
  FridaDependent \cup {"FILESYSTEM_DIFF", "UI_SCREENSHOT", "PACKAGE_STATE_CAPTURE",
                       "LOGCAT_CAPTURE"}

\* The statuses an experiment of a plan or a result can carry.
ExperimentStatus ==
  {"PLANNED", "SKIPPED", "UNSUPPORTED", "UNAVAILABLE", "COMPLETED", "FAILED", "TIMED_OUT"}

\* EXPERIMENT_OBSERVER_MAP.
ObserversOf(t) ==
  CASE t = "LAUNCH_APP" -> {"sms", "network", "dynamic_dex", "accessibility", "webview"}
    [] t = "OBSERVE_STARTUP" -> {"dynamic_dex", "network"}
    [] t = "SYNTHETIC_SMS" -> {"sms", "network"}
    [] t = "NETWORK_OBSERVATION" -> {"network"}
    [] t = "ACCESSIBILITY_OBSERVATION" -> {"accessibility"}
    [] t = "DYNAMIC_CODE_LOAD_OBSERVATION" -> {"dynamic_dex"}
    [] t = "WEBVIEW_OBSERVATION" -> {"webview"}
    [] OTHER -> {}

\* What a hook reports.  The network hook may find the marker in the body of
\* a request, or only in its URL.
Event == {"sms", "accessibility", "dynamic_dex", "webview", "network", "body", "url"}

ObserverOfEvent(e) == IF e \in {"body", "url"} THEN "network" ELSE e

\* _map_event_to_canonical_type.
TypeOfEvent(e) ==
  CASE e = "sms" -> "sms_access"
    [] e = "accessibility" -> "accessibility_behavior"
    [] e = "dynamic_dex" -> "dynamic_code_load"
    [] e = "webview" -> "webview_activity"
    [] OTHER -> "network_destination"

-----------------------------------------------------------------------------

TrustLevel == {"LOG_OBSERVED", "SYSTEM_OBSERVED", "INSTRUMENTED", "PAYLOAD_CORRELATED"}

EvidenceType ==
  TokenType \cup NetworkType \cup
  {"app_launch", "activity_change", "package_state", "permission_state",
   "synthetic_sms_delivered", "synthetic_marker_correlation", "filesystem_change",
   "ui_screenshot", "process_creation"}

\* The metadata of an observation: a line, an event, or which call made it.
Source ==
  Line \cup Event \cup
  {"pidof", "started", "attached", "activities", "package", "marker", "logcat", "monkey",
   "accessibility state", "few files", "more files", "screencap", "lineage"}

\* What a collector hands to the builder.  "marked": a text of it contains the
\* marker; "body": a captured request body does; "dump": it has the word
\* dumpsys.  Confidence is in percent.
Seen(type, trust, conf, src) ==
  [type |-> type, trust |-> trust, conf |-> conf, src |-> src,
   marked |-> FALSE, body |-> FALSE, dump |-> FALSE]

Observation ==
  [type : EvidenceType, trust : TrustLevel, conf : 0 .. 100, src : Source,
   marked : BOOLEAN, body : BOOLEAN, dump : BOOLEAN]

\* An item of evidence has, besides, its number and its time.  Times of the
\* builder order its items; a Frida event carries the device's own clock, which
\* counts from the epoch and so lies after all of them.
EpochTime == 1000

Item ==
  [id : Nat, at : Nat, type : EvidenceType, trust : TrustLevel, conf : 0 .. 100, src : Source,
   marked : BOOLEAN, body : BOOLEAN, dump : BOOLEAN]

Numbered(s, n, time) ==
  [id |-> n, at |-> time, type |-> s.type, trust |-> s.trust, conf |-> s.conf,
   src |-> s.src, marked |-> s.marked, body |-> s.body, dump |-> s.dump]

Same(item, s) ==
  /\ item.type = s.type /\ item.trust = s.trust /\ item.src = s.src
  /\ item.marked = s.marked /\ item.body = s.body

\* _RuntimeEvidenceBuilder.add: what was seen before leaves no new item.
Add(items, s, dated) ==
  IF \E i \in DOMAIN items : Same(items[i], s) THEN items
  ELSE Append(items, Numbered(s, Len(items) + 1, IF dated THEN EpochTime ELSE Len(items) + 1))

\* Observations in order, "dated" if they carry the device's time.
AddEach(items, new, dated) ==
  LET added[n \in 0 .. Len(new)] ==
        IF n = 0 THEN items ELSE Add(added[n - 1], new[n], dated)
  IN added[Len(new)]

\* Observations of one collector.
AddAll(items, new) == AddEach(items, new, FALSE)

-----------------------------------------------------------------------------

\* _extract_token_evidence and _extract_network_destinations: what lines of
\* the log that name the package show of one type.
FromLine(l, type) ==
  [Seen(type, "LOG_OBSERVED", IF type \in NetworkType THEN 60 ELSE 75, l)
     EXCEPT !.marked = l \in MarkedLine,
            !.dump = "dumpsys" \in Signals[l]]

Shown(log, type) ==
  Kept([i \in DOMAIN Lines |-> FromLine(Lines[i], type)],
       {i \in DOMAIN Lines : Lines[i] \in log /\ type \in Signals[Lines[i]]})

\* _extract_logcat_evidence: type after type.
FromLog(log, types) ==
  LET Of(t) == IF t \in types THEN Shown(log, t) ELSE <<>> IN
  Of(LogTypes[1]) \o Of(LogTypes[2]) \o Of(LogTypes[3])
    \o Of(LogTypes[4]) \o Of(LogTypes[5]) \o Of(LogTypes[6])

\* normalize_to_evidence: a hook is trusted whatever it reports; only lineage
\* may raise that to PAYLOAD_CORRELATED.
FromEvent(e) ==
  [Seen(TypeOfEvent(e), "INSTRUMENTED", 95, e)
     EXCEPT !.marked = e \in {"body", "url"}, !.body = e = "body"]

AddEvents(items, events) ==
  AddEach(items, [i \in DOMAIN events |-> FromEvent(events[i])], TRUE)

\* The items of a type.
OfType(ev, types) == {e \in ev : e.type \in types}

AnyTrusted(ev, levels) == \E e \in ev : e.trust \in levels
=============================================================================
