------------------------------ MODULE Engines ------------------------------
(***************************************************************************)
(* Engines of an analysis: EngineCoordinator and MultiEngineAnalyzer with  *)
(* their adapters (deceptiscope/engines.py), the preliminary score made of *)
(* their findings (RiskScore), and malware_assessment.                     *)
(*                                                                         *)
(* A sample is a record: the static signals that its extraction found and  *)
(* the quality of that, what every engine finds in it, the detections      *)
(* VirusTotal knows of, and whether MalwareBazaar knows it.                *)
(***************************************************************************)
EXTENDS RiskScore

CONSTANTS
  NULL,
  Threshold,     \* virustotal_malicious_threshold
  MaxFindings    \* _MAX_FINDINGS

ASSUME EnginesAssumption == Threshold \in Nat \ {0} /\ MaxFindings \in Nat \ {0}

\* The order of run_all.
AdapterOrder ==
  <<"archive_native", "androguard", "apkid", "yara", "apksigner", "similarity", "quark",
    "mobsf", "virustotal", "malwarebazaar">>

Adapter == ToSet(AdapterOrder)

Lookup == {"virustotal", "malwarebazaar"}

\* Engines that stop at their own deadline, and report what they have by then
\* as complete.
CutShort == {"yara", "quark"}

EngineStatus ==
  {"disabled", "blocked-by-policy", "unavailable", "completed", "failed", "timeout"}

\* A setting of an engine: enabled, its use allowed (MobSF), and installed or
\* configured.  The guards of run_all come in this order.
Ready(s) == s.enabled /\ s.allowed /\ s.available

Refused(s) ==
  IF ~s.enabled THEN "disabled" ELSE IF ~s.allowed THEN "blocked-by-policy" ELSE "unavailable"

-----------------------------------------------------------------------------

Ran(status, findings) == [status |-> status, findings |-> findings]

\* What apksigner reports of a file that it cannot verify.
NotVerified ==
  [engine |-> "apksigner", id |-> 1, severity |-> "HIGH", points |-> 24, conf |-> 95,
   category |-> "fraud_impersonation", eligible |-> TRUE]

\* An engine that reads an upload which is gone: most raise; apksigner takes the
\* error of its tool for a failed verification; similarity fingerprints nothing.
WithoutFile(a) ==
  CASE a = "apksigner" -> Ran("completed", <<NotVerified>>)
    [] a = "similarity" -> Ran("completed", <<>>)
    [] OTHER -> Ran("failed", <<>>)

\* What an engine finds: what it does not find in the file costs no points, and
\* engines that only look up or parse score nothing of their own.
Finding ==
  [engine : Adapter \ (Lookup \cup {"androguard"}), id : Nat,
   severity : {"CRITICAL", "HIGH", "MEDIUM", "LOW", "INFO"}, points : Nat, conf : 0 .. 100,
   category : STRING, eligible : BOOLEAN]

FoundBy(engines, sample) ==
  Kept(sample.findings,
       {i \in DOMAIN sample.findings : sample.findings[i].engine \in engines})

\* Androguard is not run again: its status is that of the extraction.
Androguard(s, sample) ==
  Ran(IF sample.quality = "full" THEN "completed"
      ELSE IF s.available THEN "failed" ELSE "unavailable", <<>>)

\* How the turn of an engine may end when nothing goes wrong.
Regular(a, s, sample, there) ==
  CASE a = "androguard" -> {Androguard(s, sample)}
    [] a # "androguard" /\ ~Ready(s) -> {Ran(Refused(s), <<>>)}
    [] a \in Lookup /\ Ready(s) -> {Ran("completed", <<>>)}
    [] a \notin Lookup \cup {"androguard"} /\ Ready(s) /\ ~there -> {WithoutFile(a)}
    [] OTHER -> {Ran("completed", FoundBy({a}, sample))}
                  \cup (IF a \in CutShort THEN {Ran("completed", <<>>)} ELSE {})

\* run_guarded, and the lookups: an engine that raises or overruns leaves no
\* findings, and the analysis goes on.
Broken(a, s) ==
  IF a = "androguard" \/ ~Ready(s) THEN {}
  ELSE IF a \in Lookup THEN {Ran("failed", <<>>)}
  ELSE {Ran("failed", <<>>), Ran("timeout", <<>>)}

-----------------------------------------------------------------------------

Rank(severity) ==
  CASE severity = "CRITICAL" -> 4 [] severity = "HIGH" -> 3 [] severity = "MEDIUM" -> 2
    [] severity = "LOW" -> 1 [] OTHER -> 0

\* _deduplicate_findings: of findings with one key the last, in the place of the
\* first; the gravest come first, and those after MaxFindings are dropped.
Latest(findings, i) ==
  LET Alike(j) == findings[j].engine = findings[i].engine /\ findings[j].id = findings[i].id IN
  findings[CHOOSE j \in DOMAIN findings : Alike(j) /\ \A k \in DOMAIN findings : Alike(k) => k <= j]

Firsts(findings) ==
  {i \in DOMAIN findings :
     \A j \in DOMAIN findings :
       findings[j].engine = findings[i].engine /\ findings[j].id = findings[i].id => i <= j}

Before(findings, i, j) ==
  LET f == Latest(findings, i)
      g == Latest(findings, j) IN
  \/ Rank(f.severity) > Rank(g.severity)
  \/ /\ Rank(f.severity) = Rank(g.severity)
     /\ \/ f.points > g.points
        \/ f.points = g.points /\ (f.id < g.id \/ (f.id = g.id /\ i < j))

Deduplicated(findings) ==
  LET firsts == Firsts(findings)
      Nth(n) == CHOOSE i \in firsts :
                  Cardinality({j \in firsts : Before(findings, j, i)}) = n - 1 IN
  SubSeq([n \in 1 .. Cardinality(firsts) |-> Latest(findings, Nth(n))],
         1, AtMost(Cardinality(firsts), MaxFindings))

\* A bug: an engine that overran is not a gap.
GapsButOverruns(statuses) ==
  Cardinality({a \in DOMAIN statuses :
                 statuses[a] \in {"unavailable", "failed", "blocked-by-policy"}})

\* summary.unavailable_or_failed of MultiEngineAnalyzer.analyze.
Gaps(statuses) ==
  Cardinality({a \in DOMAIN statuses :
                 statuses[a] \in {"unavailable", "failed", "timeout", "blocked-by-policy"}})

\* _run_reputation: known_malicious and the verdict, from the providers that
\* answered.
KnownMalicious(sample, statuses) ==
  \/ statuses["malwarebazaar"] = "completed" /\ sample.bazaar
  \/ statuses["virustotal"] = "completed" /\ sample.detections >= Threshold

Reputation(sample, statuses) ==
  LET answered == {a \in Lookup : statuses[a] = "completed"} IN
  CASE \A a \in Lookup : statuses[a] = "disabled" -> "not-queried"
    [] answered = {} /\ (\E a \in Lookup : statuses[a] # "disabled") -> "unavailable"
    [] answered # {} /\ KnownMalicious(sample, statuses) -> "known-malicious"
    [] answered # {} /\ ~KnownMalicious(sample, statuses)
       /\ (\/ "virustotal" \in answered /\ sample.known
           \/ "malwarebazaar" \in answered /\ sample.bazaar) -> "known-file"
    [] OTHER -> "not-found"

\* malware_assessment.
Assessment(score, quality, known) ==
  IF known THEN "KNOWN_MALICIOUS"
  ELSE IF score >= 75 THEN "HIGH_RISK"
  ELSE IF score >= 50 THEN "SUSPICIOUS"
  ELSE IF quality = "partial" THEN "INCONCLUSIVE"
  ELSE IF score < 25 THEN "LOW_RISK_OBSERVED" ELSE "REVIEW_REQUIRED"

\* The score of what these engines found.
ScoreOf(sample, findings) ==
  StaticScore(sample.static, sample.expected, Deduplicated(findings))

\* What the pipeline keeps of it all.
Report(sample, statuses, findings) ==
  LET score == ScoreOf(sample, findings) IN
  [score |-> score, severity |-> Severity(score), gaps |-> Gaps(statuses),
   reputation |-> Reputation(sample, statuses),
   verdict |-> Assessment(score, sample.quality, KnownMalicious(sample, statuses))]
=============================================================================
