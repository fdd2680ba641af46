----------------------------- MODULE DynamicRun -----------------------------
(***************************************************************************)
(* One run of DynamicLiteAnalyzer.observe (deceptiscope/dynamic.py) on an  *)
(* emulator, with the observation sessions of Frida                        *)
(* (deceptiscope/runtime/frida_host.py).                                   *)
(*                                                                         *)
(* Every adb call has a timeout and may fail or time out; the calls of     *)
(* _run_optional swallow both.  What the analysed app does is open: it     *)
(* logs, calls hooked functions and binds services as it likes, but it     *)
(* shows the marker only once an SMS has brought it.  An app that was      *)
(* spawned suspended and never resumed is frozen and shows nothing new.    *)
(***************************************************************************)
EXTENDS ExperimentPlan

CONSTANTS
  DefaultExperiments,   \* DEFAULT_EXPERIMENTS: what runs when there is no plan
  MaxEvents,            \* bound: events that one session delivers
  MaxFaults             \* bound: adb and Frida calls that fail

ASSUME RunAssumption ==
  /\ DefaultExperiments \in Seq(ExperimentType)
  /\ MaxEvents \in Nat
  /\ MaxFaults \in Nat

VARIABLES
  env,        \* settings and host: see Environment of Investigation
  phase,      \* where observe is
  todo,       \* the experiments to execute
  items,      \* builder.items
  results,    \* observations["experiment_results"]
  log,        \* state["latest_logcat"]
  launched,   \* state["launched"]
  snapshot,   \* state["file_snapshot_before"]: NULL or the files seen
  session,    \* the session of the current experiment
  outcome,    \* status of the current experiment, and whether it was raised
  app,        \* on the emulator: "stopped", "running" or "frozen"
  installed,  \* on the emulator: the package is installed
  shot,       \* on the emulator: the temporary screenshot is there
  received,   \* the app was brought the marker
  hist,       \* history: what really happened on the emulator
  acted,      \* history: experiments whose collector ran
  faults

hostVars == <<phase, todo, items, results, log, launched, snapshot, session, outcome>>
deviceVars == <<app, installed, shot, received>>
runVars == <<env, phase, todo, items, results, log, launched, snapshot, session, outcome,
             app, installed, shot, received, hist, acted, faults>>

NoSession == [on |-> FALSE, started |-> FALSE]
NoOutcome == [status |-> "PLANNED", raised |-> FALSE]

RunInit ==
  /\ phase = "idle" /\ todo = <<>> /\ items = <<>> /\ results = <<>>
  /\ log = {} /\ launched = FALSE /\ snapshot = NULL
  /\ session = NoSession /\ outcome = NoOutcome
  /\ app = "stopped" /\ installed = FALSE /\ shot = FALSE /\ received = FALSE
  /\ hist = {} /\ acted = {} /\ faults = 0

-----------------------------------------------------------------------------

\* How _run ends: a non-zero exit raises RuntimeError, a late answer
\* TimeoutExpired.
Reply == {"ok"} \cup (IF faults < MaxFaults THEN {"error", "timeout"} ELSE {})

Charge(r) == faults' = IF r = "ok" THEN faults ELSE faults + 1

\* What _execute_experiment makes of an exception.
StatusOf(r) == IF r = "timeout" THEN "TIMED_OUT" ELSE "FAILED"

Current == todo[Len(results) + 1]

\* A bug: every experiment counts from the beginning of the run.
CountedFromStart == 0

\* _execute_experiment, at its end: the items added since its beginning are its
\* own ("before_count").
Counted == IF results = <<>> THEN 0 ELSE results[Len(results)].upto

Result(status, upto) ==
  [id |-> Current.id, type |-> Current.type, status |-> status,
   ids |-> {items'[i].id : i \in Counted + 1 .. upto}, upto |-> upto]

Conclude(status) ==
  /\ results' = Append(results, Result(status, Len(items')))
  /\ phase' = "next"
  /\ session' = NoSession /\ outcome' = NoOutcome

\* A collector that ran to its end, and one that raised.
Done(status) ==
  /\ phase' = "exit"
  /\ outcome' = [status |-> status, raised |-> FALSE]

Raise(r) ==
  /\ phase' = "exit"
  /\ outcome' = [status |-> StatusOf(r), raised |-> TRUE]

-----------------------------------------------------------------------------

\* _preflight: the emulator must identify itself.
Preflight ==
  /\ phase = "preflight"
  /\ \E r \in Reply :
       /\ Charge(r)
       /\ phase' = IF r = "ok" THEN "install" ELSE "raised"
  /\ UNCHANGED <<env, todo, items, results, log, launched, snapshot, session, outcome,
                 deviceVars, hist, acted>>

\* logcat -c may fail unnoticed.  An install that times out may have happened;
\* observations["installed"] is not set then, so that nothing will undo it.
Install ==
  /\ phase = "install"
  /\ \E r \in Reply :
       /\ Charge(r)
       /\ phase' = IF r = "ok" THEN "next" ELSE "raised"
       /\ installed' \in (CASE r = "ok" -> {TRUE} [] r = "error" -> {FALSE}
                            [] r = "timeout" -> BOOLEAN)
       /\ hist' = IF r = "timeout" THEN hist \cup {"install timed out"} ELSE hist
  /\ UNCHANGED <<env, todo, items, results, log, launched, snapshot, session, outcome,
                 app, shot, received, acted>>

Observers == ObserversOf(Current.type) \cap env.observers

\* A bug: only the setting is looked at, not whether the experiment has an
\* observer and the host has Frida.
InstrumentedBySetting == Current.type \in FridaDependent /\ env.observers # {}

\* frida_available.
Instrumentable ==
  Current.type \in FridaDependent /\ Observers # {} /\ env.frida = "ready"

More == phase = "next" /\ Len(results) < Len(todo)

\* An experiment that requires instrumentation is not executed without it.
SkipUninstrumented ==
  /\ More /\ Current.type \in FridaDependent /\ ~Instrumentable
  /\ items' = items
  /\ Conclude("UNAVAILABLE")
  /\ UNCHANGED <<env, todo, log, launched, snapshot, deviceVars, hist, acted, faults>>

\* An experiment that does not is collected at once.
BeginPlain ==
  /\ More /\ Current.type \notin FridaDependent
  /\ phase' = "collect"
  /\ UNCHANGED <<env, todo, items, results, log, launched, snapshot, session, outcome,
                 deviceVars, hist, acted, faults>>

\* FridaObservationSession.__enter__: attach to the process, or spawn it
\* suspended, load the hooks, resume it.
EnterSession ==
  /\ More /\ Instrumentable
  /\ session' = [on |-> TRUE, started |-> app = "stopped"]
  /\ app' = IF app = "stopped" THEN "running" ELSE app
  /\ launched' = TRUE
  /\ phase' = "collect"
  /\ UNCHANGED <<env, todo, items, results, log, snapshot, outcome, installed, shot,
                 received, hist, acted, faults>>

\* No device: UNAVAILABLE.  Anything later that fails: FAILED, and a process
\* that was spawned for the session stays suspended.
SessionFails ==
  /\ More /\ Instrumentable /\ faults < MaxFaults
  /\ faults' = faults + 1
  /\ items' = items
  /\ \/ Conclude("UNAVAILABLE") /\ app' = app
     \/ Conclude("FAILED") /\ app' \in (IF app = "stopped" THEN {"stopped", "frozen"} ELSE {app})
  /\ UNCHANGED <<env, todo, log, launched, snapshot, installed, shot, received, hist, acted>>

-----------------------------------------------------------------------------

\* The lines that logcat -d can show.
Captured(c) == c \subseteq (IF received' THEN Line ELSE Line \ MarkedLine)

\* _collect_process_state.
ProcessSeen(p) ==
  IF p THEN <<Seen("process_creation", "SYSTEM_OBSERVED", 90, "pidof")>> ELSE <<>>

Collects(type) ==
  /\ phase = "collect" /\ Current.type = type
  /\ acted' = acted \cup {Current.id}

\* _collect_launch under a session: the hooks came first.
CollectLaunch ==
  /\ Collects("LAUNCH_APP")
  /\ \E p \in BOOLEAN :
       items' = AddAll(items,
         <<Seen("app_launch", "INSTRUMENTED", IF session.started THEN 100 ELSE 90,
                IF session.started THEN "started" ELSE "attached")>> \o ProcessSeen(p))
  /\ Done("COMPLETED")
  /\ UNCHANGED <<env, todo, results, log, launched, snapshot, session, deviceVars, hist, faults>>

\* _collect_startup: a session has launched the app by now.
CollectStartup ==
  /\ Collects("OBSERVE_STARTUP")
  /\ \E r \in Reply, resumed, p \in BOOLEAN :
       /\ Charge(r)
       /\ IF r = "ok"
          THEN /\ items' = AddAll(items,
                    (IF resumed THEN <<Seen("activity_change", "SYSTEM_OBSERVED", 85, "activities")>>
                     ELSE <<>>) \o ProcessSeen(p))
               /\ Done(IF resumed THEN "COMPLETED" ELSE "UNAVAILABLE")
          ELSE items' = items /\ Raise(r)
  /\ UNCHANGED <<env, todo, results, log, launched, snapshot, session, deviceVars, hist>>

\* _collect_package_state.
CollectPackageState ==
  /\ Collects("PACKAGE_STATE_CAPTURE")
  /\ \E r \in Reply, granted \in BOOLEAN :
       /\ Charge(r)
       /\ IF r = "ok"
          THEN /\ items' = AddAll(items,
                    <<Seen("package_state", "SYSTEM_OBSERVED", 90, "package")>>
                    \o (IF granted THEN <<Seen("permission_state", "SYSTEM_OBSERVED", 85, "package")>>
                        ELSE <<>>))
               /\ Done("COMPLETED")
          ELSE items' = items /\ Raise(r)
  /\ UNCHANGED <<env, todo, results, log, launched, snapshot, session, deviceVars, hist>>

DeliveryItem ==
  [Seen("synthetic_sms_delivered", "INSTRUMENTED", 100, "marker") EXCEPT !.marked = TRUE]

MarkerInLog(c) ==
  IF c \cap MarkedLine = {} THEN <<>>
  ELSE <<[Seen("synthetic_marker_correlation", "LOG_OBSERVED", 100, "logcat")
            EXCEPT !.marked = TRUE]>>

\* _collect_synthetic_sms, when the emulator did not take the message, or did
\* not say so in time.
SmsNotSent ==
  /\ Collects("SYNTHETIC_SMS")
  /\ \E r \in Reply \ {"ok"} :
       /\ Charge(r) /\ Raise(r)
       /\ received' \in {received} \cup (IF r = "timeout" /\ app # "frozen" THEN {TRUE} ELSE {})
  /\ UNCHANGED <<env, todo, items, results, log, launched, snapshot, session, app, installed,
                 shot, hist>>

\* _collect_synthetic_sms, when it did: the delivery is evidence whatever comes
\* after it.
CollectSms ==
  /\ Collects("SYNTHETIC_SMS")
  /\ received' = (received \/ app # "frozen")
  /\ hist' = hist \cup {"delivered"}
  /\ \E r \in Reply, c \in SUBSET Line :
       /\ Charge(r)
       /\ IF r = "ok"
          THEN /\ Captured(c)
               /\ log' = c
               /\ items' = AddAll(items, <<DeliveryItem>> \o FromLog(c, ToSet(LogTypes)) \o MarkerInLog(c))
               /\ Done("COMPLETED")
          ELSE /\ c = {} /\ log' = log
               /\ items' = AddAll(items, <<DeliveryItem>>)
               /\ Raise(r)
  /\ UNCHANGED <<env, todo, results, launched, snapshot, session, app, installed, shot>>

\* _collect_logcat.
CollectLogcat ==
  /\ Collects("LOGCAT_CAPTURE")
  /\ UNCHANGED received
  /\ \E r \in Reply, c \in SUBSET Line :
       /\ Charge(r)
       /\ IF r = "ok"
          THEN /\ Captured(c)
               /\ log' = c
               /\ items' = AddAll(items, FromLog(c, ToSet(LogTypes)))
               /\ Done("COMPLETED")
          ELSE c = {} /\ log' = log /\ items' = items /\ Raise(r)
  /\ UNCHANGED <<env, todo, results, launched, snapshot, session, app, installed, shot, hist>>

-----------------------------------------------------------------------------

\* The last log is looked at again; it is captured only when there is none.
LatestLog(c, r) ==
  IF log # {} THEN c = log /\ r = "ok"
  ELSE IF r = "ok" THEN Captured(c) ELSE c = {}

\* A collector of the log: COMPLETED only if it adds what was not seen before.
FromLatestLog(types, more) ==
  \E r \in Reply, c \in SUBSET Line :
    /\ LatestLog(c, r)
    /\ Charge(r)
    /\ IF r = "ok"
       THEN /\ log' = c
            /\ items' = AddAll(items, FromLog(c, types) \o more)
            /\ Done(IF Len(items') > Len(items) THEN "COMPLETED" ELSE "UNAVAILABLE")
       ELSE log' = log /\ items' = items /\ Raise(r)

LogCollector ==
  UNCHANGED <<env, todo, results, launched, snapshot, session, deviceVars>>

\* _collect_network.
CollectNetwork ==
  /\ Collects("NETWORK_OBSERVATION")
  /\ UNCHANGED received
  /\ \/ /\ ~env.network
        /\ items' = items /\ log' = log /\ faults' = faults /\ Done("UNAVAILABLE")
     \/ env.network /\ FromLatestLog(NetworkType, <<>>)
  /\ UNCHANGED hist /\ LogCollector

DumpItem == Seen("accessibility_behavior", "SYSTEM_OBSERVED", 85, "accessibility state")

\* _collect_accessibility: the log, and the system's own list of services.
CollectAccessibility ==
  /\ Collects("ACCESSIBILITY_OBSERVATION")
  /\ UNCHANGED received
  /\ \E bound \in BOOLEAN :
       /\ FromLatestLog({"accessibility_behavior"}, IF bound THEN <<DumpItem>> ELSE <<>>)
       /\ hist' = IF bound /\ ~outcome'.raised THEN hist \cup {"bound"} ELSE hist
  /\ LogCollector

\* _collect_runtime_token.
CollectToken ==
  /\ \/ /\ Collects("DYNAMIC_CODE_LOAD_OBSERVATION")
        /\ UNCHANGED received /\ FromLatestLog({"dynamic_code_load"}, <<>>)
     \/ /\ Collects("WEBVIEW_OBSERVATION")
        /\ UNCHANGED received /\ FromLatestLog({"webview_activity"}, <<>>)
  /\ UNCHANGED hist /\ LogCollector

-----------------------------------------------------------------------------

\* _collect_launch without a session, as the collectors below call it when
\* nothing has launched the app.  Monkey may report no injected event, which
\* stops nobody; a call that times out may have started the app.
LaunchReply == IF launched THEN {"ok"} ELSE Reply

LaunchSeen(injected, p) ==
  IF launched \/ ~injected THEN <<>>
  ELSE <<Seen("app_launch", "SYSTEM_OBSERVED", 100, "monkey")>> \o ProcessSeen(p)

LaunchEffect(r, injected) ==
  /\ launched' = (launched \/ (r = "ok" /\ injected))
  /\ app' \in (IF app # "stopped" \/ launched \/ r = "error" THEN {app}
              ELSE IF r = "ok" THEN {IF injected THEN "running" ELSE "stopped"}
              ELSE {"stopped", "running"})

\* _snapshot_app_files: run-as shows the files, of which there may be new ones,
\* or nothing.
Snapshot == {NULL, "few files", "more files"}

Change(before, after) ==
  IF before = after THEN <<>>
  ELSE <<Seen("filesystem_change", "SYSTEM_OBSERVED", 80, after)>>

\* _collect_filesystem_diff: the first such experiment takes the snapshot that
\* every later one compares with.
FilesUnavailable ==
  /\ Collects("FILESYSTEM_DIFF")
  /\ snapshot = NULL
  /\ items' = items
  /\ Done("UNAVAILABLE")
  /\ UNCHANGED <<env, todo, results, log, launched, snapshot, session, deviceVars, hist, faults>>

CollectFiles ==
  /\ Collects("FILESYSTEM_DIFF")
  /\ snapshot' \in (IF snapshot = NULL THEN Snapshot \ {NULL} ELSE {snapshot})
  /\ \E r \in LaunchReply, injected, p \in BOOLEAN, after \in Snapshot :
       /\ Charge(r) /\ LaunchEffect(r, injected)
       /\ IF r = "ok"
          THEN /\ items' = AddAll(items,
                    LaunchSeen(injected, p)
                      \o (IF after = NULL THEN <<>> ELSE Change(snapshot', after)))
               /\ Done(IF after = NULL THEN "UNAVAILABLE" ELSE "COMPLETED")
          ELSE items' = items /\ Raise(r)
  /\ UNCHANGED <<env, todo, results, log, session, installed, shot, received, hist>>

\* _collect_ui_screenshot: whatever becomes of the screenshot, its temporary
\* file on the emulator is removed, if rm works.
ScreenshotNotTried ==
  /\ Collects("UI_SCREENSHOT")
  /\ \E r \in LaunchReply \ {"ok"} :
       Charge(r) /\ LaunchEffect(r, FALSE) /\ items' = items /\ Raise(r)
  /\ UNCHANGED <<env, todo, results, log, snapshot, session, installed, shot, received, hist>>

CollectScreenshot ==
  /\ Collects("UI_SCREENSHOT")
  /\ \E injected, p \in BOOLEAN, r \in Reply, kept \in BOOLEAN :
       /\ kept => faults < MaxFaults - (IF r = "ok" THEN 0 ELSE 1)
       /\ faults' = faults + (IF r = "ok" THEN 0 ELSE 1) + (IF kept THEN 1 ELSE 0)
       /\ LaunchEffect("ok", injected)
       /\ items' = AddAll(items, LaunchSeen(injected, p)
                    \o (IF r = "ok" THEN <<Seen("ui_screenshot", "SYSTEM_OBSERVED", 75, "screencap")>>
                        ELSE <<>>))
       /\ IF r = "ok" THEN Done("COMPLETED") ELSE Raise(r)
       /\ shot' = (kept /\ (shot \/ r # "error"))
       /\ hist' = IF kept THEN hist \cup {"rm failed"} ELSE hist
  /\ UNCHANGED <<env, todo, results, log, snapshot, session, installed, received>>

Collect ==
  \/ CollectLaunch \/ CollectStartup \/ CollectPackageState \/ SmsNotSent \/ CollectSms
  \/ CollectLogcat \/ CollectNetwork \/ CollectAccessibility \/ CollectToken
  \/ FilesUnavailable \/ CollectFiles \/ ScreenshotNotTried \/ CollectScreenshot

-----------------------------------------------------------------------------

\* What the hooks of the session can have reported by its end: the app calls
\* what it calls, before or after the action of the experiment.
Reported ==
  {e \in Event : /\ ObserverOfEvent(e) \in Observers
                 /\ e \in {"body", "url"} => received}

\* The end of _execute_experiment.  Events count only when the collector ended
\* by itself; those of one that raised are lost.
EndExperiment ==
  /\ phase = "exit"
  /\ \E events \in SUBSET Reported :
       /\ Cardinality(events) <= MaxEvents
       /\ ~session.on \/ app = "frozen" => events = {}
       /\ items' = IF outcome.raised THEN items ELSE AddEvents(items, SetToSeq(events))
       /\ hist' = hist \cup (IF outcome.raised THEN {} ELSE events)
  /\ Conclude(outcome.status)
  /\ UNCHANGED <<env, todo, log, launched, snapshot, deviceVars, acted, faults>>

\* All experiments have a result; a log is captured if there is none, which may
\* fail unnoticed, and evidence is not taken from it.
Finish ==
  /\ phase = "next" /\ Len(results) = Len(todo)
  /\ phase' = "uninstall"
  /\ UNCHANGED <<env, todo, items, results, log, launched, snapshot, session, outcome,
                 deviceVars, hist, acted, faults>>

\* A bug: the app is left in place for another look when an experiment failed.
UninstallAfterSuccess ==
  /\ phase = "uninstall"
  /\ phase' = "returned"
  /\ installed' = \E i \in DOMAIN results : results[i].status = "FAILED"
  /\ app' = IF installed' THEN app ELSE "stopped"
  /\ UNCHANGED <<env, todo, items, results, log, launched, snapshot, session, outcome,
                 shot, received, hist, acted, faults>>

\* The finally of observe: a package that was seen installed is removed, if the
\* emulator does it.
Uninstall ==
  /\ phase = "uninstall"
  /\ \E r \in Reply :
       /\ Charge(r)
       /\ installed' \in (IF r = "ok" THEN {FALSE} ELSE BOOLEAN)
       /\ app' = IF installed' THEN app ELSE "stopped"
       /\ hist' = IF r = "ok" THEN hist ELSE hist \cup {"uninstall failed"}
  /\ phase' = "returned"
  /\ UNCHANGED <<env, todo, items, results, log, launched, snapshot, session, outcome,
                 shot, received, acted>>

RunStep ==
  \/ Preflight \/ Install \/ SkipUninstrumented \/ BeginPlain \/ EnterSession
  \/ SessionFails \/ Collect \/ EndExperiment \/ Finish \/ Uninstall
=============================================================================
