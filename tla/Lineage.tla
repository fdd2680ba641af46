------------------------------ MODULE Lineage ------------------------------
(***************************************************************************)
(* Data lineage: DataLineageCorrelator (deceptiscope/lineage/correlator.py) *)
(* follows the synthetic marker of one analysis through its evidence, and  *)
(* the pipeline turns a complete lineage into an item of evidence of its   *)
(* own (pipeline.py).  "ev" is the set of items of the run; all of them    *)
(* are attributed to the analysed package (the builder's default process). *)
(***************************************************************************)
EXTENDS Evidence

\* _find_marker_match: a text of the item contains the marker.
Matched(ev) == {e \in ev : e.marked}

\* The phase of a step is read off the type of its evidence (INGRESS_INDICATORS
\* are looked for before EGRESS_INDICATORS).
Ingress(ev) == OfType(Matched(ev), {"synthetic_sms_delivered", "sms_access"})

Egress(ev) == OfType(Matched(ev), {"network_destination"})

\* _is_verified_body_egress: only a body that trusted instrumentation captured
\* proves that the marker left; a log line or a URL never does.
VerifiedBodyEgress(e) == e.trust = "INSTRUMENTED" /\ e.body

\* PayloadLineage.is_complete_exfiltration of the marker's lineage.
CompleteExfiltration(ev) ==
  Ingress(ev) # {} /\ \E e \in Egress(ev) : VerifiedBodyEgress(e)

\* The item that the pipeline appends, unless there is one of its kind: its
\* time is 0, before everything the run observed.
Correlation ==
  [Seen("synthetic_marker_correlation", "PAYLOAD_CORRELATED", 100, "lineage")
     EXCEPT !.marked = TRUE]

WithLineage(items) ==
  LET ev == ToSet(items) IN
  IF CompleteExfiltration(ev)
     /\ ~AnyTrusted(OfType(ev, {"synthetic_marker_correlation"}), {"PAYLOAD_CORRELATED"})
  THEN Append(items, Numbered(Correlation, Len(items) + 1, 0))
  ELSE items
=============================================================================
