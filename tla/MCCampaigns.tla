---------------------------- MODULE MCCampaigns ----------------------------
(* Instances of Campaigns for TLC. *)
EXTENDS Campaigns, TLC

CONSTANT Pick    \* which of the fingerprints below an instance uses

Bare == [signer |-> {}, firebase |-> {}, payload |-> {}, dex |-> {}, behavior |-> {},
         infra |-> {}]

\* Two families: A with a signer and a Firebase project, B with a signer and a
\* payload.  A bridge shares the project of A and, when it was run, the payload
\* of B.  A mimic behaves like A and calls its servers, but has no anchor.
Family ==
  [A      |-> [Bare EXCEPT !.signer = {"a"}, !.firebase = {"x"}, !.behavior = {"sms"},
                           !.infra = {"u"}],
   B      |-> [Bare EXCEPT !.signer = {"b"}, !.payload = {"y"}, !.dex = {"d"}],
   Bridge |-> [Bare EXCEPT !.firebase = {"x"}, !.dex = {"e"}],
   Ran    |-> [Bare EXCEPT !.firebase = {"x"}, !.dex = {"e"}, !.payload = {"y"}],
   Mimic  |-> [Bare EXCEPT !.dex = {"d", "e"}, !.behavior = {"sms"}, !.infra = {"u"}]]

Fingerprints == {Family[n] : n \in Pick}

Symmetry == Permutations(Sample) \cup Permutations(Process)
=============================================================================
