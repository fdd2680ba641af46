---------------------------- MODULE MCAuditTrail ----------------------------
(* Instances of AuditTrail for TLC. *)
EXTENDS AuditTrail

\* Processes and requests are interchangeable.
Symmetry == Permutations(Process) \cup Permutations(Request)
=============================================================================
