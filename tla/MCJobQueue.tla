----------------------------- MODULE MCJobQueue -----------------------------
(* Instances of JobQueue for TLC. *)
EXTENDS JobQueue, TLC

\* Job and worker identifiers are interchangeable.
Symmetry == Permutations(Job) \cup Permutations(Worker)
=============================================================================
