----------------------------- MODULE MCApkJobs -----------------------------
(* Instances of ApkJobs for TLC. *)
EXTENDS ApkJobs, TLC

Symmetry ==
  Permutations(Job) \cup Permutations(Worker) \cup Permutations(Request)
    \cup Permutations(Apk)
=============================================================================
