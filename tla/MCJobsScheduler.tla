-------------------------- MODULE MCJobsScheduler --------------------------
(* Instances of JobsScheduler for TLC. *)
EXTENDS JobsScheduler, TLC

(* Task identifiers are interchangeable. *)
Symmetry == Permutations(UUIDs) \cup Permutations(JobIDs)
=============================================================================
