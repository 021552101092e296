-------------------------- MODULE MCAuthorization --------------------------
(* Instances of Authorization for TLC: SequencesExt brings TLC's operators. *)
EXTENDS Authorization

(* Jobs and groups of the directory are interchangeable. *)
Symmetry == Permutations(JobNames) \cup Permutations(LDAPGroups)
=============================================================================
