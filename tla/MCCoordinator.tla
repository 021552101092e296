--------------------------- MODULE MCCoordinator ---------------------------
(* Instances of Coordinator for TLC. *)
EXTENDS Coordinator, TLC

(* Servers are interchangeable: tickets order them, not their names. *)
Symmetry == Permutations(Servers)
=============================================================================
