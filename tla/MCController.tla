---------------------------- MODULE MCController ----------------------------
(* Instances of Controller for TLC. *)
EXTENDS Controller, TLC

(* Servers are interchangeable, and so are identifiers. *)
Symmetry == Permutations(Servers) \cup Permutations(Ids)
=============================================================================
