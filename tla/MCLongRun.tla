----------------------------- MODULE MCLongRun -----------------------------
(* Instances of LongRun. *)
EXTENDS LongRun
=============================================================================
