--------------------------- MODULE MCOffersTuner ---------------------------
(* Instances of OffersTuner. *)
EXTENDS OffersTuner
=============================================================================
