------------------------- MODULE MCFederationRelay -------------------------
(* Model-checking instances of FederationRelay. *)
EXTENDS FederationRelay
=============================================================================
