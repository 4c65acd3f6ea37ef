----------------------------- MODULE MCEndpoint -----------------------------
(* An instance of Endpoint for TLC. *)
EXTENDS Endpoint

=============================================================================
