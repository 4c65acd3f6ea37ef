----------------------------- MODULE MCRunUntil -----------------------------
(* An instance of RunUntil for TLC. *)
EXTENDS RunUntil

=============================================================================
