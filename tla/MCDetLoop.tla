----------------------------- MODULE MCDetLoop -----------------------------
(* Instances of DetLoop for TLC. *)
EXTENDS DetLoopImpl
=============================================================================
