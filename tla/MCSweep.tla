------------------------------ MODULE MCSweep ------------------------------
(***************************************************************************)
(* Sweep for TLC: the two names of the CSPRNG, which both kinds of context *)
(* patch; the auditor's other names are patched in the same way.  One      *)
(* thread sweeps or runs a test of given_seed, the other replays.          *)
(***************************************************************************)
EXTENDS Sweep

CONSTANTS main, other, urandom, alias

MCNames == <<urandom, alias>>

MCOptions ==
    (main :> {<<"return", "audit">>, <<"given", "audit">>}) @@ (other :> {<<"replay", "shim">>})

\* One thread that sweeps, for SweepCancelled.
MCSweepOnly == main :> {<<"raise", "shim">>, <<"return", "shim">>}
=============================================================================
