------------------------------ MODULE MCDrive ------------------------------
(* Instances of Drive for TLC. *)
EXTENDS Drive

\* What still matters of a state: in teardown no property can be registered
\* any more (Always), so how many were, and that they were installed, does not;
\* whether their hook is in place does.
Relevant ==
    <<taskVars, hookIn, tearingDown, phase, loopVars, rounds, errVars, histVars,
      IF tearingDown THEN None ELSE <<invariants, installed>> >>
=============================================================================
