------------------------------- MODULE MCRaft -------------------------------
(* An instance of Raft for TLC. *)
EXTENDS Raft, TLC

\* Addresses are only compared.
Symmetry == Permutations(Node)

=============================================================================
