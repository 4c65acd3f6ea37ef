---------------------------- MODULE MCTransport ----------------------------
(* Instances of Transport for TLC. *)
EXTENDS Transport, TLC

Endpoint(r, l, d) == [reliable |-> r, loss |-> l, duplicate |-> d]
MCPolicies == {Endpoint(TRUE, TRUE, TRUE), Endpoint(FALSE, TRUE, TRUE)}
MCSimple == {Endpoint(FALSE, FALSE, FALSE)}

Handle(kind, groups, a, b, factor, at) ==
    [kind |-> kind, groups |-> groups, a |-> a, b |-> b, factor |-> factor, at |-> at]
SeedPartition == Handle("partition", << >>, None, None, None, None)
SeedCrash == Handle("crash", << >>, None, None, None, None)
SeedSlow == Handle("slow", << >>, None, None, None, None)

\* Every kind of fault, with nothing, one side or all of it pinned; some are
\* not valid.
MCSpecs == {SeedPartition, SeedCrash, SeedSlow}
           \cup {Handle("partition", <<{a}, Addr>>, None, None, None, None) : a \in Addr}
           \cup {Handle("crash", << >>, a, None, None, 1) : a \in Addr}
           \cup {Handle("slow", << >>, a, None, 2, None) : a \in Addr}
           \cup {Handle("slow", << >>, a, a, 2, None) : a \in Addr}
MCSlow == {SeedSlow}
MCSeed == {SeedPartition, SeedSlow}
MCSplits == {<<{a}, Addr \ {a}>> : a \in Addr}
NoSplits == {}

\* Addresses are only compared.
Symmetry == Permutations(Addr)
=============================================================================
