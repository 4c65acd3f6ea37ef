------------------------------ MODULE Mailbox ------------------------------
(***************************************************************************)
(* What an endpoint promises a node: messages are received in the order    *)
(* they were delivered, each once, and stay in the box until they are.     *)
(***************************************************************************)
EXTENDS Sequences

CONSTANT Msg

VARIABLES
    box,        \* delivered, not yet received
    got         \* received, in order

Init == box = << >> /\ got = << >>

Put(m) == box' = Append(box, m) /\ UNCHANGED got

Take ==
    /\ box # << >>
    /\ got' = Append(got, Head(box))
    /\ box' = Tail(box)

Next == Take \/ \E m \in Msg : Put(m)

Spec == Init /\ [][Next]_<<box, got>>

=============================================================================
