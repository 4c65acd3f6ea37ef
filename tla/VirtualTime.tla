---------------------------- MODULE VirtualTime ----------------------------
(***************************************************************************)
(* What the event loop promises the programs that run on it, without the   *)
(* heap, its tombstones and the steps: a queue of handles that run in      *)
(* order, a set of timers that are still wanted, and a clock that is       *)
(* advanced to the next of them when the queue is empty.  Cancelling is    *)
(* immediate here: a cancelled handle is gone.                             *)
(***************************************************************************)
EXTENDS Naturals, Sequences

CONSTANTS Callback, Timer, Inf, None

VARIABLES
    clock,     \* virtual time
    pending,   \* the timers that are still wanted
    runnable,  \* the handles that will run, in this order
    current    \* the handle that runs, or None

vars == <<clock, pending, runnable, current>>

Earliest(t) ==
    /\ t \in pending
    /\ \A u \in pending :
          t.when < u.when \/ (t.when = u.when /\ t.seq <= u.seq)

Enqueue ==
    /\ \E c \in Callback : runnable' = Append(runnable, c)
    /\ UNCHANGED <<clock, pending, current>>

\* A new timer is younger than every timer that is pending.
Schedule ==
    /\ \E t \in Timer :
          /\ \A u \in pending : u.seq < t.seq
          /\ pending' = pending \cup {t}
    /\ UNCHANGED <<clock, runnable, current>>

Cancel ==
    /\ \/ \E t \in pending : pending' = pending \ {t} /\ UNCHANGED runnable
       \/ \E i \in 1..Len(runnable) :
             /\ runnable' = SubSeq(runnable, 1, i - 1)
                               \o SubSeq(runnable, i + 1, Len(runnable))
             /\ UNCHANGED pending
    /\ UNCHANGED <<clock, current>>

Advance ==
    /\ runnable = <<>>
    /\ \E t \in pending :
          Earliest(t) /\ clock < t.when /\ t.when < Inf /\ clock' = t.when
    /\ UNCHANGED <<pending, runnable, current>>

Release ==
    /\ \E t \in pending :
          /\ Earliest(t)
          /\ t.when <= clock
          /\ pending' = pending \ {t}
          /\ runnable' = Append(runnable, t)
    /\ UNCHANGED <<clock, current>>

Dispatch ==
    /\ current = None
    /\ runnable # <<>>
    /\ runnable' = Tail(runnable)
    /\ current' = Head(runnable)
    /\ UNCHANGED <<clock, pending>>

Return ==
    /\ current' = None
    /\ UNCHANGED <<clock, pending, runnable>>

Init == clock = 0 /\ pending = {} /\ runnable = <<>> /\ current = None

Next == Enqueue \/ Schedule \/ Cancel \/ Advance \/ Release \/ Dispatch \/ Return

Spec == Init /\ [][Next]_vars
=============================================================================
