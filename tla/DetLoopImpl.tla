---------------------------- MODULE DetLoopImpl ----------------------------
(* The loop with its tombstones implements the scheduler of VirtualTime.   *)
EXTENDS DetLoop

\* The handles of s that are not gone, in their order.
Kept(s, gone) ==
    LET kept[i \in 0..Len(s)] ==
            IF i = 0 THEN << >>
            ELSE IF s[i] \in gone THEN kept[i - 1] ELSE Append(kept[i - 1], s[i])
    IN  kept[Len(s)]

Abstract == INSTANCE VirtualTime WITH
    clock    <- now,
    pending  <- timers \ cancelled,
    runnable <- Kept(ready, cancelled),
    current  <- running

\* Deleting cancelled handles lazily (_purge_cancelled_timers, the cancelled()
\* tests of _fire_due_timers and _run_once) cannot be told from deleting them
\* at once: every step of the loop is a step of the abstract scheduler.
ImplementsVirtualTime == Abstract!Spec
=============================================================================
