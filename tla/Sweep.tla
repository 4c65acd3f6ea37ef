-------------------------------- MODULE Sweep --------------------------------
(***************************************************************************)
(* check() and _run_one() of src/src/seedloop/_run.py on top of Patching:  *)
(* threads sweep their seeds, each run inside the shim's or the auditor's  *)
(* context, and other code of a thread may enter such a context by hand.   *)
(* replay() is a sweep of one seed that raises and does not tag; a test of *)
(* given_seed (hypothesis.py) is a replay() whose failure is tagged.       *)
(*                                                                         *)
(* A run ends with "ok", with an Exception ("fail"), with _UsageError      *)
(* ("usage"), with the CancelledError of a scenario that ends cancelled    *)
(* ("cancelled", which is no Exception) or with an interrupt ("base");     *)
(* Drive is about which.                                                   *)
(***************************************************************************)
EXTENDS Patching

CONSTANTS
    Options,        \* the calls each thread may make, as <<call, kind>>
    Seeds,          \* the number of seeds of a sweep
    MaxUser         \* bound: contexts entered by hand

ASSUME SweepAssumption ==
    /\ Options \in [Thread -> SUBSET ({"raise", "return", "replay", "given"} \X {"shim", "audit"})]
    /\ Seeds \in Nat /\ MaxUser \in Nat

VARIABLES
    sweep,          \* the check() of each thread
    byHand,         \* contexts entered by hand, for the bound
    hit             \* the threads an interrupt has hit in their check()

vars == <<pvars, sweep, byHand, hit>>

Outcome == {"ok", "fail", "usage", "cancelled", "base"}

\* A check(): where it is, its options, its counters, whether its World is
\* open, how each run really ended, and what it came to.
Check == [at : {"idle", "loop", "run", "over"}, call : {"raise", "return", "replay", "given"},
          kind : {"shim", "audit"}, checked : Nat, world : BOOLEAN, ended : Seq(Outcome),
          result : {"none", "passed", "returned", "raised", "untagged"}, seed : Nat \cup {None}]

Init ==
    /\ PInit
    /\ sweep = [t \in Thread |->
                  [at |-> "idle", call |-> "raise", kind |-> "shim", checked |-> 0,
                   world |-> FALSE, ended |-> << >>, result |-> "none", seed |-> None]]
    /\ byHand = 0 /\ hit = {}

Set(t, s) == sweep' = [sweep EXCEPT ![t] = s]

\* The thread runs code that is not the library's: outside every context or
\* in the body of one, and not in check()'s loop.
InUserCode(t) == sweep[t].at # "loop" /\ (frames[t] = << >> \/ In(t, "body"))

\* csprng_shim() or audit_mode() as a context of the user's own, around
\* a check() or in the body of a run.
EnterByHand(t, kind) ==
    /\ byHand < MaxUser
    /\ InUserCode(t)
    /\ byHand' = byHand + 1
    /\ Enter(t, kind, "user")
    /\ UNCHANGED <<sweep, hit>>

\* check() or replay(): _preflight passes, because no loop runs here.  (In a
\* scenario's body it would raise, which is one of the ways a run ends.)
Begin(t, option) ==
    /\ sweep[t].at = "idle" /\ InUserCode(t)
    /\ Set(t, [sweep[t] EXCEPT !.at = "loop", !.call = option[1], !.kind = option[2]])
    /\ UNCHANGED <<pvars, byHand, hit>>

Count(s) == IF s.call \in {"replay", "given"} THEN 1 ELSE Seeds

\* The next seed: a World, and the context its run takes place in.
NextSeed(t) ==
    LET s == sweep[t] IN
    /\ s.at = "loop" /\ s.checked < Count(s)
    /\ Set(t, [s EXCEPT !.at = "run", !.checked = @ + 1, !.world = TRUE])
    /\ Enter(t, s.kind, "run")
    /\ UNCHANGED <<byHand, hit>>

\* All seeds passed.
AllPassed(t) ==
    /\ sweep[t].at = "loop" /\ sweep[t].checked = Count(sweep[t])
    /\ Set(t, [sweep[t] EXCEPT !.at = "over", !.result = "passed"])
    /\ UNCHANGED <<pvars, byHand, hit>>

\* Mutant: every BaseException is a failing seed.
AfterTagAll(s, exc) ==
    LET ran == [s EXCEPT !.world = FALSE, !.ended = Append(@, exc)]
    IN  IF exc = "ok" THEN [ran EXCEPT !.at = "loop"]
        ELSE [ran EXCEPT !.at = "over", !.result = "returned", !.seed = s.checked]

\* Mutant: the clause for misuse is widened to SeedloopError, of which every
\* failure here is one.
TaggedUnlessOurs(s, exc) == FALSE

\* A failure is tagged with its seed by check() and by given_seed; misuse and
\* what is no Exception never is.
Tagged(s, exc) == exc = "fail" /\ s.call # "replay"

\* What check() does with the outcome of a run: the next seed, or the end,
\* with the error as it is or tagged.
After(s, exc) ==
    LET ran == [s EXCEPT !.world = FALSE, !.ended = Append(@, exc)]
    IN  IF exc = "ok" THEN [ran EXCEPT !.at = "loop"]
        ELSE IF ~Tagged(s, exc) THEN [ran EXCEPT !.at = "over", !.result = "untagged"]
        ELSE [ran EXCEPT !.at = "over", !.seed = s.checked,
                         !.result = IF s.call = "return" THEN "returned" ELSE "raised"]

\* A context's body ends: _drive returns or raises, or the user's code goes on
\* (it handles its own Exceptions).
BodyEnds(t, exc) ==
    /\ InUserCode(t) /\ In(t, "body")
    /\ exc \in IF Top(t).by = "run" THEN Outcome ELSE {"ok", "base"}
    /\ Leave(t, exc)
    /\ UNCHANGED <<sweep, byHand, hit>>

\* A context is over.  If it was a run's, its World is closed and check() goes
\* on with the outcome.
ContextEnds(t) ==
    /\ Release(t)
    /\ IF Top(t).by = "run" THEN Set(t, After(sweep[t], Top(t).exc)) ELSE UNCHANGED sweep
    /\ UNCHANGED <<byHand, hit>>

PatchStep(t) ==
    /\ Acquire(t) \/ Setup(t) \/ RestoreTest(t) \/ RestoreSet(t)
    /\ UNCHANGED <<sweep, byHand, hit>>

\* An interrupt (Ctrl-C).  Where it leaves a run's context at once, or hits
\* check() itself between two runs, check() is over.
Interrupt(t) ==
    LET s == sweep[t] IN
    /\ t \in Interruptible /\ interrupts < MaxInterrupts
    /\ interrupts' = interrupts + 1
    /\ hit' = IF s.at \in {"loop", "run"} THEN hit \cup {t} ELSE hit
    /\ \/ /\ InterruptEntered(t) \/ InterruptRestore(t)
          /\ IF s.at = "loop" THEN Set(t, [s EXCEPT !.at = "over", !.result = "untagged"])
                              ELSE UNCHANGED sweep
       \/ /\ InterruptWait(t)
          /\ IF Top(t).by = "run" THEN Set(t, After(s, "base")) ELSE UNCHANGED sweep
       \/ /\ s.at = "loop" /\ frames[t] = << >>
          /\ Set(t, [s EXCEPT !.at = "over", !.result = "untagged"])
          /\ UNCHANGED <<fn, orig, entered, lock, frames, replaces, replaced, raced, cut>>
    /\ UNCHANGED byHand

Replacement ==
    /\ \E n \in Name : Replace(n)
    /\ UNCHANGED <<sweep, byHand, hit>>

\* A thread does what is next; entering contexts and checks is up to it.
Proceed(t) ==
    \/ NextSeed(t)
    \/ AllPassed(t)
    \/ PatchStep(t)
    \/ \E exc \in Outcome : BodyEnds(t, exc)
    \/ ContextEnds(t)

Next ==
    \/ \E t \in Thread :
          \/ \E kind \in {"shim", "audit"} : EnterByHand(t, kind)
          \/ \E option \in Options[t] : Begin(t, option)
          \/ Proceed(t)
          \/ Interrupt(t)
    \/ Replacement

Spec == Init /\ [][Next]_vars

\* Threads run on, and bodies end.
FairSpec == Spec /\ \A t \in Thread : WF_vars(Proceed(t))

-----------------------------------------------------------------------------
(* Properties *)

\* Every variable has its type.
TypeOK ==
    /\ fn \in [Name -> Function]
    /\ orig \in [Context -> [Name -> Function]]
    /\ entered \in [Thread -> 0..MaxContexts]
    /\ lock \in [by : Thread \cup {None}, count : 0..MaxContexts]
    /\ \A t \in Thread : frames[t] \in Seq(Frame)
    /\ interrupts \in 0..MaxInterrupts /\ replaces \in 0..MaxReplaced
    /\ replaced \subseteq Name /\ raced \subseteq Name /\ cut \subseteq Name
    /\ sweep \in [Thread -> Check]
    /\ byHand \in 0..MaxUser /\ hit \subseteq Interruptible

\* Once every context is over each name is what it was, or what other code
\* made it: nothing stays patched, however the contexts of the threads
\* overlapped, nested or were interrupted.  The two exceptions are exact: a
\* name whose own restore was interrupted, and a replacement that came
\* between a context's reading and writing of that very name.
RestoredWhenIdle ==
    (\A t \in Thread : frames[t] = << >>) =>
        \A n \in Name \ cut :
            IF n \in raced THEN fn[n] \in {Real, Other}
            ELSE fn[n] = IF n \in replaced THEN Other ELSE Real

\* A wrapper acts only on the thread that entered its context and only while
\* the context lasts: every other thread, and the thread itself afterwards,
\* gets the real function.  In the body of a context its thread gets that
\* context's wrapper, not an outer one's or another thread's.
WrapperActsOnItsThread ==
    \A u \in Thread, n \in Name :
        /\ n \notin cut => Call(u, n, fn[n]) \in {Real, Other} \cup Patched(u, n)
        /\ n \notin replaced /\ In(u, "body") /\ Top(u).id \in Patched(u, n) =>
              Call(u, n, fn[n]) = Top(u).id

\* The lock is held as many times as its holder has contexts past it, and
\* never by a thread that has none.
LockIsHeldForAContext ==
    \A t \in Thread :
        LET inside == {i \in DOMAIN frames[t] : frames[t][i].phase # "wait"}
        IN  (inside # {} <=> lock.by = t) /\ (lock.by = t => lock.count = Cardinality(inside))

\* check() reports the first run that failed, and only that: every run before
\* it passed, a failure is never let through without its seed, raised or
\* returned as on_failure says, and the count says how many ran.  What is no
\* failure is never reported as one, and replay() tags nothing.  The Worlds
\* are all closed.  A sweep stays abortable: an interrupt that hits a thread in
\* check() comes out of it untagged, also out of a run that was failing or
\* restoring.
FirstFailureReported ==
    \A t \in Thread : LET s == sweep[t] IN
        s.at = "over" =>
            /\ ~s.world
            /\ \A i \in 1..(Len(s.ended) - 1) : s.ended[i] = "ok"
            /\ s.ended # << >> /\ Last(s.ended) = "fail" /\ s.call # "replay" =>
                  /\ s.result = IF s.call = "return" THEN "returned" ELSE "raised"
                  /\ s.checked = Len(s.ended) /\ s.seed = Len(s.ended)
            /\ s.result \in {"raised", "returned"} =>
                  s.ended # << >> /\ Last(s.ended) = "fail" /\ s.call # "replay"
            /\ s.result = "passed" =>
                  Len(s.ended) = Count(s) /\ \A i \in DOMAIN s.ended : s.ended[i] = "ok"
            /\ s.result = "untagged" => s.seed = None
            /\ t \in hit => s.result = "untagged"

\* Every check() ends, with runs of other threads in its way.
SweepEnds == \A t \in Thread : sweep[t].at = "loop" ~> sweep[t].at = "over"

-----------------------------------------------------------------------------
(* What the documents say and the code does not do.                        *)

\* "The first run that raises - an assert, a SeedloopError, or any exception
\* from the scenario - is the failure": the CancelledError of a scenario that
\* ends cancelled, too.
AnyExceptionIsReported ==
    \A t \in Thread : LET s == sweep[t] IN
        /\ s.at = "over" /\ s.call \in {"raise", "return"} /\ s.ended # << >>
        /\ Last(s.ended) \in {"fail", "cancelled"}
        => s.result \in {"raised", "returned"}

=============================================================================
