------------------------------ MODULE Patching ------------------------------
(***************************************************************************)
(* The process-wide patches of a run: csprng_shim and restore_if_ours of   *)
(* src/src/seedloop/_entropy.py and audit_mode of _audit.py.  Threads      *)
(* enter and leave these contexts, nested on one thread if they like,      *)
(* under one re-entrant lock; an interrupt may hit between any two steps,  *)
(* and other code may replace a patched function at any time.              *)
(*                                                                         *)
(* A function is Real, Other (someone else's replacement) or the context   *)
(* whose wrapper it is: a context is named by its thread and its number    *)
(* there.  A wrapper seeds or trips the thread that entered its context    *)
(* and passes every other thread on to the function it replaced.           *)
(***************************************************************************)
EXTENDS Naturals, Sequences, SequencesExt

CONSTANTS
    Thread,
    Interruptible,  \* the threads an interrupt may hit (the main thread)
    Shim,           \* the names csprng_shim patches, in order
    Audit,          \* the names audit_mode patches, in order
    MaxContexts,    \* bound: contexts a thread enters
    MaxInterrupts,  \* bound: interrupts
    MaxReplaced,    \* bound: replacements by other code
    Real, Other, None

Name == Range(Shim) \cup Range(Audit)
Context == Thread \X (1..MaxContexts)
Function == Context \cup {Real, Other}

ASSUME PatchingAssumption ==
    /\ \A names \in {Shim, Audit} :
          /\ names \in Seq(Name) \ {<< >>}
          /\ \A i, j \in DOMAIN names : names[i] = names[j] => i = j
    /\ Interruptible \subseteq Thread
    /\ MaxContexts \in Nat /\ MaxInterrupts \in Nat /\ MaxReplaced \in Nat
    /\ Real \notin Context /\ Other \notin Context \cup {Real} /\ None \notin Thread

VARIABLES
    fn,         \* what is installed under each name
    orig,       \* the function a context's wrapper of a name falls back to
    entered,    \* how many contexts a thread has entered
    lock,       \* _patch_lock: who holds it, how many times
    frames,     \* the contexts a thread is in, innermost first
    interrupts, replaces,   \* counts, for the bounds
    replaced,   \* names that other code replaced,
    raced,      \* in between a context's reading of the name and its writing it
    cut         \* names whose own restore was interrupted

pvars == <<fn, orig, entered, lock, frames, interrupts, replaces, replaced, raced, cut>>

\* A context in progress: its phase, its next instruction or the restores
\* left to do, whether the next of them has passed its test, and the
\* exception in flight.
Frame == [id : Context, by : {"user", "run"}, kind : {"shim", "audit"},
          phase : {"wait", "setup", "body", "undo"}, pc : Nat, undo : Seq(Name),
          ours : BOOLEAN, exc : {"ok", "fail", "usage", "cancelled", "base"}]

PInit ==
    /\ fn = [n \in Name |-> Real]
    /\ orig = [c \in Context |-> [n \in Name |-> Real]]
    /\ entered = [t \in Thread |-> 0]
    /\ lock = [by |-> None, count |-> 0]
    /\ frames = [t \in Thread |-> << >>]
    /\ interrupts = 0 /\ replaces = 0
    /\ replaced = {} /\ raced = {} /\ cut = {}

\* What a context does once it holds the lock, as instructions: the shim
\* reads both originals first, the auditor goes name by name.  A restore is
\* registered before its install.
Each(op, names) == [i \in DOMAIN names |-> <<op, names[i]>>]

\* Mutant: each name is installed and then its restore registered.
ProgramInstallFirst(kind) ==
    LET names == IF kind = "shim" THEN Shim ELSE Audit
    IN  Each("read", names) \o Each("install", names) \o Each("register", names)

Program(kind) ==
    IF kind = "shim"
    THEN Each("read", Shim) \o Each("register", Shim) \o Each("install", Shim)
    ELSE [i \in 1..(3 * Len(Audit)) |->
            <<<<"read", "register", "install">>[((i - 1) % 3) + 1], Audit[((i - 1) \div 3) + 1]>>]

In(t, phase) == frames[t] # << >> /\ Head(frames[t]).phase = phase
Top(t) == Head(frames[t])
SetTop(t, f) == frames' = [frames EXCEPT ![t] = <<f>> \o Tail(@)]

\* A thread enters a context and comes to the lock.
Enter(t, kind, by) ==
    /\ entered[t] < MaxContexts
    /\ entered' = [entered EXCEPT ![t] = @ + 1]
    /\ frames' = [frames EXCEPT ![t] =
                    <<[id |-> <<t, entered[t] + 1>>, by |-> by, kind |-> kind, phase |-> "wait",
                       pc |-> 1, undo |-> << >>, ours |-> FALSE, exc |-> "ok"]>> \o @]
    /\ UNCHANGED <<fn, orig, lock, interrupts, replaces, replaced, raced, cut>>

\* Mutant: nobody waits.
FreeAlways(t) == TRUE

\* Another thread waits; the holder may take the lock again.
Free(t) == lock.by \in {None, t}

Acquire(t) ==
    /\ In(t, "wait") /\ Free(t)
    /\ lock' = [by |-> t, count |-> lock.count + 1]
    /\ SetTop(t, [Top(t) EXCEPT !.phase = "setup"])
    /\ UNCHANGED <<fn, orig, entered, interrupts, replaces, replaced, raced, cut>>

\* One instruction of the set-up; after the last the body runs.
Setup(t) ==
    LET f == Top(t)
        op == Program(f.kind)[f.pc][1]
        n == Program(f.kind)[f.pc][2]
    IN
    /\ In(t, "setup")
    /\ \/ op = "read" /\ orig' = [orig EXCEPT ![f.id][n] = fn[n]] /\ UNCHANGED fn
       \/ op = "register" /\ UNCHANGED <<fn, orig>>
       \/ op = "install" /\ fn' = [fn EXCEPT ![n] = f.id] /\ UNCHANGED orig
    /\ SetTop(t, [f EXCEPT !.pc = @ + 1,
                           !.undo = IF op = "register" THEN <<n>> \o @ ELSE @,
                           !.phase = IF f.pc = Len(Program(f.kind)) THEN "body" ELSE @])
    /\ UNCHANGED <<entered, lock, interrupts, replaces, replaced, raced, cut>>

\* The body ends, with an exception or not.
Leave(t, exc) ==
    /\ In(t, "body")
    /\ SetTop(t, [Top(t) EXCEPT !.phase = "undo", !.exc = exc])
    /\ UNCHANGED <<fn, orig, entered, lock, interrupts, replaces, replaced, raced, cut>>

\* restore_if_ours, its test and its assignment: other code runs in between.
RestoreTest(t) ==
    LET f == Top(t) IN
    /\ In(t, "undo") /\ f.undo # << >> /\ ~f.ours
    /\ SetTop(t, IF fn[Head(f.undo)] = f.id THEN [f EXCEPT !.ours = TRUE]
                                            ELSE [f EXCEPT !.undo = Tail(@)])
    /\ UNCHANGED <<fn, orig, entered, lock, interrupts, replaces, replaced, raced, cut>>

RestoreSet(t) ==
    LET f == Top(t) IN
    /\ In(t, "undo") /\ f.undo # << >> /\ f.ours
    /\ fn' = [fn EXCEPT ![Head(f.undo)] = orig[f.id][Head(f.undo)]]
    /\ SetTop(t, [f EXCEPT !.undo = Tail(@), !.ours = FALSE])
    /\ UNCHANGED <<orig, entered, lock, interrupts, replaces, replaced, raced, cut>>

\* Mutant: the lock is not given up.
UnlockNever == [by |-> lock.by, count |-> lock.count - 1]

\* One release of the lock; it is free after the outermost.
Unlock == [by |-> IF lock.count = 1 THEN None ELSE lock.by, count |-> lock.count - 1]

\* A thread's innermost context is over.  A BaseException goes on through the
\* body of the next one; what code there does about an Exception is its own.
Pop(fs, exc) ==
    LET rest == Tail(fs)
    IN  IF rest # << >> /\ exc = "base"
        THEN <<[Head(rest) EXCEPT !.phase = "undo", !.exc = "base"]>> \o Tail(rest)
        ELSE rest

\* All restores are done: the context releases the lock.
Release(t) ==
    /\ In(t, "undo") /\ Top(t).undo = << >>
    /\ lock' = Unlock
    /\ frames' = [frames EXCEPT ![t] = Pop(@, Top(t).exc)]
    /\ UNCHANGED <<fn, orig, entered, interrupts, replaces, replaced, raced, cut>>

\* An interrupt ends the set-up or the body and starts the restores.
InterruptEntered(t) ==
    /\ In(t, "setup") \/ In(t, "body")
    /\ SetTop(t, [Top(t) EXCEPT !.phase = "undo", !.exc = "base"])
    /\ UNCHANGED <<fn, orig, entered, lock, replaces, replaced, raced, cut>>

\* An interrupt in a restore ends that restore; ExitStack runs the others.
InterruptRestore(t) ==
    LET f == Top(t) IN
    /\ In(t, "undo") /\ f.undo # << >>
    /\ SetTop(t, [f EXCEPT !.undo = Tail(@), !.ours = FALSE, !.exc = "base"])
    /\ cut' = cut \cup {Head(f.undo)}
    /\ UNCHANGED <<fn, orig, entered, lock, replaces, replaced, raced>>

\* Mutant: what an interrupted wait never took is released.
InterruptWaitReleasing(t) ==
    /\ In(t, "wait")
    /\ lock' = [by |-> None, count |-> 0]
    /\ frames' = [frames EXCEPT ![t] = Pop(@, "base")]
    /\ UNCHANGED <<fn, orig, entered, replaces, replaced, raced, cut>>

\* An interrupt while the thread waits for the lock: it never had it.
InterruptWait(t) ==
    /\ In(t, "wait")
    /\ frames' = [frames EXCEPT ![t] = Pop(@, "base")]
    /\ UNCHANGED <<fn, orig, entered, lock, replaces, replaced, raced, cut>>

\* Is a context between reading n and writing it?
Reading(n) ==
    \E t \in Thread : \E f \in Range(frames[t]) :
        \/ /\ f.phase = "setup"
           /\ \E i \in 1..(f.pc - 1) : Program(f.kind)[i] = <<"read", n>>
           /\ \E i \in f.pc..Len(Program(f.kind)) : Program(f.kind)[i] = <<"install", n>>
        \/ f.ours /\ Head(f.undo) = n

\* Code outside the library installs its own function under n.
Replace(n) ==
    /\ replaces < MaxReplaced
    /\ fn' = [fn EXCEPT ![n] = Other]
    /\ replaces' = replaces + 1
    /\ replaced' = replaced \cup {n}
    /\ raced' = IF Reading(n) THEN raced \cup {n} ELSE raced
    /\ UNCHANGED <<orig, entered, lock, frames, interrupts, cut>>

-----------------------------------------------------------------------------
(* What a thread gets *)

\* What a call of f under name n comes down to on thread u: the function or
\* the wrapper that acts.
Call(u, n, f) ==
    LET acts[g \in Function] ==
            IF g \in {Real, Other} THEN g
            ELSE IF g[1] = u THEN g
            ELSE acts[orig[g][n]]
    IN  acts[f]

\* The contexts of a thread whose wrapper of n is or may be installed.
Patched(u, n) ==
    {f.id : f \in {g \in Range(frames[u]) : g.phase # "wait" /\ n \in Range(g.undo)}}

=============================================================================
