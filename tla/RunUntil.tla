------------------------------ MODULE RunUntil ------------------------------
(***************************************************************************)
(* World.run_until (src/src/seedloop/_world.py) and the after-step hooks   *)
(* of DeterministicLoop._run_once (_loop.py) it is built on: tasks that    *)
(* wait for a predicate with or without a deadline, an always() invariant  *)
(* checked in the same steps, cancellation, and the end of the run.        *)
(*                                                                         *)
(* A loop step is StepBegin, the tasks that run in it in any order, and    *)
(* StepEnd, which runs the hooks.  A predicate and an invariant may have   *)
(* any value each time they are evaluated.  After the step in which the    *)
(* scenario finishes two stop steps follow, the hooks cleared in between.  *)
(***************************************************************************)
EXTENDS Naturals, Sequences, FiniteSets, SequencesExt, FiniteSetsExt

CONSTANTS
    Task,       \* the tasks that may call run_until()
    Scenario,   \* the scenario's own task
    Deadlines,  \* the deadlines they give, None for no deadline
    MaxTime,    \* bound: the latest time another task sleeps until
    MaxSteps,   \* max_steps of the run
    MaxCalls,   \* bound: calls that wait
    None

\* A call: its number, deadline_at, and the state of its future `done`.
Call == [id : 1..MaxCalls, deadline : Nat \cup {None},
         done : {"pending", "held", "raised", "timeout", "cancelled"}, cancel : BOOLEAN]

ASSUME RunUntilAssumption ==
    /\ Scenario \in Task
    /\ MaxTime \in Nat /\ MaxSteps \in Nat /\ MaxCalls \in Nat
    /\ Deadlines \subseteq Nat \cup {None}
    /\ None \notin Nat /\ None \notin Call

VARIABLES
    now,        \* loop.time()
    steps,      \* steps taken
    inStep,     \* is a step under way?
    work,       \* can other code of the scenario run in this step?
    woken,      \* the suspended tasks whose turn it is in this step
    sleeps,     \* the times other tasks sleep until
    hooks,      \* _sl_after_step_hooks: 0 for _check_invariants, n for call n's check
    installed,  \* _invariants_hook_installed
    stopIn,     \* _sl_stop_in: the stop steps left once the scenario is done
    timers,     \* the deadline timers that are armed: the call and its deadline
    active,     \* _run_until_active
    calls,      \* the number of calls that waited
    call,       \* the call a task is suspended in
    outcome,    \* how a task's last call ended
    run         \* "on", or what ended the run, and whether a note was added to it

vars == <<now, steps, inStep, work, woken, sleeps, hooks, installed, stopIn, timers, active,
          calls, call, outcome, run>>

Init ==
    /\ now = 0 /\ steps = 0 /\ inStep = FALSE /\ work = TRUE /\ woken = {}
    /\ sleeps \in SUBSET (1..MaxTime)
    /\ hooks = << >> /\ installed = FALSE /\ stopIn = None
    /\ timers = {} /\ active = FALSE /\ calls = 0
    /\ call = [t \in Task |-> None]
    /\ outcome = [t \in Task |-> "none"]
    /\ run = [by |-> "on", note |-> FALSE]

On == run.by = "on"

Waiting(t) == call[t] # None

\* A suspended task whose future is done, or that was cancelled, is ready.
Ready(t) == Waiting(t) /\ (call[t].done # "pending" \/ call[t].cancel)

\* What check() makes of the predicate's value p: an exception and a true
\* predicate come before the deadline.
Verdict(deadline, p) ==
    IF p = "raises" THEN "raised"
    ELSE IF p = "true" THEN "held"
    ELSE IF deadline # None /\ now >= deadline THEN "timeout"
    ELSE "pending"

\* World.always(): the first one of the run installs the hook that checks them
\* all, and no later one does, not even when the hooks have been cleared.
Always ==
    /\ On /\ inStep /\ work
    /\ ~installed
    /\ installed' = TRUE
    /\ hooks' = Append(hooks, 0)
    /\ UNCHANGED <<now, steps, inStep, work, woken, sleeps, stopIn, timers, active, calls,
                   call, outcome, run>>

\* Mutant: the deadline is left to the checks alone.
ArmNothing(id, deadline) == {}

\* The timer the call arms, so that the loop has something to jump to.
Arm(id, deadline) == IF deadline = None THEN {} ELSE {[id |-> id, at |-> deadline]}

\* run_until(predicate, deadline=d) up to its await.  A second call is
\* refused.  If the first check() decides, the await does not suspend, and
\* the finally undoes everything at once.
RunUntil(t, d, p) ==
    LET deadline == IF d = None THEN None ELSE now + d
        verdict == Verdict(deadline, p)
    IN
    /\ On /\ inStep /\ work
    /\ ~Waiting(t) /\ calls < MaxCalls
    /\ t = Scenario => stopIn = None
    /\ \/ /\ active
          /\ outcome' = [outcome EXCEPT ![t] = "refused"]
          /\ UNCHANGED <<hooks, timers, active, calls, call>>
       \/ /\ ~active /\ verdict # "pending"
          /\ outcome' = [outcome EXCEPT ![t] = verdict]
          /\ UNCHANGED <<hooks, timers, active, calls, call>>
       \/ /\ ~active /\ verdict = "pending"
          /\ active' = TRUE
          /\ calls' = calls + 1
          /\ hooks' = Append(hooks, calls + 1)
          /\ timers' = timers \cup Arm(calls + 1, deadline)
          /\ call' = [call EXCEPT ![t] = [id |-> calls + 1, deadline |-> deadline,
                                          done |-> "pending", cancel |-> FALSE]]
          /\ outcome' = [outcome EXCEPT ![t] = "none"]
    /\ UNCHANGED <<now, steps, inStep, work, woken, sleeps, installed, stopIn, run>>

\* Other code cancels a waiting task (or wait_for around the call times out):
\* its future is cancelled or, if it is done, the task is in its next step.
CancelCall(t) ==
    /\ On /\ inStep /\ work
    /\ Waiting(t) /\ ~call[t].cancel
    /\ call' = [call EXCEPT ![t].cancel = TRUE,
                            ![t].done = IF @ = "pending" THEN "cancelled" ELSE @]
    /\ UNCHANGED <<now, steps, inStep, work, woken, sleeps, hooks, installed, stopIn, timers,
                   active, calls, outcome, run>>

\* Mutant: the timer is left armed.
CleanupWithoutTimer(t) ==
    /\ hooks' = RemoveFirst(hooks, call[t].id)
    /\ active' = FALSE
    /\ call' = [call EXCEPT ![t] = None]
    /\ UNCHANGED timers

\* The finally of run_until: the hook (if it is still there), the timer and
\* the flag.
Cleanup(t) ==
    /\ hooks' = RemoveFirst(hooks, call[t].id)
    /\ timers' = {x \in timers : x.id # call[t].id}
    /\ active' = FALSE
    /\ call' = [call EXCEPT ![t] = None]

\* A task goes on after `await done`; a cancellation is raised there.
Resume(t) ==
    /\ On /\ inStep /\ t \in woken
    /\ woken' = woken \ {t}
    /\ work' = TRUE
    /\ outcome' = [outcome EXCEPT ![t] = IF call[t].cancel THEN "cancelled" ELSE call[t].done]
    /\ Cleanup(t)
    /\ UNCHANGED <<now, steps, inStep, sleeps, installed, stopIn, calls, run>>

\* The run is over.  After a failure _drive clears the hooks before it cancels
\* what waits; after a success they are left.
End(why, note) ==
    /\ run' = [by |-> why, note |-> note]
    /\ hooks' = IF why = "finished" THEN hooks ELSE << >>

\* A task that still waits is cancelled and runs its finally.  After a failure
\* one other than the scenario that was ready goes on first, in the steps that
\* settle the scenario.
Unwind(t) ==
    /\ ~On /\ Waiting(t)
    /\ outcome' = [outcome EXCEPT ![t] =
                     IF run.by # "finished" /\ t # Scenario /\ Ready(t) /\ ~call[t].cancel
                     THEN call[t].done ELSE "cancelled"]
    /\ Cleanup(t)
    /\ UNCHANGED <<now, steps, inStep, work, woken, sleeps, installed, stopIn, calls, run>>

\* The times the loop may jump to.
Wakeups == sleeps \cup {x.at : x \in timers}

\* Mutant: only a step that jumps counts against the limit.
StepBeginCountIdle(busy) ==
    LET ready == {t \in Task : Ready(t)}
        idle == ready = {} /\ ~busy /\ stopIn = None
        time == IF idle /\ Wakeups # {} THEN Max({now, Min(Wakeups)}) ELSE now
    IN
    /\ On /\ ~inStep
    /\ busy => work
    /\ steps = 0 => busy
    /\ \/ /\ steps = MaxSteps
          /\ End("livelock", FALSE)
          /\ UNCHANGED <<now, steps, inStep, work, woken, sleeps, timers>>
       \/ /\ steps < MaxSteps /\ idle /\ Wakeups = {}
          /\ steps' = steps + 1
          /\ End("deadlock", FALSE)
          /\ UNCHANGED <<now, inStep, work, woken, sleeps, timers>>
       \/ /\ steps < MaxSteps /\ ~(idle /\ Wakeups = {})
          /\ steps' = IF idle THEN steps + 1 ELSE steps
          /\ now' = time
          /\ inStep' = TRUE
          /\ work' = (busy \/ \E s \in sleeps : s <= time)
          /\ woken' = ready
          /\ sleeps' = {s \in sleeps : s > time}
          /\ timers' = {x \in timers : x.at > time}
          /\ UNCHANGED <<hooks, run>>
    /\ UNCHANGED <<installed, stopIn, active, calls, call, outcome>>

\* _run_once up to the batch: the step limit, the jump if nothing is ready,
\* the timers that are due.  busy: another task has something to do, which
\* takes a step before this one in which other code ran.  A stop step does not
\* jump and is never a deadlock.
StepBegin(busy) ==
    LET ready == {t \in Task : Ready(t)}
        idle == ready = {} /\ ~busy /\ stopIn = None
        time == IF idle /\ Wakeups # {} THEN Max({now, Min(Wakeups)}) ELSE now
    IN
    /\ On /\ ~inStep
    /\ busy => work
    /\ steps = 0 => busy
    /\ \/ /\ steps = MaxSteps
          /\ End("livelock", FALSE)
          /\ UNCHANGED <<now, steps, inStep, work, woken, sleeps, timers>>
       \/ /\ steps < MaxSteps /\ idle /\ Wakeups = {}
          /\ steps' = steps + 1
          /\ End("deadlock", FALSE)
          /\ UNCHANGED <<now, inStep, work, woken, sleeps, timers>>
       \/ /\ steps < MaxSteps /\ ~(idle /\ Wakeups = {})
          /\ steps' = steps + 1
          /\ now' = time
          /\ inStep' = TRUE
          /\ work' = (busy \/ \E s \in sleeps : s <= time)
          /\ woken' = ready
          /\ sleeps' = {s \in sleeps : s > time}
          /\ timers' = {x \in timers : x.at > time}
          /\ UNCHANGED <<hooks, run>>
    /\ UNCHANGED <<installed, stopIn, active, calls, call, outcome>>

\* The task whose call installed hook h, if it still waits for its verdict.
Caller(h) == {t \in Task : Waiting(t) /\ call[t].id = h /\ call[t].done = "pending"}

\* What hook h does: the invariants raise, a check() whose predicate raises
\* returns the exception, everything else is no failure.
HookResult(h, inv, p) ==
    IF h = 0 THEN IF inv THEN "ok" ELSE "hard"
    ELSE IF Caller(h) # {} /\ p = "raises" THEN "soft" ELSE "ok"

\* Mutant: the first hard failure is raised at once, before the hooks that
\* were registered later run.
StepVerdictAtOnce(inv, p) ==
    LET result(i) == HookResult(hooks[i], inv, p)
        hard == {i \in DOMAIN hooks : result(i) = "hard"}
        soft == {i \in DOMAIN hooks : result(i) = "soft" /\ \A j \in hard : i < j}
    IN  IF hard # {} THEN [by |-> "invariant", note |-> soft # {}]
        ELSE [by |-> "on", note |-> FALSE]

\* Every hook runs.  A hard failure ends the run and whatever else failed in
\* the step is a note on it; a soft one alone does not end the run.
StepVerdict(inv, p) ==
    LET result(i) == HookResult(hooks[i], inv, p)
        hard == {i \in DOMAIN hooks : result(i) = "hard"}
        soft == {i \in DOMAIN hooks : result(i) = "soft"}
    IN  IF hard # {} THEN [by |-> "invariant", note |-> soft # {}]
        ELSE [by |-> "on", note |-> FALSE]

\* The stop steps left after a step: the countdown starts when the scenario is
\* done.
StopIn(finished) ==
    IF stopIn = None THEN IF finished THEN 2 ELSE None ELSE stopIn - 1

\* The end of a step: the hooks, which end the run if one of them fails, and
\* the countdown, which clears them between the two stop steps.
StepEnd(inv, p, finished) ==
    LET verdict == StepVerdict(inv, p)
        left == StopIn(finished)
    IN
    /\ On /\ inStep /\ woken = {}
    /\ finished => stopIn = None /\ work /\ ~Waiting(Scenario)
    /\ call' = [t \in Task |->
                  IF \E h \in Range(hooks) : t \in Caller(h)
                  THEN [call[t] EXCEPT !.done = Verdict(call[t].deadline, p)]
                  ELSE call[t]]
    /\ inStep' = FALSE
    /\ \/ verdict.by # "on" /\ End(verdict.by, verdict.note) /\ UNCHANGED stopIn
       \/ verdict.by = "on" /\ left = 0 /\ End("finished", FALSE) /\ stopIn' = left
       \/ verdict.by = "on" /\ left = 1 /\ hooks' = << >> /\ stopIn' = left /\ UNCHANGED run
       \/ verdict.by = "on" /\ left \notin {0, 1} /\ stopIn' = left /\ UNCHANGED <<hooks, run>>
    /\ UNCHANGED <<now, steps, work, woken, sleeps, installed, timers, active, calls, outcome>>

Next ==
    \/ Always
    \/ \E t \in Task :
          \/ \E d \in Deadlines, p \in {"true", "false", "raises"} : RunUntil(t, d, p)
          \/ CancelCall(t)
          \/ Resume(t)
          \/ Unwind(t)
    \/ \E busy \in BOOLEAN : StepBegin(busy)
    \/ \E inv, finished \in BOOLEAN, p \in {"true", "false", "raises"} :
          StepEnd(inv, p, finished)

Spec == Init /\ [][Next]_vars

\* The loop steps on, runs what is ready, and unwinds what still waits.
FairSpec ==
    /\ Spec
    /\ WF_vars(\E busy \in BOOLEAN : StepBegin(busy))
    /\ WF_vars(\E inv, finished \in BOOLEAN, p \in {"true", "false", "raises"} :
                  StepEnd(inv, p, finished))
    /\ \A t \in Task : WF_vars(Resume(t)) /\ WF_vars(Unwind(t))

-----------------------------------------------------------------------------
(* Properties *)

\* Every variable has its type.
TypeOK ==
    /\ now \in Nat /\ steps \in 0..MaxSteps /\ calls \in 0..MaxCalls
    /\ inStep \in BOOLEAN /\ work \in BOOLEAN /\ active \in BOOLEAN
    /\ woken \subseteq Task /\ sleeps \subseteq 1..MaxTime
    /\ hooks \in Seq(0..MaxCalls)
    /\ installed \in BOOLEAN /\ stopIn \in {None, 0, 1, 2}
    /\ timers \subseteq [id : 1..MaxCalls, at : Nat]
    /\ call \in [Task -> Call \cup {None}]
    /\ outcome \in [Task -> {"none", "refused", "held", "raised", "timeout", "cancelled"}]
    /\ run \in [by : {"on", "invariant", "deadlock", "livelock", "finished"}, note : BOOLEAN]

\* A call cleans up however it ends: the flag, a check hook and a deadline
\* timer exist only for the one call that is waiting, so a later call is not
\* refused, no stale check runs, and the clock does not stop at a deadline
\* nobody waits for.
NothingLeftBehind ==
    /\ \A t, u \in Task : Waiting(t) /\ Waiting(u) => t = u
    /\ active <=> \E t \in Task : Waiting(t)
    /\ \A h \in Range(hooks) \ {0} : \E t \in Task : Waiting(t) /\ call[t].id = h
    /\ \A x \in timers : \E t \in Task : Waiting(t) /\ call[t].id = x.id

\* A deadline is neither missed nor late: the clock never passes the deadline
\* of an undecided call, the step that reaches it decides the call, and the
\* loop is not called deadlocked while a deadline is still to come.
DeadlineIsKept ==
    \A t \in Task :
        Waiting(t) /\ call[t].done = "pending" /\ call[t].deadline # None =>
            /\ now <= call[t].deadline
            /\ On /\ ~inStep => now < call[t].deadline
            /\ run.by # "deadlock"

\* An undecided call, but for one that waited before the second stop step.
ToBeChecked(t) ==
    /\ Waiting(t) /\ call[t].done = "pending"
    /\ stopIn = 1 => call[t].id \in Range(hooks)

\* What happens in one step is ranked, whichever hook was registered first:
\* a predicate that holds comes before the deadline that passes; an invariant
\* that fails ends the run, and the exception of a predicate is then a note
\* on it and still reaches the call's future.
SameStepPriority ==
    [][\A inv, finished \in BOOLEAN, p \in {"true", "false", "raises"} :
          StepEnd(inv, p, finished) =>
              /\ ~inv /\ 0 \in Range(hooks) => run'.by = "invariant"
              /\ \A t \in Task : ToBeChecked(t) =>
                    /\ p = "true" => call'[t].done = "held"
                    /\ p = "raises" =>
                          /\ call'[t].done = "raised"
                          /\ run'.by = "invariant" => run'.note]_vars

\* Every run_until that waits ends, by its predicate, its deadline or the
\* end of the run, also when other tasks keep the loop busy at one instant.
CallEnds == \A t \in Task : Waiting(t) ~> ~Waiting(t)

=============================================================================
