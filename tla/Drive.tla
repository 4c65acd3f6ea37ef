------------------------------- MODULE Drive -------------------------------
(***************************************************************************)
(* One run of a scenario: World._drive, World._cancel_everything and       *)
(* World.always of src/src/seedloop/_world.py, on top of run_until_done    *)
(* and run_one_more_step of _loop.py.                                      *)
(*                                                                         *)
(* The loop is seen step by step: a step is "top" (may it begin?), "work"  *)
(* (tasks act, in any order) and its end.  Time, the ready queue and the   *)
(* heap are abstracted to which tasks can still make progress: a task is   *)
(* live, or blocked on something that only another task can provide.       *)
(* DetLoop models the loop itself.                                         *)
(***************************************************************************)
EXTENDS Naturals, FiniteSets

CONSTANTS
    MaxTasks,       \* bound: tasks a run creates, the scenario included
    MaxSteps,       \* max_steps of the run
    TeardownSteps,  \* the allowance of a teardown round
    Rounds,         \* _TEARDOWN_ROUNDS
    MaxInterrupts,  \* bound: interrupts (KeyboardInterrupt, SystemExit)
    MaxInvariants,  \* bound: properties registered with World.always
    None

ASSUME DriveAssumption ==
    /\ MaxTasks \in Nat \ {0} /\ MaxSteps \in Nat \ {0}
    /\ TeardownSteps \in Nat \ {0} /\ Rounds \in Nat
    /\ MaxInterrupts \in Nat /\ MaxInvariants \in Nat

Main == 0                      \* tasks are known by their creation index
Task == 0..(MaxTasks - 1)
Done == {"returned", "failed", "cancelled"}

\* An error: what raised it, and the task for an error of user code.
Error == {"task"} \X Task \cup
         {"usage", "cancelled", "invariant", "livelock", "deadlock",
          "stopped", "teardown", "interrupt"} \X {0}
Interruption == <<"interrupt", 0>>

ASSUME NoErrorAssumption == None \notin Error /\ None \notin Nat

VARIABLES
    status,      \* status[t]: what became of task t
    taskSeq,     \* _sl_task_seq: tasks 0..taskSeq-1 exist
    started,     \* _started: the tasks World.start created
    cancelReq,   \* tasks whose cancel() has not been delivered
    invariants,  \* how many properties _invariants holds
    hookIn,      \* _check_invariants is in _sl_after_step_hooks
    installed,   \* _invariants_hook_installed
    tearingDown, \* _tearing_down
    phase,       \* which part of _drive runs
    pc,          \* where the loop, or the code between two passes, is
    stopIn,      \* steps left once the awaited tasks are done, or None
    stopping,    \* BaseEventLoop._stopping
    stepsLeft,   \* _sl_steps_left
    awaited,     \* the tasks this pass of the loop waits for
    rounds,      \* teardown rounds left
    failure,     \* the error in flight, or None
    notes,       \* the errors attached to it as notes
    first,       \* history: the first error of the run phase
    ended,       \* history: the error that _drive first had in flight
    interrupts   \* history: how many interrupts were raised

taskVars == <<status, taskSeq, started, cancelReq>>
hookVars == <<invariants, hookIn, installed, tearingDown>>
loopVars == <<pc, stopIn, stopping, stepsLeft, awaited>>
errVars  == <<failure, notes, ended>>
histVars == <<first, interrupts>>
vars == <<taskVars, hookVars, phase, loopVars, rounds, errVars, histVars>>

-----------------------------------------------------------------------------
Exists  == 0..(taskSeq - 1)
Pending == {t \in Exists : status[t] \notin Done}
Live    == {t \in Exists : status[t] = "live"}
AllDone(T) == \A t \in T : status[t] \in Done

\* Task.cancel on every task of T: each one is woken to be cancelled.
CancelTasks(T) ==
    /\ cancelReq' = cancelReq \cup T
    /\ status' = [t \in Task |-> IF t \in T THEN "live" ELSE status[t]]

\* The first error of the run is remembered.
Remember(e) == first' = IF phase = "run" /\ first = None THEN e ELSE first

\* Mutant of Absorb: a later error takes the place of the one in flight.
MutLaterErrorWins(e) ==
    /\ failure' = e
    /\ notes' = {}
    /\ ended' = IF failure = None THEN e ELSE ended

\* Mutant of Absorb: _secondary absorbs interrupts like any other error.
MutInterruptNoted(e) ==
    /\ failure' = IF failure = None THEN e ELSE failure
    /\ notes' = IF failure = None THEN {} ELSE notes \cup {e}
    /\ ended' = IF failure = None THEN e ELSE ended

\* _secondary and the two except clauses of _drive: an Exception becomes a
\* note on the failure in flight, an interrupt takes its place and notes it.
Absorb(e) ==
    \/ /\ failure = None
       /\ failure' = e
       /\ notes' = {}
       /\ ended' = e
    \/ /\ failure # None
       /\ failure' = IF e = Interruption THEN e ELSE failure
       /\ notes' = IF e = Interruption THEN {failure} \ {e} ELSE notes \cup {e}
       /\ UNCHANGED ended

-----------------------------------------------------------------------------
(* What tasks do during a step.                                            *)

Acts(t) == pc = "work" /\ t \in Live

Return(t) ==
    /\ Acts(t)
    /\ status' = [status EXCEPT ![t] = "returned"]
    /\ cancelReq' = cancelReq \ {t}
    /\ UNCHANGED <<taskSeq, started, hookVars, phase, loopVars, rounds, errVars, histVars>>

Fail(t) ==
    /\ Acts(t)
    /\ status' = [status EXCEPT ![t] = "failed"]
    /\ cancelReq' = cancelReq \ {t}
    /\ IF t \in {Main} \cup started THEN Remember(<<"task", t>>) ELSE UNCHANGED first
    /\ UNCHANGED <<taskSeq, started, hookVars, phase, loopVars, rounds, errVars, interrupts>>

\* The task ends with the CancelledError that was thrown into it ...
EndCancelled(t) ==
    /\ Acts(t)
    /\ t \in cancelReq
    /\ status' = [status EXCEPT ![t] = "cancelled"]
    /\ cancelReq' = cancelReq \ {t}
    /\ UNCHANGED <<taskSeq, started, hookVars, phase, loopVars, rounds, errVars, histVars>>

\* ... or ignores it and goes on.
Swallow(t) ==
    /\ Acts(t)
    /\ t \in cancelReq
    /\ cancelReq' = cancelReq \ {t}
    /\ UNCHANGED <<status, taskSeq, started, hookVars, phase, loopVars, rounds, errVars, histVars>>

\* The task waits for something only another task can provide.
Block(t) ==
    /\ Acts(t)
    /\ t \notin cancelReq
    /\ status' = [status EXCEPT ![t] = "blocked"]
    /\ UNCHANGED <<taskSeq, started, cancelReq, hookVars, phase, loopVars, rounds, errVars, histVars>>

Wake(t, u) ==
    /\ Acts(t)
    /\ u \in Pending \ Live
    /\ status' = [status EXCEPT ![u] = "live"]
    /\ UNCHANGED <<taskSeq, started, cancelReq, hookVars, phase, loopVars, rounds, errVars, histVars>>

\* create_task, or World.start if s.
Spawn(t, s) ==
    /\ Acts(t)
    /\ taskSeq < MaxTasks
    /\ status' = [status EXCEPT ![taskSeq] = "live"]
    /\ started' = IF s THEN started \cup {taskSeq} ELSE started
    /\ taskSeq' = taskSeq + 1
    /\ UNCHANGED <<cancelReq, hookVars, phase, loopVars, rounds, errVars, histVars>>

\* User code cancels the scenario.
CancelMain(t) ==
    /\ Acts(t)
    /\ Main \in Pending \ cancelReq
    /\ CancelTasks({Main})
    /\ UNCHANGED <<taskSeq, started, hookVars, phase, loopVars, rounds, errVars, histVars>>

\* World.always: the hook is installed once, and not during teardown.
Always(t) ==
    /\ Acts(t)
    /\ ~tearingDown
    /\ invariants < MaxInvariants
    /\ invariants' = invariants + 1
    /\ hookIn' = (hookIn \/ ~installed)
    /\ installed' = TRUE
    /\ UNCHANGED <<taskVars, tearingDown, phase, loopVars, rounds, errVars, histVars>>

\* User code calls loop.stop().
StopLoop(t) ==
    /\ Acts(t)
    /\ stopping' = TRUE
    /\ UNCHANGED <<taskVars, hookVars, phase, pc, stopIn, stepsLeft, awaited, rounds, errVars, histVars>>

TaskOp ==
    \E t \in Live :
       \/ Return(t) \/ Fail(t) \/ EndCancelled(t) \/ Swallow(t) \/ Block(t)
       \/ \E u \in Pending : Wake(t, u)
       \/ \E s \in BOOLEAN : Spawn(t, s)
       \/ CancelMain(t) \/ Always(t) \/ StopLoop(t)

-----------------------------------------------------------------------------
(* The end of a pass of the loop.                                          *)

\* Mutant of EnterTeardown: checks added while settling stay in place.
MutKeepChecks ==
    /\ phase' = "teardown"
    /\ pc' = "round"
    /\ UNCHANGED hookIn
    /\ tearingDown' = TRUE
    /\ stopIn' = None
    /\ awaited' = {}
    /\ rounds' = Rounds

\* Before the result: the teardown, which a failure enters without checks.
EnterTeardown ==
    /\ phase' = "teardown"
    /\ pc' = "round"
    /\ hookIn' = (hookIn /\ failure' = None)
    /\ tearingDown' = TRUE
    /\ stopIn' = None
    /\ awaited' = {}
    /\ rounds' = Rounds

\* Mutant of FailRun: the scenario is not settled on its own first.
MutNoSettling(e, st) ==
    /\ Absorb(e)
    /\ stepsLeft' = TeardownSteps
    /\ EnterTeardown
    /\ status' = st
    /\ UNCHANGED cancelReq

\* The run ended with error e: the limit is replaced, the hooks are cleared,
\* and the scenario is settled before anything else is cancelled.
FailRun(e, st) ==
    /\ Absorb(e)
    /\ stepsLeft' = TeardownSteps
    /\ hookIn' = FALSE
    /\ pc' = "top"
    /\ awaited' = {Main}
    /\ IF st[Main] \in Done
          THEN /\ phase' = "onemore"
               /\ stopIn' = 1
               /\ status' = st
               /\ UNCHANGED cancelReq
          ELSE /\ phase' = "settle"
               /\ stopIn' = None
               /\ status' = [st EXCEPT ![Main] = "live"]
               /\ cancelReq' = cancelReq \cup {Main}
    /\ UNCHANGED <<tearingDown, rounds>>

\* An error e leaves the loop while the tasks are as in st.
LeaveLoop(e, st) ==
    /\ stopping' = FALSE
    /\ Remember(e)
    /\ UNCHANGED <<taskSeq, started, invariants, installed>>
    /\ \/ phase = "run" /\ FailRun(e, st)
       \/ /\ phase \in {"settle", "onemore"}
          /\ Absorb(e)
          /\ IF e = Interruption
                THEN EnterTeardown
                ELSE /\ pc' = "unwound"
                     /\ UNCHANGED <<hookIn, tearingDown, phase, stopIn, awaited, rounds>>
          /\ status' = st
          /\ UNCHANGED <<cancelReq, stepsLeft>>
       \/ /\ phase = "teardown"
          /\ Absorb(e)
          /\ phase' = "closed"
          /\ pc' = "idle"
          /\ status' = st
          /\ UNCHANGED <<cancelReq, hookIn, tearingDown, stopIn, stepsLeft, awaited, rounds>>

\* An interrupt in a task ends the task too; one in a plain callback does not.
Interrupt(t, own) ==
    /\ Acts(t)
    /\ interrupts < MaxInterrupts
    /\ interrupts' = interrupts + 1
    /\ LeaveLoop(Interruption, IF own THEN [status EXCEPT ![t] = "failed"] ELSE status)

-----------------------------------------------------------------------------
(* The loop, step by step.                                                 *)

\* Mutant of BeginStep: teardown rounds have no step limit.
MutUnlimitedRounds ==
    /\ pc = "top"
    /\ phase \in {"run", "settle", "onemore", "teardown"}
    /\ stepsLeft > 0
    /\ stopIn # None \/ Live # {}
    /\ stepsLeft' = IF phase = "teardown" THEN stepsLeft ELSE stepsLeft - 1
    /\ pc' = "work"
    /\ UNCHANGED <<taskVars, hookVars, phase, stopIn, stopping, awaited, rounds, errVars, histVars>>

BeginStep ==
    /\ pc = "top"
    /\ phase \in {"run", "settle", "onemore", "teardown"}
    /\ stepsLeft > 0
    /\ stopIn # None \/ Live # {}
    /\ stepsLeft' = stepsLeft - 1
    /\ pc' = "work"
    /\ UNCHANGED <<taskVars, hookVars, phase, stopIn, stopping, awaited, rounds, errVars, histVars>>

\* The step limit: LivelockError in the run, TeardownError after it.
LimitReached ==
    /\ pc = "top"
    /\ stepsLeft = 0
    /\ LeaveLoop(<<IF phase = "run" THEN "livelock" ELSE "teardown", 0>>, status)
    /\ UNCHANGED interrupts

\* DeadlockError: no task can make progress.
Deadlock ==
    /\ pc = "top"
    /\ stepsLeft > 0
    /\ stopIn = None
    /\ Live = {}
    /\ LeaveLoop(<<"deadlock", 0>>, status)
    /\ UNCHANGED interrupts

\* An invariant is false after the step.
CheckFails ==
    /\ pc = "work"
    /\ hookIn
    /\ LeaveLoop(<<"invariant", 0>>, status)
    /\ UNCHANGED interrupts

NextStopIn ==
    IF stopIn # None THEN stopIn - 1
    ELSE IF AllDone(awaited) THEN 2 ELSE None

\* In the run, settle clears the hooks between the two stop steps; a stop()
\* of user code cuts the first of them short, and settle is called then.
ClearsHooks ==
    /\ phase = "run"
    /\ \/ stopIn = 2
       \/ stopIn = None /\ NextStopIn = 2 /\ stopping

EndStep ==
    /\ pc = "work"
    /\ hookIn' = (hookIn /\ ~ClearsHooks)
    /\ stopping' = FALSE
    /\ \/ /\ NextStopIn = 0 \/ (stopping /\ NextStopIn = None)
          /\ stopIn' = NextStopIn
          /\ pc' = "returned"
       \/ /\ NextStopIn # 0
          /\ ~(stopping /\ NextStopIn = None)
          /\ stopIn' = IF stopping /\ phase # "teardown" THEN 1 ELSE NextStopIn
          /\ pc' = IF stopping /\ phase = "teardown" /\ NextStopIn = 1
                      THEN "returned" ELSE "top"
    /\ UNCHANGED <<taskVars, invariants, installed, tearingDown, phase, stepsLeft, awaited, rounds, errVars, histVars>>

-----------------------------------------------------------------------------
(* _drive between the passes of the loop.                                  *)

\* Misuse: a running loop in this thread, or a scenario that is no coroutine.
Refuse ==
    /\ phase = "start"
    /\ phase' = "closed"
    /\ failure' = <<"usage", 0>>
    /\ ended' = failure'
    /\ UNCHANGED <<taskVars, hookVars, loopVars, rounds, notes, histVars>>

Start ==
    /\ phase = "start"
    /\ phase' = "run"
    /\ pc' = "top"
    /\ stepsLeft' = MaxSteps
    /\ status' = [status EXCEPT ![Main] = "live"]
    /\ taskSeq' = 1
    /\ awaited' = {Main}
    /\ UNCHANGED <<started, cancelReq, hookVars, stopIn, stopping, rounds, errVars, histVars>>

\* The loop was stopped before the scenario was done: a RuntimeError.
StoppedInRun ==
    /\ phase = "run"
    /\ pc = "returned"
    /\ status[Main] \notin Done
    /\ LeaveLoop(<<"stopped", 0>>, status)
    /\ UNCHANGED interrupts

\* Mutant of Result: the failures of started nodes are not looked at.
MutNodesIgnored ==
    IF status[Main] = "failed" THEN <<"task", Main>>
    ELSE IF status[Main] = "cancelled" THEN <<"cancelled", 0>>
    ELSE None

\* main_task.result(), then the started nodes in the order of their start.
Result ==
    IF status[Main] = "failed" THEN <<"task", Main>>
    ELSE IF status[Main] = "cancelled" THEN <<"cancelled", 0>>
    ELSE LET bad == {t \in started : status[t] = "failed"}
         IN  IF bad = {} THEN None
             ELSE <<"task", CHOOSE t \in bad : \A u \in bad : t <= u>>

RunReturns ==
    /\ phase = "run"
    /\ pc = "returned"
    /\ status[Main] \in Done
    /\ failure' = Result
    /\ ended' = Result
    /\ stepsLeft' = TeardownSteps
    /\ EnterTeardown
    /\ UNCHANGED <<taskVars, invariants, installed, stopping, notes, histVars>>

\* A stop() ends one pass, not the settling of the scenario.
SettleAgain ==
    /\ phase = "settle"
    /\ pc = "returned"
    /\ status[Main] \notin Done
    /\ pc' = "top"
    /\ stopIn' = None
    /\ UNCHANGED <<taskVars, hookVars, phase, stopping, stepsLeft, awaited, rounds, errVars, histVars>>

\* Settling is over, done or given up: an error of the unwinding is a note.
Settled ==
    /\ phase \in {"settle", "onemore"}
    /\ pc = "unwound" \/ (pc = "returned" /\ status[Main] \in Done)
    /\ IF phase = "settle" /\ status[Main] = "failed"
          THEN Absorb(<<"task", Main>>)
          ELSE UNCHANGED errVars
    /\ EnterTeardown
    /\ UNCHANGED <<taskVars, invariants, installed, stopping, stepsLeft, histVars>>

-----------------------------------------------------------------------------
(* _cancel_everything.                                                     *)

\* One round: every task that is still pending is cancelled and awaited.
BeginRound ==
    /\ phase = "teardown"
    /\ pc = "round"
    /\ rounds > 0
    /\ Pending # {}
    /\ CancelTasks(Pending)
    /\ awaited' = Pending
    /\ rounds' = rounds - 1
    /\ stepsLeft' = TeardownSteps
    /\ stopIn' = None
    /\ pc' = "top"
    /\ UNCHANGED <<taskSeq, started, hookVars, phase, stopping, errVars, histVars>>

\* run_until_complete returned; _run_until goes on until the round is done.
RoundPassEnds ==
    /\ phase = "teardown"
    /\ pc = "returned"
    /\ pc' = IF AllDone(awaited) THEN "round" ELSE "top"
    /\ stopIn' = None
    /\ UNCHANGED <<taskVars, hookVars, phase, stopping, stepsLeft, awaited, rounds, errVars, histVars>>

\* Mutant of Finished: one round is all there is.
MutOneRound ==
    /\ phase = "teardown"
    /\ pc = "round"
    /\ rounds > 0
    /\ Pending = {} \/ rounds < Rounds
    /\ phase' = "closed"
    /\ pc' = "idle"
    /\ UNCHANGED <<taskVars, hookVars, stopIn, stopping, stepsLeft, awaited, rounds, errVars, histVars>>

\* Nothing is pending: the loop is closed.
Finished ==
    /\ phase = "teardown"
    /\ pc = "round"
    /\ rounds > 0
    /\ Pending = {}
    /\ phase' = "closed"
    /\ pc' = "idle"
    /\ UNCHANGED <<taskVars, hookVars, stopIn, stopping, stepsLeft, awaited, rounds, errVars, histVars>>

\* Every round was used: TeardownError, whatever is left.
RoundsExhausted ==
    /\ phase = "teardown"
    /\ pc = "round"
    /\ rounds = 0
    /\ LeaveLoop(<<"teardown", 0>>, status)
    /\ UNCHANGED interrupts

DriveStep ==
    \/ Refuse \/ Start
    \/ BeginStep \/ LimitReached \/ Deadlock \/ CheckFails \/ EndStep
    \/ StoppedInRun \/ RunReturns \/ SettleAgain \/ Settled
    \/ BeginRound \/ RoundPassEnds \/ Finished \/ RoundsExhausted

\* The loop is closed; the run is over.
Closed == phase = "closed" /\ UNCHANGED vars

Init ==
    /\ status = [t \in Task |-> "none"]
    /\ taskSeq = 0
    /\ started = {}
    /\ cancelReq = {}
    /\ invariants = 0
    /\ hookIn = FALSE
    /\ installed = FALSE
    /\ tearingDown = FALSE
    /\ phase = "start"
    /\ pc = "idle"
    /\ stopIn = None
    /\ stopping = FALSE
    /\ stepsLeft = 0
    /\ awaited = {}
    /\ rounds = 0
    /\ failure = None
    /\ notes = {}
    /\ first = None
    /\ ended = None
    /\ interrupts = 0

Next ==
    \/ TaskOp
    \/ \E t \in Live, own \in BOOLEAN : Interrupt(t, own)
    \/ DriveStep
    \/ Closed

Spec == Init /\ [][Next]_vars

\* The thread that drives the run keeps running.
FairSpec == Spec /\ WF_vars(DriveStep)

-----------------------------------------------------------------------------
(* Properties.                                                             *)

TypeOK ==
    /\ status \in [Task -> {"none", "live", "blocked"} \cup Done]
    /\ taskSeq \in 0..MaxTasks
    /\ started \subseteq Exists
    /\ cancelReq \subseteq Exists
    /\ invariants \in 0..MaxInvariants
    /\ hookIn \in BOOLEAN /\ installed \in BOOLEAN /\ tearingDown \in BOOLEAN
    /\ phase \in {"start", "run", "settle", "onemore", "teardown", "closed"}
    /\ pc \in {"idle", "top", "work", "returned", "unwound", "round"}
    /\ stopIn \in {0, 1, 2, None}
    /\ stopping \in BOOLEAN
    /\ stepsLeft \in Nat
    /\ awaited \subseteq Exists
    /\ rounds \in 0..Rounds
    /\ failure \in Error \cup {None}
    /\ notes \subseteq Error
    /\ first \in Error \cup {None}
    /\ ended \in Error \cup {None}
    /\ interrupts \in 0..MaxInterrupts

Reported == {failure} \cup notes

\* The error that ended the run is never lost: it is what the run raises, or
\* a note on the interrupt that took its place, whatever settling and
\* teardown raise later (_secondary and the except clauses of _drive).  Only a
\* second interrupt loses it: it notes the first one and not the notes of that.
FailureSurvives ==
    phase = "closed" /\ ended # None =>
       failure = ended \/ (failure = Interruption /\ (ended \in notes \/ interrupts > 1))

\* An interrupt always reaches the caller: no error of the scenario, a check,
\* settling or teardown takes its place.
InterruptPropagates == phase = "closed" /\ interrupts > 0 => failure = Interruption

\* No task is abandoned in silence: if one is still pending when the loop is
\* closed, the run reports a teardown that was cut short.
NothingAbandonedSilently ==
    phase = "closed" /\ Pending # {} =>
       Reported \cap {<<"teardown", 0>>, <<"deadlock", 0>>, <<"invariant", 0>>, Interruption} # {}

\* A run without error is a run that went well: the scenario returned, no
\* started node had failed when it did, and every task is done.
SuccessIsEarned ==
    /\ phase = "closed" /\ failure = None => status[Main] = "returned" /\ Pending = {}
    /\ phase = "teardown" /\ failure = None /\ rounds = Rounds =>
          \A t \in started : status[t] # "failed"

\* The scenario unwinds before any other task is cancelled, unless settling
\* it failed.
ScenarioUnwindsFirst ==
    [][\A t \in Task \ {Main} :
          t \in cancelReq' \ cancelReq =>
             status[Main] \in Done \/ notes # {} \/ failure = Interruption]_vars

\* No check can fail during teardown once a failure is in flight.
NoChecksAfterFailure == phase = "teardown" /\ failure # None => ~hookIn

\* Every run ends with the loop closed: tasks that ignore cancellation, that
\* start new tasks for ever or that stop the loop cannot keep it going.
RunEnds == <>(phase = "closed")

-----------------------------------------------------------------------------
(* What the documents say and the code does not do.                        *)

\* "A scenario or node error followed by a different error while the run
\* winds down (a check that fires in the last steps ...): the first error is
\* reported and the later one is a note."
FirstErrorReported ==
    phase = "closed" /\ first = <<"task", Main>> => first \in Reported
=============================================================================
