------------------------------ MODULE DetLoop ------------------------------
(***************************************************************************)
(* The deterministic event loop of src/src/seedloop/_loop.py: a ready      *)
(* queue, a heap of timers with lazily deleted entries, a virtual clock    *)
(* that moves only when nothing is ready, and the step-driven stop of      *)
(* run_until_done.                                                         *)
(*                                                                         *)
(* One iteration of run_forever is the cycle                               *)
(*   top -> (purge ->) fire -> batch -> hooks -> top                       *)
(* of program-counter values.  User code (callbacks, tasks, after-step     *)
(* checks) appears only through the loop operations it may call while it   *)
(* has control.                                                            *)
(***************************************************************************)
EXTENDS Naturals, Sequences, FiniteSets

CONSTANTS
    Callback,   \* the callbacks user code schedules with call_soon
    MaxTime,    \* bound: the latest finite deadline
    MaxTimers,  \* bound: how many timers a behaviour creates
    MaxSteps,   \* bound: the largest argument of limit_steps
    None        \* Python's None

ASSUME BoundsAssumption == MaxTime \in Nat /\ MaxTimers \in Nat /\ MaxSteps \in Nat

Inf == MaxTime + 1        \* math.inf: later than every finite deadline

\* A TimerHandle is known by its heap key (when, seq).
Timer == [when : 0..Inf, seq : 0..MaxTimers]

Handle == Callback \cup Timer

ASSUME NoneAssumption ==
    /\ None \notin Nat
    /\ None \notin Callback
    /\ None \notin Timer
    /\ None \notin {"until_done", "one_more", "forever",
                    "limit", "deadlock", "raised", "returned"}
    /\ \A c \in Callback : c \notin Timer

VARIABLES
    now,        \* _sl_time
    timers,     \* _sl_timers: the heap, tombstones included
    timerSeq,   \* _sl_timer_seq
    cancelled,  \* handles whose cancel() was called
    ready,      \* BaseEventLoop._ready
    batch,      \* iterations left of the loop over range(len(ready))
    running,    \* the handle whose callback has control, or None
    stopping,   \* BaseEventLoop._stopping
    hooks,      \* whether _sl_after_step_hooks is non-empty
    stepsLeft,  \* _sl_steps_left
    done,       \* the watched future is done
    drive,      \* the entry point that is active, or None
    stopIn,     \* _sl_stop_in
    settle,     \* _sl_settle is not None
    pc,         \* where run_forever is
    exit,       \* how the last drive ended
    after,      \* history: steps this drive began with the future done
    settled,    \* history: how often this drive called settle
    userStop    \* history: user code called stop() for this drive

queueVars == <<timers, timerSeq, cancelled, ready>>
driveVars == <<drive, stopIn, settle, exit>>
histVars  == <<after, settled, userStop>>
vars == <<now, queueVars, batch, running, stopping, hooks, stepsLeft, done,
          driveVars, pc, histVars>>

\* _sl_watch is not None: run_until_done and run_one_more_step set it.
watching == drive \in {"until_done", "one_more"}

-----------------------------------------------------------------------------
(* The heap.                                                               *)

\* Mutant of Precedes: ties in the heap are broken by the youngest timer.
MutTiesLifo(t, u) == t.when < u.when \/ (t.when = u.when /\ t.seq >= u.seq)

\* The order of heap entries: by deadline, ties by creation index.
Precedes(t, u) == t.when < u.when \/ (t.when = u.when /\ t.seq <= u.seq)

\* t is _sl_timers[0].
IsHead(t) == t \in timers /\ \A u \in timers : Precedes(t, u)

Queued == {ready[i] : i \in 1..Len(ready)}

-----------------------------------------------------------------------------
(* What user code can do while it has control.                             *)

UserHasControl == running # None \/ pc = "hooks"

\* call_soon, and through it every task step and every future's callback.
\* The handle is new, so an earlier cancellation does not concern it.
CallSoon(c) ==
    /\ UserHasControl \/ pc = "idle"
    /\ c \notin Queued
    /\ ready' = Append(ready, c)
    /\ cancelled' = cancelled \ {c}
    /\ UNCHANGED <<now, timers, timerSeq, batch, running, stopping, hooks,
                   stepsLeft, done, driveVars, pc, histVars>>

\* call_at: push (when, seq, handle).  The deadline may be past or infinite.
CallAt(w) ==
    /\ UserHasControl
    /\ timerSeq < MaxTimers
    /\ timers' = timers \cup {[when |-> w, seq |-> timerSeq]}
    /\ timerSeq' = timerSeq + 1
    /\ UNCHANGED <<now, cancelled, ready, batch, running, stopping, hooks,
                   stepsLeft, done, driveVars, pc, histVars>>

\* Handle.cancel: _timer_handle_cancelled keeps the entry as a tombstone.
Cancel(h) ==
    /\ UserHasControl
    /\ h \in timers \cup Queued
    /\ cancelled' = cancelled \cup {h}
    /\ UNCHANGED <<now, timers, timerSeq, ready, batch, running, stopping,
                   hooks, stepsLeft, done, driveVars, pc, histVars>>

\* The watched task returns, raises or is cancelled.
FinishWatched ==
    /\ UserHasControl
    /\ ~done
    /\ done' = TRUE
    /\ UNCHANGED <<now, queueVars, batch, running, stopping, hooks, stepsLeft,
                   driveVars, pc, histVars>>

\* loop.stop() by user code, also before the loop runs.
Stop ==
    /\ UserHasControl \/ pc = "idle"
    /\ stopping' = TRUE
    /\ userStop' = TRUE
    /\ UNCHANGED <<now, queueVars, batch, running, hooks, stepsLeft, done,
                   driveVars, pc, after, settled>>

\* World.always or World.run_until registers an after-step check.
AddHook ==
    /\ running # None
    /\ hooks' = TRUE
    /\ UNCHANGED <<now, queueVars, batch, running, stopping, stepsLeft, done,
                   driveVars, pc, histVars>>

UserOp ==
    \/ \E c \in Callback : CallSoon(c)
    \/ \E w \in 0..Inf : CallAt(w)
    \/ \E h \in timers \cup Queued : Cancel(h)
    \/ FinishWatched
    \/ Stop
    \/ AddHook

-----------------------------------------------------------------------------
(* Starting and ending a drive.                                            *)

LimitSteps(n) ==
    /\ pc = "idle"
    /\ stepsLeft' = n
    /\ UNCHANGED <<now, queueVars, batch, running, stopping, hooks, done,
                   driveVars, pc, histVars>>

StartDrive(d, n, s) ==
    /\ pc = "idle"
    /\ pc' = "top"
    /\ drive' = d
    /\ stopIn' = n
    /\ settle' = s
    /\ exit' = None
    /\ UNCHANGED <<now, queueVars, batch, running, stopping, hooks, stepsLeft,
                   done, histVars>>

RunUntilDone(s) == ~done /\ StartDrive("until_done", None, s)

RunOneMoreStep == done /\ StartDrive("one_more", 1, FALSE)

\* BaseEventLoop.run_until_complete, which teardown uses: nothing is watched.
RunForever == StartDrive("forever", None, FALSE)

\* What the finally clauses of run_forever and run_until_done undo.
EndDrive(how) ==
    /\ pc' = "idle"
    /\ exit' = how
    /\ stopping' = FALSE
    /\ drive' = None
    /\ stopIn' = None
    /\ settle' = FALSE
    /\ running' = None
    /\ batch' = 0
    /\ after' = 0
    /\ settled' = 0
    /\ userStop' = FALSE

-----------------------------------------------------------------------------
(* One step: _run_once.                                                    *)

\* The step limit is reached: _sl_step_error is raised instead of a step.
RefuseStep ==
    /\ pc = "top"
    /\ stepsLeft = 0
    /\ EndDrive("limit")
    /\ UNCHANGED <<now, queueVars, hooks, stepsLeft, done>>

\* Mutant of BeginStep: the stop steps autojump like any other step.
MutStopStepsJump ==
    /\ pc = "top"
    /\ stepsLeft # 0
    /\ stepsLeft' = IF stepsLeft = None THEN None ELSE stepsLeft - 1
    /\ pc' = IF ready = <<>> THEN "purge" ELSE "fire"
    /\ after' = IF watching /\ done THEN after + 1 ELSE after
    /\ UNCHANGED <<now, queueVars, batch, running, stopping, hooks, done,
                   driveVars, settled, userStop>>

\* Mutant of BeginStep: a step that finds work ready is not counted.
MutIdleStepsUncounted ==
    /\ pc = "top"
    /\ stepsLeft # 0
    /\ stepsLeft' = IF stepsLeft = None \/ ready # <<>> THEN stepsLeft ELSE stepsLeft - 1
    /\ pc' = IF ready = <<>> /\ stopIn = None THEN "purge" ELSE "fire"
    /\ after' = IF watching /\ done THEN after + 1 ELSE after
    /\ UNCHANGED <<now, queueVars, batch, running, stopping, hooks, done,
                   driveVars, settled, userStop>>

BeginStep ==
    /\ pc = "top"
    /\ stepsLeft # 0
    /\ stepsLeft' = IF stepsLeft = None THEN None ELSE stepsLeft - 1
    /\ pc' = IF ready = <<>> /\ stopIn = None THEN "purge" ELSE "fire"
    /\ after' = IF watching /\ done THEN after + 1 ELSE after
    /\ UNCHANGED <<now, queueVars, batch, running, stopping, hooks, done,
                   driveVars, settled, userStop>>

\* _purge_cancelled_timers, one tombstone at a time.
PurgeCancelledTimer ==
    /\ pc = "purge"
    /\ \E t \in cancelled : IsHead(t) /\ timers' = timers \ {t}
    /\ UNCHANGED <<now, timerSeq, cancelled, ready, batch, running, stopping,
                   hooks, stepsLeft, done, driveVars, pc, histVars>>

\* Mutant of Autojump: the head of the heap is taken without a purge.
MutJumpToTombstone ==
    /\ pc = "purge"
    /\ \E t \in timers :
          /\ IsHead(t)
          /\ t.when # Inf
          /\ now' = IF now < t.when THEN t.when ELSE now
    /\ pc' = "fire"
    /\ UNCHANGED <<queueVars, batch, running, stopping, hooks, stepsLeft, done,
                   driveVars, histVars>>

\* Jump forward only, and never to a timer at infinity.
Autojump ==
    /\ pc = "purge"
    /\ \E t \in timers \ cancelled :
          /\ IsHead(t)
          /\ t.when # Inf
          /\ now' = IF now < t.when THEN t.when ELSE now
    /\ pc' = "fire"
    /\ UNCHANGED <<queueVars, batch, running, stopping, hooks, stepsLeft, done,
                   driveVars, histVars>>

\* Mutant of NothingToWaitFor: the verdict looks at one unpurged head only.
MutTombstoneIsNoWork ==
    \/ timers = {}
    \/ \E t \in timers : IsHead(t) /\ (t.when = Inf \/ t \in cancelled)

\* The heap is empty or its head is a live timer that never fires.
NothingToWaitFor ==
    \/ timers = {}
    \/ \E t \in timers \ cancelled : IsHead(t) /\ t.when = Inf

\* DeadlockError: every task is blocked and no timer will wake one.
Deadlock ==
    /\ pc = "purge"
    /\ NothingToWaitFor
    /\ ~stopping
    /\ EndDrive("deadlock")
    /\ UNCHANGED <<now, queueVars, hooks, stepsLeft, done>>

\* A stop() called before the loop ran: the empty step still takes place.
StepWithoutWork ==
    /\ pc = "purge"
    /\ NothingToWaitFor
    /\ stopping
    /\ pc' = "fire"
    /\ UNCHANGED <<now, queueVars, batch, running, stopping, hooks, stepsLeft,
                   done, driveVars, histVars>>

\* _fire_due_timers, one heap entry at a time.
FireDueTimer ==
    /\ pc = "fire"
    /\ \E t \in timers :
          /\ IsHead(t)
          /\ t.when <= now
          /\ timers' = timers \ {t}
          /\ ready' = IF t \in cancelled THEN ready ELSE Append(ready, t)
    /\ UNCHANGED <<now, timerSeq, cancelled, batch, running, stopping, hooks,
                   stepsLeft, done, driveVars, pc, histVars>>

\* The batch is what is ready now: what it schedules waits for the next step.
BeginBatch ==
    /\ pc = "fire"
    /\ \A t \in timers : t.when > now
    /\ batch' = Len(ready)
    /\ pc' = "batch"
    /\ UNCHANGED <<now, queueVars, running, stopping, hooks, stepsLeft, done,
                   driveVars, histVars>>

\* Mutant of PopHandle: a handle cancelled after it became ready still runs.
MutRunsCancelled ==
    /\ pc = "batch"
    /\ running = None
    /\ batch > 0
    /\ batch' = batch - 1
    /\ ready' = Tail(ready)
    /\ running' = Head(ready)
    /\ UNCHANGED <<now, timers, timerSeq, cancelled, stopping, hooks,
                   stepsLeft, done, driveVars, pc, histVars>>

\* Mutant of PopHandle: pop instead of popleft, the youngest handle first.
MutPopsYoungest ==
    /\ pc = "batch"
    /\ running = None
    /\ batch > 0
    /\ batch' = batch - 1
    /\ ready' = SubSeq(ready, 1, Len(ready) - 1)
    /\ running' = LET h == ready[Len(ready)] IN IF h \in cancelled THEN None ELSE h
    /\ UNCHANGED <<now, timers, timerSeq, cancelled, stopping, hooks,
                   stepsLeft, done, driveVars, pc, histVars>>

\* popleft; a cancelled handle is dropped, any other one is run.
PopHandle ==
    /\ pc = "batch"
    /\ running = None
    /\ batch > 0
    /\ batch' = batch - 1
    /\ ready' = Tail(ready)
    /\ running' = IF Head(ready) \in cancelled THEN None ELSE Head(ready)
    /\ UNCHANGED <<now, timers, timerSeq, cancelled, stopping, hooks,
                   stepsLeft, done, driveVars, pc, histVars>>

\* Mutant of HandleReturns: the batch loop reads len(ready) again each time.
MutBatchGrows ==
    /\ running # None
    /\ running' = None
    /\ batch' = Len(ready)
    /\ UNCHANGED <<now, queueVars, stopping, hooks, stepsLeft, done,
                   driveVars, pc, histVars>>

\* The callback returns; an Exception of it went to the exception handler.
HandleReturns ==
    /\ running # None
    /\ running' = None
    /\ UNCHANGED <<now, queueVars, batch, stopping, hooks, stepsLeft, done,
                   driveVars, pc, histVars>>

\* A BaseException (an interrupt) leaves the callback and the whole drive.
HandleInterrupts ==
    /\ running # None
    /\ EndDrive("raised")
    /\ UNCHANGED <<now, queueVars, hooks, stepsLeft, done>>

EndBatch ==
    /\ pc = "batch"
    /\ running = None
    /\ batch = 0
    /\ pc' = "hooks"
    /\ UNCHANGED <<now, queueVars, batch, running, stopping, hooks, stepsLeft,
                   done, driveVars, histVars>>

\* An after-step check fails hard: the error is raised from the step.
HooksRaise ==
    /\ pc = "hooks"
    /\ hooks
    /\ EndDrive("raised")
    /\ UNCHANGED <<now, queueVars, hooks, stepsLeft, done>>

\* Mutant of NextStopIn: the loop stops where asyncio would, a step early.
MutOneStopStep ==
    IF ~watching THEN stopIn
    ELSE IF stopIn = None THEN (IF done THEN 1 ELSE None)
    ELSE stopIn - 1

\* The countdown to the stop: two steps once the watched future is done.
NextStopIn ==
    IF ~watching THEN stopIn
    ELSE IF stopIn = None THEN (IF done THEN 2 ELSE None)
    ELSE stopIn - 1

\* settle clears the after-step hooks between the two stop steps.
Settles(n) == watching /\ stopIn # None /\ n = 1 /\ settle

\* The rest of the step, and the test of _stopping in run_forever.
EndStep ==
    /\ pc = "hooks"
    /\ stopIn' = NextStopIn
    /\ hooks' = IF Settles(stopIn') THEN FALSE ELSE hooks
    /\ settled' = IF Settles(stopIn') THEN settled + 1 ELSE settled
    /\ pc' = IF stopping \/ (watching /\ stopIn' = 0) THEN "returned" ELSE "top"
    /\ stopping' = FALSE
    /\ UNCHANGED <<now, queueVars, batch, running, stepsLeft, done, drive,
                   settle, exit, after, userStop>>

\* A stop() of user code cut the stop steps short.
StoppedEarly == watching /\ done /\ stopIn \in {1, 2}

\* run_until_done after a run_forever that user code ended: one more step.
ResumeDrive ==
    /\ pc = "returned"
    /\ StoppedEarly
    /\ hooks' = IF stopIn = 2 /\ settle THEN FALSE ELSE hooks
    /\ settled' = IF stopIn = 2 /\ settle THEN settled + 1 ELSE settled
    /\ stopIn' = 1
    /\ pc' = "top"
    /\ UNCHANGED <<now, queueVars, batch, running, stopping, stepsLeft, done,
                   drive, settle, exit, after, userStop>>

DriveReturns ==
    /\ pc = "returned"
    /\ ~StoppedEarly
    /\ EndDrive("returned")
    /\ UNCHANGED <<now, queueVars, hooks, stepsLeft, done>>

LoopStep ==
    \/ RefuseStep \/ BeginStep
    \/ PurgeCancelledTimer \/ Autojump \/ Deadlock \/ StepWithoutWork
    \/ FireDueTimer \/ BeginBatch
    \/ PopHandle \/ HandleReturns \/ HandleInterrupts \/ EndBatch
    \/ HooksRaise \/ EndStep
    \/ ResumeDrive \/ DriveReturns

StartOp ==
    \/ \E n \in 0..MaxSteps \cup {None} : LimitSteps(n)
    \/ \E s \in BOOLEAN : RunUntilDone(s)
    \/ RunOneMoreStep
    \/ RunForever

Init ==
    /\ now = 0
    /\ timers = {}
    /\ timerSeq = 0
    /\ cancelled = {}
    /\ ready = <<>>
    /\ batch = 0
    /\ running = None
    /\ stopping = FALSE
    /\ hooks = FALSE
    /\ stepsLeft = None
    /\ done = FALSE
    /\ drive = None
    /\ stopIn = None
    /\ settle = FALSE
    /\ pc = "idle"
    /\ exit = None
    /\ after = 0
    /\ settled = 0
    /\ userStop = FALSE

Next == UserOp \/ StartOp \/ LoopStep

Spec == Init /\ [][Next]_vars

\* The loop is one thread that keeps running, and user code is cooperative:
\* a callback that has control gives it back.
FairSpec == Spec /\ WF_vars(LoopStep)

-----------------------------------------------------------------------------
(* Properties.                                                             *)

TypeOK ==
    /\ now \in 0..MaxTime
    /\ timers \subseteq Timer
    /\ timerSeq \in 0..MaxTimers
    /\ cancelled \subseteq Handle
    /\ ready \in Seq(Handle)
    /\ batch \in Nat
    /\ running \in Handle \cup {None}
    /\ stopping \in BOOLEAN
    /\ hooks \in BOOLEAN
    /\ stepsLeft \in 0..MaxSteps \cup {None}
    /\ done \in BOOLEAN
    /\ drive \in {"until_done", "one_more", "forever", None}
    /\ stopIn \in {0, 1, 2, None}
    /\ settle \in BOOLEAN
    /\ pc \in {"idle", "top", "purge", "fire", "batch", "hooks", "returned"}
    /\ exit \in {None, "limit", "deadlock", "raised", "returned"}
    /\ after \in Nat
    /\ settled \in Nat
    /\ userStop \in BOOLEAN

\* Timer t is ahead of timer u although u was created first and is due no
\* later than t.
Overtakes(t, u) == t.seq > u.seq /\ t.when >= u.when

\* Timers reach the ready queue, and run, in deadline order with ties in
\* creation order, never before they are due: neither tombstones nor
\* deadlines in the past nor later steps let one overtake another
\* (the (when, seq) key of _sl_timers and _fire_due_timers).
FiringOrder ==
    /\ \A i, j \in 1..Len(ready) :
          i < j /\ {ready[i], ready[j]} \subseteq Timer
             => ~Overtakes(ready[i], ready[j])
    /\ \A t \in (Queued \cup {running}) \cap Timer :
          t.when <= now /\ \A u \in timers : ~Overtakes(t, u)
    /\ running \in Timer =>
          \A u \in Queued \cap Timer : ~Overtakes(running, u)

\* The clock moves only when nothing is ready, only forward, and only to the
\* deadline of a timer that is still wanted, passing no such timer: a
\* cancelled timer never costs virtual time (the autojump of _run_once).
ClockMovesToNextLiveTimer ==
    [][now' # now =>
          /\ now' > now
          /\ ready = <<>>
          /\ \E t \in timers \ cancelled : t.when = now'
          /\ \A t \in timers \ cancelled : t.when >= now']_vars

\* Once the watched task is done the clock stands still until the drive ends
\* ("the two stop steps never autojump"), however user code stops the loop.
ClockStaysOnceDone == [][watching /\ done => now' = now]_vars

\* DeadlockError is raised only if nothing could ever run again: no handle is
\* ready, every timer that is still wanted is at infinity, and the watched
\* task is not done.
DeadlockIsReal ==
    [][pc # "idle" /\ exit' = "deadlock" =>
          /\ ready = <<>>
          /\ \A t \in timers \ cancelled : t.when = Inf
          /\ ~(watching /\ done)]_vars

\* A run_until_done whose future is done returns after exactly two more steps
\* (one or two if user code called stop()), and settle was called once.
TwoStopSteps ==
    [][drive = "until_done" /\ done /\ exit' = "returned" =>
          /\ after \in 1..2
          /\ ~userStop => after = 2
          /\ settled = (IF settle THEN 1 ELSE 0)]_vars

\* A step ends even if its callbacks reschedule themselves for ever, so the
\* after-step checks and the step limit are always reached (the len() bound).
StepEnds == (pc = "batch") ~> (pc # "batch")

\* h is waiting for its turn in a drive.
Waits(h) == pc # "idle" /\ (h \in Queued \/ (h \in timers /\ h.when <= now))

\* No handle that is ready or due starves: it runs, or the drive ends.
NoStarvation == \A h \in Handle : Waits(h) ~> ~Waits(h)

\* A drive with a step limit ends, whatever its callbacks do.
LimitEndsDrive == (stepsLeft # None /\ pc # "idle") ~> (pc = "idle")
=============================================================================
