--------------------------- MODULE DetLoopProofs ---------------------------
(* Proofs of the safety properties of DetLoop and of its refinement of     *)
(* VirtualTime, for every value of the constants.                          *)
EXTENDS DetLoopImpl, WellFoundedInduction, TLAPS

\* Where the loop is decides who has control and what is left of a batch.
Control ==
    /\ running # None => pc = "batch"
    /\ batch <= Len(ready)
    /\ pc = "purge" => ready = <<>> /\ stopIn = None
    /\ pc # "idle" => exit = None
    /\ pc = "idle" => drive = None /\ after = 0 /\ settled = 0
    /\ stopping => userStop

\* The countdown: what stopIn says about the watched future and the position
\* in the drive.
Countdown ==
    /\ stopIn # None => watching
    /\ stopIn = 0 => pc = "returned"
    /\ pc \in {"top", "purge", "returned"} /\ watching /\ done => stopIn # None
    /\ stopIn # None => done
    /\ pc = "returned" /\ stopIn \in {1, 2} => userStop

\* How many steps a run_until_done has taken since its future was done, and
\* whether it has called settle.
StopCount ==
    drive = "until_done" =>
       LET begun == IF pc \in {"fire", "batch", "hooks"} THEN 1 ELSE 0
       IN  /\ stopIn = None => after = 0 /\ settled = 0
           /\ stopIn = 2 => after = begun /\ settled = 0
           /\ stopIn = 1 =>
                 /\ after = begun + 1 \/ (userStop /\ after = begun)
                 /\ settled = (IF settle THEN 1 ELSE 0)
           /\ stopIn = 0 =>
                 /\ after = 2 \/ (userStop /\ after = 1)
                 /\ settled = (IF settle THEN 1 ELSE 0)

\* Every timer there is was created before the next one.
CreatedBefore ==
    /\ \A t \in timers : t.seq < timerSeq
    /\ \A t \in (Queued \cup {running}) \cap Timer : t.seq < timerSeq

\* A handle is in one place: once in the ready queue, or in the heap.
Once ==
    /\ \A i, j \in 1..Len(ready) : ready[i] = ready[j] => i = j
    /\ Queued \cap timers = {}

IInv ==
    TypeOK /\ Control /\ Countdown /\ StopCount /\ CreatedBefore /\ FiringOrder /\ Once

-----------------------------------------------------------------------------
(* The steps of Next in groups, by what they can disturb.                  *)

\* Every way a drive ends.
Ends ==
    RefuseStep \/ Deadlock \/ HandleInterrupts \/ HooksRaise \/ DriveReturns

\* The moves of the program counter that leave the queues alone.
Moves == StepWithoutWork \/ BeginBatch \/ HandleReturns \/ EndBatch

\* Every step is of one of these groups.
LEMMA Cases ==
    ASSUME [Next]_vars
    PROVE  \/ UserOp \/ StartOp \/ Ends \/ Moves \/ BeginStep
           \/ PurgeCancelledTimer \/ Autojump \/ FireDueTimer \/ PopHandle
           \/ EndStep \/ ResumeDrive \/ UNCHANGED vars
BY DEF Next, LoopStep, Ends, Moves

\* The type invariant is kept by every step.
LEMMA TypeStep ==
    ASSUME TypeOK, Control, Countdown, [Next]_vars
    PROVE  TypeOK'
<1> USE BoundsAssumption, NoneAssumption
        DEF TypeOK, queueVars, driveVars, histVars
<1>1. CASE UserOp
  <2>1. CASE \E c \in Callback : CallSoon(c)
    BY <2>1 DEF CallSoon, Handle
  <2>2. CASE \E w \in 0..Inf : CallAt(w)
    BY <2>2 DEF CallAt, Timer
  <2>3. CASE \E h \in timers \cup Queued : Cancel(h)
    BY <2>3 DEF Cancel, Queued, Handle
  <2>4. CASE FinishWatched
    BY <2>4 DEF FinishWatched
  <2>5. CASE Stop
    BY <2>5 DEF Stop
  <2>6. CASE AddHook
    BY <2>6 DEF AddHook
  <2>7. QED
    BY <1>1, <2>1, <2>2, <2>3, <2>4, <2>5, <2>6 DEF UserOp
<1>2. CASE StartOp
  <2>1. CASE \E n \in 0..MaxSteps \cup {None} : LimitSteps(n)
    BY <2>1 DEF LimitSteps
  <2>2. CASE \E s \in BOOLEAN : RunUntilDone(s)
    BY <2>2 DEF RunUntilDone, StartDrive
  <2>3. CASE RunOneMoreStep
    BY <2>3 DEF RunOneMoreStep, StartDrive
  <2>4. CASE RunForever
    BY <2>4 DEF RunForever, StartDrive
  <2>5. QED
    BY <1>2, <2>1, <2>2, <2>3, <2>4 DEF StartOp
<1>3. CASE Ends
  <2>1. PICK how \in {"limit", "deadlock", "raised", "returned"} : EndDrive(how)
    BY <1>3 DEF Ends, RefuseStep, Deadlock, HandleInterrupts, HooksRaise, DriveReturns
  <2>2. UNCHANGED <<now, queueVars, hooks, stepsLeft, done>>
    BY <1>3 DEF Ends, RefuseStep, Deadlock, HandleInterrupts, HooksRaise, DriveReturns
  <2>3. QED
    BY <2>1, <2>2 DEF EndDrive
<1>4. CASE Moves
  BY <1>4 DEF Moves, StepWithoutWork, BeginBatch, HandleReturns, EndBatch
<1>5. CASE BeginStep
  BY <1>5 DEF BeginStep
<1>6. CASE PurgeCancelledTimer
  BY <1>6 DEF PurgeCancelledTimer
<1>7. CASE Autojump
  <2>1. now' \in 0..MaxTime
    BY <1>7 DEF Autojump, Timer, Inf
  <2>2. QED
    BY <1>7, <2>1 DEF Autojump
<1>8. CASE FireDueTimer
  <2>1. timers' \subseteq Timer /\ ready' \in Seq(Handle)
    BY <1>8 DEF FireDueTimer, Handle
  <2>2. QED
    BY <1>8, <2>1 DEF FireDueTimer
<1>9. CASE PopHandle
  <2>1. ready # <<>>
    BY <1>9 DEF PopHandle, Control
  <2>2. ready' \in Seq(Handle) /\ running' \in Handle \cup {None} /\ batch' \in Nat
    BY <1>9, <2>1 DEF PopHandle
  <2>3. QED
    BY <1>9, <2>2 DEF PopHandle
<1>10. CASE EndStep
  <2>1. stopIn' \in {0, 1, 2, None}
    BY <1>10 DEF EndStep, NextStopIn, Countdown
  <2>2. hooks' \in BOOLEAN
    BY <1>10, Zenon DEF EndStep
  <2>3. settled' \in Nat
    BY <1>10 DEF EndStep
  <2>4. QED
    BY <1>10, <2>1, <2>2, <2>3 DEF EndStep
<1>11. CASE ResumeDrive
  <2>1. hooks' \in BOOLEAN
    BY <1>11, Zenon DEF ResumeDrive
  <2>2. settled' \in Nat
    BY <1>11 DEF ResumeDrive
  <2>3. QED
    BY <1>11, <2>1, <2>2 DEF ResumeDrive
<1>12. CASE UNCHANGED vars
  BY <1>12 DEF vars
<1>q. QED
  BY <1>1, <1>2, <1>3, <1>4, <1>5, <1>6, <1>7, <1>8, <1>9, <1>10, <1>11, <1>12, Cases

\* So is the relation between the program counter and the queues.
LEMMA ControlStep ==
    ASSUME TypeOK, Control, Countdown, [Next]_vars
    PROVE  Control'
<1> USE NoneAssumption
        DEF TypeOK, Control, Handle, UserHasControl, queueVars, driveVars, histVars
<1>1. CASE UserOp
  BY <1>1 DEF UserOp, CallSoon, CallAt, Cancel, FinishWatched, Stop, AddHook
<1>2. CASE StartOp
  BY <1>2 DEF StartOp, LimitSteps, RunUntilDone, RunOneMoreStep, RunForever, StartDrive
<1>3. CASE Ends
  BY <1>3 DEF Ends, RefuseStep, Deadlock, HandleInterrupts, HooksRaise, DriveReturns, EndDrive
<1>4. CASE Moves
  BY <1>4 DEF Moves, StepWithoutWork, BeginBatch, HandleReturns, EndBatch
<1>5. CASE BeginStep
  BY <1>5 DEF BeginStep
<1>6. CASE PurgeCancelledTimer
  BY <1>6 DEF PurgeCancelledTimer
<1>7. CASE Autojump
  BY <1>7 DEF Autojump
<1>8. CASE FireDueTimer
  BY <1>8 DEF FireDueTimer
<1>9. CASE PopHandle
  BY <1>9 DEF PopHandle
<1>10. CASE EndStep
  BY <1>10 DEF EndStep
<1>11. CASE ResumeDrive
  BY <1>11 DEF ResumeDrive
<1>12. CASE UNCHANGED vars
  BY <1>12 DEF vars
<1>q. QED
  BY <1>1, <1>2, <1>3, <1>4, <1>5, <1>6, <1>7, <1>8, <1>9, <1>10, <1>11, <1>12, Cases

\* The countdown agrees with the watched future and the program counter.
LEMMA CountdownStep ==
    ASSUME TypeOK, Control, Countdown, [Next]_vars
    PROVE  Countdown'
<1> USE NoneAssumption
        DEF TypeOK, Control, Countdown, watching, UserHasControl, queueVars, driveVars, histVars
<1>1. CASE UserOp
  BY <1>1 DEF UserOp, CallSoon, CallAt, Cancel, FinishWatched, Stop, AddHook
<1>2. CASE StartOp
  BY <1>2 DEF StartOp, LimitSteps, RunUntilDone, RunOneMoreStep, RunForever, StartDrive
<1>3. CASE Ends
  BY <1>3 DEF Ends, RefuseStep, Deadlock, HandleInterrupts, HooksRaise, DriveReturns, EndDrive
<1>4. CASE Moves
  BY <1>4 DEF Moves, StepWithoutWork, BeginBatch, HandleReturns, EndBatch
<1>5. CASE BeginStep
  BY <1>5 DEF BeginStep
<1>6. CASE PurgeCancelledTimer \/ Autojump \/ FireDueTimer \/ PopHandle
  BY <1>6 DEF PurgeCancelledTimer, Autojump, FireDueTimer, PopHandle
<1>7. CASE EndStep
  BY <1>7 DEF EndStep, NextStopIn
<1>8. CASE ResumeDrive
  BY <1>8 DEF ResumeDrive, StoppedEarly
<1>9. CASE UNCHANGED vars
  BY <1>9 DEF vars
<1>q. QED
  BY <1>1, <1>2, <1>3, <1>4, <1>5, <1>6, <1>7, <1>8, <1>9, Cases

\* The number of stop steps and of settle calls is kept as StopCount says.
LEMMA StopCountStep ==
    ASSUME TypeOK, Control, Countdown, StopCount, [Next]_vars
    PROVE  StopCount'
<1> USE NoneAssumption
        DEF TypeOK, Control, Countdown, StopCount, watching, UserHasControl,
            queueVars, driveVars, histVars
<1>1. CASE UserOp
  BY <1>1 DEF UserOp, CallSoon, CallAt, Cancel, FinishWatched, Stop, AddHook
<1>2. CASE StartOp
  BY <1>2 DEF StartOp, LimitSteps, RunUntilDone, RunOneMoreStep, RunForever, StartDrive
<1>3. CASE Ends
  BY <1>3 DEF Ends, RefuseStep, Deadlock, HandleInterrupts, HooksRaise, DriveReturns, EndDrive
<1>4. CASE Moves
  BY <1>4 DEF Moves, StepWithoutWork, BeginBatch, HandleReturns, EndBatch
<1>5. CASE BeginStep
  BY <1>5 DEF BeginStep
<1>6. CASE PurgeCancelledTimer \/ Autojump \/ FireDueTimer \/ PopHandle
  BY <1>6 DEF PurgeCancelledTimer, Autojump, FireDueTimer, PopHandle
<1>7. CASE EndStep
  BY <1>7 DEF EndStep, NextStopIn, Settles
<1>8. CASE ResumeDrive
  BY <1>8 DEF ResumeDrive, StoppedEarly
<1>9. CASE UNCHANGED vars
  BY <1>9 DEF vars
<1>q. QED
  BY <1>1, <1>2, <1>3, <1>4, <1>5, <1>6, <1>7, <1>8, <1>9, Cases

-----------------------------------------------------------------------------
(* The queue.                                                              *)

\* Timers keep indices below the counter.
LEMMA CreatedStep ==
    ASSUME TypeOK, Control, CreatedBefore, [Next]_vars
    PROVE  CreatedBefore'
<1> USE NoneAssumption DEF CreatedBefore, Queued
<1>1. CASE \E c \in Callback : CallSoon(c)
  <2>1. PICK c \in Callback : CallSoon(c)
    BY <1>1
  <2>2. /\ Len(ready') = Len(ready) + 1
        /\ \A i \in 1..Len(ready) : ready'[i] = ready[i]
        /\ ready'[Len(ready) + 1] = c
    BY <2>1 DEF CallSoon, TypeOK, Handle
  <2>3. c \notin Timer
    OBVIOUS
  <2>4. QED
    BY <2>1, <2>2, <2>3 DEF CallSoon, TypeOK
<1>2. CASE \E w \in 0..Inf : CallAt(w)
  BY <1>2 DEF CallAt, TypeOK, Timer
<1>3. CASE \/ \E h \in timers \cup Queued : Cancel(h)
           \/ FinishWatched \/ Stop \/ AddHook
           \/ StartOp \/ Moves \/ BeginStep \/ Autojump
           \/ EndStep \/ ResumeDrive \/ Ends \/ UNCHANGED vars
  <2>1. UNCHANGED <<timers, timerSeq, ready>> /\ running' \in {running, None}
    BY <1>3 DEF Cancel, FinishWatched, Stop, AddHook, StartOp, LimitSteps,
         RunUntilDone, RunOneMoreStep, RunForever, StartDrive, Moves,
         StepWithoutWork, BeginBatch, HandleReturns, EndBatch, BeginStep,
         Autojump, EndStep, ResumeDrive, Ends, RefuseStep, Deadlock,
         HandleInterrupts, HooksRaise, DriveReturns, EndDrive, vars,
         queueVars, driveVars, histVars
  <2>2. QED
    BY <2>1
<1>4. CASE PurgeCancelledTimer
  BY <1>4 DEF PurgeCancelledTimer
<1>5. CASE FireDueTimer
  <2>1. PICK t \in timers : /\ timers' = timers \ {t}
                            /\ ready' = ready \/ ready' = Append(ready, t)
    BY <1>5 DEF FireDueTimer
  <2>2. CASE ready' = ready
    BY <1>5, <2>1, <2>2 DEF FireDueTimer
  <2>3. CASE ready' = Append(ready, t)
    <3>1. /\ Len(ready') = Len(ready) + 1
          /\ \A i \in 1..Len(ready) : ready'[i] = ready[i]
          /\ ready'[Len(ready) + 1] = t
      BY <2>3 DEF TypeOK, Handle
    <3>2. QED
      BY <1>5, <2>1, <3>1 DEF FireDueTimer, TypeOK
  <2>4. QED
    BY <2>1, <2>2, <2>3
<1>6. CASE PopHandle
  <2>1. ready # <<>>
    BY <1>6 DEF PopHandle, Control, TypeOK
  <2>2. /\ Len(ready') = Len(ready) - 1
        /\ \A i \in 1..Len(ready') : ready'[i] = ready[i + 1]
        /\ running' \in {None, ready[1]}
    BY <1>6, <2>1 DEF PopHandle, TypeOK
  <2>3. QED
    BY <1>6, <2>1, <2>2 DEF PopHandle, TypeOK
<1>q. QED
  BY <1>1, <1>2, <1>3, <1>4, <1>5, <1>6, Cases DEF UserOp

\* No step lets a timer overtake another.
LEMMA FiringStep ==
    ASSUME TypeOK, Control, CreatedBefore, FiringOrder, [Next]_vars
    PROVE  FiringOrder'
<1> USE NoneAssumption DEF FiringOrder, Queued, Overtakes
<1>1. CASE \E c \in Callback : CallSoon(c)
  <2>1. PICK c \in Callback : CallSoon(c)
    BY <1>1
  <2>2. /\ Len(ready') = Len(ready) + 1
        /\ \A i \in 1..Len(ready) : ready'[i] = ready[i]
        /\ ready'[Len(ready) + 1] = c
    BY <2>1 DEF CallSoon, TypeOK, Handle
  <2>3. c \notin Timer
    OBVIOUS
  <2>4. UNCHANGED <<now, timers, running>>
    BY <2>1 DEF CallSoon
  <2>5. \A i, j \in 1..Len(ready') :
           i < j /\ {ready'[i], ready'[j]} \subseteq Timer
              => ~Overtakes(ready'[i], ready'[j])
    BY <2>2, <2>3 DEF TypeOK
  <2>6. Queued' \cap Timer \subseteq Queued
    BY <2>2, <2>3 DEF TypeOK
  <2>7. QED
    BY <2>4, <2>5, <2>6
<1>2. CASE \E w \in 0..Inf : CallAt(w)
  <2>1. PICK w \in 0..Inf : timers' = timers \cup {[when |-> w, seq |-> timerSeq]}
    BY <1>2 DEF CallAt
  <2>2. UNCHANGED <<now, ready, running>>
    BY <1>2 DEF CallAt
  <2>3. QED
    BY <2>1, <2>2 DEF CreatedBefore, TypeOK, Timer
<1>3. CASE \/ \E h \in timers \cup Queued : Cancel(h)
           \/ FinishWatched \/ Stop \/ AddHook
           \/ StartOp \/ Moves \/ BeginStep
           \/ EndStep \/ ResumeDrive \/ Ends \/ UNCHANGED vars
  <2>1. UNCHANGED <<now, timers, ready>> /\ running' \in {running, None}
    BY <1>3 DEF Cancel, FinishWatched, Stop, AddHook, StartOp, LimitSteps,
         RunUntilDone, RunOneMoreStep, RunForever, StartDrive, Moves,
         StepWithoutWork, BeginBatch, HandleReturns, EndBatch, BeginStep,
         EndStep, ResumeDrive, Ends, RefuseStep, Deadlock,
         HandleInterrupts, HooksRaise, DriveReturns, EndDrive, vars,
         queueVars, driveVars, histVars
  <2>2. QED
    BY <2>1
<1>4. CASE Autojump
  <2>1. UNCHANGED <<timers, ready, running>> /\ now' \in Nat /\ now <= now'
    BY <1>4 DEF Autojump, TypeOK, Timer, queueVars
  <2>2. QED
    BY <2>1 DEF TypeOK, Timer
<1>5. CASE PurgeCancelledTimer
  BY <1>5 DEF PurgeCancelledTimer
<1>6. CASE FireDueTimer
  <2>1. PICK t \in timers : /\ IsHead(t)
                            /\ t.when <= now
                            /\ timers' = timers \ {t}
                            /\ ready' = ready \/ ready' = Append(ready, t)
    BY <1>6 DEF FireDueTimer
  <2>2. UNCHANGED <<now, running>>
    BY <1>6 DEF FireDueTimer
  <2>3. CASE ready' = ready
    BY <2>1, <2>2, <2>3
  <2>4. CASE ready' = Append(ready, t)
    <3>1. /\ Len(ready') = Len(ready) + 1
          /\ \A i \in 1..Len(ready) : ready'[i] = ready[i]
          /\ ready'[Len(ready) + 1] = t
      BY <2>4 DEF TypeOK, Handle
    <3>2. \A u \in timers' : ~Overtakes(t, u)
      BY <2>1 DEF IsHead, Precedes, TypeOK, Timer
    <3>3. \A i, j \in 1..Len(ready') :
             i < j /\ {ready'[i], ready'[j]} \subseteq Timer
                => ~Overtakes(ready'[i], ready'[j])
      BY <2>1, <3>1 DEF TypeOK
    <3>4. \A v \in (Queued' \cup {running'}) \cap Timer :
             v.when <= now' /\ \A u \in timers' : ~Overtakes(v, u)
      BY <2>1, <2>2, <3>1, <3>2 DEF TypeOK
    <3>5. running' \in Timer =>
             \A u \in Queued' \cap Timer : ~Overtakes(running', u)
      BY <2>1, <2>2, <3>1 DEF TypeOK
    <3>6. QED
      BY <3>3, <3>4, <3>5
  <2>5. QED
    BY <2>1, <2>3, <2>4
<1>7. CASE PopHandle
  <2>1. ready # <<>>
    BY <1>7 DEF PopHandle, Control, TypeOK
  <2>2. /\ Len(ready') = Len(ready) - 1
        /\ \A i \in 1..Len(ready') : ready'[i] = ready[i + 1]
        /\ running' \in {None, ready[1]}
    BY <1>7, <2>1 DEF PopHandle, TypeOK
  <2>3. UNCHANGED <<now, timers>>
    BY <1>7 DEF PopHandle
  <2>4. Len(ready) \in Nat \ {0} /\ 1 \in 1..Len(ready)
    BY <2>1 DEF TypeOK
  <2>5. \A i \in 1..Len(ready') : i + 1 \in 1..Len(ready) /\ ready'[i] = ready[i + 1]
    BY <2>2, <2>4
  <2>6. \A i, j \in 1..Len(ready') :
           i < j /\ {ready'[i], ready'[j]} \subseteq Timer
              => ~Overtakes(ready'[i], ready'[j])
    <3> SUFFICES ASSUME NEW i \in 1..Len(ready'), NEW j \in 1..Len(ready'), i < j,
                        {ready[i + 1], ready[j + 1]} \subseteq Timer
                 PROVE  ~Overtakes(ready[i + 1], ready[j + 1])
      BY <2>5
    <3>1. i + 1 \in 1..Len(ready) /\ j + 1 \in 1..Len(ready) /\ i + 1 < j + 1
      BY <2>2, <2>4
    <3>2. QED
      BY <3>1
  <2>7. Queued' \subseteq Queued /\ running' \in Queued \cup {None}
    BY <2>2, <2>4, <2>5
  <2>8. running' \in Timer =>
           \A u \in Queued' \cap Timer : ~Overtakes(running', u)
    BY <2>2, <2>4, <2>5
  <2>9. QED
    BY <2>3, <2>6, <2>7, <2>8
<1>q. QED
  BY <1>1, <1>2, <1>3, <1>4, <1>5, <1>6, <1>7, Cases DEF UserOp

\* A handle moves from the heap to the queue, and leaves the queue for good.
LEMMA OnceStep ==
    ASSUME TypeOK, Control, CreatedBefore, Once, [Next]_vars
    PROVE  Once'
<1> USE NoneAssumption DEF Once, Queued
<1>1. CASE \E c \in Callback : CallSoon(c)
  <2>1. PICK c \in Callback : CallSoon(c)
    BY <1>1
  <2>2. /\ Len(ready') = Len(ready) + 1
        /\ \A i \in 1..Len(ready) : ready'[i] = ready[i]
        /\ ready'[Len(ready) + 1] = c
    BY <2>1 DEF CallSoon, TypeOK, Handle
  <2>3. c \notin Timer /\ c \notin Queued /\ timers' = timers
    BY <2>1 DEF CallSoon
  <2>4. QED
    BY <2>2, <2>3 DEF TypeOK
<1>2. CASE \E w \in 0..Inf : CallAt(w)
  <2>1. PICK w \in 0..Inf : timers' = timers \cup {[when |-> w, seq |-> timerSeq]}
    BY <1>2 DEF CallAt
  <2>2. [when |-> w, seq |-> timerSeq] \in Timer
    BY <1>2 DEF CallAt, TypeOK, Timer
  <2>3. [when |-> w, seq |-> timerSeq] \notin Queued
    BY <2>2 DEF CreatedBefore, TypeOK
  <2>4. ready' = ready
    BY <1>2 DEF CallAt
  <2>5. QED
    BY <2>1, <2>3, <2>4
<1>3. CASE \/ \E h \in timers \cup Queued : Cancel(h)
           \/ FinishWatched \/ Stop \/ AddHook
           \/ StartOp \/ Moves \/ BeginStep \/ Autojump
           \/ EndStep \/ ResumeDrive \/ Ends \/ UNCHANGED vars
  <2>1. UNCHANGED <<timers, ready>>
    BY <1>3 DEF Cancel, FinishWatched, Stop, AddHook, StartOp, LimitSteps,
         RunUntilDone, RunOneMoreStep, RunForever, StartDrive, Moves,
         StepWithoutWork, BeginBatch, HandleReturns, EndBatch, BeginStep,
         Autojump, EndStep, ResumeDrive, Ends, RefuseStep, Deadlock,
         HandleInterrupts, HooksRaise, DriveReturns, EndDrive, vars,
         queueVars, driveVars, histVars
  <2>2. QED
    BY <2>1
<1>4. CASE PurgeCancelledTimer
  BY <1>4 DEF PurgeCancelledTimer
<1>5. CASE FireDueTimer
  <2>1. PICK t \in timers : /\ timers' = timers \ {t}
                            /\ ready' = ready \/ ready' = Append(ready, t)
    BY <1>5 DEF FireDueTimer
  <2>2. CASE ready' = ready
    BY <2>1, <2>2
  <2>3. CASE ready' = Append(ready, t)
    <3>1. /\ Len(ready') = Len(ready) + 1
          /\ \A i \in 1..Len(ready) : ready'[i] = ready[i]
          /\ ready'[Len(ready) + 1] = t
      BY <2>3 DEF TypeOK, Handle
    <3>2. QED
      BY <2>1, <3>1 DEF TypeOK
  <2>4. QED
    BY <2>1, <2>2, <2>3
<1>6. CASE PopHandle
  <2>1. ready # <<>>
    BY <1>6 DEF PopHandle, Control, TypeOK
  <2>2. /\ Len(ready') = Len(ready) - 1 /\ Len(ready) \in Nat
        /\ \A i \in 1..Len(ready') : ready'[i] = ready[i + 1]
        /\ timers' = timers
    BY <1>6, <2>1 DEF PopHandle, TypeOK
  <2>3. \A i \in 1..Len(ready') : i + 1 \in 1..Len(ready)
    BY <2>2
  <2>4. ASSUME NEW i \in 1..Len(ready'), NEW j \in 1..Len(ready'), ready'[i] = ready'[j]
        PROVE  i = j
    <3>1. i + 1 = j + 1
      BY <2>2, <2>3, <2>4
    <3>2. QED
      BY <2>2, <3>1
  <2>5. ASSUME NEW i \in 1..Len(ready') PROVE ready'[i] \notin timers'
    <3>1. i + 1 \in 1..Len(ready) /\ ready'[i] = ready[i + 1] /\ timers' = timers
      BY <2>2, <2>3
    <3>2. QED
      BY <3>1, Zenon
  <2>6. \A i, j \in 1..Len(ready') : ready'[i] = ready'[j] => i = j
    BY <2>4, Zenon
  <2>7. Queued' \cap timers' = {}
    BY <2>5, Zenon
  <2>8. QED
    BY <2>6, <2>7, Zenon
<1>7. QED
  BY <1>1, <1>2, <1>3, <1>4, <1>5, <1>6, Cases DEF UserOp

\* The inductive invariant holds before the first drive.
LEMMA InitIInv == Init => IInv
<1> SUFFICES ASSUME Init PROVE IInv
  OBVIOUS
<1> USE BoundsAssumption, NoneAssumption DEF Init
<1>1. TypeOK
  <2>1. now \in 0..MaxTime /\ timerSeq \in 0..MaxTimers
    OBVIOUS
  <2>2. ready \in Seq(Handle)
    OBVIOUS
  <2>3. QED
    BY <2>1, <2>2 DEF TypeOK
<1>2. Control
  BY DEF Control
<1>3. Countdown /\ StopCount
  BY DEF Countdown, StopCount, watching
<1>4. Queued = {}
  BY DEF Queued
<1>5. CreatedBefore /\ FiringOrder
  BY <1>4 DEF CreatedBefore, FiringOrder
<1>6. Once
  BY <1>4 DEF Once
<1>7. QED
  BY <1>1, <1>2, <1>3, <1>5, <1>6 DEF IInv

\* The inductive invariant is kept by every step.
LEMMA IInvStep == IInv /\ [Next]_vars => IInv'
BY TypeStep, ControlStep, CountdownStep, StopCountStep, CreatedStep, FiringStep,
   OnceStep DEF IInv

\* The inductive invariant holds throughout.
LEMMA Invariance == Spec => []IInv
BY InitIInv, IInvStep, PTL DEF Spec

-----------------------------------------------------------------------------
(* The theorems.                                                           *)

\* Every variable keeps its type: the clock never reaches infinity and the
\* countdown never passes zero.
THEOREM TypeCorrect == Spec => []TypeOK
BY Invariance, PTL DEF IInv

\* Timers run in (when, seq) order and never early, for any number of timers
\* and any deadlines.
THEOREM FiringOrderHolds == Spec => []FiringOrder
BY Invariance, PTL DEF IInv

\* The autojump goes to the next timer that is still wanted, never past one.
THEOREM ClockMoves == Spec => ClockMovesToNextLiveTimer
<1>1. IInv /\ [Next]_vars =>
        [now' # now =>
           /\ now' > now
           /\ ready = <<>>
           /\ \E t \in timers \ cancelled : t.when = now'
           /\ \A t \in timers \ cancelled : t.when >= now']_vars
  <2> SUFFICES ASSUME IInv, [Next]_vars, now' # now
               PROVE  /\ now' > now
                      /\ ready = <<>>
                      /\ \E t \in timers \ cancelled : t.when = now'
                      /\ \A t \in timers \ cancelled : t.when >= now'
    OBVIOUS
  <2>1. Autojump
    BY Cases DEF UserOp, CallSoon, CallAt, Cancel, FinishWatched, Stop, AddHook,
         StartOp, LimitSteps, RunUntilDone, RunOneMoreStep, RunForever,
         StartDrive, Ends, RefuseStep, Deadlock, HandleInterrupts, HooksRaise,
         DriveReturns, Moves, StepWithoutWork, BeginBatch, HandleReturns,
         EndBatch, BeginStep, PurgeCancelledTimer, FireDueTimer, PopHandle,
         EndStep, ResumeDrive, vars
  <2>2. QED
    BY <2>1 DEF Autojump, IsHead, Precedes, IInv, TypeOK, Control, Timer
<1>2. QED
  BY <1>1, Invariance, PTL DEF Spec, ClockMovesToNextLiveTimer

\* Once the watched task is done the drive takes no virtual time.
THEOREM ClockStays == Spec => ClockStaysOnceDone
<1>1. IInv /\ [Next]_vars => [watching /\ done => now' = now]_vars
  <2> SUFFICES ASSUME IInv, [Next]_vars, watching, done
               PROVE  now' = now
    OBVIOUS
  <2>1. ~Autojump
    BY DEF Autojump, IInv, Control, Countdown
  <2>2. QED
    BY <2>1, Cases DEF UserOp, CallSoon, CallAt, Cancel, FinishWatched, Stop,
         AddHook, StartOp, LimitSteps, RunUntilDone, RunOneMoreStep, RunForever,
         StartDrive, Ends, RefuseStep, Deadlock, HandleInterrupts, HooksRaise,
         DriveReturns, Moves, StepWithoutWork, BeginBatch, HandleReturns,
         EndBatch, BeginStep, PurgeCancelledTimer, FireDueTimer, PopHandle,
         EndStep, ResumeDrive, vars
<1>2. QED
  BY <1>1, Invariance, PTL DEF Spec, ClockStaysOnceDone

\* DeadlockError means that nothing could ever have run again.
THEOREM DeadlocksAreReal == Spec => DeadlockIsReal
<1>1. IInv /\ [Next]_vars =>
        [pc # "idle" /\ exit' = "deadlock" =>
           /\ ready = <<>>
           /\ \A t \in timers \ cancelled : t.when = Inf
           /\ ~(watching /\ done)]_vars
  <2> SUFFICES ASSUME IInv, [Next]_vars, pc # "idle", exit' = "deadlock"
               PROVE  /\ ready = <<>>
                      /\ \A t \in timers \ cancelled : t.when = Inf
                      /\ ~(watching /\ done)
    OBVIOUS
  <2>1. exit = None
    BY DEF IInv, Control
  <2>2. Deadlock
    BY <2>1, NoneAssumption, Cases
       DEF UserOp, CallSoon, CallAt, Cancel, FinishWatched, Stop, AddHook,
         StartOp, LimitSteps, RunUntilDone, RunOneMoreStep, RunForever,
         StartDrive, Ends, RefuseStep, EndDrive, HandleInterrupts, HooksRaise,
         DriveReturns, Moves, StepWithoutWork, BeginBatch, HandleReturns,
         EndBatch, BeginStep, PurgeCancelledTimer, Autojump, FireDueTimer,
         PopHandle, EndStep, ResumeDrive, vars, driveVars
  <2>3. \A t \in timers : t.when \in Nat /\ t.when <= Inf
    BY BoundsAssumption DEF IInv, TypeOK, Timer, Inf
  <2>4. \A t \in timers \ cancelled : t.when = Inf
    BY <2>2, <2>3, BoundsAssumption DEF Deadlock, NothingToWaitFor, IsHead, Precedes, Inf
  <2>5. QED
    BY <2>2, <2>4 DEF Deadlock, IInv, Control, Countdown
<1>2. QED
  BY <1>1, Invariance, PTL DEF Spec, DeadlockIsReal

\* run_until_done takes its two stop steps and calls settle exactly once.
THEOREM StopsAfterTwoSteps == Spec => TwoStopSteps
<1>1. IInv /\ [Next]_vars =>
        [drive = "until_done" /\ done /\ exit' = "returned" =>
           /\ after \in 1..2
           /\ ~userStop => after = 2
           /\ settled = (IF settle THEN 1 ELSE 0)]_vars
  <2> SUFFICES ASSUME IInv, [Next]_vars, drive = "until_done", done, exit' = "returned"
               PROVE  /\ after \in 1..2
                      /\ ~userStop => after = 2
                      /\ settled = (IF settle THEN 1 ELSE 0)
    OBVIOUS
  <2>1. pc # "idle" /\ exit = None
    BY NoneAssumption DEF IInv, Control
  <2>2. DriveReturns
    BY <2>1, NoneAssumption, Cases
       DEF UserOp, CallSoon, CallAt, Cancel, FinishWatched, Stop, AddHook,
         StartOp, LimitSteps, RunUntilDone, RunOneMoreStep, RunForever,
         StartDrive, Ends, RefuseStep, EndDrive, HandleInterrupts, HooksRaise,
         Deadlock, Moves, StepWithoutWork, BeginBatch, HandleReturns,
         EndBatch, BeginStep, PurgeCancelledTimer, Autojump, FireDueTimer,
         PopHandle, EndStep, ResumeDrive, vars, driveVars
  <2>3. stopIn = 0
    BY <2>2 DEF DriveReturns, StoppedEarly, IInv, Countdown, TypeOK, watching
  <2>4. QED
    BY <2>3, NoneAssumption DEF IInv, StopCount, TypeOK
<1>2. QED
  BY <1>1, Invariance, PTL DEF Spec, TwoStopSteps

-----------------------------------------------------------------------------
(* What is left of a queue without the handles that are cancelled.         *)

\* Every non-empty set of naturals has a least element.
LEMMA LeastNat ==
    ASSUME NEW S \in SUBSET Nat, S # {}
    PROVE  \E x \in S : \A y \in S : x <= y
<1> DEFINE R == {ss \in Nat \X Nat : ss[1] < ss[2]}
<1>1. R = OpToRel(<, Nat)
      BY DEF OpToRel
<1>2. IsWellFoundedOn(R, Nat)
      BY <1>1, NatLessThanWellFounded
<1>3. PICK x \in S : \A y \in S : ~(<<y, x>> \in R)
  <2> HIDE DEF R
  <2> QED BY <1>2, WFMin
<1>4. ASSUME NEW y \in S PROVE x <= y
  <2>1. x \in Nat /\ y \in Nat
        OBVIOUS
  <2>2. <<y, x>> \in R <=> y < x
        BY <2>1
  <2>3. QED BY <1>3, <2>1, <2>2
<1>5. QED BY <1>4

\* Induction up to a number, for the membership in a set.
LEMMA UpTo ==
    ASSUME NEW n \in Nat, NEW S, 0 \in S, \A k \in 0..(n - 1) : k \in S => k + 1 \in S
    PROVE  0..n \subseteq S
<1> DEFINE B == (0..n) \ S
<1> SUFFICES ASSUME B # {} PROVE FALSE
    OBVIOUS
<1>1. PICK k \in B : \A j \in B : k <= j
  <2>1. B \in SUBSET Nat
        OBVIOUS
  <2> HIDE DEF B
  <2>2. QED BY <2>1, LeastNat
<1>2. k \in 0..n /\ k # 0 /\ k - 1 \in 0..(n - 1) /\ (k - 1) + 1 = k /\ k - 1 \in 0..n /\ ~(k <= k - 1)
      BY <1>1
<1>3. QED BY <1>1, <1>2

\* What the first i handles of s come to, when f[j] is what the first j do.
KeptUpTo(s, gone, f, i) ==
    IF i = 0 THEN << >>
    ELSE IF s[i] \in gone THEN f[i - 1] ELSE Append(f[i - 1], s[i])

\* f is the function by which Kept is defined.
Keeps(s, gone, T, f) ==
    /\ f \in [0..Len(s) -> Seq(T)]
    /\ \A i \in 0..Len(s) : f[i] = KeptUpTo(s, gone, f, i)

\* The recursion of Kept has a solution.
LEMMA KeptIs ==
    ASSUME NEW T, NEW s \in Seq(T), NEW gone
    PROVE  \E f : Keeps(s, gone, T, f) /\ Kept(s, gone) = f[Len(s)]
<1> DEFINE n == Len(s)
           A == {k \in Nat : \E f \in [0..n -> Seq(T)] :
                               \A i \in 0..n : i <= k => f[i] = KeptUpTo(s, gone, f, i)}
<1>1. n \in Nat /\ \A i \in 1..n : s[i] \in T
      OBVIOUS
<1> HIDE DEF n
<1>2. 0 \in A
  <2> DEFINE f == [i \in 0..n |-> << >>]
  <2>1. f \in [0..n -> Seq(T)]
        OBVIOUS
  <2>2. \A i \in 0..n : i <= 0 => f[i] = KeptUpTo(s, gone, f, i)
        BY <1>1 DEF KeptUpTo
  <2>3. QED BY <2>1, <2>2
<1>3. ASSUME NEW k \in 0..(n - 1), k \in A PROVE k + 1 \in A
  <2>1. PICK f \in [0..n -> Seq(T)] : \A i \in 0..n : i <= k => f[i] = KeptUpTo(s, gone, f, i)
        BY <1>3
  <2>2. KeptUpTo(s, gone, f, k + 1) \in Seq(T)
        BY <1>1 DEF KeptUpTo
  <2>3. PICK g \in [0..n -> Seq(T)] :
           \A i \in 0..n : g[i] = IF i = k + 1 THEN KeptUpTo(s, gone, f, i) ELSE f[i]
    <3> DEFINE h == [i \in 0..n |-> IF i = k + 1 THEN KeptUpTo(s, gone, f, i) ELSE f[i]]
    <3>1. h \in [0..n -> Seq(T)]
          BY <2>2
    <3>2. QED BY <3>1
  <2>4. \A i \in 0..n : i <= k + 1 => g[i] = KeptUpTo(s, gone, g, i)
    <3> TAKE i \in 0..n
    <3> HAVE i <= k + 1
    <3>1. CASE i = 0
          BY <1>1, <2>1, <2>3, <3>1 DEF KeptUpTo
    <3>2. CASE i # 0
      <4>1. i - 1 \in 0..n /\ i - 1 # k + 1
            BY <1>1, <3>2
      <4>2. g[i - 1] = f[i - 1]
            BY <2>3, <4>1
      <4>3. KeptUpTo(s, gone, g, i) = KeptUpTo(s, gone, f, i)
            BY <4>2 DEF KeptUpTo
      <4>4. g[i] = KeptUpTo(s, gone, f, i)
        <5>1. CASE i = k + 1
              BY <2>3, <5>1
        <5>2. CASE i # k + 1
              BY <1>1, <2>1, <2>3, <5>2
        <5>3. QED BY <5>1, <5>2
      <4>5. QED BY <4>3, <4>4
    <3>3. QED BY <3>1, <3>2
  <2>5. k + 1 \in Nat
        BY <1>1
  <2>6. QED BY <2>3, <2>4, <2>5
<1>4. n \in A
  <2> HIDE DEF A
  <2>1. 0..n \subseteq A
        BY <1>1, <1>2, <1>3, UpTo
  <2>2. QED BY <1>1, <2>1
<1>5. PICK f \in [0..n -> Seq(T)] : \A i \in 0..n : f[i] = KeptUpTo(s, gone, f, i)
      BY <1>1, <1>4
<1> DEFINE Solves(g) == g = [i \in 0..n |-> IF i = 0 THEN << >>
                              ELSE IF s[i] \in gone THEN g[i - 1] ELSE Append(g[i - 1], s[i])]
<1>6. Solves(f)
      BY <1>5 DEF KeptUpTo
<1>7. PICK g : g = (CHOOSE h : Solves(h)) /\ Solves(g)
      BY <1>6
<1>8. Kept(s, gone) = g[n]
      BY <1>7 DEF Kept, n
<1>9. \A i \in 0..n : g[i] = KeptUpTo(s, gone, g, i)
      BY <1>7 DEF KeptUpTo
<1>10. \A i \in 0..n : g[i] = f[i]
  <2> DEFINE B == {k \in Nat : k <= n => g[k] = f[k]}
  <2>1. 0 \in B
        BY <1>1, <1>5, <1>9 DEF KeptUpTo
  <2>2. ASSUME NEW k \in 0..(n - 1), k \in B PROVE k + 1 \in B
    <3>1. k + 1 \in 0..n /\ k + 1 # 0 /\ (k + 1) - 1 = k
          BY <1>1
    <3>2. g[k] = f[k]
          BY <1>1, <2>2
    <3>3. KeptUpTo(s, gone, g, k + 1) = KeptUpTo(s, gone, f, k + 1)
          BY <3>1, <3>2 DEF KeptUpTo
    <3>4. QED BY <1>5, <1>9, <3>1, <3>3
  <2>3. 0..n \subseteq B
    <3> HIDE DEF B
    <3> QED BY <1>1, <2>1, <2>2, UpTo
  <2>4. QED BY <2>3
<1>11. Keeps(s, gone, T, f) /\ Kept(s, gone) = f[n]
  <2>1. n \in 0..n
        BY <1>1
  <2>2. QED BY <1>5, <1>8, <1>10, <2>1 DEF Keeps, n
<1>12. QED BY <1>11 DEF n

\* Handles that agree, and of which the same are gone, come to the same.
LEMMA KeptSame ==
    ASSUME NEW T, NEW s \in Seq(T), NEW t \in Seq(T), NEW gone, NEW away,
           NEW f, NEW g, Keeps(s, gone, T, f), Keeps(t, away, T, g),
           NEW n \in Nat, n <= Len(s), n <= Len(t),
           \A i \in 1..n : s[i] = t[i] /\ (s[i] \in gone <=> t[i] \in away)
    PROVE  \A i \in 0..n : f[i] = g[i]
<1> DEFINE B == {k \in Nat : k <= n => f[k] = g[k]}
<1>1. 0 \in B
  <2>1. 0 \in 0..Len(s) /\ 0 \in 0..Len(t)
        OBVIOUS
  <2>2. f[0] = << >> /\ g[0] = << >>
        BY <2>1 DEF Keeps, KeptUpTo
  <2>3. QED BY <2>2
<1>2. ASSUME NEW k \in 0..(n - 1), k \in B PROVE k + 1 \in B
  <2>1. k + 1 \in 1..n /\ (k + 1) - 1 = k /\ k + 1 # 0 /\ f[k] = g[k]
        BY <1>2
  <2>2. s[k + 1] = t[k + 1] /\ (s[k + 1] \in gone <=> t[k + 1] \in away)
        BY <2>1
  <2>3. KeptUpTo(s, gone, f, k + 1) = KeptUpTo(t, away, g, k + 1)
        BY <2>1, <2>2 DEF KeptUpTo
  <2>4. Len(s) \in Nat /\ Len(t) \in Nat
        OBVIOUS
  <2>5. k + 1 \in 0..Len(s) /\ k + 1 \in 0..Len(t)
        BY <2>1, <2>4
  <2>6. f[k + 1] = g[k + 1]
        BY <2>3, <2>5, Zenon DEF Keeps
  <2>7. k + 1 \in Nat
        BY <2>1
  <2>8. QED BY <2>6, <2>7
<1>3. 0..n \subseteq B
  <2> HIDE DEF B
  <2> QED BY <1>1, <1>2, UpTo
<1>4. QED BY <1>3

\* A queue keeps its type, and the empty one is empty.
LEMMA KeptType ==
    ASSUME NEW T, NEW s \in Seq(T), NEW gone
    PROVE  Kept(s, gone) \in Seq(T) /\ (s = << >> => Kept(s, gone) = << >>)
<1>1. PICK f : Keeps(s, gone, T, f) /\ Kept(s, gone) = f[Len(s)]
      BY KeptIs
<1>2. Len(s) \in 0..Len(s) /\ (s = << >> => Len(s) = 0)
      OBVIOUS
<1>3. f[Len(s)] \in Seq(T) /\ (s = << >> => f[Len(s)] = << >>)
      BY <1>1, <1>2 DEF Keeps, KeptUpTo
<1>4. QED BY <1>1, <1>3

\* What is gone matters only for what is in the queue.
LEMMA KeptAway ==
    ASSUME NEW T, NEW s \in Seq(T), NEW gone, NEW away,
           \A i \in 1..Len(s) : s[i] \in gone <=> s[i] \in away
    PROVE  Kept(s, gone) = Kept(s, away)
<1>1. PICK f : Keeps(s, gone, T, f) /\ Kept(s, gone) = f[Len(s)]
      BY KeptIs
<1>2. PICK g : Keeps(s, away, T, g) /\ Kept(s, away) = g[Len(s)]
      BY KeptIs
<1>3. PICK n \in Nat : n = Len(s) /\ n \in 0..n /\ n <= Len(s)
      OBVIOUS
<1>4. \A i \in 0..n : f[i] = g[i]
      BY <1>1, <1>2, <1>3, KeptSame
<1>5. QED BY <1>1, <1>2, <1>3, <1>4

\* A handle that becomes ready is kept unless it is gone.
LEMMA KeptAppend ==
    ASSUME NEW T, NEW s \in Seq(T), NEW h \in T, NEW gone
    PROVE  Kept(Append(s, h), gone) =
              IF h \in gone THEN Kept(s, gone) ELSE Append(Kept(s, gone), h)
<1>1. PICK t \in Seq(T) : t = Append(s, h)
  <2>1. Append(s, h) \in Seq(T)
        OBVIOUS
  <2>2. QED BY <2>1, Zenon
<1>2. PICK f : Keeps(s, gone, T, f) /\ Kept(s, gone) = f[Len(s)]
      BY KeptIs
<1>3. PICK g : Keeps(t, gone, T, g) /\ Kept(t, gone) = g[Len(t)]
      BY KeptIs
<1>4. PICK n \in Nat : n = Len(s)
      OBVIOUS
<1>5. Len(t) = n + 1 /\ t[n + 1] = h /\ \A i \in 1..n : s[i] = t[i]
      BY <1>1, <1>4
<1>6. \A i \in 0..n : f[i] = g[i]
  <2>1. n <= Len(s) /\ n <= Len(t)
        BY <1>4, <1>5
  <2>2. QED BY <1>2, <1>3, <1>5, <2>1, KeptSame
<1>7. n \in 0..n /\ n + 1 \in 0..(n + 1) /\ n + 1 # 0 /\ (n + 1) - 1 = n
      OBVIOUS
<1>8. g[n + 1] = IF h \in gone THEN g[n] ELSE Append(g[n], h)
      BY <1>3, <1>5, <1>7 DEF Keeps, KeptUpTo
<1>9. QED BY <1>1, <1>2, <1>3, <1>4, <1>5, <1>6, <1>7, <1>8

\* Prepending and appending commute.
LEMMA BothEnds ==
    ASSUME NEW T, NEW q \in Seq(T), NEW h \in T, NEW x \in T
    PROVE  Append(<< h >> \o q, x) = << h >> \o Append(q, x)
<1>1. PICK u \in Seq(T) : u = << h >> \o q
  <2>1. << h >> \o q \in Seq(T)
        OBVIOUS
  <2>2. QED BY <2>1, Zenon
<1>2. PICK v \in Seq(T) : v = Append(q, x)
  <2>1. Append(q, x) \in Seq(T)
        OBVIOUS
  <2>2. QED BY <2>1, Zenon
<1>3. PICK a \in Seq(T), b \in Seq(T) : a = Append(u, x) /\ b = << h >> \o v
  <2>1. Append(u, x) \in Seq(T) /\ << h >> \o v \in Seq(T)
        OBVIOUS
  <2>2. QED BY <2>1, Zenon
<1>4. Len(u) = Len(q) + 1 /\ Len(v) = Len(q) + 1 /\ Len(a) = Len(q) + 2 /\ Len(b) = Len(q) + 2
      BY <1>1, <1>2, <1>3
<1>5. ASSUME NEW i \in 1..(Len(q) + 2) PROVE a[i] = b[i]
  <2>1. CASE i = 1
        BY <1>1, <1>2, <1>3, <2>1
  <2>2. CASE i \in 2..(Len(q) + 1)
    <3>1. a[i] = u[i] /\ u[i] = q[i - 1]
          BY <1>1, <1>3, <1>4, <2>2
    <3>2. b[i] = v[i - 1] /\ v[i - 1] = q[i - 1]
          BY <1>2, <1>3, <1>4, <2>2
    <3>3. QED BY <3>1, <3>2
  <2>3. CASE i = Len(q) + 2
    <3>1. a[i] = x
          BY <1>3, <1>4, <2>3
    <3>2. b[i] = v[i - 1] /\ v[i - 1] = x
          BY <1>2, <1>3, <1>4, <2>3
    <3>3. QED BY <3>1, <3>2
  <2>4. QED BY <2>1, <2>2, <2>3
<1>6. a = b
  <2>1. PICK m \in Nat : m = Len(q) + 2 /\ Len(a) = m /\ Len(b) = m
    <3>1. Len(q) + 2 \in Nat
          OBVIOUS
    <3>2. QED BY <1>4, <3>1, Zenon
  <2>2. \A i \in 1..m : a[i] = b[i]
        BY <1>5, <2>1
  <2>3. QED BY <2>1, <2>2
<1>7. QED BY <1>1, <1>2, <1>3, <1>6

\* The oldest handle of the queue is the oldest of those kept, unless gone.
LEMMA KeptTail ==
    ASSUME NEW T, NEW s \in Seq(T), s # << >>, NEW gone
    PROVE  Kept(s, gone) = IF Head(s) \in gone THEN Kept(Tail(s), gone)
                           ELSE << Head(s) >> \o Kept(Tail(s), gone)
<1>1. PICK t \in Seq(T) : t = Tail(s)
  <2>1. Tail(s) \in Seq(T)
        OBVIOUS
  <2>2. QED BY <2>1, Zenon
<1>2. PICK f : Keeps(s, gone, T, f) /\ Kept(s, gone) = f[Len(s)]
      BY KeptIs
<1>3. PICK g : Keeps(t, gone, T, g) /\ Kept(t, gone) = g[Len(t)]
      BY KeptIs
<1>4. PICK n \in Nat : n = Len(t)
      OBVIOUS
<1>5. PICK h \in T : h = Head(s) /\ h = s[1]
      OBVIOUS
<1>6. Len(s) = n + 1 /\ \A i \in 1..n : t[i] = s[i + 1]
      BY <1>1, <1>4
<1> DEFINE B == {k \in Nat : k <= n => f[k + 1] = IF h \in gone THEN g[k] ELSE << h >> \o g[k]}
<1>7. 0 \in B
  <2>1. 0 \in 0..(n + 1) /\ 1 \in 0..(n + 1) /\ 0 \in 0..n /\ 1 - 1 = 0 /\ 0 + 1 = 1 /\ 1 # 0
        OBVIOUS
  <2>2. f[0] = << >> /\ g[0] = << >>
        BY <1>2, <1>3, <1>4, <1>6, <2>1 DEF Keeps, KeptUpTo
  <2>3. f[1] = IF h \in gone THEN f[0] ELSE Append(f[0], h)
        BY <1>2, <1>5, <1>6, <2>1 DEF Keeps, KeptUpTo
  <2>4. Append(<< >>, h) = << h >> /\ << h >> \o << >> = << h >>
        OBVIOUS
  <2>5. QED BY <2>1, <2>2, <2>3, <2>4
<1>8. ASSUME NEW k \in 0..(n - 1), k \in B PROVE k + 1 \in B
  <2>1. /\ k + 1 \in 1..n /\ k + 1 \in 0..n /\ k \in 0..n /\ (k + 1) - 1 = k /\ k + 1 # 0
        /\ k + 2 \in 0..(n + 1) /\ (k + 2) - 1 = k + 1 /\ k + 2 # 0 /\ (k + 1) + 1 = k + 2
        OBVIOUS
  <2>2. PICK x \in T : x = t[k + 1] /\ x = s[k + 2]
        BY <1>4, <1>6, <2>1
  <2>3. f[k + 2] = IF x \in gone THEN f[k + 1] ELSE Append(f[k + 1], x)
        BY <1>2, <1>6, <2>1, <2>2 DEF Keeps, KeptUpTo
  <2>4. g[k + 1] = IF x \in gone THEN g[k] ELSE Append(g[k], x)
        BY <1>3, <1>4, <2>1, <2>2 DEF Keeps, KeptUpTo
  <2>5. f[k + 1] = IF h \in gone THEN g[k] ELSE << h >> \o g[k]
        BY <1>8
  <2>6. PICK q \in Seq(T) : q = g[k]
        BY <1>3, <1>4, <2>1 DEF Keeps
  <2>7. Append(<< h >> \o q, x) = << h >> \o Append(q, x)
        BY BothEnds
  <2>8. f[(k + 1) + 1] = IF h \in gone THEN g[k + 1] ELSE << h >> \o g[k + 1]
        BY <2>1, <2>3, <2>4, <2>5, <2>6, <2>7
  <2>9. k + 1 \in Nat
        OBVIOUS
  <2>10. QED BY <2>8, <2>9
<1>9. n \in B
  <2> HIDE DEF B
  <2>1. 0..n \subseteq B
        BY <1>7, <1>8, UpTo
  <2>2. QED BY <2>1
<1>10. f[n + 1] = IF h \in gone THEN g[n] ELSE << h >> \o g[n]
      BY <1>9
<1>11. QED BY <1>1, <1>2, <1>3, <1>4, <1>5, <1>6, <1>10

\* Two sequences, one after the other.
LEMMA Joined ==
    ASSUME NEW T, NEW a \in Seq(T), NEW b \in Seq(T)
    PROVE  /\ a \o b \in Seq(T) /\ Len(a \o b) = Len(a) + Len(b)
           /\ \A i \in 1..Len(a) : (a \o b)[i] = a[i]
           /\ \A i \in 1..Len(b) : (a \o b)[Len(a) + i] = b[i]
<1>1. a \o b \in Seq(T) /\ Len(a \o b) = Len(a) + Len(b)
      OBVIOUS
<1>2. \A i \in 1..Len(a) : (a \o b)[i] = a[i]
      OBVIOUS
<1>3. ASSUME NEW i \in 1..Len(b) PROVE (a \o b)[Len(a) + i] = b[i]
  <2>1. PICK k \in Nat, m \in Nat : k = Len(a) /\ m = Len(b)
    <3>1. Len(a) \in Nat /\ Len(b) \in Nat
          OBVIOUS
    <3>2. QED BY <3>1, Zenon
  <2>2. i \in 1..m
        BY <2>1
  <2>3. k + i \in 1..(k + m) /\ ~(k + i <= k) /\ k + i - k = i
        BY <2>2
  <2>4. QED BY <2>1, <2>3
<1>4. QED BY <1>1, <1>2, <1>3

\* q without its j-th element.
Dropped(q, j) == SubSeq(q, 1, j - 1) \o SubSeq(q, j + 1, Len(q))

\* Its elements.
LEMMA DroppedIs ==
    ASSUME NEW T, NEW q \in Seq(T), NEW j \in 1..Len(q)
    PROVE  /\ Dropped(q, j) \in Seq(T) /\ Len(Dropped(q, j)) = Len(q) - 1
           /\ \A i \in 1..(Len(q) - 1) : Dropped(q, j)[i] = IF i < j THEN q[i] ELSE q[i + 1]
<1>1. PICK n \in Nat : n = Len(q) /\ j \in 1..n /\ j \in Nat
      OBVIOUS
<1>2. PICK a \in Seq(T) : /\ a = SubSeq(q, 1, j - 1) /\ Len(a) = j - 1
                          /\ \A i \in 1..(j - 1) : a[i] = q[i]
  <2>1. SubSeq(q, 1, j - 1) \in Seq(T)
        BY <1>1
  <2>2. PICK a \in Seq(T) : a = SubSeq(q, 1, j - 1)
        BY <2>1, Zenon
  <2>3. Len(a) = j - 1 /\ \A i \in 1..(j - 1) : a[i] = q[i]
        BY <1>1, <2>2
  <2>4. QED BY <2>2, <2>3
<1>3. PICK b \in Seq(T) : /\ b = SubSeq(q, j + 1, n) /\ Len(b) = n - j
                          /\ \A i \in 1..(n - j) : b[i] = q[j + i]
  <2>1. SubSeq(q, j + 1, n) \in Seq(T)
        BY <1>1
  <2>2. PICK b \in Seq(T) : b = SubSeq(q, j + 1, n)
        BY <2>1, Zenon
  <2>3. Len(b) = n - j /\ \A i \in 1..(n - j) : b[i] = q[j + i]
        BY <1>1, <2>2
  <2>4. QED BY <2>2, <2>3
<1>4. Dropped(q, j) = a \o b
      BY <1>1, <1>2, <1>3 DEF Dropped
<1>5. PICK k \in Nat, m \in Nat : k = j - 1 /\ m = n - j /\ k + m = n - 1
  <2>1. j - 1 \in Nat /\ n - j \in Nat /\ (j - 1) + (n - j) = n - 1
        BY <1>1
  <2>2. QED BY <2>1, Zenon
<1>6. /\ a \o b \in Seq(T) /\ Len(a \o b) = k + m
      /\ \A i \in 1..k : (a \o b)[i] = a[i]
      /\ \A i \in 1..m : (a \o b)[k + i] = b[i]
  <2>1. Len(a) = k /\ Len(b) = m
        BY <1>2, <1>3, <1>5
  <2>2. /\ a \o b \in Seq(T) /\ Len(a \o b) = Len(a) + Len(b)
        /\ \A i \in 1..Len(a) : (a \o b)[i] = a[i]
        /\ \A i \in 1..Len(b) : (a \o b)[Len(a) + i] = b[i]
        BY Joined
  <2>3. QED BY <2>1, <2>2, Zenon
<1>7. PICK d \in Seq(T) : d = a \o b
      BY <1>6, Zenon
<1>8. ASSUME NEW i \in 1..(n - 1) PROVE d[i] = IF i < j THEN q[i] ELSE q[i + 1]
  <2>1. CASE i < j
    <3>1. i \in 1..k /\ i \in 1..(j - 1)
          BY <1>1, <1>5, <2>1
    <3>2. QED BY <1>2, <1>6, <1>7, <2>1, <3>1, Zenon
  <2>2. CASE ~(i < j)
    <3>1. PICK l \in 1..m : k + l = i /\ j + l = i + 1 /\ l \in 1..(n - j)
      <4>1. i - k \in 1..m /\ k + (i - k) = i /\ j + (i - k) = i + 1 /\ i - k \in 1..(n - j)
            BY <1>1, <1>5, <2>2
      <4>2. QED BY <4>1, Zenon
    <3>2. d[k + l] = b[l] /\ b[l] = q[j + l]
          BY <1>3, <1>6, <1>7, <3>1, Zenon
    <3>3. d[i] = q[i + 1]
          BY <3>1, <3>2, Zenon
    <3>4. QED BY <2>2, <3>3
  <2>3. QED BY <2>1, <2>2
<1>9. d \in Seq(T) /\ Len(d) = n - 1 /\ d = Dropped(q, j)
      BY <1>4, <1>5, <1>6, <1>7, Zenon
<1>10. QED BY <1>1, <1>8, <1>9, Zenon

\* Sequences with the same elements are one.
LEMMA SameElements ==
    ASSUME NEW T, NEW a \in Seq(T), NEW b \in Seq(T), Len(a) = Len(b),
           \A i \in 1..Len(a) : a[i] = b[i]
    PROVE  a = b
OBVIOUS

\* An element stays out of the queue when others come after it.
LEMMA DroppedAppend ==
    ASSUME NEW T, NEW q \in Seq(T), NEW x \in T
    PROVE  /\ \A j \in 1..Len(q) : Dropped(Append(q, x), j) = Append(Dropped(q, j), x)
           /\ Dropped(Append(q, x), Len(q) + 1) = q
<1>1. PICK r \in Seq(T) : r = Append(q, x)
  <2>1. Append(q, x) \in Seq(T)
        OBVIOUS
  <2>2. QED BY <2>1, Zenon
<1>2. PICK n \in Nat : n = Len(q) /\ Len(r) = n + 1 /\ r[n + 1] = x /\ \A i \in 1..n : r[i] = q[i]
      BY <1>1
<1>3. ASSUME NEW j \in 1..n PROVE Dropped(r, j) = Append(Dropped(q, j), x)
  <2>1. PICK d \in Seq(T) : /\ d = Dropped(q, j) /\ Len(d) = n - 1
                            /\ \A i \in 1..(n - 1) : d[i] = IF i < j THEN q[i] ELSE q[i + 1]
    <3>1. j \in 1..Len(q)
          BY <1>2
    <3>2. /\ Dropped(q, j) \in Seq(T) /\ Len(Dropped(q, j)) = Len(q) - 1
          /\ \A i \in 1..(Len(q) - 1) : Dropped(q, j)[i] = IF i < j THEN q[i] ELSE q[i + 1]
          BY <3>1, DroppedIs
    <3>3. QED BY <1>2, <3>2, Zenon
  <2>2. PICK e \in Seq(T) : /\ e = Dropped(r, j) /\ Len(e) = (n + 1) - 1
                            /\ \A i \in 1..((n + 1) - 1) : e[i] = IF i < j THEN r[i] ELSE r[i + 1]
    <3>1. j \in 1..Len(r)
          BY <1>2
    <3>2. /\ Dropped(r, j) \in Seq(T) /\ Len(Dropped(r, j)) = Len(r) - 1
          /\ \A i \in 1..(Len(r) - 1) : Dropped(r, j)[i] = IF i < j THEN r[i] ELSE r[i + 1]
          BY <3>1, DroppedIs
    <3>3. QED BY <1>2, <3>2, Zenon
  <2>3. PICK a \in Seq(T) : a = Append(d, x) /\ Len(a) = n /\ a[n] = x /\ \A i \in 1..(n - 1) : a[i] = d[i]
    <3>1. Append(d, x) \in Seq(T)
          OBVIOUS
    <3>2. PICK a \in Seq(T) : a = Append(d, x)
          BY <3>1, Zenon
    <3>3. PICK m \in Nat : m = n - 1 /\ Len(d) = m /\ m + 1 = n
      <4>1. n - 1 \in Nat /\ (n - 1) + 1 = n
            BY <1>2
      <4>2. QED BY <2>1, <4>1, Zenon
    <3>4. Len(a) = m + 1 /\ a[m + 1] = x /\ \A i \in 1..m : a[i] = d[i]
          BY <3>2, <3>3
    <3>5. QED BY <3>2, <3>3, <3>4, Zenon
  <2>4. Len(e) = n
        BY <2>2
  <2>5. ASSUME NEW i \in 1..n PROVE e[i] = a[i]
    <3>1. CASE i = n
          BY <1>2, <2>2, <2>3, <3>1
    <3>2. CASE i # n
      <4>1. i \in 1..(n - 1) /\ i + 1 \in 1..n /\ i \in 1..((n + 1) - 1)
            BY <3>2
      <4>2. QED BY <1>2, <2>1, <2>2, <2>3, <4>1
    <3>3. QED BY <3>1, <3>2
  <2>6. e = a
        BY <2>3, <2>4, <2>5, SameElements
  <2>7. QED BY <2>1, <2>2, <2>3, <2>6
<1>4. Dropped(r, n + 1) = q
  <2>1. PICK e \in Seq(T) : /\ e = Dropped(r, n + 1) /\ Len(e) = (n + 1) - 1
                            /\ \A i \in 1..((n + 1) - 1) : e[i] = IF i < n + 1 THEN r[i] ELSE r[i + 1]
    <3>1. n + 1 \in 1..Len(r)
          BY <1>2
    <3>2. /\ Dropped(r, n + 1) \in Seq(T) /\ Len(Dropped(r, n + 1)) = Len(r) - 1
          /\ \A i \in 1..(Len(r) - 1) : Dropped(r, n + 1)[i] = IF i < n + 1 THEN r[i] ELSE r[i + 1]
          BY <3>1, DroppedIs
    <3>3. QED BY <1>2, <3>2, Zenon
  <2>2. Len(e) = n /\ \A i \in 1..n : e[i] = q[i]
        BY <1>2, <2>1
  <2>3. e = q
        BY <1>2, <2>2, SameElements
  <2>4. QED BY <2>1, <2>3
<1>5. QED BY <1>1, <1>2, <1>3, <1>4

\* Cancelling a handle that is in the queue once takes one handle out.
LEMMA KeptCancel ==
    ASSUME NEW T, NEW s \in Seq(T), NEW gone, NEW p \in 1..Len(s), s[p] \notin gone,
           \A i \in 1..Len(s) : s[i] = s[p] => i = p
    PROVE  \E j \in 1..Len(Kept(s, gone)) :
              Kept(s, gone \cup {s[p]}) = Dropped(Kept(s, gone), j)
<1>1. PICK away : away = gone \cup {s[p]}
      OBVIOUS
<1>2. PICK f : Keeps(s, gone, T, f) /\ Kept(s, gone) = f[Len(s)]
      BY KeptIs
<1>3. PICK g : Keeps(s, away, T, g) /\ Kept(s, away) = g[Len(s)]
      BY KeptIs
<1>4. PICK n \in Nat : n = Len(s)
      OBVIOUS
<1>5. p \in 1..n /\ p - 1 \in Nat /\ p \in Nat /\ p - 1 <= n /\ p # 0 /\ p \in 0..n /\ p - 1 \in 0..n
      BY <1>4
<1>6. \A i \in 1..n : s[i] \in T
      BY <1>4
<1>7. \A i \in 0..(p - 1) : f[i] = g[i]
  <2>1. \A i \in 1..(p - 1) : s[i] \in gone <=> s[i] \in away
        BY <1>1, <1>4, <1>5
  <2>2. QED BY <1>2, <1>3, <1>4, <1>5, <2>1, KeptSame
<1>8. f[p - 1] \in Seq(T) /\ f[p] = Append(f[p - 1], s[p]) /\ g[p] = f[p - 1]
  <2>1. p - 1 \in 0..(p - 1)
        BY <1>5
  <2>2. f[p] = Append(f[p - 1], s[p])
        BY <1>2, <1>4, <1>5 DEF Keeps, KeptUpTo
  <2>3. g[p] = g[p - 1]
        BY <1>1, <1>3, <1>4, <1>5 DEF Keeps, KeptUpTo
  <2>4. f[p - 1] \in Seq(T)
        BY <1>2, <1>4, <1>5 DEF Keeps
  <2>5. QED BY <1>7, <2>1, <2>2, <2>3, <2>4
<1>9. PICK j \in Nat : j = Len(f[p - 1]) + 1
  <2>1. Len(f[p - 1]) + 1 \in Nat
        BY <1>8
  <2>2. QED BY <2>1, Zenon
<1> DEFINE B == {k \in Nat : p + k <= n => j \in 1..Len(f[p + k]) /\ g[p + k] = Dropped(f[p + k], j)}
<1>10. 0 \in B
  <2>1. Len(f[p]) = j /\ j \in 1..j
        BY <1>6, <1>5, <1>8, <1>9
  <2>2. g[p] = Dropped(f[p], j)
        BY <1>5, <1>6, <1>8, <1>9, DroppedAppend
  <2>3. p + 0 = p
        BY <1>5
  <2>4. QED BY <2>1, <2>2, <2>3
<1>11. ASSUME NEW k \in 0..((n - p) - 1), k \in B PROVE k + 1 \in B
  <2>1. PICK i \in 0..n : i = p + k /\ i + 1 \in 1..n /\ i + 1 \in 0..n /\ (i + 1) - 1 = i /\ i + 1 # 0
                          /\ i + 1 # p /\ i + 1 = p + (k + 1) /\ i <= n
    <3>1. p + k \in 0..n
          BY <1>5
    <3>2. PICK i \in 0..n : i = p + k
          BY <3>1, Zenon
    <3>3. QED BY <1>5, <3>2
  <2>2. PICK x \in T : x = s[i + 1]
        BY <1>6, <2>1
  <2>3. PICK q \in Seq(T) : q = f[i]
        BY <1>2, <1>4, <2>1 DEF Keeps
  <2>4. j \in 1..Len(q) /\ g[i] = Dropped(q, j)
        BY <1>11, <2>1, <2>3
  <2>5. x \in gone <=> x \in away
        BY <1>1, <1>4, <2>1, <2>2
  <2>6. f[i + 1] = IF x \in gone THEN q ELSE Append(q, x)
        BY <1>2, <1>4, <2>1, <2>2, <2>3 DEF Keeps, KeptUpTo
  <2>7. g[i + 1] = IF x \in gone THEN g[i] ELSE Append(g[i], x)
        BY <1>3, <1>4, <2>1, <2>2, <2>5 DEF Keeps, KeptUpTo
  <2>8. g[i + 1] = Dropped(f[i + 1], j)
    <3>1. Dropped(Append(q, x), j) = Append(Dropped(q, j), x)
          BY <2>4, DroppedAppend
    <3>2. QED BY <2>4, <2>6, <2>7, <3>1
  <2>9. j \in 1..Len(f[i + 1])
    <3>1. Len(Append(q, x)) = Len(q) + 1 /\ Len(q) \in Nat
          OBVIOUS
    <3>2. QED BY <2>4, <2>6, <3>1
  <2>10. k + 1 \in Nat
        BY <1>5
  <2>11. QED BY <2>1, <2>8, <2>9, <2>10
<1>12. j \in 1..Len(f[n]) /\ g[n] = Dropped(f[n], j)
  <2>1. n - p \in Nat /\ n - p \in 0..(n - p) /\ p + (n - p) = n
        BY <1>5
  <2>2. n - p \in B
    <3> HIDE DEF B
    <3> QED BY <1>10, <1>11, <2>1, UpTo
  <2>3. QED BY <2>1, <2>2
<1>13. QED BY <1>1, <1>2, <1>3, <1>4, <1>12

-----------------------------------------------------------------------------
(* The refinement.                                                         *)

\* A step that leaves the clock, the timers, the queue and what is cancelled
\* alone, and the running handle too or ends it, is a return or a stutter.
LEMMA Unseen ==
    ASSUME UNCHANGED <<now, queueVars>>, running' \in {running, None}
    PROVE  [Abstract!Next]_(Abstract!vars)
<1>1. UNCHANGED <<now, timers \ cancelled, Kept(ready, cancelled)>>
  BY DEF queueVars
<1>2. CASE running' = running
  BY <1>1, <1>2 DEF Abstract!vars
<1>3. CASE running' = None
  BY <1>1, <1>3 DEF Abstract!Next, Abstract!Return
<1>q. QED
  BY <1>2, <1>3

\* call_soon enqueues; that it forgets an earlier cancellation of the handle
\* concerns no other one.
LEMMA CallSoonEnqueues ==
    ASSUME IInv, NEW c \in Callback, CallSoon(c)
    PROVE  Abstract!Enqueue
<1>1. ready \in Seq(Handle) /\ c \in Handle /\ c \notin Timer /\ timers \subseteq Timer
  BY NoneAssumption DEF IInv, TypeOK, Handle
<1>2. /\ ready' = Append(ready, c) /\ cancelled' = cancelled \ {c}
      /\ \A i \in 1..Len(ready) : ready[i] # c
      /\ UNCHANGED <<now, timers, running>>
  BY DEF CallSoon, Queued
<1>3. Kept(Append(ready, c), cancelled \ {c}) = Append(Kept(ready, cancelled \ {c}), c)
  BY <1>1, KeptAppend
<1>4. Kept(ready, cancelled \ {c}) = Kept(ready, cancelled)
  BY <1>1, <1>2, KeptAway
<1>5. timers' \ cancelled' = timers \ cancelled
  BY <1>1, <1>2
<1>6. Kept(ready', cancelled') = Append(Kept(ready, cancelled), c)
  BY <1>2, <1>3, <1>4
<1>7. QED
  BY <1>2, <1>5, <1>6 DEF Abstract!Enqueue

\* call_at adds a timer younger than all others.
LEMMA CallAtSchedules ==
    ASSUME IInv, NEW w \in 0..Inf, CallAt(w)
    PROVE  [Abstract!Next]_(Abstract!vars)
<1>1. PICK t \in Timer : t = [when |-> w, seq |-> timerSeq]
  BY DEF IInv, TypeOK, CallAt, Timer
<1>2. timers' = timers \cup {t} /\ UNCHANGED <<now, cancelled, ready, running>>
  BY <1>1 DEF CallAt
<1>3. \A u \in timers \ cancelled : u.seq < t.seq
  BY <1>1 DEF IInv, CreatedBefore
<1>4. Kept(ready', cancelled') = Kept(ready, cancelled)
  BY <1>2
<1>5. CASE t \in cancelled
  <2>1. timers' \ cancelled' = timers \ cancelled
    BY <1>2, <1>5
  <2>2. QED
    BY <1>2, <1>4, <2>1 DEF Abstract!vars
<1>6. CASE t \notin cancelled
  <2>1. timers' \ cancelled' = (timers \ cancelled) \cup {t}
    BY <1>2, <1>6
  <2>2. QED
    BY <1>2, <1>3, <1>4, <2>1 DEF Abstract!Next, Abstract!Schedule
<1>q. QED
  BY <1>5, <1>6

\* Handle.cancel takes out a timer or a handle of the queue, at once.
LEMMA CancelTakesOut ==
    ASSUME IInv, NEW h \in timers \cup Queued, Cancel(h)
    PROVE  [Abstract!Next]_(Abstract!vars)
<1>1. ready \in Seq(Handle)
  BY DEF IInv, TypeOK
<1>2. cancelled' = cancelled \cup {h} /\ UNCHANGED <<now, timers, ready, running>>
  BY DEF Cancel
<1>3. CASE h \in cancelled
  <2>1. cancelled' = cancelled
    BY <1>2, <1>3
  <2>2. QED
    BY <1>2, <2>1 DEF Abstract!vars
<1>4. CASE h \notin cancelled /\ h \in timers
  <2>1. \A i \in 1..Len(ready) : ready[i] # h
    BY <1>4 DEF IInv, Once, Queued
  <2>2. \A i \in 1..Len(ready) : ready[i] \in cancelled <=> ready[i] \in cancelled'
    BY <1>2, <2>1
  <2>3. Kept(ready', cancelled') = Kept(ready, cancelled)
    BY <1>1, <1>2, <2>2, KeptAway
  <2>4. h \in timers \ cancelled /\ timers' \ cancelled' = (timers \ cancelled) \ {h}
    BY <1>2, <1>4
  <2>5. QED
    BY <1>2, <2>3, <2>4 DEF Abstract!Next, Abstract!Cancel
<1>5. CASE h \notin cancelled /\ h \notin timers
  <2>1. PICK p \in 1..Len(ready) : ready[p] = h
    BY <1>5 DEF Queued
  <2>2. ready[p] \notin cancelled /\ \A i \in 1..Len(ready) : ready[i] = ready[p] => i = p
    BY <1>5, <2>1 DEF IInv, Once
  <2>3. PICK j \in 1..Len(Kept(ready, cancelled)) :
           Kept(ready, cancelled \cup {ready[p]}) = Dropped(Kept(ready, cancelled), j)
    BY <1>1, <2>2, KeptCancel
  <2>4. Kept(ready', cancelled') = Dropped(Kept(ready, cancelled), j)
    BY <1>2, <2>1, <2>3
  <2>5. timers' \ cancelled' = timers \ cancelled
    BY <1>2, <1>5
  <2>6. QED
    BY <1>2, <2>3, <2>4, <2>5 DEF Abstract!Next, Abstract!Cancel, Dropped
<1>q. QED
  BY <1>3, <1>4, <1>5

\* A purged tombstone was not wanted any more.
LEMMA PurgeUnseen ==
    ASSUME IInv, PurgeCancelledTimer
    PROVE  UNCHANGED Abstract!vars
<1>1. PICK t \in cancelled : timers' = timers \ {t}
  BY DEF PurgeCancelledTimer
<1>2. UNCHANGED <<now, cancelled, ready, running>>
  BY DEF PurgeCancelledTimer
<1>3. timers' \ cancelled' = timers \ cancelled
  BY <1>1, <1>2
<1>4. QED
  BY <1>2, <1>3 DEF Abstract!vars

\* The autojump goes to the earliest timer that is wanted, with nothing ready.
LEMMA AutojumpAdvances ==
    ASSUME IInv, Autojump
    PROVE  [Abstract!Next]_(Abstract!vars)
<1>1. PICK t \in timers \ cancelled :
         IsHead(t) /\ t.when # Inf /\ now' = IF now < t.when THEN t.when ELSE now
  BY DEF Autojump
<1>2. UNCHANGED <<timers, cancelled, ready, running>>
  BY DEF Autojump, queueVars
<1>3. UNCHANGED <<timers \ cancelled, Kept(ready, cancelled), running>>
  BY <1>2
<1>4. CASE now < t.when
  <2>1. t.when < Inf
    BY <1>1, BoundsAssumption DEF IInv, TypeOK, Timer, Inf
  <2>2. Abstract!Earliest(t)
    BY <1>1 DEF Abstract!Earliest, IsHead, Precedes
  <2>3. Kept(ready, cancelled) = <<>>
    BY KeptType DEF IInv, TypeOK, Control, Autojump
  <2>4. QED
    BY <1>1, <1>3, <1>4, <2>1, <2>2, <2>3 DEF Abstract!Next, Abstract!Advance
<1>5. CASE ~(now < t.when)
  BY <1>1, <1>3, <1>5 DEF Abstract!vars
<1>q. QED
  BY <1>4, <1>5

\* A due timer that is wanted becomes runnable; a due tombstone disappears.
LEMMA FireReleases ==
    ASSUME IInv, FireDueTimer
    PROVE  [Abstract!Next]_(Abstract!vars)
<1>1. PICK t \in timers :
         /\ IsHead(t) /\ t.when <= now /\ timers' = timers \ {t}
         /\ ready' = IF t \in cancelled THEN ready ELSE Append(ready, t)
  BY DEF FireDueTimer
<1>2. UNCHANGED <<now, cancelled, running>>
  BY DEF FireDueTimer
<1>3. ready \in Seq(Handle) /\ t \in Handle
  BY DEF IInv, TypeOK, Handle
<1>4. CASE t \in cancelled
  <2>1. timers' \ cancelled' = timers \ cancelled /\ ready' = ready
    BY <1>1, <1>2, <1>4
  <2>2. QED
    BY <1>2, <2>1 DEF Abstract!vars
<1>5. CASE t \notin cancelled
  <2>1. timers' \ cancelled' = (timers \ cancelled) \ {t} /\ t \in timers \ cancelled
    BY <1>1, <1>2, <1>5
  <2>2. Kept(ready', cancelled') = Append(Kept(ready, cancelled), t)
    BY <1>1, <1>2, <1>3, <1>5, KeptAppend
  <2>3. Abstract!Earliest(t)
    BY <1>1, <2>1 DEF Abstract!Earliest, IsHead, Precedes
  <2>4. QED
    BY <1>1, <1>2, <2>1, <2>2, <2>3 DEF Abstract!Next, Abstract!Release
<1>q. QED
  BY <1>4, <1>5

\* popleft: a cancelled handle was not there any more, another one is run.
LEMMA PopDispatches ==
    ASSUME IInv, PopHandle
    PROVE  [Abstract!Next]_(Abstract!vars)
<1>1. ready \in Seq(Handle) /\ ready # <<>>
  BY DEF IInv, TypeOK, Control, PopHandle
<1>2. /\ running = None /\ ready' = Tail(ready)
      /\ running' = IF Head(ready) \in cancelled THEN None ELSE Head(ready)
      /\ UNCHANGED <<now, timers, cancelled>>
  BY DEF PopHandle
<1>3. Kept(ready, cancelled) = IF Head(ready) \in cancelled THEN Kept(Tail(ready), cancelled)
                               ELSE << Head(ready) >> \o Kept(Tail(ready), cancelled)
  BY <1>1, KeptTail
<1>4. PICK q \in Seq(Handle) : q = Kept(Tail(ready), cancelled)
  <2>1. Tail(ready) \in Seq(Handle)
    BY <1>1
  <2>2. Kept(Tail(ready), cancelled) \in Seq(Handle)
    BY <2>1, KeptType
  <2>3. QED
    BY <2>2, Zenon
<1>5. Kept(ready', cancelled') = q /\ timers' \ cancelled' = timers \ cancelled
  BY <1>2, <1>4
<1>6. CASE Head(ready) \in cancelled
  <2>1. Kept(ready, cancelled) = q
    BY <1>3, <1>4, <1>6
  <2>2. QED
    BY <1>2, <1>5, <1>6, <2>1 DEF Abstract!vars
<1>7. CASE Head(ready) \notin cancelled
  <2>1. PICK h \in Handle : h = Head(ready)
    BY <1>1
  <2>2. Kept(ready, cancelled) = << h >> \o q
    BY <1>3, <1>4, <1>7, <2>1
  <2>3. /\ << h >> \o q # <<>> /\ Head(<< h >> \o q) = h /\ Tail(<< h >> \o q) = q
    OBVIOUS
  <2>4. running' = h
    BY <1>2, <1>7, <2>1
  <2>5. QED
    BY <1>2, <1>5, <2>2, <2>3, <2>4 DEF Abstract!Next, Abstract!Dispatch
<1>q. QED
  BY <1>6, <1>7

\* The loop with its heap, its tombstones and its steps implements the
\* scheduler of VirtualTime: nobody who runs on it can tell that a cancelled
\* handle is deleted later (_timer_handle_cancelled, _purge_cancelled_timers,
\* _fire_due_timers, _run_once).
THEOREM LoopIsVirtualTime == Spec => ImplementsVirtualTime
<1>1. Init => Abstract!Init
  <2> SUFFICES ASSUME Init PROVE Abstract!Init
    OBVIOUS
  <2>1. ready = <<>> /\ ready \in Seq(Handle)
    BY DEF Init
  <2>2. Kept(ready, cancelled) = <<>>
    BY <2>1, KeptType
  <2>3. QED
    BY <2>2 DEF Init, Abstract!Init
<1>2. IInv /\ [Next]_vars => [Abstract!Next]_(Abstract!vars)
  <2> SUFFICES ASSUME IInv, [Next]_vars PROVE [Abstract!Next]_(Abstract!vars)
    OBVIOUS
  <2>1. ASSUME NEW c \in Callback, CallSoon(c) PROVE [Abstract!Next]_(Abstract!vars)
    BY <2>1, CallSoonEnqueues DEF Abstract!Next
  <2>2. ASSUME NEW w \in 0..Inf, CallAt(w) PROVE [Abstract!Next]_(Abstract!vars)
    BY <2>2, CallAtSchedules
  <2>3. ASSUME NEW h \in timers \cup Queued, Cancel(h) PROVE [Abstract!Next]_(Abstract!vars)
    BY <2>3, CancelTakesOut
  <2>4. CASE \/ FinishWatched \/ Stop \/ AddHook \/ StartOp \/ Moves \/ BeginStep
             \/ EndStep \/ ResumeDrive \/ Ends \/ UNCHANGED vars
    <3>1. UNCHANGED <<now, queueVars>> /\ running' \in {running, None}
      BY <2>4 DEF FinishWatched, Stop, AddHook, StartOp, LimitSteps,
           RunUntilDone, RunOneMoreStep, RunForever, StartDrive, Moves,
           StepWithoutWork, BeginBatch, HandleReturns, EndBatch, BeginStep,
           EndStep, ResumeDrive, Ends, RefuseStep, Deadlock,
           HandleInterrupts, HooksRaise, DriveReturns, EndDrive, vars
    <3>2. QED
      BY <3>1, Unseen
  <2>5. CASE PurgeCancelledTimer
    BY <2>5, PurgeUnseen
  <2>6. CASE Autojump
    BY <2>6, AutojumpAdvances
  <2>7. CASE FireDueTimer
    BY <2>7, FireReleases
  <2>8. CASE PopHandle
    BY <2>8, PopDispatches
  <2>9. QED
    BY <2>1, <2>2, <2>3, <2>4, <2>5, <2>6, <2>7, <2>8, Cases DEF UserOp
<1>3. QED
  BY <1>1, <1>2, Invariance, PTL DEF Spec, ImplementsVirtualTime, Abstract!Spec
=============================================================================
