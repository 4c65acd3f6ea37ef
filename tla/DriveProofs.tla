---------------------------- MODULE DriveProofs ----------------------------
(* Proofs of the safety properties of one run of a scenario, for every     *)
(* number of tasks, steps, rounds, interrupts and properties.              *)
EXTENDS Drive, WellFoundedInduction, TLAPS

\* Where _drive is in each part of the run: what has been set up by then.
Control ==
    /\ pc = "idle" <=> phase \in {"start", "closed"}
    /\ phase = "start" <=> taskSeq = 0 /\ phase # "closed"
    /\ pc = "round" => phase = "teardown"
    /\ pc = "unwound" => phase \in {"settle", "onemore"} /\ notes # {}
    /\ pc \in {"top", "work"} => stopIn # 0
    /\ phase = "start" => stopIn = None
    /\ phase = "teardown" => tearingDown /\ (rounds = Rounds => pc = "round")

\* The errors: what is in flight in which part, and what is known of the first.
Errors ==
    /\ phase \in {"start", "run"} => failure = None /\ interrupts = 0
    /\ phase \in {"settle", "onemore"} => failure # None
    /\ ended = None <=> failure = None
    /\ interrupts > 0 <=> failure = Interruption
    /\ ended # None => failure = ended \/ (failure = Interruption /\ (ended \in notes \/ interrupts > 1))

\* Tasks: those that do not exist yet never ran; the scenario is over in
\* teardown unless settling it failed, and returned if there is no error.
Outcomes ==
    /\ phase = "start" => Pending = {}
    /\ phase = "teardown" => status[Main] \in Done \/ notes # {} \/ failure = Interruption
    /\ phase \in {"teardown", "closed"} /\ failure = None => status[Main] = "returned"

IInv ==
    /\ TypeOK /\ Control /\ Errors /\ Outcomes
    /\ NoChecksAfterFailure /\ SuccessIsEarned /\ NothingAbandonedSilently

-----------------------------------------------------------------------------
(* Lemmas about the operators.                                             *)

Status == {"none", "live", "blocked"} \cup Done

\* Every non-empty set of naturals has a least element.
LEMMA LeastNat ==
    ASSUME NEW S \in SUBSET Nat, S # {}
    PROVE  \E x \in S : \A y \in S : x <= y
<1> DEFINE R == {ss \in Nat \X Nat : ss[1] < ss[2]}
<1>1. R = OpToRel(<, Nat)
      BY DEF OpToRel
<1>2. IsWellFoundedOn(R, Nat)
      BY <1>1, NatLessThanWellFounded
<1>3. PICK x \in S : \A y \in S : ~(<<y, x>> \in R)
  <2> HIDE DEF R
  <2> QED BY <1>2, WFMin
<1>4. ASSUME NEW y \in S PROVE x <= y
  <2>1. x \in Nat /\ y \in Nat
        OBVIOUS
  <2>2. <<y, x>> \in R <=> y < x
        BY <2>1
  <2>3. QED BY <1>3, <2>1, <2>2
<1>5. QED BY <1>4

\* A set of existing tasks is one later, too, when there are more.
LEMMA ExistsGrows ==
    ASSUME NEW m \in Nat, NEW n \in Nat, m <= n, NEW S, S \subseteq 0..(m - 1)
    PROVE  S \subseteq 0..(n - 1)
      OBVIOUS

\* The scenario and the task of an error are errors of the right kind.
LEMMA ErrorKinds ==
    /\ \A t \in Task : <<"task", t>> \in Error /\ <<"task", t>> # Interruption
    /\ \A k \in {"usage", "cancelled", "invariant", "livelock", "deadlock",
                 "stopped", "teardown"} : <<k, 0>> \in Error /\ <<k, 0>> # Interruption
    /\ Interruption \in Error
      BY DEF Error, Interruption

\* What absorbing an error does to the one in flight and to its notes: there
\* is always an error in flight afterwards, an interrupt if e or the error
\* before was one; and e is reported.
LEMMA AbsorbEffect ==
    ASSUME TypeOK, NEW e \in Error, Absorb(e)
    PROVE  /\ failure' \in Error /\ notes' \subseteq Error /\ ended' \in Error \cup {None}
           /\ failure' # None
           /\ e = Interruption => failure' = Interruption
           /\ failure = Interruption => failure' = Interruption
           /\ e # Interruption /\ failure # None => failure' = failure /\ notes' = notes \cup {e}
           /\ failure' = e \/ e \in notes'
           /\ failure' = Interruption => failure = Interruption \/ e = Interruption
           /\ failure = None => ended' = failure'
           /\ failure # None => ended' = ended
           /\ failure # None /\ failure # Interruption => failure' = failure \/ failure \in notes'
<1>1. None \notin Error /\ failure \in Error \cup {None} /\ notes \subseteq Error
      /\ ended \in Error \cup {None} /\ Interruption \in Error
      BY NoErrorAssumption, ErrorKinds DEF TypeOK
<1>2. CASE failure = None
  <2>1. failure' = e /\ notes' = {} /\ ended' = e
        BY <1>2 DEF Absorb
  <2>2. QED BY <1>1, <1>2, <2>1
<1>3. CASE failure # None /\ e = Interruption
  <2>1. failure' = e /\ notes' = {failure} \ {e} /\ ended' = ended
        BY <1>3 DEF Absorb
  <2>2. QED BY <1>1, <1>3, <2>1
<1>4. CASE failure # None /\ e # Interruption
  <2>1. failure' = failure /\ notes' = notes \cup {e} /\ ended' = ended
        BY <1>4 DEF Absorb
  <2>2. QED BY <1>1, <1>4, <2>1
<1>5. QED BY <1>2, <1>3, <1>4

\* The outcome of a run that returned is an error or None; if it is None, the
\* scenario returned and no node failed.
LEMMA ResultTyped ==
    ASSUME TypeOK, status[Main] \in Done
    PROVE  /\ Result \in Error \cup {None} /\ Result # Interruption
           /\ Result = None => /\ status[Main] = "returned"
                               /\ \A t \in started : status[t] # "failed"
<1> DEFINE bad == {t \in started : status[t] = "failed"}
           m == CHOOSE t \in bad : \A u \in bad : t <= u
<1>1. Main \in Task
      BY DriveAssumption DEF Main, Task
<1>2. started \subseteq Task
      BY DriveAssumption DEF TypeOK, Exists, Task
<1>3. ASSUME bad # {} PROVE m \in Task
  <2>1. bad \subseteq Task
        BY <1>2
  <2>2. bad \in SUBSET Nat
        BY <2>1 DEF Task
  <2> HIDE DEF bad
  <2>3. \E t \in bad : \A u \in bad : t <= u
        BY <1>3, <2>2, LeastNat
  <2>4. m \in bad
        BY <2>3
  <2> HIDE DEF m
  <2>5. QED BY <2>1, <2>4
<1>4. Result = IF status[Main] = "failed" THEN <<"task", Main>>
               ELSE IF status[Main] = "cancelled" THEN <<"cancelled", 0>>
               ELSE IF bad = {} THEN None ELSE <<"task", m>>
      BY DEF Result
<1>5. None # Interruption
      BY ErrorKinds, NoErrorAssumption
<1> HIDE DEF m
<1>6. CASE status[Main] = "failed"
      BY <1>1, <1>4, <1>6, ErrorKinds, NoErrorAssumption
<1>7. CASE status[Main] = "cancelled"
      BY <1>4, <1>7, ErrorKinds, NoErrorAssumption
<1>8. CASE status[Main] = "returned" /\ bad = {}
      BY <1>4, <1>5, <1>8
<1>9. CASE status[Main] = "returned" /\ bad # {}
  <2>1. Result = <<"task", m>>
        BY <1>4, <1>9
  <2>2. QED BY <1>3, <1>9, <2>1, ErrorKinds, NoErrorAssumption
<1>10. QED BY <1>6, <1>7, <1>8, <1>9 DEF Done

-----------------------------------------------------------------------------
(* The invariant holds at first and is kept by every step.                 *)

\* The invariant holds before the run.
LEMMA InitInv == ASSUME Init PROVE IInv
<1> USE DriveAssumption, NoErrorAssumption DEF Init
<1>1. TypeOK
  <2>1. status \in [Task -> {"none", "live", "blocked"} \cup Done]
        OBVIOUS
  <2>2. /\ taskSeq \in 0..MaxTasks /\ invariants \in 0..MaxInvariants
        /\ rounds \in 0..Rounds /\ interrupts \in 0..MaxInterrupts /\ stepsLeft \in Nat
        OBVIOUS
  <2>3. QED BY <2>1, <2>2 DEF TypeOK
<1>2. Interruption # None
      BY ErrorKinds
<1>3. Control
      BY DEF Control
<1>4. Errors
      BY <1>2 DEF Errors
<1>5. Outcomes
      BY DEF Outcomes, Pending, Exists
<1>6. NoChecksAfterFailure /\ SuccessIsEarned /\ NothingAbandonedSilently
      BY DEF NoChecksAfterFailure, SuccessIsEarned, NothingAbandonedSilently
<1>7. QED BY <1>1, <1>3, <1>4, <1>5, <1>6 DEF IInv

\* What a task does within a step: the tasks, the registered properties and
\* the request to stop change, the scenario only if it is not done.
TaskStep ==
    /\ pc = "work"
    /\ status' \in [Task -> Status] /\ taskSeq' \in 0..MaxTasks /\ taskSeq <= taskSeq'
    /\ started' \subseteq 0..(taskSeq' - 1) /\ cancelReq' \subseteq 0..(taskSeq' - 1)
    /\ status[Main] \in Done => status'[Main] = status[Main]
    /\ invariants' \in 0..MaxInvariants /\ hookIn' \in BOOLEAN /\ installed' \in BOOLEAN
    /\ tearingDown => hookIn' = hookIn
    /\ first' \in Error \cup {None} /\ stopping' \in BOOLEAN
    /\ cancelReq' \subseteq cancelReq \cup {Main}
    /\ UNCHANGED <<tearingDown, phase, pc, stopIn, stepsLeft, awaited, rounds, errVars, interrupts>>

\* Every operation of a task is such a step.
LEMMA TaskOpIsTaskStep == ASSUME IInv, TaskOp PROVE TaskStep
<1> USE DriveAssumption
<1>1. TypeOK /\ status \in [Task -> Status]
      BY DEF IInv, TypeOK, Status
<1>2. PICK t \in Live :
         \/ Return(t) \/ Fail(t) \/ EndCancelled(t) \/ Swallow(t) \/ Block(t)
         \/ \E u \in Pending : Wake(t, u)
         \/ \E x \in BOOLEAN : Spawn(t, x)
         \/ CancelMain(t) \/ Always(t) \/ StopLoop(t)
      BY DEF TaskOp
<1>3. t \in Exists /\ t \in Task /\ status[t] = "live" /\ taskSeq \in 1..MaxTasks /\ Main \in Exists
      /\ Main \in Task /\ (t = Main => status[Main] \notin Done) /\ <<"task", t>> \in Error
  <2>1. t \in Exists /\ status[t] = "live"
        BY DEF Live
  <2>2. taskSeq \in 0..MaxTasks
        BY <1>1 DEF TypeOK
  <2>3. t \in Task /\ taskSeq \in 1..MaxTasks
        BY <2>1, <2>2 DEF Exists, Task
  <2>4. QED BY <2>1, <2>3, ErrorKinds DEF Exists, Main, Done, Task
<1>4. /\ started \subseteq Exists /\ cancelReq \subseteq Exists
      /\ first \in Error \cup {None} /\ invariants \in 0..MaxInvariants
      /\ hookIn \in BOOLEAN /\ installed \in BOOLEAN /\ stopping \in BOOLEAN
      BY <1>1 DEF TypeOK
<1> USE <1>1, <1>3, <1>4 DEF TaskStep, Acts, hookVars, loopVars, histVars, taskVars, Exists
<1>5. CASE Return(t)
      BY <1>5 DEF Return, Status, Done
<1>6. CASE Fail(t)
      BY <1>6 DEF Fail, Status, Done, Remember
<1>7. CASE EndCancelled(t)
      BY <1>7 DEF EndCancelled, Status, Done
<1>8. CASE Swallow(t)
      BY <1>8 DEF Swallow
<1>9. CASE Block(t)
      BY <1>9 DEF Block, Status
<1>10. CASE \E u \in Pending : Wake(t, u)
  <2>1. PICK u \in Pending : Wake(t, u)
        BY <1>10
  <2>2. u \in Exists /\ status[u] \notin Done
        BY DEF Pending
  <2>3. status' = [status EXCEPT ![u] = "live"]
        BY <2>1 DEF Wake
  <2>4. status' \in [Task -> Status] /\ (status[Main] \in Done => status'[Main] = status[Main])
        BY <2>2, <2>3 DEF Status
  <2>5. QED BY <2>1, <2>4 DEF Wake
<1>11. CASE \E x \in BOOLEAN : Spawn(t, x)
  <2>1. PICK x \in BOOLEAN : Spawn(t, x)
        BY <1>11
  <2>2. /\ taskSeq < MaxTasks /\ taskSeq' = taskSeq + 1 /\ cancelReq' = cancelReq
        /\ status' = [status EXCEPT ![taskSeq] = "live"]
        /\ started' = started \/ started' = started \cup {taskSeq}
        BY <2>1 DEF Spawn
  <2>3. taskSeq \in Task /\ taskSeq # Main /\ taskSeq' \in 0..MaxTasks /\ taskSeq <= taskSeq'
        BY <2>2 DEF Task, Main
  <2>4. status' \in [Task -> Status] /\ status'[Main] = status[Main]
        BY <2>2, <2>3 DEF Status
  <2>5. started' \subseteq 0..(taskSeq' - 1) /\ cancelReq' \subseteq 0..(taskSeq' - 1)
    <3>0. taskSeq \in Nat /\ taskSeq' \in Nat
          BY <2>2
    <3> HIDE <1>1, <1>3, <1>4, DriveAssumption DEF TaskStep
    <3>1. started \subseteq 0..(taskSeq' - 1) /\ cancelReq \subseteq 0..(taskSeq' - 1)
          BY <1>4, <2>3, <3>0, ExistsGrows
    <3>2. taskSeq \in 0..(taskSeq' - 1)
          BY <2>2, <3>0
    <3>3. QED BY <2>2, <3>1, <3>2
  <2>6. QED BY <2>1, <2>2, <2>3, <2>4, <2>5 DEF Spawn
<1>12. CASE CancelMain(t)
      BY <1>12 DEF CancelMain, CancelTasks, Pending, Status
<1>13. CASE Always(t)
      BY <1>13 DEF Always
<1>14. CASE StopLoop(t)
      BY <1>14 DEF StopLoop
<1>15. QED BY <1>2, <1>5, <1>6, <1>7, <1>8, <1>9, <1>10, <1>11, <1>12, <1>13, <1>14

\* Such a step keeps the invariant.
LEMMA TaskStepInv == ASSUME IInv, TaskStep PROVE IInv'
<1> USE DEF TaskStep
<1>1. phase \notin {"start", "closed"}
      BY DEF IInv, Control
<1>2. TypeOK'
  <2>1. TypeOK /\ taskSeq \in 0..MaxTasks /\ awaited \subseteq 0..(taskSeq - 1)
        BY DEF IInv, TypeOK, Exists
  <2>2. awaited' \subseteq 0..(taskSeq' - 1)
    <3>1. taskSeq \in Nat /\ taskSeq' \in Nat /\ taskSeq <= taskSeq' /\ awaited' = awaited
          BY <2>1, DriveAssumption
    <3>2. QED BY <2>1, <3>1, ExistsGrows
  <2>3. QED BY <2>1, <2>2 DEF TypeOK, Exists, Status, errVars
<1>3. Control'
      BY <1>1 DEF IInv, Control, errVars, TypeOK
<1>4. Errors'
      BY DEF IInv, Errors, errVars
<1>5. Outcomes'
      BY <1>1 DEF IInv, Outcomes, errVars, Done
<1>6. NoChecksAfterFailure'
      BY DEF IInv, Control, NoChecksAfterFailure, errVars
<1>7. SuccessIsEarned'
      BY <1>1 DEF IInv, Control, SuccessIsEarned, errVars
<1>8. NothingAbandonedSilently'
      BY <1>1 DEF NothingAbandonedSilently
<1>9. QED BY <1>2, <1>3, <1>4, <1>5, <1>6, <1>7, <1>8 DEF IInv

\* An error that leaves the loop: it is an interrupt exactly if one is counted,
\* and in teardown one of those that may cut it short.
Leaves(e, st) ==
    /\ LeaveLoop(e, st)
    /\ e \in Error /\ st \in [Task -> Status]
    /\ phase \notin {"start", "closed"}
    /\ phase = "teardown" =>
          e \in {<<"teardown", 0>>, <<"deadlock", 0>>, <<"invariant", 0>>, Interruption}
    /\ interrupts' \in 0..MaxInterrupts
    /\ IF e = Interruption THEN interrupts' = interrupts + 1 ELSE interrupts' = interrupts

\* An error that is absorbed after the run keeps the errors' part of the
\* invariant, and is reported.
LEMMA AbsorbErrors ==
    ASSUME TypeOK, Errors, NEW e \in Error, Absorb(e), phase' \notin {"start", "run"},
           interrupts' \in Nat,
           IF e = Interruption THEN interrupts' = interrupts + 1 ELSE interrupts' = interrupts
    PROVE  Errors' /\ failure' # None /\ e \in Reported'
<1> DEFINE A ==
             /\ failure' # None
             /\ e = Interruption => failure' = Interruption
             /\ failure = Interruption => failure' = Interruption
             /\ e # Interruption /\ failure # None => failure' = failure /\ notes' = notes \cup {e}
             /\ failure' = e \/ e \in notes'
             /\ failure' = Interruption => failure = Interruption \/ e = Interruption
             /\ failure = None => ended' = failure'
             /\ failure # None => ended' = ended
             /\ failure # None /\ failure # Interruption => failure' = failure \/ failure \in notes'
<1>1. A
      BY AbsorbEffect
<1>2. interrupts \in Nat
      BY DriveAssumption DEF TypeOK
<1>3. ended' = None <=> failure' = None
      BY <1>1 DEF Errors
<1>4. interrupts' > 0 <=> failure' = Interruption
      BY <1>1, <1>2 DEF Errors
<1>5. failure' = ended' \/ (failure' = Interruption /\ (ended' \in notes' \/ interrupts' > 1))
  <2>1. CASE failure = None
        BY <1>1, <2>1
  <2>2. CASE failure # None /\ e # Interruption
        BY <1>1, <2>2 DEF Errors
  <2>3. CASE failure # None /\ e = Interruption
        BY <1>1, <1>2, <2>3 DEF Errors
  <2>4. QED BY <2>1, <2>2, <2>3
<1>6. Errors'
      BY <1>1, <1>3, <1>4, <1>5 DEF Errors
<1>7. QED BY <1>1, <1>6 DEF Reported

\* An error that leaves the loop keeps the errors' part of the invariant, and
\* one that closes it is of a kind that may cut teardown short.
LEMMA LeaveLoopErrors ==
    ASSUME IInv, NEW e, NEW st, Leaves(e, st)
    PROVE  Errors' /\ failure' # None /\ (phase' = "closed" => Reported' \cap
              {<<"teardown", 0>>, <<"deadlock", 0>>, <<"invariant", 0>>, Interruption} # {})
<1>1. e \in Error /\ Absorb(e) /\ phase' \notin {"start", "run"}
      BY DEF Leaves, LeaveLoop, FailRun, EnterTeardown
<1>2. interrupts' \in Nat
      BY DriveAssumption DEF Leaves
<1>3. Errors' /\ failure' # None /\ e \in Reported'
      BY <1>1, <1>2, AbsorbErrors DEF IInv, Leaves
<1>4. phase' = "closed" =>
          e \in {<<"teardown", 0>>, <<"deadlock", 0>>, <<"invariant", 0>>, Interruption}
      BY DEF Leaves, LeaveLoop, FailRun, EnterTeardown
<1>5. QED BY <1>3, <1>4

\* An error that leaves the loop keeps the invariant.
LEMMA LeaveLoopInv == ASSUME IInv, NEW e, NEW st, Leaves(e, st) PROVE IInv'
<1>1. Errors' /\ failure' # None
      BY LeaveLoopErrors
<1>2. TypeOK /\ e \in Error /\ Absorb(e) /\ st \in [Task -> Status]
      BY DEF IInv, Leaves, LeaveLoop, FailRun
<1>3. /\ failure' \in Error /\ notes' \subseteq Error /\ ended' \in Error \cup {None}
      /\ e # Interruption /\ failure # None => notes' = notes \cup {e}
      /\ e = Interruption => failure' = Interruption
      BY <1>2, AbsorbEffect
<1>4. taskSeq \in 1..MaxTasks /\ taskSeq' = taskSeq /\ Main \in Exists /\ Main \in Task
  <2>1. taskSeq \in 0..MaxTasks /\ taskSeq # 0
        BY <1>2 DEF TypeOK, IInv, Control, Leaves
  <2>2. taskSeq' = taskSeq
        BY DEF Leaves, LeaveLoop
  <2>3. QED BY <2>1, <2>2, DriveAssumption DEF Exists, Main, Task
<1>5. /\ status' \in [Task -> Status] /\ cancelReq' \subseteq Exists /\ awaited' \subseteq Exists
      /\ stopIn' \in {0, 1, 2, None} /\ stepsLeft' \in Nat /\ rounds' \in 0..Rounds
      /\ pc' \in {"idle", "top", "work", "returned", "unwound", "round"}
      /\ phase' \in {"settle", "onemore", "teardown", "closed"}
      /\ hookIn' \in BOOLEAN /\ tearingDown' \in BOOLEAN /\ stopping' \in BOOLEAN
  <2>1. /\ cancelReq \subseteq Exists /\ awaited \subseteq Exists /\ stopIn \in {0, 1, 2, None}
        /\ stepsLeft \in Nat /\ rounds \in 0..Rounds /\ hookIn \in BOOLEAN /\ tearingDown \in BOOLEAN
        BY <1>2 DEF TypeOK
  <2>2. CASE phase = "run" /\ FailRun(e, st)
        BY <1>2, <1>4, <2>1, <2>2, DriveAssumption DEF FailRun, Status, Leaves, LeaveLoop
  <2>3. CASE phase \in {"settle", "onemore"} /\ e = Interruption
    <3>1. EnterTeardown /\ status' = st /\ UNCHANGED <<cancelReq, stepsLeft>> /\ stopping' = FALSE
          BY <2>3 DEF Leaves, LeaveLoop
    <3>2. hookIn' \in BOOLEAN
          BY <3>1, Zenon DEF EnterTeardown
    <3>3. /\ phase' = "teardown" /\ pc' = "round" /\ tearingDown' = TRUE
          /\ stopIn' = None /\ awaited' = {} /\ rounds' = Rounds
          BY <3>1 DEF EnterTeardown
    <3>4. status' \in [Task -> Status] /\ cancelReq' \subseteq Exists /\ stepsLeft' \in Nat
          BY <1>2, <2>1, <3>1
    <3>5. awaited' \subseteq Exists /\ rounds' \in 0..Rounds /\ stopIn' \in {0, 1, 2, None}
          BY <3>3, DriveAssumption
    <3>6. stopping' \in BOOLEAN /\ tearingDown' \in BOOLEAN
          BY <3>1, <3>3
    <3>7. QED BY <3>2, <3>3, <3>4, <3>5, <3>6, Zenon
  <2>4. CASE phase \in {"settle", "onemore"} /\ e # Interruption
        BY <1>2, <2>1, <2>4 DEF Leaves, LeaveLoop
  <2>5. CASE phase = "teardown"
        BY <1>2, <2>1, <2>5 DEF Leaves, LeaveLoop
  <2>6. QED BY <2>2, <2>3, <2>4, <2>5 DEF Leaves, LeaveLoop
<1>6. TypeOK'
  <2>1. first' \in Error \cup {None}
        BY <1>2 DEF TypeOK, Leaves, LeaveLoop, Remember
  <2>2. UNCHANGED <<taskSeq, started, invariants, installed>> /\ interrupts' \in 0..MaxInterrupts
        BY DEF Leaves, LeaveLoop
  <2>3. QED BY <1>2, <1>3, <1>5, <2>1, <2>2 DEF TypeOK, Status, Exists
<1>7. Control'
  <2>1. CASE phase = "run" /\ FailRun(e, st)
        BY <1>4, <2>1, NoErrorAssumption DEF FailRun, Control
  <2>2. CASE phase \in {"settle", "onemore"} /\ e = Interruption
        BY <1>4, <2>2 DEF Leaves, LeaveLoop, EnterTeardown, Control
  <2>3. CASE phase \in {"settle", "onemore"} /\ e # Interruption
    <3>1. failure # None
          BY <2>3 DEF IInv, Errors
    <3>2. QED BY <1>3, <1>4, <2>3, <3>1 DEF Leaves, LeaveLoop, Control
  <2>4. CASE phase = "teardown"
        BY <1>4, <2>4 DEF Leaves, LeaveLoop, Control
  <2>5. QED BY <2>1, <2>2, <2>3, <2>4 DEF Leaves, LeaveLoop
<1>8. Outcomes'
      BY <1>1, <1>3 DEF Leaves, LeaveLoop, FailRun, EnterTeardown, Outcomes
<1>9. NoChecksAfterFailure'
      BY <1>1 DEF Leaves, LeaveLoop, FailRun, EnterTeardown, NoChecksAfterFailure
<1>10. SuccessIsEarned'
      BY <1>1 DEF SuccessIsEarned
<1>11. NothingAbandonedSilently'
      BY LeaveLoopErrors DEF NothingAbandonedSilently
<1>12. QED BY <1>1, <1>6, <1>7, <1>8, <1>9, <1>10, <1>11 DEF IInv

\* The steps in which an error leaves the loop.
ErrorStep ==
    \/ \E t \in Live, own \in BOOLEAN : Interrupt(t, own)
    \/ LimitReached \/ Deadlock \/ CheckFails \/ StoppedInRun \/ RoundsExhausted

\* Such a step raises an error as Leaves says.
LEMMA ErrorStepLeaves == ASSUME IInv, ErrorStep PROVE \E e, st : Leaves(e, st)
<1>1. TypeOK /\ status \in [Task -> Status] /\ interrupts \in Nat /\ interrupts \in 0..MaxInterrupts
      BY DriveAssumption DEF IInv, TypeOK, Status
<1>2. ASSUME NEW t \in Live, NEW own \in BOOLEAN, Interrupt(t, own)
      PROVE  Leaves(Interruption, IF own THEN [status EXCEPT ![t] = "failed"] ELSE status)
  <2>1. (IF own THEN [status EXCEPT ![t] = "failed"] ELSE status) \in [Task -> Status]
        BY <1>1 DEF Status, Done
  <2>2. pc = "work" /\ interrupts' = interrupts + 1 /\ interrupts < MaxInterrupts
        /\ LeaveLoop(Interruption, IF own THEN [status EXCEPT ![t] = "failed"] ELSE status)
        BY <1>2 DEF Interrupt, Acts
  <2>3. phase \notin {"start", "closed"}
        BY <2>2 DEF IInv, Control
  <2>4. interrupts' \in 0..MaxInterrupts
        BY <1>1, <2>2, DriveAssumption
  <2>5. QED BY <2>1, <2>2, <2>3, <2>4, ErrorKinds DEF Leaves
<1>3. ASSUME LimitReached
      PROVE  Leaves(<<IF phase = "run" THEN "livelock" ELSE "teardown", 0>>, status)
      BY <1>1, <1>3, ErrorKinds DEF LimitReached, Leaves, IInv, Control
<1>4. ASSUME Deadlock PROVE Leaves(<<"deadlock", 0>>, status)
      BY <1>1, <1>4, ErrorKinds DEF Deadlock, Leaves, IInv, Control
<1>5. ASSUME CheckFails PROVE Leaves(<<"invariant", 0>>, status)
      BY <1>1, <1>5, ErrorKinds DEF CheckFails, Leaves, IInv, Control
<1>6. ASSUME StoppedInRun PROVE Leaves(<<"stopped", 0>>, status)
      BY <1>1, <1>6, ErrorKinds DEF StoppedInRun, Leaves
<1>7. ASSUME RoundsExhausted PROVE Leaves(<<"teardown", 0>>, status)
      BY <1>1, <1>7, ErrorKinds DEF RoundsExhausted, Leaves
<1>8. QED BY <1>2, <1>3, <1>4, <1>5, <1>6, <1>7 DEF ErrorStep

\* The steps of the loop and of _drive in which no error leaves the loop keep
\* the invariant.
LEMMA DriveStepInv ==
    ASSUME IInv,
           \/ Refuse \/ Start \/ BeginStep \/ EndStep \/ RunReturns \/ SettleAgain \/ Settled
           \/ BeginRound \/ RoundPassEnds \/ Finished
    PROVE  IInv'
<1> USE DEF taskVars, hookVars, loopVars, errVars, histVars
<1>1. /\ TypeOK /\ Control /\ Errors /\ Outcomes
      /\ NoChecksAfterFailure /\ SuccessIsEarned /\ NothingAbandonedSilently
      BY DEF IInv
<1>2. taskSeq \in 0..MaxTasks /\ taskSeq \in Nat /\ Interruption # None
      BY <1>1, DriveAssumption, NoErrorAssumption, ErrorKinds DEF TypeOK
<1>3. CASE Refuse
  <2>1. /\ phase = "start" /\ phase' = "closed" /\ failure' = <<"usage", 0>> /\ ended' = failure'
        /\ UNCHANGED <<taskVars, hookVars, loopVars, rounds, notes, histVars>>
        BY <1>3 DEF Refuse
  <2>2. failure' \in Error /\ failure' # Interruption /\ failure' # None
        BY <2>1, ErrorKinds, NoErrorAssumption
  <2>3. TypeOK'
        BY <1>1, <2>1, <2>2 DEF TypeOK, Exists
  <2>4. Control' /\ Outcomes' /\ Pending' = {}
        BY <1>1, <2>1, <2>2 DEF Control, Outcomes, Pending, Exists
  <2>5. Errors'
        BY <1>1, <2>1, <2>2 DEF Errors
  <2>6. NoChecksAfterFailure' /\ SuccessIsEarned' /\ NothingAbandonedSilently'
        BY <2>1, <2>2, <2>4 DEF NoChecksAfterFailure, SuccessIsEarned, NothingAbandonedSilently
  <2>7. QED BY <2>3, <2>4, <2>5, <2>6 DEF IInv
<1>4. CASE Start
  <2>1. /\ phase = "start" /\ phase' = "run" /\ pc' = "top" /\ stepsLeft' = MaxSteps
        /\ status' = [status EXCEPT ![Main] = "live"] /\ taskSeq' = 1 /\ awaited' = {Main}
        /\ UNCHANGED <<started, cancelReq, hookVars, stopIn, stopping, rounds, errVars, histVars>>
        BY <1>4 DEF Start
  <2>2. Main \in 0..(1 - 1) /\ 1 \in 0..MaxTasks
        BY DriveAssumption DEF Main
  <2>3. started' \subseteq 0..(1 - 1) /\ cancelReq' \subseteq 0..(1 - 1)
    <3>1. taskSeq = 0
          BY <1>1, <2>1 DEF Control
    <3>2. started \subseteq 0..(0 - 1) /\ cancelReq \subseteq 0..(0 - 1)
          BY <1>1, <3>1 DEF TypeOK, Exists
    <3>3. QED BY <2>1, <3>2
  <2>4. TypeOK'
        BY <1>1, <2>1, <2>2, <2>3, DriveAssumption DEF TypeOK, Exists
  <2>5. Control'
        BY <1>1, <2>1, NoErrorAssumption DEF Control
  <2>6. Errors' /\ Outcomes'
        BY <1>1, <2>1 DEF Errors, Outcomes
  <2>7. NoChecksAfterFailure' /\ SuccessIsEarned' /\ NothingAbandonedSilently'
        BY <2>1 DEF NoChecksAfterFailure, SuccessIsEarned, NothingAbandonedSilently
  <2>8. QED BY <2>4, <2>5, <2>6, <2>7 DEF IInv
<1>5. CASE BeginStep
  <2>1. /\ pc = "top" /\ pc' = "work" /\ stepsLeft > 0 /\ stepsLeft' = stepsLeft - 1
        /\ phase \in {"run", "settle", "onemore", "teardown"}
        /\ UNCHANGED <<taskVars, hookVars, phase, stopIn, stopping, awaited, rounds, errVars, histVars>>
        BY <1>5 DEF BeginStep
  <2>2. stepsLeft' \in Nat
        BY <1>1, <2>1 DEF TypeOK
  <2>3. TypeOK'
        BY <1>1, <2>1, <2>2 DEF TypeOK, Exists
  <2>4. Control' /\ Errors' /\ Outcomes'
        BY <1>1, <2>1 DEF Control, Errors, Outcomes
  <2>5. NoChecksAfterFailure' /\ SuccessIsEarned' /\ NothingAbandonedSilently'
        BY <1>1, <2>1 DEF Control, NoChecksAfterFailure, SuccessIsEarned, NothingAbandonedSilently
  <2>6. QED BY <2>3, <2>4, <2>5 DEF IInv
<1>6. CASE EndStep
  <2>1. /\ pc = "work" /\ hookIn' = (hookIn /\ ~ClearsHooks) /\ stopping' = FALSE
        /\ UNCHANGED <<taskVars, invariants, installed, tearingDown, phase, stepsLeft, awaited,
                       rounds, errVars, histVars>>
        BY <1>6 DEF EndStep
  <2>2. stopIn \in {1, 2, None}
        BY <1>1, <2>1 DEF TypeOK, Control
  <2>3. NextStopIn \in {0, 1, 2, None}
        BY <2>2 DEF NextStopIn
  <2>4. /\ stopIn' \in {0, 1, 2, None} /\ pc' \in {"top", "returned"}
        /\ pc' = "top" => stopIn' # 0
        BY <1>6, <2>3 DEF EndStep
  <2>5. hookIn' \in BOOLEAN
        BY <2>1, Zenon
  <2>6. hookIn' => hookIn
        BY <2>1, Zenon
  <2>7. phase \notin {"start", "closed"}
        BY <1>1, <2>1 DEF Control
  <2>8. TypeOK'
        BY <1>1, <2>1, <2>4, <2>5 DEF TypeOK, Exists
  <2>9. Control'
        BY <1>1, <2>1, <2>4, <2>7 DEF Control
  <2>10. Errors' /\ Outcomes'
    <3>1. UNCHANGED <<status, taskSeq, phase, failure, notes, ended, interrupts>>
          BY <2>1
    <3>2. QED BY <1>1, <2>7, <3>1 DEF Errors, Outcomes
  <2>11. NoChecksAfterFailure'
        BY <1>1, <2>1, <2>6 DEF NoChecksAfterFailure
  <2>12. SuccessIsEarned' /\ NothingAbandonedSilently'
        BY <1>1, <2>1, <2>7 DEF Control, SuccessIsEarned, NothingAbandonedSilently
  <2>13. QED BY <2>8, <2>9, <2>10, <2>11, <2>12 DEF IInv
<1>7. CASE RunReturns
  <2>1. /\ phase = "run" /\ status[Main] \in Done /\ failure' = Result /\ ended' = Result
        /\ stepsLeft' = TeardownSteps
        /\ UNCHANGED <<taskVars, invariants, installed, stopping, notes, histVars>>
        /\ EnterTeardown
        BY <1>7 DEF RunReturns
  <2>2. /\ phase' = "teardown" /\ pc' = "round" /\ tearingDown' = TRUE
        /\ stopIn' = None /\ awaited' = {} /\ rounds' = Rounds
        BY <2>1 DEF EnterTeardown
  <2>3. hookIn' \in BOOLEAN /\ (hookIn' => failure' = None)
        BY <2>1, Zenon DEF EnterTeardown
  <2>4. /\ failure' \in Error \cup {None} /\ failure' # Interruption
        /\ failure' = None => /\ status[Main] = "returned"
                              /\ \A t \in started : status[t] # "failed"
        BY <1>1, <2>1, ResultTyped
  <2>5. TypeOK'
        BY <1>1, <2>1, <2>2, <2>3, <2>4, DriveAssumption DEF TypeOK, Exists
  <2>6. Control'
        BY <1>1, <2>1, <2>2 DEF Control
  <2>7. Errors'
        BY <1>1, <2>1, <2>2, <2>4 DEF Errors
  <2>8. Outcomes'
        BY <2>1, <2>2, <2>4 DEF Outcomes
  <2>9. NoChecksAfterFailure' /\ SuccessIsEarned' /\ NothingAbandonedSilently'
        BY <2>1, <2>2, <2>3, <2>4 DEF NoChecksAfterFailure, SuccessIsEarned, NothingAbandonedSilently
  <2>10. QED BY <2>5, <2>6, <2>7, <2>8, <2>9 DEF IInv
<1>8. CASE SettleAgain
  <2>1. /\ phase = "settle" /\ pc = "returned" /\ pc' = "top" /\ stopIn' = None
        /\ UNCHANGED <<taskVars, hookVars, phase, stopping, stepsLeft, awaited, rounds, errVars,
                       histVars>>
        BY <1>8 DEF SettleAgain
  <2>2. TypeOK'
        BY <1>1, <2>1 DEF TypeOK, Exists
  <2>3. Control' /\ Errors' /\ Outcomes'
        BY <1>1, <2>1, NoErrorAssumption DEF Control, Errors, Outcomes
  <2>4. NoChecksAfterFailure' /\ SuccessIsEarned' /\ NothingAbandonedSilently'
        BY <2>1 DEF NoChecksAfterFailure, SuccessIsEarned, NothingAbandonedSilently
  <2>5. QED BY <2>2, <2>3, <2>4 DEF IInv
<1>9. CASE Settled
  <2>1. /\ phase \in {"settle", "onemore"} /\ (pc = "unwound" \/ status[Main] \in Done)
        /\ UNCHANGED <<taskVars, invariants, installed, stopping, stepsLeft, histVars>>
        /\ EnterTeardown
        BY <1>9 DEF Settled
  <2>2. /\ phase' = "teardown" /\ pc' = "round" /\ tearingDown' = TRUE
        /\ stopIn' = None /\ awaited' = {} /\ rounds' = Rounds
        BY <2>1 DEF EnterTeardown
  <2>3. hookIn' \in BOOLEAN /\ (hookIn' => failure' = None)
        BY <2>1, Zenon DEF EnterTeardown
  <2>4. taskSeq # 0 /\ failure # None
        BY <1>1, <2>1 DEF Control, Errors
  <2>5. /\ Errors' /\ failure' # None /\ (notes # {} => notes' # {})
        /\ failure' \in Error \cup {None} /\ notes' \subseteq Error /\ ended' \in Error \cup {None}
    <3> DEFINE e == <<"task", Main>>
    <3>1. CASE Absorb(e)
      <4>1. e \in Error /\ e # Interruption
            BY ErrorKinds, DriveAssumption DEF Main, Task
      <4>2. interrupts' \in Nat /\ interrupts' = interrupts
            BY <1>1, <2>1, DriveAssumption DEF TypeOK
      <4>3. phase' \notin {"start", "run"}
            BY <2>2
      <4> HIDE DEF e
      <4>4. Errors'
            BY <1>1, <3>1, <4>1, <4>2, <4>3, AbsorbErrors
      <4>5. QED BY <1>1, <2>4, <3>1, <4>1, <4>4, AbsorbEffect
    <3>2. CASE UNCHANGED errVars
          BY <1>1, <2>1, <2>2, <2>4, <3>2 DEF Errors, TypeOK
    <3>3. QED BY <1>9, <3>1, <3>2 DEF Settled
  <2>6. TypeOK'
        BY <1>1, <2>1, <2>2, <2>3, <2>5, DriveAssumption DEF TypeOK, Exists
  <2>7. Control'
        BY <2>1, <2>2, <2>4 DEF Control
  <2>8. Outcomes'
        BY <1>1, <2>1, <2>2, <2>5 DEF Control, Outcomes
  <2>9. NoChecksAfterFailure' /\ SuccessIsEarned' /\ NothingAbandonedSilently'
        BY <2>2, <2>3, <2>5 DEF NoChecksAfterFailure, SuccessIsEarned, NothingAbandonedSilently
  <2>10. QED BY <2>5, <2>6, <2>7, <2>8, <2>9 DEF IInv
<1>10. CASE BeginRound
  <2>1. /\ phase = "teardown" /\ rounds > 0 /\ rounds' = rounds - 1 /\ awaited' = Pending
        /\ stepsLeft' = TeardownSteps /\ stopIn' = None /\ pc' = "top"
        /\ cancelReq' = cancelReq \cup Pending
        /\ status' = [t \in Task |-> IF t \in Pending THEN "live" ELSE status[t]]
        /\ UNCHANGED <<taskSeq, started, hookVars, phase, stopping, errVars, histVars>>
        BY <1>10 DEF BeginRound, CancelTasks
  <2>2. Pending \subseteq Exists /\ (status[Main] \in Done => Main \notin Pending) /\ Main \in Task
        BY DriveAssumption DEF Pending, Main, Task
  <2>3. rounds' \in 0..Rounds /\ rounds' # Rounds
        BY <1>1, <2>1, DriveAssumption DEF TypeOK
  <2>4. TypeOK'
        BY <1>1, <2>1, <2>2, <2>3, DriveAssumption DEF TypeOK, Exists
  <2>5. Control'
        BY <1>1, <2>1, <2>3, NoErrorAssumption DEF Control
  <2>6. Errors'
        BY <1>1, <2>1 DEF Errors
  <2>7. Outcomes'
        BY <1>1, <2>1, <2>2 DEF Outcomes, Done
  <2>8. NoChecksAfterFailure' /\ SuccessIsEarned' /\ NothingAbandonedSilently'
        BY <1>1, <2>1, <2>3 DEF NoChecksAfterFailure, SuccessIsEarned, NothingAbandonedSilently
  <2>9. QED BY <2>4, <2>5, <2>6, <2>7, <2>8 DEF IInv
<1>11. CASE RoundPassEnds
  <2>1. /\ phase = "teardown" /\ pc = "returned" /\ pc' \in {"round", "top"} /\ stopIn' = None
        /\ UNCHANGED <<taskVars, hookVars, phase, stopping, stepsLeft, awaited, rounds, errVars,
                       histVars>>
        BY <1>11 DEF RoundPassEnds
  <2>2. TypeOK'
        BY <1>1, <2>1 DEF TypeOK, Exists
  <2>3. Control' /\ Errors' /\ Outcomes'
        BY <1>1, <2>1, NoErrorAssumption DEF Control, Errors, Outcomes
  <2>4. NoChecksAfterFailure' /\ SuccessIsEarned' /\ NothingAbandonedSilently'
        BY <1>1, <2>1 DEF NoChecksAfterFailure, SuccessIsEarned, NothingAbandonedSilently
  <2>5. QED BY <2>2, <2>3, <2>4 DEF IInv
<1>12. CASE Finished
  <2>1. /\ phase = "teardown" /\ Pending = {} /\ phase' = "closed" /\ pc' = "idle"
        /\ UNCHANGED <<taskVars, hookVars, stopIn, stopping, stepsLeft, awaited, rounds, errVars,
                       histVars>>
        BY <1>12 DEF Finished
  <2>2. TypeOK'
        BY <1>1, <2>1 DEF TypeOK, Exists
  <2>3. Control' /\ Errors' /\ Outcomes'
        BY <1>1, <2>1 DEF Control, Errors, Outcomes
  <2>4. Pending' = {}
        BY <2>1 DEF Pending, Exists
  <2>5. NoChecksAfterFailure' /\ SuccessIsEarned' /\ NothingAbandonedSilently'
        BY <1>1, <2>1, <2>4 DEF Outcomes, NoChecksAfterFailure, SuccessIsEarned, NothingAbandonedSilently
  <2>6. QED BY <2>2, <2>3, <2>5 DEF IInv
<1>13. QED BY <1>3, <1>4, <1>5, <1>6, <1>7, <1>8, <1>9, <1>10, <1>11, <1>12

\* Every step is one of these.
LEMMA NextCases ==
    ASSUME [Next]_vars
    PROVE  \/ TaskOp
           \/ ErrorStep
           \/ Refuse \/ Start \/ BeginStep \/ EndStep \/ RunReturns \/ SettleAgain \/ Settled
              \/ BeginRound \/ RoundPassEnds \/ Finished
           \/ UNCHANGED vars
      BY DEF Next, DriveStep, ErrorStep, Closed

\* The inductive invariant holds throughout.
LEMMA Invariance == Spec => []IInv
<1>1. Init => IInv
      BY InitInv
<1>2. ASSUME IInv, [Next]_vars PROVE IInv'
  <2>1. CASE TaskOp
        BY <1>2, <2>1, TaskOpIsTaskStep, TaskStepInv
  <2>2. CASE ErrorStep
        BY <1>2, <2>2, ErrorStepLeaves, LeaveLoopInv
  <2>3. CASE UNCHANGED vars
        BY <1>2, <2>3 DEF vars, taskVars, hookVars, loopVars, errVars, histVars, IInv, TypeOK,
           Control, Errors, Outcomes, NoChecksAfterFailure, SuccessIsEarned,
           NothingAbandonedSilently, Reported, Pending, Exists
  <2>4. QED BY <1>2, <2>1, <2>2, <2>3, NextCases, DriveStepInv
<1>3. QED BY <1>1, <1>2, PTL DEF Spec

-----------------------------------------------------------------------------
(* The theorems.                                                           *)

\* The state of a run always has its type.
THEOREM TypeCorrect == Spec => []TypeOK
<1>1. IInv => TypeOK
      BY DEF IInv
<1>2. QED BY <1>1, Invariance, PTL

\* The error that ended a run is the one it raises or a note on the interrupt
\* that took its place, for any number of tasks, steps and rounds: nothing
\* that settling or teardown raise replaces or drops it (_secondary, _drive).
THEOREM FailureIsKept == Spec => []FailureSurvives
<1>1. IInv => FailureSurvives
      BY DEF IInv, Errors, FailureSurvives
<1>2. QED BY <1>1, Invariance, PTL

\* An interrupt always gets through to the caller, in whichever part of the
\* run it hits and whatever else is raised before or after it.
THEOREM InterruptGetsThrough == Spec => []InterruptPropagates
<1>1. IInv => InterruptPropagates
      BY DEF IInv, Errors, InterruptPropagates
<1>2. QED BY <1>1, Invariance, PTL

\* A task that is still pending when the loop is closed is one the run reports.
THEOREM AbandonedIsReported == Spec => []NothingAbandonedSilently
<1>1. IInv => NothingAbandonedSilently
      BY DEF IInv
<1>2. QED BY <1>1, Invariance, PTL

\* A run that raises nothing went well: the scenario returned, no started node
\* had failed, nothing is pending.
THEOREM SuccessIsTrue == Spec => []SuccessIsEarned
<1>1. IInv => SuccessIsEarned
      BY DEF IInv
<1>2. QED BY <1>1, Invariance, PTL

\* With a failure in flight no check can fail in teardown.
THEOREM TeardownWithoutChecks == Spec => []NoChecksAfterFailure
<1>1. IInv => NoChecksAfterFailure
      BY DEF IInv
<1>2. QED BY <1>1, Invariance, PTL

\* The scenario unwinds before another task is cancelled, unless settling it
\* failed: no step of _drive asks another task to stop before that.
THEOREM ScenarioFirst == Spec => ScenarioUnwindsFirst
<1> DEFINE Step == \A t \in Task \ {Main} :
                      t \in cancelReq' \ cancelReq =>
                         status[Main] \in Done \/ notes # {} \/ failure = Interruption
<1>1. ASSUME IInv, [Next]_vars PROVE Step
  <2>1. CASE TaskOp
    <3>1. cancelReq' \subseteq cancelReq \cup {Main}
          BY <1>1, <2>1, TaskOpIsTaskStep DEF TaskStep
    <3>2. QED BY <3>1
  <2>2. CASE ErrorStep
    <3>1. PICK e, st : LeaveLoop(e, st)
          BY <1>1, <2>2, ErrorStepLeaves DEF Leaves
    <3>2. cancelReq' \subseteq cancelReq \cup {Main}
          BY <3>1 DEF LeaveLoop, FailRun
    <3>3. QED BY <3>2
  <2>3. CASE BeginRound
        BY <1>1, <2>3 DEF BeginRound, IInv, Outcomes
  <2>4. CASE \/ Refuse \/ Start \/ BeginStep \/ EndStep \/ RunReturns \/ SettleAgain \/ Settled
             \/ RoundPassEnds \/ Finished \/ UNCHANGED vars
    <3>1. cancelReq' = cancelReq
          BY <2>4 DEF Refuse, Start, BeginStep, EndStep, RunReturns, SettleAgain, Settled,
             RoundPassEnds, Finished, vars, taskVars
    <3>2. QED BY <3>1
  <2>5. QED BY <1>1, <2>1, <2>2, <2>3, <2>4, NextCases
<1>2. IInv /\ [Next]_vars => [Step]_vars
      BY <1>1
<1>3. QED BY <1>2, Invariance, PTL DEF Spec, ScenarioUnwindsFirst
=============================================================================
