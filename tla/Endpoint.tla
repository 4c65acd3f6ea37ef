------------------------------ MODULE Endpoint ------------------------------
(***************************************************************************)
(* The receiving side of _Endpoint (src/src/seedloop/_net.py): the queue,  *)
(* the waiter, and the tasks that call recv(), directly or under           *)
(* asyncio.wait_for, while messages are delivered and tasks are cancelled. *)
(*                                                                         *)
(* Of asyncio the model keeps what decides the races: a task that awaits a *)
(* future goes on in a later step than the one that completes it, and a    *)
(* cancellation in between is thrown at the await although the future has  *)
(* a result.                                                               *)
(***************************************************************************)
EXTENDS Naturals, Sequences

CONSTANTS
    Task,       \* the tasks that may call recv() on this endpoint
    MaxMsgs,    \* bound: messages delivered
    MaxCancels, \* bound: timeouts and cancellations
    None

\* A future that a task awaits.
Waiter == [task : Task, state : {"pending", "result", "cancelled"}]

ASSUME EndpointAssumption == MaxMsgs \in Nat /\ MaxCancels \in Nat /\ None \notin Waiter

VARIABLES
    queue,      \* self._queue
    waiter,     \* self._waiter: None, or the task that awaits it and its state
    await,      \* is a task suspended in recv(), and was it called with a timeout?
    cancels,    \* what has asked to cancel a suspended task: its timeout, someone else
    outcome,    \* how the last recv() of a task ended
    got,        \* the messages received so far, in order
    puts, asked \* counts of deliveries and cancellations, for the bounds

vars == <<queue, waiter, await, cancels, outcome, got, puts, asked>>

Msg == 1..MaxMsgs

Init ==
    /\ queue = << >> /\ waiter = None /\ got = << >>
    /\ await = [t \in Task |-> "no"]
    /\ cancels = [t \in Task |-> {}]
    /\ outcome = [t \in Task |-> "none"]
    /\ puts = 0 /\ asked = 0

\* self._waiter is a future that is not done.
Pending == waiter # None /\ waiter.state = "pending"

\* Mutant: the waiter is not told.
EnqueueSilently ==
    /\ puts < MaxMsgs
    /\ puts' = puts + 1
    /\ queue' = Append(queue, puts + 1)
    /\ UNCHANGED <<waiter, await, cancels, outcome, got, asked>>

\* _enqueue: append, and wake the waiter if nothing has completed it yet.
Enqueue ==
    /\ puts < MaxMsgs
    /\ puts' = puts + 1
    /\ queue' = Append(queue, puts + 1)
    /\ waiter' = IF Pending THEN [waiter EXCEPT !.state = "result"] ELSE waiter
    /\ UNCHANGED <<await, cancels, outcome, got, asked>>

\* recv() returns the head of the queue.
Popleft(t) ==
    /\ got' = Append(got, Head(queue))
    /\ queue' = Tail(queue)
    /\ outcome' = [outcome EXCEPT ![t] = "message"]

\* Mutant: a second receiver is let in.
RecvUnguarded(t, mode) ==
    /\ await[t] = "no"
    /\ \/ /\ queue # << >>
          /\ Popleft(t)
          /\ UNCHANGED <<waiter, await>>
       \/ /\ queue = << >>
          /\ waiter' = [task |-> t, state |-> "pending"]
          /\ await' = [await EXCEPT ![t] = mode]
          /\ outcome' = [outcome EXCEPT ![t] = "none"]
          /\ UNCHANGED <<queue, got>>
    /\ UNCHANGED <<cancels, puts, asked>>

\* A task calls recv(), under wait_for or not, and runs it up to its first
\* suspension: a second receiver is refused, a message at hand is returned
\* at once, an empty queue is waited on.
Recv(t, mode) ==
    /\ await[t] = "no"
    /\ \/ /\ waiter # None
          /\ outcome' = [outcome EXCEPT ![t] = "refused"]
          /\ UNCHANGED <<queue, waiter, await, got>>
       \/ /\ waiter = None /\ queue # << >>
          /\ Popleft(t)
          /\ UNCHANGED <<waiter, await>>
       \/ /\ waiter = None /\ queue = << >>
          /\ waiter' = [task |-> t, state |-> "pending"]
          /\ await' = [await EXCEPT ![t] = mode]
          /\ outcome' = [outcome EXCEPT ![t] = "none"]
          /\ UNCHANGED <<queue, got>>
    /\ UNCHANGED <<cancels, puts, asked>>

\* Task.cancel() on a suspended task cancels the future it awaits, or, if
\* that is done already, is remembered for the task's next step.
Cancel(t, by) ==
    /\ asked < MaxCancels
    /\ await[t] # "no" /\ by \notin cancels[t]
    /\ cancels' = [cancels EXCEPT ![t] = @ \cup {by}]
    /\ waiter' = IF Pending /\ waiter.task = t
                 THEN [waiter EXCEPT !.state = "cancelled"] ELSE waiter
    /\ asked' = asked + 1
    /\ UNCHANGED <<queue, await, outcome, got, puts>>

\* The timer of wait_for fires: it cancels the task it was armed in.
Timeout(t) == await[t] = "timed" /\ Cancel(t, "timeout")

\* Anyone else cancels the task, a teardown for example.
CancelTask(t) == Cancel(t, "other")

\* Mutant: the waiter is the message, so a cancelled receiver takes it along.
ResumeTaking(t) ==
    /\ await[t] # "no"
    /\ waiter.task = t /\ waiter.state # "pending"
    /\ waiter' = None /\ await' = [await EXCEPT ![t] = "no"]
    /\ IF cancels[t] # {}
       THEN /\ outcome' = [outcome EXCEPT ![t] = "timeout"]
            /\ queue' = IF waiter.state = "result" THEN Tail(queue) ELSE queue
            /\ UNCHANGED got
       ELSE Popleft(t)
    /\ cancels' = [cancels EXCEPT ![t] = {}]
    /\ UNCHANGED <<puts, asked>>

\* Mutant: the waiter is cleared after the await, not in a finally.
ResumeWithoutFinally(t) ==
    /\ await[t] # "no"
    /\ waiter.task = t /\ waiter.state # "pending"
    /\ await' = [await EXCEPT ![t] = "no"]
    /\ IF cancels[t] # {}
       THEN /\ outcome' = [outcome EXCEPT ![t] = "timeout"]
            /\ UNCHANGED <<queue, waiter, got>>
       ELSE Popleft(t) /\ waiter' = None
    /\ cancels' = [cancels EXCEPT ![t] = {}]
    /\ UNCHANGED <<puts, asked>>

\* The task goes on after its await: the finally clears the waiter, and a
\* cancellation is raised, which wait_for turns into TimeoutError if only
\* its own timer asked for it.  Otherwise the while tests the queue again,
\* and waits again should it be empty.
Resume(t) ==
    LET again == cancels[t] = {} /\ queue = << >> IN
    /\ await[t] # "no"
    /\ waiter.task = t /\ waiter.state # "pending"
    /\ waiter' = IF again THEN [task |-> t, state |-> "pending"] ELSE None
    /\ await' = [await EXCEPT ![t] = IF again THEN @ ELSE "no"]
    /\ IF again \/ cancels[t] # {}
       THEN /\ outcome' = [outcome EXCEPT ![t] =
                             IF again THEN @
                             ELSE IF cancels[t] = {"timeout"} THEN "timeout" ELSE "cancelled"]
            /\ UNCHANGED <<queue, got>>
       ELSE Popleft(t)
    /\ cancels' = [cancels EXCEPT ![t] = {}]
    /\ UNCHANGED <<puts, asked>>

Next ==
    \/ Enqueue
    \/ \E t \in Task :
          \/ \E mode \in {"plain", "timed"} : Recv(t, mode)
          \/ Timeout(t)
          \/ CancelTask(t)
          \/ Resume(t)

Spec == Init /\ [][Next]_vars

\* The loop runs every ready task.
FairSpec == Spec /\ \A t \in Task : WF_vars(Resume(t))
-----------------------------------------------------------------------------
(* Properties *)

\* Every variable has its type.
TypeOK ==
    /\ queue \in Seq(Msg) /\ got \in Seq(Msg)
    /\ waiter \in Waiter \cup {None}
    /\ await \in [Task -> {"no", "plain", "timed"}]
    /\ cancels \in [Task -> SUBSET {"timeout", "other"}]
    /\ outcome \in [Task -> {"none", "message", "refused", "timeout", "cancelled"}]
    /\ puts \in 0..MaxMsgs /\ asked \in 0..MaxCancels

\* self._waiter is set exactly while a task is suspended in recv(), and by
\* that task: no waiter survives a timeout or a cancellation to refuse every
\* later recv(), and no receiver's waiter is replaced by another's.
WaiterIsSuspended ==
    /\ waiter = None <=> \A t \in Task : await[t] = "no"
    /\ \A t \in Task : await[t] # "no" => waiter.task = t

\* No wakeup is lost and none is stolen: while the waiter is pending there
\* is nothing to receive, and once it has its result the message that woke
\* it is still there.
WaiterTellsQueue ==
    waiter # None => /\ waiter.state = "pending" => queue = << >>
                     /\ waiter.state = "result" => queue # << >>

\* A cancelled waiter belongs to a task that was asked to stop.
CancelledForAReason ==
    waiter # None /\ waiter.state = "cancelled" => cancels[waiter.task] # {}

EndpointInv == TypeOK /\ WaiterIsSuspended /\ WaiterTellsQueue /\ CancelledForAReason

\* What a node may rely on: messages come in order, each once, and none is
\* lost, also when the timeout of wait_for or a cancellation hits in the
\* step in which a message is delivered.
Mbox == INSTANCE Mailbox WITH box <- queue
ImplementsMailbox == Mbox!Spec

\* A receiver with a message in the queue does not wait for ever.
ReceiverIsServed == \A t \in Task : await[t] # "no" /\ queue # << >> ~> await[t] = "no"

=============================================================================
