--------------------------- MODULE EndpointProofs ---------------------------
(***************************************************************************)
(* The receiving side of an endpoint, for any number of tasks, messages    *)
(* and cancellations: the waiter is consistent with the suspended task and *)
(* with the queue (EndpointInv, which is inductive), and the endpoint      *)
(* implements Mailbox.                                                     *)
(***************************************************************************)
EXTENDS Endpoint, SequenceTheorems, TLAPS

\* What the pop of a message does to the types of the two sequences.
LEMMA PopTypes ==
    ASSUME TypeOK, NEW t \in Task, queue # << >>, Popleft(t)
    PROVE  queue' \in Seq(Msg) /\ got' \in Seq(Msg) /\ outcome' \in
           [Task -> {"none", "message", "refused", "timeout", "cancelled"}]
<1>1. Head(queue) \in Msg /\ Tail(queue) \in Seq(Msg)
  BY HeadTailProperties DEF TypeOK
<1>. QED  BY <1>1, AppendProperties DEF Popleft, TypeOK

\* The initial state satisfies the invariant.
LEMMA InitInv == Init => EndpointInv
BY EndpointAssumption DEF Init, EndpointInv, TypeOK, WaiterIsSuspended, WaiterTellsQueue,
   CancelledForAReason

\* A delivery completes a pending waiter in the step that fills the queue.
LEMMA EnqueueInv ==
    ASSUME EndpointInv, Enqueue
    PROVE  EndpointInv'
<1>. USE EndpointAssumption DEF EndpointInv
<1>1. puts + 1 \in Msg /\ puts + 1 \in 0..MaxMsgs
  BY DEF Enqueue, TypeOK, Msg
<1>2. queue' \in Seq(Msg) /\ queue' # << >>
  BY <1>1, AppendProperties DEF Enqueue, TypeOK
<1>3. /\ waiter = None <=> waiter' = None
      /\ waiter # None => /\ waiter'.task = waiter.task
                          /\ waiter' \in Waiter /\ waiter'.state # "pending"
                          /\ waiter'.state = "cancelled" => waiter.state = "cancelled"
  BY DEF Enqueue, Pending, TypeOK, Waiter
<1>4. TypeOK'
  BY <1>1, <1>2, <1>3 DEF Enqueue, TypeOK
<1>5. WaiterIsSuspended' /\ WaiterTellsQueue' /\ CancelledForAReason'
  BY <1>2, <1>3 DEF Enqueue, TypeOK, WaiterIsSuspended, WaiterTellsQueue, CancelledForAReason
<1>. QED  BY <1>4, <1>5

\* A call of recv(): only an empty queue makes a waiter, and only the first.
LEMMA RecvInv ==
    ASSUME EndpointInv, NEW t \in Task, NEW mode \in {"plain", "timed"}, Recv(t, mode)
    PROVE  EndpointInv'
<1>. USE EndpointAssumption DEF EndpointInv, Recv
<1>1. CASE waiter # None
  BY <1>1 DEF TypeOK, WaiterIsSuspended, WaiterTellsQueue, CancelledForAReason
<1>2. CASE waiter = None /\ queue # << >>
  <2>1. Popleft(t) /\ UNCHANGED <<waiter, await, cancels, puts, asked>>
    BY <1>2
  <2>2. TypeOK'
    BY <1>2, <2>1, PopTypes DEF TypeOK
  <2>. QED  BY <1>2, <2>1, <2>2 DEF WaiterIsSuspended, WaiterTellsQueue, CancelledForAReason
<1>3. CASE waiter = None /\ queue = << >>
  <2>1. /\ waiter' = [task |-> t, state |-> "pending"]
        /\ await' = [await EXCEPT ![t] = mode]
        /\ outcome' = [outcome EXCEPT ![t] = "none"]
        /\ UNCHANGED <<queue, got, cancels, puts, asked>>
        /\ waiter' \in Waiter /\ waiter' # None
    BY <1>3 DEF Waiter
  <2>2. TypeOK'
    BY <2>1 DEF TypeOK
  <2>3. WaiterIsSuspended'
    BY <1>3, <2>1 DEF TypeOK, WaiterIsSuspended
  <2>. QED  BY <1>3, <2>1, <2>2, <2>3 DEF WaiterTellsQueue, CancelledForAReason
<1>. QED  BY <1>1, <1>2, <1>3

\* A timeout or a cancellation: the waiter is completed at most once.
LEMMA CancelInv ==
    ASSUME EndpointInv, NEW t \in Task, NEW by \in {"timeout", "other"}, Cancel(t, by)
    PROVE  EndpointInv'
<1>. USE EndpointAssumption DEF EndpointInv
<1>1. waiter # None /\ waiter.task = t
  BY DEF Cancel, WaiterIsSuspended
<1>2. /\ waiter' \in Waiter
      /\ waiter'.task = t /\ waiter' # None
      /\ waiter'.state \in {waiter.state, "cancelled"}
  BY <1>1 DEF Cancel, Pending, TypeOK, Waiter
<1>3. cancels' \in [Task -> SUBSET {"timeout", "other"}] /\ cancels'[t] # {}
  BY DEF Cancel, TypeOK
<1>4. TypeOK'
  BY <1>2, <1>3 DEF Cancel, TypeOK
<1>5. WaiterIsSuspended' /\ WaiterTellsQueue' /\ CancelledForAReason'
  BY <1>1, <1>2, <1>3 DEF Cancel, WaiterIsSuspended, WaiterTellsQueue, CancelledForAReason
<1>. QED  BY <1>4, <1>5

\* The receiver goes on: it finds the message it was woken for or raises,
\* and clears the waiter either way; the while never waits a second time.
LEMMA ResumeInv ==
    ASSUME EndpointInv, NEW t \in Task, Resume(t)
    PROVE  EndpointInv'
<1>. USE EndpointAssumption DEF EndpointInv
<1>1. waiter # None /\ waiter.task = t /\ \A u \in Task : u # t => await[u] = "no"
  BY DEF Resume, WaiterIsSuspended
<1>2. ~(cancels[t] = {} /\ queue = << >>)
  <2>1. waiter.state \in {"result", "cancelled"}
    BY <1>1 DEF Resume, TypeOK, Waiter
  <2>. QED  BY <1>1, <2>1 DEF WaiterTellsQueue, CancelledForAReason
<1>3. /\ waiter' = None /\ await' = [await EXCEPT ![t] = "no"]
      /\ cancels' = [cancels EXCEPT ![t] = {}] /\ UNCHANGED <<puts, asked>>
  BY <1>2 DEF Resume, TypeOK
<1>4. TypeOK'
  <2>1. CASE cancels[t] # {}
    BY <2>1, <1>2, <1>3 DEF Resume, TypeOK
  <2>2. CASE cancels[t] = {}
    BY <2>2, <1>2, <1>3, PopTypes DEF Resume, TypeOK
  <2>. QED  BY <2>1, <2>2
<1>5. WaiterIsSuspended' /\ WaiterTellsQueue' /\ CancelledForAReason'
  BY <1>1, <1>3 DEF TypeOK, WaiterIsSuspended, WaiterTellsQueue, CancelledForAReason
<1>. QED  BY <1>4, <1>5

\* EndpointInv holds in every run of the receiving side.
THEOREM EndpointInvariant == Spec => []EndpointInv
<1>1. EndpointInv /\ [Next]_vars => EndpointInv'
  <2>. SUFFICES ASSUME EndpointInv, [Next]_vars PROVE EndpointInv'
    OBVIOUS
  <2>1. CASE UNCHANGED vars
    BY <2>1 DEF vars, EndpointInv, TypeOK, WaiterIsSuspended, WaiterTellsQueue,
       CancelledForAReason
  <2>2. CASE Enqueue
    BY <2>2, EnqueueInv
  <2>3. ASSUME NEW t \in Task, NEW mode \in {"plain", "timed"}, Recv(t, mode)
        PROVE  EndpointInv'
    BY <2>3, RecvInv
  <2>4. ASSUME NEW t \in Task, Timeout(t) \/ CancelTask(t) PROVE EndpointInv'
    BY <2>4, CancelInv DEF Timeout, CancelTask
  <2>5. ASSUME NEW t \in Task, Resume(t) PROVE EndpointInv'
    BY <2>5, ResumeInv
  <2>. QED  BY <2>1, <2>2, <2>3, <2>4, <2>5 DEF Next
<1>. QED  BY <1>1, InitInv, PTL DEF Spec

\* The waiter is set exactly while its task is suspended (WaiterIsSuspended).
THEOREM WaiterNeverOrphaned == Spec => []WaiterIsSuspended
<1>1. EndpointInv => WaiterIsSuspended
  BY DEF EndpointInv
<1>. QED  BY <1>1, EndpointInvariant, PTL

\* No wakeup is lost and none is stolen (WaiterTellsQueue).
THEOREM NoLostWakeup == Spec => []WaiterTellsQueue
<1>1. EndpointInv => WaiterTellsQueue
  BY DEF EndpointInv
<1>. QED  BY <1>1, EndpointInvariant, PTL

\* The endpoint implements the mailbox: every step puts one message, takes
\* the oldest one, or changes nothing a receiver can tell (ImplementsMailbox).
THEOREM EndpointIsMailbox == Spec => ImplementsMailbox
<1>1. Init => Mbox!Init
  BY DEF Init, Mbox!Init
<1>2. EndpointInv /\ [Next]_vars => [Mbox!Next]_<<queue, got>>
  <2>. SUFFICES ASSUME EndpointInv, Next PROVE [Mbox!Next]_<<queue, got>>
    BY DEF vars
  <2>1. CASE Enqueue
    <3>1. puts + 1 \in Msg /\ queue' = Append(queue, puts + 1) /\ got' = got
      BY <2>1, EndpointAssumption DEF Enqueue, EndpointInv, TypeOK, Msg
    <3>. QED  BY <3>1 DEF Mbox!Next, Mbox!Put
  <2>2. ASSUME NEW t \in Task, Popleft(t), queue # << >> PROVE Mbox!Next
    BY <2>2 DEF Popleft, Mbox!Next, Mbox!Take
  <2>3. ASSUME NEW t \in Task, NEW mode \in {"plain", "timed"}, Recv(t, mode)
        PROVE  [Mbox!Next]_<<queue, got>>
    BY <2>2, <2>3 DEF Recv
  <2>4. ASSUME NEW t \in Task, Timeout(t) \/ CancelTask(t) PROVE UNCHANGED <<queue, got>>
    BY <2>4 DEF Timeout, CancelTask, Cancel
  <2>5. ASSUME NEW t \in Task, Resume(t) PROVE [Mbox!Next]_<<queue, got>>
    BY <2>2, <2>5 DEF Resume
  <2>. QED  BY <2>1, <2>3, <2>4, <2>5 DEF Next
<1>. QED  BY <1>1, <1>2, EndpointInvariant, PTL DEF Spec, ImplementsMailbox, Mbox!Spec

=============================================================================
