--------------------------- MODULE RunUntilProofs ---------------------------
(* Proofs of the safety properties of run_until, for any tasks, deadlines, *)
(* sleeps and limits.                                                      *)
EXTENDS RunUntil, SequenceTheorems, WellFoundedInduction, TLAPS

\* No hook is registered twice.
HooksDistinct == \A i, j \in DOMAIN hooks : hooks[i] = hooks[j] => i = j

\* The hook of the invariants is there only when it was installed, and the
\* run is over with its last stop step.
Settling == (0 \in Range(hooks) => installed) /\ (On => stopIn \in {None, 1, 2})

\* While the run is on, an undecided call is watched: its check runs at the
\* end of every step and, until the clock is there, a timer is armed at its
\* deadline.  In the second stop step the check may be gone, but the clock
\* does not move any more.
Watched ==
    \A t \in Task : On /\ Waiting(t) /\ call[t].done = "pending" =>
        /\ stopIn # 1 => call[t].id \in Range(hooks)
        /\ stopIn = 1 /\ call[t].deadline # None => now < call[t].deadline
        /\ call[t].deadline # None /\ now < call[t].deadline =>
              [id |-> call[t].id, at |-> call[t].deadline] \in timers

\* The turn of a task comes when its call is decided; a cancelled call is.
Turns ==
    /\ On => \A t \in woken : Waiting(t) /\ call[t].done # "pending"
    /\ \A t \in Task : Waiting(t) /\ call[t].cancel => call[t].done # "pending"

IInv == TypeOK /\ NothingLeftBehind /\ DeadlineIsKept /\ HooksDistinct /\ Settling /\
        Watched /\ Turns

-----------------------------------------------------------------------------
(* Data.                                                                   *)

\* Every non-empty set of naturals has a least element.
LEMMA LeastNat ==
    ASSUME NEW S \in SUBSET Nat, S # {}
    PROVE  Min(S) \in S /\ \A y \in S : Min(S) <= y
<1> DEFINE R == {ss \in Nat \X Nat : ss[1] < ss[2]}
<1>1. R = OpToRel(<, Nat)
      BY DEF OpToRel
<1>2. IsWellFoundedOn(R, Nat)
      BY <1>1, NatLessThanWellFounded
<1>3. PICK x \in S : \A y \in S : ~(<<y, x>> \in R)
  <2> HIDE DEF R
  <2> QED BY <1>2, WFMin
<1>4. \A y \in S : x <= y
  <2> SUFFICES ASSUME NEW y \in S PROVE x <= y
      OBVIOUS
  <2>1. x \in Nat /\ y \in Nat
        OBVIOUS
  <2>2. <<y, x>> \in R <=> y < x
        BY <2>1
  <2>3. QED BY <1>3, <2>1, <2>2
<1>5. QED BY <1>4 DEF Min

\* list.remove() takes the element away when the list has it once.
LEMMA Removed ==
    ASSUME NEW S, NEW s \in Seq(S), \A i, j \in DOMAIN s : s[i] = s[j] => i = j, NEW e
    PROVE  LET r == RemoveFirst(s, e)
           IN  /\ r \in Seq(S)
               /\ Range(r) = Range(s) \ {e}
               /\ \A i, j \in DOMAIN r : r[i] = r[j] => i = j
<1> DEFINE n == Len(s)
<1>1. n \in Nat /\ DOMAIN s = 1..n /\ \A i \in 1..n : s[i] \in S
      OBVIOUS
<1>2. CASE \A i \in 1..n : s[i] # e
  <2>1. RemoveFirst(s, e) = s
        BY <1>2 DEF RemoveFirst
  <2>2. QED BY <1>1, <1>2, <2>1 DEF Range
<1>3. CASE \E i \in 1..n : s[i] = e
  <2> DEFINE I == {i \in 1..n : s[i] = e}
             k == Min(I)
             a == SubSeq(s, 1, k - 1)
             b == SubSeq(s, k + 1, n)
  <2>1. k \in 1..n /\ s[k] = e
    <3>1. I \in SUBSET Nat /\ I # {}
          BY <1>1, <1>3
    <3>2. k \in I
          BY <3>1, LeastNat
    <3>3. QED BY <3>2
  <2>2. RemoveFirst(s, e) = a \o b
        BY <1>3 DEF RemoveFirst, RemoveAt, SelectInSeq
  <2> HIDE DEF k, I, n
  <2>3. /\ a \in Seq(S) /\ Len(a) = k - 1
        /\ \A i \in 1..(k - 1) : a[i] = s[i]
        BY <1>1, <2>1, SubSeqProperties
  <2>4. /\ b \in Seq(S) /\ Len(b) = n - k
        /\ \A i \in 1..(n - k) : b[i] = s[k + i]
    <3>1. /\ k + 1 \in Int /\ n \in Int /\ \A i \in (k + 1)..n : s[i] \in S
          BY <1>1, <2>1
    <3>2. /\ b \in Seq(S) /\ Len(b) = IF k + 1 <= n THEN n - (k + 1) + 1 ELSE 0
          /\ \A i \in 1..(n - (k + 1) + 1) : b[i] = s[(k + 1) + i - 1]
          BY <3>1, SubSeqProperties
    <3>3. QED BY <1>1, <2>1, <3>2
  <2> HIDE DEF a, b
  <2> DEFINE r == a \o b
  <2>5. /\ r \in Seq(S) /\ Len(r) = n - 1 /\ DOMAIN r = 1..(n - 1)
        /\ \A i \in 1..(n - 1) : r[i] = IF i < k THEN s[i] ELSE s[i + 1]
    <3>1. /\ r \in Seq(S) /\ Len(r) = (k - 1) + (n - k)
          /\ \A i \in 1..((k - 1) + (n - k)) : r[i] = IF i <= k - 1 THEN a[i] ELSE b[i - (k - 1)]
      <4>1. /\ r \in Seq(S) /\ Len(r) = Len(a) + Len(b)
            /\ \A i \in 1..(Len(a) + Len(b)) : r[i] = IF i <= Len(a) THEN a[i] ELSE b[i - Len(a)]
            BY <2>3, <2>4, ConcatProperties
      <4> HIDE DEF r
      <4>2. QED BY <2>3, <2>4, <4>1
    <3>2. (k - 1) + (n - k) = n - 1 /\ n - 1 \in Nat
          BY <1>1, <2>1
    <3>3. ASSUME NEW i \in 1..(n - 1) PROVE r[i] = IF i < k THEN s[i] ELSE s[i + 1]
      <4>1. CASE i < k
            BY <1>1, <2>1, <2>3, <3>1, <3>2, <4>1
      <4>2. CASE ~(i < k)
        <5>1. i - (k - 1) \in 1..(n - k) /\ k + (i - (k - 1)) = i + 1
              BY <1>1, <2>1, <4>2
        <5>2. b[i - (k - 1)] = s[i + 1]
              BY <2>4, <5>1
        <5>3. QED BY <1>1, <2>1, <3>1, <3>2, <4>2, <5>2
      <4>3. QED BY <4>1, <4>2
    <3>4. QED BY <3>1, <3>2, <3>3
  <2> HIDE DEF r
  <2>6. \A i, j \in DOMAIN r : r[i] = r[j] => i = j
    <3>1. ASSUME NEW i \in DOMAIN r
          PROVE  \E x \in DOMAIN s : /\ r[i] = s[x]
                                     /\ i < k => x = i /\ x < k
                                     /\ ~(i < k) => x = i + 1 /\ x > k
      <4>1. CASE i < k
            BY <1>1, <2>1, <2>5, <4>1
      <4>2. CASE ~(i < k)
        <5>1. i + 1 \in DOMAIN s /\ i + 1 > k /\ r[i] = s[i + 1]
              BY <1>1, <2>1, <2>5, <4>2
        <5>2. QED BY <4>2, <5>1
      <4>3. QED BY <4>1, <4>2
    <3>2. ASSUME NEW i \in DOMAIN r, NEW j \in DOMAIN r, r[i] = r[j] PROVE i = j
      <4>1. PICK x \in DOMAIN s : /\ r[i] = s[x]
                                  /\ i < k => x = i /\ x < k
                                  /\ ~(i < k) => x = i + 1 /\ x > k
            BY <3>1, Zenon
      <4>2. PICK y \in DOMAIN s : /\ r[j] = s[y]
                                  /\ j < k => y = j /\ y < k
                                  /\ ~(j < k) => y = j + 1 /\ y > k
            BY <3>1, Zenon
      <4>3. x = y
            BY <3>2, <4>1, <4>2
      <4>4. i \in Nat /\ j \in Nat /\ k \in Nat
            BY <1>1, <2>1, <2>5
      <4>5. QED BY <4>1, <4>2, <4>3, <4>4
    <3>3. QED BY <3>2
  <2>7. Range(r) = Range(s) \ {e}
    <3>1. ASSUME NEW i \in DOMAIN r PROVE r[i] \in Range(s) \ {e}
      <4>1. PICK j \in DOMAIN s : j # k /\ r[i] = s[j]
        <5>1. CASE i < k
              BY <1>1, <2>1, <2>5, <5>1
        <5>2. CASE ~(i < k)
          <6>1. i + 1 \in DOMAIN s /\ i + 1 # k /\ r[i] = s[i + 1]
                BY <1>1, <2>1, <2>5, <5>2
          <6>2. QED BY <6>1
        <5>3. QED BY <5>1, <5>2
      <4>2. s[j] # e
            BY <1>1, <2>1, <4>1
      <4>3. QED BY <4>1, <4>2 DEF Range
    <3>2. ASSUME NEW i \in DOMAIN s, s[i] # e PROVE \E j \in DOMAIN r : r[j] = s[i]
      <4>1. CASE i < k
            BY <1>1, <2>1, <2>5, <4>1
      <4>2. CASE i > k
        <5>1. i - 1 \in DOMAIN r /\ r[i - 1] = s[i]
              BY <1>1, <2>1, <2>5, <4>2
        <5>2. QED BY <5>1
      <4>3. i # k
            BY <2>1, <3>2
      <4>4. QED BY <1>1, <2>1, <4>1, <4>2, <4>3
    <3>3. QED BY <3>1, <3>2 DEF Range
  <2>8. QED BY <2>2, <2>5, <2>6, <2>7 DEF r
<1>4. QED BY <1>2, <1>3

-----------------------------------------------------------------------------
(* The invariant holds at first and is kept by every action.               *)

\* Before the first step nothing waits.
LEMMA InitInv == ASSUME Init PROVE IInv
<1> USE RunUntilAssumption DEF Init
<1>1. TypeOK
  <2>1. 0 \in 0..MaxSteps /\ 0 \in 0..MaxCalls /\ 0 \in Nat
        OBVIOUS
  <2>2. hooks \in Seq(0..MaxCalls) /\ timers \subseteq [id : 1..MaxCalls, at : Nat]
        OBVIOUS
  <2>3. /\ call \in [Task -> Call \cup {None}]
        /\ outcome \in [Task -> {"none", "refused", "held", "raised", "timeout", "cancelled"}]
        /\ run \in [by : {"on", "invariant", "deadlock", "livelock", "finished"}, note : BOOLEAN]
        OBVIOUS
  <2>4. installed \in BOOLEAN /\ stopIn \in {None, 0, 1, 2}
        OBVIOUS
  <2>5. QED BY <2>1, <2>2, <2>3, <2>4 DEF TypeOK
<1>2. \A t \in Task : ~Waiting(t)
      BY DEF Waiting
<1>3. NothingLeftBehind /\ HooksDistinct /\ Settling
      BY <1>2 DEF NothingLeftBehind, HooksDistinct, Settling, Range, On
<1>4. DeadlineIsKept /\ Watched /\ Turns
      BY <1>2 DEF DeadlineIsKept, Watched, Turns
<1>5. QED BY <1>1, <1>3, <1>4 DEF IInv

\* The state of a waiting call has its type, and there is one at most.
LEMMA OneCall ==
    ASSUME IInv, NEW t \in Task, Waiting(t)
    PROVE  /\ call[t] \in Call /\ call[t].id \in 1..MaxCalls
           /\ call[t].deadline \in Nat \cup {None}
           /\ \A u \in Task : Waiting(u) => u = t
<1>1. call[t] \in Call
      BY DEF IInv, TypeOK, Waiting
<1>2. QED BY <1>1 DEF IInv, NothingLeftBehind, Call

\* The invariants' hook is registered once and changes nothing else.
LEMMA AlwaysKeeps == ASSUME IInv, Always PROVE IInv'
<1>1. /\ hooks' = Append(hooks, 0) /\ 0 \notin Range(hooks) /\ hooks \in Seq(0..MaxCalls)
      /\ installed' = TRUE
      /\ UNCHANGED <<now, steps, inStep, work, woken, sleeps, stopIn, timers, active, calls,
                     call, outcome, run>>
      BY DEF Always, IInv, TypeOK, Settling
<1>2. MaxCalls \in Nat
      BY RunUntilAssumption
<1>3. Range(hooks') = Range(hooks) \cup {0} /\ hooks' \in Seq(0..MaxCalls)
      BY <1>1, <1>2 DEF Range
<1>4. TypeOK'
      BY <1>1, <1>3 DEF IInv, TypeOK
<1>5. HooksDistinct' /\ Settling'
      BY <1>1 DEF IInv, HooksDistinct, Settling, Range, On
<1>6. NothingLeftBehind'
      BY <1>1, <1>3 DEF IInv, NothingLeftBehind, Waiting
<1>7. DeadlineIsKept' /\ Watched' /\ Turns'
      BY <1>1, <1>3 DEF IInv, DeadlineIsKept, Watched, Turns, Waiting, On
<1>8. QED BY <1>4, <1>5, <1>6, <1>7 DEF IInv

\* What a check decides.
LEMMA Verdicts ==
    ASSUME NEW deadline, NEW p
    PROVE  /\ Verdict(deadline, p) \in {"raised", "held", "timeout", "pending"}
           /\ Verdict(deadline, p) = "pending" /\ deadline # None => ~(now >= deadline)
           /\ p = "true" => Verdict(deadline, p) = "held"
           /\ p = "raises" => Verdict(deadline, p) = "raised"
BY DEF Verdict

\* A call that suspends is the only one, with its check and its timer.
LEMMA RunUntilKeeps ==
    ASSUME IInv, NEW t \in Task, NEW d \in Deadlines, NEW p \in {"true", "false", "raises"},
           RunUntil(t, d, p)
    PROVE  IInv'
<1> USE RunUntilAssumption
<1> DEFINE deadline == IF d = None THEN None ELSE now + d
<1>1. /\ UNCHANGED <<now, steps, inStep, work, woken, sleeps, installed, stopIn, run>>
      /\ On /\ inStep /\ ~Waiting(t) /\ calls < MaxCalls
      BY DEF RunUntil
<1>2. deadline \in Nat \cup {None} /\ (deadline # None => deadline \in Nat)
      BY DEF IInv, TypeOK
<1>3. \/ /\ outcome' = [outcome EXCEPT ![t] = "refused"]
         /\ UNCHANGED <<hooks, timers, active, calls, call>>
      \/ /\ Verdict(deadline, p) # "pending"
         /\ outcome' = [outcome EXCEPT ![t] = Verdict(deadline, p)]
         /\ UNCHANGED <<hooks, timers, active, calls, call>>
      \/ /\ ~active /\ Verdict(deadline, p) = "pending"
         /\ active' = TRUE
         /\ calls' = calls + 1
         /\ hooks' = Append(hooks, calls + 1)
         /\ timers' = timers \cup Arm(calls + 1, deadline)
         /\ call' = [call EXCEPT ![t] = [id |-> calls + 1, deadline |-> deadline,
                                         done |-> "pending", cancel |-> FALSE]]
         /\ outcome' = [outcome EXCEPT ![t] = "none"]
      BY DEF RunUntil
<1> HIDE DEF deadline
<1>4. CASE /\ UNCHANGED <<hooks, timers, active, calls, call>>
           /\ \E o \in {"refused", "held", "raised", "timeout"} : outcome' = [outcome EXCEPT ![t] = o]
  <2>1. TypeOK'
        BY <1>1, <1>4 DEF IInv, TypeOK
  <2>2. QED BY <1>1, <1>4, <2>1 DEF IInv, NothingLeftBehind, DeadlineIsKept, HooksDistinct,
                                    Settling, Watched, Turns, Waiting, On
<1>5. CASE /\ ~active /\ Verdict(deadline, p) = "pending"
           /\ active' = TRUE
           /\ calls' = calls + 1
           /\ hooks' = Append(hooks, calls + 1)
           /\ timers' = timers \cup Arm(calls + 1, deadline)
           /\ call' = [call EXCEPT ![t] = [id |-> calls + 1, deadline |-> deadline,
                                           done |-> "pending", cancel |-> FALSE]]
           /\ outcome' = [outcome EXCEPT ![t] = "none"]
  <2> DEFINE new == [id |-> calls + 1, deadline |-> deadline, done |-> "pending", cancel |-> FALSE]
  <2>1. calls \in Nat /\ calls + 1 \in 1..MaxCalls /\ now \in Nat
        BY <1>1 DEF IInv, TypeOK
  <2>2. new \in Call /\ new # None
    <3>1. new \in Call
          BY <1>2, <2>1 DEF Call
    <3>2. QED BY <3>1
  <2>3. /\ new.id = calls + 1 /\ new.deadline = deadline /\ new.done = "pending" /\ ~new.cancel
        /\ call' = [call EXCEPT ![t] = new]
        BY <1>5
  <2> HIDE DEF new
  <2>4. \A u \in Task : ~Waiting(u)
        BY <1>5 DEF IInv, NothingLeftBehind
  <2>5. /\ call' \in [Task -> Call \cup {None}] /\ call'[t] = new
        /\ \A u \in Task : Waiting(u)' <=> u = t
        BY <2>2, <2>3, <2>4 DEF IInv, TypeOK, Waiting
  <2>6. timers = {} /\ Range(hooks) \subseteq {0}
        BY <2>4 DEF IInv, NothingLeftBehind
  <2>7. timers' = Arm(calls + 1, deadline) /\ timers' \subseteq [id : 1..MaxCalls, at : Nat]
        BY <1>2, <1>5, <2>1, <2>6 DEF Arm
  <2>8. hooks' \in Seq(0..MaxCalls) /\ Range(hooks') = Range(hooks) \cup {calls + 1}
    <3>1. PICK n \in 0..MaxCalls : n = calls + 1
          BY <2>1
    <3>2. hooks \in Seq(0..MaxCalls) /\ hooks' = Append(hooks, n)
          BY <1>5, <3>1 DEF IInv, TypeOK
    <3>3. /\ Append(hooks, n) \in Seq(0..MaxCalls)
          /\ DOMAIN hooks = 1..Len(hooks) /\ Len(hooks) \in Nat
          /\ DOMAIN Append(hooks, n) = 1..Len(hooks) + 1
          /\ \A i \in DOMAIN hooks : Append(hooks, n)[i] = hooks[i]
          /\ Append(hooks, n)[Len(hooks) + 1] = n
          BY <3>2
    <3>4. Range(Append(hooks, n)) = Range(hooks) \cup {n}
          BY <3>3 DEF Range
    <3>5. Range(hooks') = Range(Append(hooks, n))
          BY <3>2
    <3>6. QED BY <3>1, <3>2, <3>3, <3>4, <3>5
  <2>9. HooksDistinct' /\ Settling'
    <3>1. calls + 1 \notin Range(hooks)
          BY <2>1, <2>6
    <3>2. hooks \in Seq(0..MaxCalls)
          BY DEF IInv, TypeOK
    <3>3. HooksDistinct'
          BY <1>5, <3>1, <3>2 DEF IInv, HooksDistinct, Range
    <3>4. Settling'
      <4>1. calls + 1 # 0
            BY <2>1
      <4>2. QED BY <1>1, <2>8, <4>1 DEF IInv, Settling, On
    <3>5. QED BY <3>3, <3>4
  <2>10. TypeOK'
    <3>1. outcome' \in [Task -> {"none", "refused", "held", "raised", "timeout", "cancelled"}]
          BY <1>5 DEF IInv, TypeOK
    <3>2. UNCHANGED <<now, steps, inStep, work, woken, sleeps, installed, stopIn, run>>
          BY <1>1
    <3>3. calls' \in 0..MaxCalls /\ active' \in BOOLEAN
          BY <1>5, <2>1
    <3>4. QED BY <2>5, <2>7, <2>8, <3>1, <3>2, <3>3 DEF IInv, TypeOK
  <2>11. NothingLeftBehind'
    <3>1. \A x \in timers' : x.id = calls + 1
          BY <2>7 DEF Arm
    <3>2. QED BY <1>5, <2>3, <2>5, <2>6, <2>8, <3>1 DEF NothingLeftBehind
  <2>12. deadline # None => now < deadline
        BY <1>2, <1>5, <2>1, Verdicts
  <2>13. DeadlineIsKept'
    <3>1. run'.by # "deadlock" /\ now' = now /\ inStep'
          BY <1>1 DEF On
    <3>2. QED BY <1>2, <2>1, <2>3, <2>5, <2>12, <3>1 DEF DeadlineIsKept
  <2>14. Watched'
    <3>1. deadline # None => [id |-> calls + 1, at |-> deadline] \in timers'
          BY <2>7 DEF Arm
    <3>2. QED BY <1>1, <2>3, <2>5, <2>8, <2>12, <3>1 DEF Watched
  <2>15. Turns'
        BY <1>1, <2>3, <2>4, <2>5 DEF IInv, Turns, TypeOK, On
  <2>16. QED BY <2>9, <2>10, <2>11, <2>13, <2>14, <2>15 DEF IInv
<1>6. QED BY <1>3, <1>4, <1>5, Verdicts

\* A cancellation decides the call and leaves its cleaning up to its task.
LEMMA CancelKeeps == ASSUME IInv, NEW t \in Task, CancelCall(t) PROVE IInv'
<1> DEFINE new == [call[t] EXCEPT !.cancel = TRUE,
                                  !.done = IF @ = "pending" THEN "cancelled" ELSE @]
<1>1. /\ UNCHANGED <<now, steps, inStep, work, woken, sleeps, hooks, installed, stopIn, timers,
                     active, calls, outcome, run>>
      /\ Waiting(t) /\ call' = [call EXCEPT ![t] = new]
      BY DEF CancelCall
<1>2. call[t] \in Call
      BY <1>1, OneCall
<1>3. new \in Call /\ new # None /\ new.id = call[t].id /\ new.done # "pending" /\ new.deadline = call[t].deadline
  <2>1. new \in Call /\ new.id = call[t].id /\ new.done # "pending" /\ new.deadline = call[t].deadline
        BY <1>2 DEF Call
  <2>2. QED BY <2>1, RunUntilAssumption
<1> HIDE DEF new
<1>4. /\ call' \in [Task -> Call \cup {None}] /\ call'[t] = new
      /\ \A u \in Task : u # t => call'[u] = call[u]
      /\ \A u \in Task : Waiting(u)' <=> Waiting(u)
      BY <1>1, <1>3 DEF IInv, TypeOK, Waiting
<1>5. TypeOK'
      BY <1>1, <1>4 DEF IInv, TypeOK
<1>6. NothingLeftBehind'
      BY <1>1, <1>3, <1>4 DEF IInv, NothingLeftBehind
<1>7. DeadlineIsKept' /\ HooksDistinct' /\ Settling' /\ Watched'
      BY <1>1, <1>3, <1>4 DEF IInv, DeadlineIsKept, HooksDistinct, Settling, Watched, On
<1>8. Turns'
      BY <1>1, <1>3, <1>4 DEF IInv, Turns, On, TypeOK
<1>9. QED BY <1>5, <1>6, <1>7, <1>8 DEF IInv

\* After the finally of the one call that waited, nothing of it is left.
LEMMA CleanupCleans ==
    ASSUME IInv, NEW t \in Task, Waiting(t), Cleanup(t)
    PROVE  /\ hooks' \in Seq(0..MaxCalls) /\ HooksDistinct'
           /\ Range(hooks') \subseteq {0} /\ Range(hooks') \subseteq Range(hooks)
           /\ timers' = {} /\ active' = FALSE
           /\ call' \in [Task -> Call \cup {None}]
           /\ \A u \in Task : ~Waiting(u)'
<1>1. \A u \in Task : Waiting(u) => u = t
      BY OneCall
<1>2. /\ hooks' = RemoveFirst(hooks, call[t].id)
      /\ timers' = {x \in timers : x.id # call[t].id}
      /\ active' = FALSE
      /\ call' = [call EXCEPT ![t] = None]
      BY DEF Cleanup
<1>3. /\ hooks' \in Seq(0..MaxCalls) /\ Range(hooks') = Range(hooks) \ {call[t].id} /\ HooksDistinct'
      BY <1>2, Removed DEF IInv, TypeOK, HooksDistinct
<1>4. Range(hooks') \subseteq {0} /\ Range(hooks') \subseteq Range(hooks)
      BY <1>1, <1>3 DEF IInv, NothingLeftBehind
<1>5. timers' = {}
      BY <1>1, <1>2 DEF IInv, NothingLeftBehind
<1>6. /\ call' \in [Task -> Call \cup {None}]
      /\ \A u \in Task : ~Waiting(u)'
      BY <1>1, <1>2 DEF IInv, TypeOK, Waiting
<1>7. QED BY <1>2, <1>3, <1>4, <1>5, <1>6

\* With no call left, the invariant is about the other variables only.
LEMMA NothingWaits ==
    ASSUME IInv, HooksDistinct', Range(hooks') \subseteq {0}, Range(hooks') \subseteq Range(hooks),
           timers' = {}, active' = FALSE, installed' = installed,
           stopIn' = stopIn,
           \A u \in Task : ~Waiting(u)', TypeOK', run' = run, woken' \subseteq woken,
           On => woken' = {}
    PROVE  IInv'
<1>1. NothingLeftBehind'
      BY DEF NothingLeftBehind
<1>2. DeadlineIsKept' /\ Watched' /\ Turns'
      BY DEF DeadlineIsKept, Watched, Turns, On
<1>3. Settling'
      BY DEF IInv, Settling, On
<1>4. QED BY <1>1, <1>2, <1>3 DEF IInv

\* A task whose turn it is goes on.
LEMMA ResumeKeeps == ASSUME IInv, NEW t \in Task, Resume(t) PROVE IInv'
<1>1. /\ UNCHANGED <<now, steps, inStep, sleeps, installed, stopIn, calls, run>>
      /\ On /\ t \in woken /\ woken' = woken \ {t} /\ work' = TRUE
      /\ outcome' = [outcome EXCEPT ![t] = IF call[t].cancel THEN "cancelled" ELSE call[t].done]
      /\ Cleanup(t)
      BY DEF Resume
<1>2. Waiting(t) /\ call[t].done # "pending"
      BY <1>1 DEF IInv, Turns
<1>3. /\ hooks' \in Seq(0..MaxCalls) /\ HooksDistinct'
      /\ Range(hooks') \subseteq {0} /\ Range(hooks') \subseteq Range(hooks)
      /\ timers' = {} /\ active' = FALSE
      /\ call' \in [Task -> Call \cup {None}]
      /\ \A u \in Task : ~Waiting(u)'
      BY <1>1, <1>2, CleanupCleans
<1>4. outcome' \in [Task -> {"none", "refused", "held", "raised", "timeout", "cancelled"}]
  <2>1. call[t].done \in {"held", "raised", "timeout", "cancelled"}
        BY <1>2, OneCall DEF Call
  <2>2. QED BY <1>1, <2>1 DEF IInv, TypeOK
<1>5. TypeOK'
      BY <1>1, <1>3, <1>4 DEF IInv, TypeOK
<1>6. woken' = {}
      BY <1>1, <1>2, OneCall DEF IInv, Turns, TypeOK
<1>7. QED BY <1>1, <1>3, <1>5, <1>6, NothingWaits

\* A task that still waits when the run is over cleans up, too.
LEMMA UnwindKeeps == ASSUME IInv, NEW t \in Task, Unwind(t) PROVE IInv'
<1>1. /\ UNCHANGED <<now, steps, inStep, work, woken, sleeps, installed, stopIn, calls, run>>
      /\ ~On /\ Waiting(t) /\ Cleanup(t)
      /\ \E o \in {"cancelled"} \cup IF Ready(t) /\ ~call[t].cancel THEN {call[t].done} ELSE {} :
            outcome' = [outcome EXCEPT ![t] = o]
      BY DEF Unwind
<1>2. /\ hooks' \in Seq(0..MaxCalls) /\ HooksDistinct'
      /\ Range(hooks') \subseteq {0} /\ Range(hooks') \subseteq Range(hooks)
      /\ timers' = {} /\ active' = FALSE
      /\ call' \in [Task -> Call \cup {None}]
      /\ \A u \in Task : ~Waiting(u)'
      BY <1>1, CleanupCleans
<1>3. outcome' \in [Task -> {"none", "refused", "held", "raised", "timeout", "cancelled"}]
  <2>1. call[t] \in Call
        BY <1>1, OneCall
  <2>2. Ready(t) /\ ~call[t].cancel => call[t].done \in {"held", "raised", "timeout", "cancelled"}
        BY <2>1 DEF Ready, Call
  <2>3. QED BY <1>1, <2>2 DEF IInv, TypeOK
<1>4. TypeOK'
      BY <1>1, <1>2, <1>3 DEF IInv, TypeOK
<1>5. QED BY <1>1, <1>2, <1>4, NothingWaits

\* The times the loop may jump to are numbers.
LEMMA WakeupTimes == ASSUME TypeOK PROVE Wakeups \in SUBSET Nat
<1>1. sleeps \subseteq Nat
      BY RunUntilAssumption DEF TypeOK
<1>2. \A x \in timers : x.at \in Nat
      BY DEF TypeOK
<1>3. QED BY <1>1, <1>2 DEF Wakeups

\* The larger of two numbers.
LEMMA LaterOf ==
    ASSUME NEW a \in Nat, NEW b \in Nat
    PROVE  Max({a, b}) = IF a >= b THEN a ELSE b
<1> DEFINE m == IF a >= b THEN a ELSE b
<1>1. m \in {a, b} /\ \A y \in {a, b} : m >= y
      OBVIOUS
<1>2. \A x \in {a, b} : (\A y \in {a, b} : x >= y) => x = m
      OBVIOUS
<1> HIDE DEF m
<1>3. QED BY <1>1, <1>2 DEF Max, m

\* A step begins: the run ends at its limit or in a deadlock, or the clock
\* jumps no further than the first deadline.
LEMMA StepBeginKeeps == ASSUME IInv, NEW busy \in BOOLEAN, StepBegin(busy) PROVE IInv'
<1> USE RunUntilAssumption
<1> DEFINE ready == {t \in Task : Ready(t)}
           idle == ready = {} /\ ~busy /\ stopIn = None
           time == IF idle /\ Wakeups # {} THEN Max({now, Min(Wakeups)}) ELSE now
<1>1. /\ On /\ ~inStep
      /\ UNCHANGED <<installed, stopIn, active, calls, call, outcome>>
      /\ \/ /\ End("livelock", FALSE)
            /\ UNCHANGED <<now, steps, inStep, work, woken, sleeps, timers>>
         \/ /\ steps < MaxSteps /\ idle /\ Wakeups = {}
            /\ steps' = steps + 1
            /\ End("deadlock", FALSE)
            /\ UNCHANGED <<now, inStep, work, woken, sleeps, timers>>
         \/ /\ steps < MaxSteps
            /\ steps' = steps + 1
            /\ now' = time
            /\ inStep' = TRUE
            /\ work' = (busy \/ \E s \in sleeps : s <= time)
            /\ woken' = ready
            /\ sleeps' = {s \in sleeps : s > time}
            /\ timers' = {x \in timers : x.at > time}
            /\ UNCHANGED <<hooks, run>>
      BY DEF StepBegin
<1>2. steps \in 0..MaxSteps /\ now \in Nat /\ Wakeups \in SUBSET Nat
      BY WakeupTimes DEF IInv, TypeOK
<1>3. \A t \in Task : (Waiting(t)' <=> Waiting(t)) /\ call'[t] = call[t]
      BY <1>1 DEF Waiting
<1>4. ASSUME NEW t \in Task, Waiting(t), call[t].done = "pending", call[t].deadline # None
      PROVE  /\ call[t].deadline \in Wakeups /\ now < call[t].deadline /\ call[t].deadline \in Nat
             /\ [id |-> call[t].id, at |-> call[t].deadline] \in timers
  <2>1. now < call[t].deadline
        BY <1>1, <1>4 DEF IInv, DeadlineIsKept
  <2>2. [id |-> call[t].id, at |-> call[t].deadline] \in timers
        BY <1>1, <1>4, <2>1 DEF IInv, Watched
  <2>3. call[t].deadline \in Nat
        BY <1>4, OneCall
  <2>4. QED BY <2>1, <2>2, <2>3 DEF Wakeups
<1>5. ASSUME NEW why \in {"livelock", "deadlock"}, End(why, FALSE), steps' \in 0..MaxSteps,
             UNCHANGED <<now, inStep, work, woken, sleeps, timers>>,
             why = "deadlock" => Wakeups = {}
      PROVE  IInv'
  <2>1. hooks' = << >> /\ run' = [by |-> why, note |-> FALSE]
        BY <1>5 DEF End
  <2>2. /\ hooks' \in Seq(0..MaxCalls) /\ Range(hooks') = {} /\ HooksDistinct'
        /\ Settling'
        BY <2>1 DEF Range, HooksDistinct, Settling, On
  <2>3. run' \in [by : {"on", "invariant", "deadlock", "livelock", "finished"}, note : BOOLEAN]
        BY <2>1
  <2>4. TypeOK'
        BY <1>1, <1>5, <2>2, <2>3 DEF IInv, TypeOK
  <2>5. NothingLeftBehind'
        BY <1>1, <1>3, <1>5, <2>2 DEF IInv, NothingLeftBehind
  <2>6. ~On'
        BY <2>1 DEF On
  <2>7. DeadlineIsKept'
    <3>1. run'.by = why
          BY <2>1
    <3>2. ASSUME NEW t \in Task, Waiting(t), call[t].done = "pending", call[t].deadline # None
          PROVE  now <= call[t].deadline /\ why # "deadlock"
      <4>1. call[t].deadline \in Wakeups /\ now < call[t].deadline /\ call[t].deadline \in Nat
            BY <1>4, <3>2
      <4>2. Wakeups # {}
            BY <4>1
      <4>3. now <= call[t].deadline
            BY <1>2, <4>1
      <4>4. QED BY <1>5, <4>2, <4>3
    <3>3. QED BY <1>3, <1>5, <2>6, <3>1, <3>2 DEF DeadlineIsKept
  <2>8. Watched' /\ Turns'
        BY <1>1, <1>3, <2>6 DEF IInv, Watched, Turns
  <2>9. QED BY <2>2, <2>4, <2>5, <2>7, <2>8 DEF IInv
<1>6. CASE /\ End("livelock", FALSE)
           /\ UNCHANGED <<now, steps, inStep, work, woken, sleeps, timers>>
      BY <1>2, <1>5, <1>6
<1>7. CASE /\ steps < MaxSteps /\ idle /\ Wakeups = {}
           /\ steps' = steps + 1
           /\ End("deadlock", FALSE)
           /\ UNCHANGED <<now, inStep, work, woken, sleeps, timers>>
  <2>1. steps' \in 0..MaxSteps
        BY <1>2, <1>7
  <2>2. Wakeups = {}
        BY <1>7
  <2> HIDE DEF ready, idle, time
  <2>3. QED BY <1>5, <1>7, <2>1, <2>2
<1>8. CASE /\ steps < MaxSteps
           /\ steps' = steps + 1
           /\ now' = time
           /\ inStep' = TRUE
           /\ work' = (busy \/ \E s \in sleeps : s <= time)
           /\ woken' = ready
           /\ sleeps' = {s \in sleeps : s > time}
           /\ timers' = {x \in timers : x.at > time}
           /\ UNCHANGED <<hooks, run>>
  <2>1. /\ time \in Nat /\ now <= time
        /\ \A w \in Wakeups : now < w => time <= w
        /\ stopIn = 1 => time = now
    <3>1. CASE idle /\ Wakeups # {}
      <4>1. Min(Wakeups) \in Nat /\ \A w \in Wakeups : Min(Wakeups) <= w
            BY <1>2, <3>1, LeastNat
      <4>2. time = IF now >= Min(Wakeups) THEN now ELSE Min(Wakeups)
            BY <1>2, <3>1, <4>1, LaterOf
      <4>3. stopIn # 1
            BY <3>1
      <4> HIDE DEF time, idle
      <4>4. QED BY <1>2, <4>1, <4>2, <4>3
    <3>2. CASE ~(idle /\ Wakeups # {})
      <4>1. time = now
            BY <3>2
      <4> HIDE DEF time, idle
      <4>2. QED BY <1>2, <4>1
    <3>3. QED BY <3>1, <3>2
  <2> HIDE DEF time, idle
  <2>2. TypeOK'
    <3>1. steps' \in 0..MaxSteps /\ now' \in Nat
          BY <1>2, <1>8, <2>1
    <3>2. work' \in BOOLEAN /\ inStep' \in BOOLEAN
          BY <1>8
    <3>3. woken' \subseteq Task /\ sleeps' \subseteq sleeps /\ timers' \subseteq timers
          BY <1>8
    <3>4. QED BY <1>1, <1>8, <3>1, <3>2, <3>3 DEF IInv, TypeOK
  <2>3. NothingLeftBehind'
        BY <1>1, <1>3, <1>8 DEF IInv, NothingLeftBehind
  <2>4. HooksDistinct' /\ Settling'
        BY <1>1, <1>8 DEF IInv, HooksDistinct, Settling, On
  <2>5. DeadlineIsKept'
    <3>1. ASSUME NEW t \in Task, Waiting(t), call[t].done = "pending", call[t].deadline # None
          PROVE  now' <= call[t].deadline
          BY <1>4, <1>8, <2>1, <3>1
    <3>2. run'.by # "deadlock" /\ inStep'
          BY <1>1, <1>8 DEF On
    <3>3. QED BY <1>3, <3>1, <3>2 DEF DeadlineIsKept
  <2>6. Watched'
    <3>1. ASSUME NEW t \in Task, Waiting(t), call[t].done = "pending"
          PROVE  /\ stopIn # 1 => call[t].id \in Range(hooks)
                 /\ stopIn = 1 /\ call[t].deadline # None => now' < call[t].deadline
                 /\ call[t].deadline # None /\ now' < call[t].deadline =>
                       [id |-> call[t].id, at |-> call[t].deadline] \in timers'
      <4>1. stopIn # 1 => call[t].id \in Range(hooks)
            BY <1>1, <3>1 DEF IInv, Watched
      <4>2. stopIn = 1 /\ call[t].deadline # None => now' < call[t].deadline
            BY <1>4, <1>8, <2>1, <3>1
      <4>3. call[t].deadline # None /\ now' < call[t].deadline =>
               [id |-> call[t].id, at |-> call[t].deadline] \in timers'
            BY <1>4, <1>8, <3>1
      <4>4. QED BY <4>1, <4>2, <4>3
    <3>2. QED BY <1>1, <1>3, <1>8, <3>1 DEF Watched
  <2>7. Turns'
    <3>1. ASSUME NEW t \in ready PROVE Waiting(t) /\ call[t].done # "pending"
          BY DEF Ready, IInv, Turns
    <3>2. QED BY <1>3, <1>8, <3>1 DEF IInv, Turns
  <2>8. QED BY <2>2, <2>3, <2>4, <2>5, <2>6, <2>7 DEF IInv
<1>9. QED BY <1>1, <1>6, <1>7, <1>8

\* What the hooks of a step do to the calls: every undecided call whose check
\* is still there is checked.
LEMMA Checked ==
    ASSUME IInv, NEW inv, NEW finished, NEW p \in {"true", "false", "raises"},
           StepEnd(inv, p, finished), NEW t \in Task, Waiting(t)
    PROVE  call'[t] = IF call[t].done = "pending" /\ call[t].id \in Range(hooks)
                      THEN [call[t] EXCEPT !.done = Verdict(call[t].deadline, p)] ELSE call[t]
<1>1. On /\ call' = [u \in Task |->
                      IF \E h \in Range(hooks) : u \in Caller(h)
                      THEN [call[u] EXCEPT !.done = Verdict(call[u].deadline, p)]
                      ELSE call[u]]
      BY DEF StepEnd
<1>2. (\E h \in Range(hooks) : t \in Caller(h)) <=>
         call[t].done = "pending" /\ call[t].id \in Range(hooks)
      BY DEF Caller
<1>3. QED BY <1>1, <1>2

\* A step ends: every undecided call has had its check.
LEMMA StepEndKeeps ==
    ASSUME IInv, NEW inv \in BOOLEAN, NEW finished \in BOOLEAN, NEW p \in {"true", "false", "raises"},
           StepEnd(inv, p, finished)
    PROVE  IInv'
<1> USE RunUntilAssumption
<1>1. /\ On /\ inStep /\ woken = {} /\ inStep' = FALSE
      /\ UNCHANGED <<now, steps, work, woken, sleeps, installed, timers, active, calls, outcome>>
      BY DEF StepEnd
<1> DEFINE left == StopIn(finished)
<1>2. stopIn \in {None, 1, 2} /\ left \in {None, 0, 1, 2} /\ (left \in {None, 2} => stopIn = None)
  <2>1. stopIn \in {None, 1, 2}
        BY <1>1 DEF IInv, Settling
  <2>2. QED BY <2>1 DEF StopIn
<1>3. \/ /\ hooks' = << >> /\ \E note \in BOOLEAN : run' = [by |-> "invariant", note |-> note]
         /\ stopIn' = stopIn
      \/ hooks' = hooks /\ run' = [by |-> "finished", note |-> FALSE] /\ stopIn' = 0
      \/ hooks' = << >> /\ run' = run /\ stopIn' = 1
      \/ hooks' = hooks /\ run' = run /\ stopIn' \in {None, 2} /\ stopIn = None
  <2>1. StepVerdict(inv, p).by \in {"on", "invariant"} /\ StepVerdict(inv, p).note \in BOOLEAN
        BY DEF StepVerdict
  <2>2. CASE StepVerdict(inv, p).by # "on"
    <3>1. End("invariant", StepVerdict(inv, p).note) /\ stopIn' = stopIn
          BY <2>1, <2>2 DEF StepEnd
    <3>2. QED BY <2>1, <3>1 DEF End
  <2>3. CASE StepVerdict(inv, p).by = "on" /\ left = 0
    <3>1. left # 1 /\ left \in {0, 1}
          BY <2>3
    <3>2. End("finished", FALSE) /\ stopIn' = left
      <4> HIDE DEF left
      <4>1. \/ StepVerdict(inv, p).by # "on"
            \/ End("finished", FALSE) /\ stopIn' = left
            \/ left = 1 \/ left \notin {0, 1}
            BY Zenon DEF StepEnd, left
      <4>2. QED BY <2>3, <3>1, <4>1, Zenon
    <3>3. QED BY <2>3, <3>2 DEF End
  <2>4. CASE StepVerdict(inv, p).by = "on" /\ left = 1
        BY <2>4 DEF StepEnd
  <2>5. CASE StepVerdict(inv, p).by = "on" /\ left \notin {0, 1}
        BY <1>2, <2>5 DEF StepEnd
  <2>6. QED BY <2>2, <2>3, <2>4, <2>5
<1> HIDE DEF left
<1>4. /\ hooks' \in Seq(0..MaxCalls) /\ Range(hooks') \subseteq Range(hooks) /\ HooksDistinct'
      /\ run' \in [by : {"on", "invariant", "deadlock", "livelock", "finished"}, note : BOOLEAN]
      /\ run'.by # "deadlock"
      /\ stopIn' \in {None, 0, 1, 2}
      /\ Settling'
  <2>1. /\ hooks' \in Seq(0..MaxCalls) /\ Range(hooks') \subseteq Range(hooks) /\ HooksDistinct'
    <3>1. CASE hooks' = hooks
          BY <3>1 DEF IInv, TypeOK, HooksDistinct
    <3>2. CASE hooks' = << >>
          BY <3>2 DEF Range, HooksDistinct
    <3>3. QED BY <1>3, <3>1, <3>2
  <2>2. /\ run' \in [by : {"on", "invariant", "deadlock", "livelock", "finished"}, note : BOOLEAN]
        /\ run'.by # "deadlock"
    <3>1. CASE run' = run
          BY <1>1, <3>1 DEF IInv, TypeOK, On
    <3>2. CASE run' = [by |-> "finished", note |-> FALSE]
          BY <3>2
    <3>3. CASE \E note \in BOOLEAN : run' = [by |-> "invariant", note |-> note]
          BY <3>3
    <3>4. QED BY <1>3, <3>1, <3>2, <3>3
  <2>3. stopIn' \in {None, 0, 1, 2}
        BY <1>2, <1>3
  <2>4. 0 \in Range(hooks') => installed'
        BY <1>1, <2>1 DEF IInv, Settling
  <2>5. On' => stopIn' \in {None, 1, 2}
        BY <1>2, <1>3 DEF On
  <2>6. QED BY <2>1, <2>2, <2>3, <2>4, <2>5 DEF Settling
<1>5. ASSUME NEW t \in Task, Waiting(t)
      PROVE  /\ call'[t] \in Call /\ call'[t] # None
             /\ call'[t].id = call[t].id /\ call'[t].deadline = call[t].deadline
             /\ call'[t].cancel = call[t].cancel
             /\ call[t].done # "pending" => call'[t] = call[t]
             /\ call[t].done = "pending" /\ call[t].id \in Range(hooks) =>
                   call'[t].done = Verdict(call[t].deadline, p)
             /\ call'[t].done # "pending" \/ call[t].done = "pending"
  <2>1. call[t] \in Call
        BY <1>5, OneCall
  <2>2. Verdict(call[t].deadline, p) \in {"raised", "held", "timeout", "pending"}
        BY Verdicts
  <2>3. call'[t] = IF call[t].done = "pending" /\ call[t].id \in Range(hooks)
                   THEN [call[t] EXCEPT !.done = Verdict(call[t].deadline, p)] ELSE call[t]
        BY <1>5, Checked
  <2>4. QED BY <2>1, <2>2, <2>3 DEF Call
<1>6. ASSUME NEW t \in Task, ~Waiting(t) PROVE call'[t] = call[t]
  <2>1. ~(\E h \in Range(hooks) : t \in Caller(h))
        BY <1>6 DEF Caller
  <2>2. QED BY <2>1 DEF StepEnd
<1>7. \A t \in Task : Waiting(t)' <=> Waiting(t)
      BY <1>5, <1>6 DEF Waiting
<1>8. call' \in [Task -> Call \cup {None}]
  <2>1. DOMAIN call' = Task /\ call' = [t \in Task |-> call'[t]]
        BY DEF StepEnd
  <2>2. \A t \in Task : call'[t] \in Call \cup {None}
        BY <1>5, <1>6 DEF Waiting
  <2>3. QED BY <2>1, <2>2
<1>9. TypeOK'
      BY <1>1, <1>4, <1>8 DEF IInv, TypeOK
<1>10. NothingLeftBehind'
  <2>1. \A t, u \in Task : Waiting(t) /\ Waiting(u) => t = u
        BY DEF IInv, NothingLeftBehind
  <2>2. active' <=> \E t \in Task : Waiting(t)
        BY <1>1 DEF IInv, NothingLeftBehind
  <2>3. \A h \in Range(hooks) \ {0} : \E t \in Task : Waiting(t) /\ call'[t].id = h
        BY <1>5 DEF IInv, NothingLeftBehind
  <2>4. \A x \in timers : \E t \in Task : Waiting(t) /\ call'[t].id = x.id
        BY <1>5 DEF IInv, NothingLeftBehind
  <2>5. QED BY <1>1, <1>4, <1>7, <2>1, <2>2, <2>3, <2>4 DEF NothingLeftBehind
<1>11. ASSUME NEW t \in Task, Waiting(t), call'[t].done = "pending"
       PROVE  /\ call[t].done = "pending"
              /\ call[t].deadline # None => now < call[t].deadline
  <2>1. call[t].done = "pending"
        BY <1>5, <1>11
  <2>2. CASE call[t].id \in Range(hooks)
    <3>1. Verdict(call[t].deadline, p) = "pending"
          BY <1>5, <1>11, <2>1, <2>2
    <3>2. call[t].deadline # None => ~(now >= call[t].deadline)
          BY <3>1, Verdicts
    <3>3. call[t].deadline \in Nat \cup {None} /\ now \in Nat
          BY <1>11, OneCall DEF IInv, TypeOK
    <3>4. QED BY <2>1, <3>2, <3>3
  <2>3. CASE call[t].id \notin Range(hooks)
        BY <1>1, <1>11, <2>1, <2>3 DEF IInv, Watched
  <2>4. QED BY <2>2, <2>3
<1>12. DeadlineIsKept'
  <2>1. ASSUME NEW t \in Task, Waiting(t), call'[t].done = "pending", call[t].deadline # None
        PROVE  now <= call[t].deadline /\ now < call[t].deadline
    <3>1. call[t].deadline \in Nat /\ now \in Nat
          BY <2>1, OneCall DEF IInv, TypeOK
    <3>2. QED BY <1>11, <2>1, <3>1
  <2>2. QED BY <1>1, <1>4, <1>5, <1>7, <2>1 DEF DeadlineIsKept
<1>13. Watched'
  <2>1. ASSUME NEW t \in Task, Waiting(t), call'[t].done = "pending"
        PROVE  /\ call[t].deadline # None => now < call[t].deadline
               /\ call[t].deadline # None /\ now < call[t].deadline =>
                     [id |-> call[t].id, at |-> call[t].deadline] \in timers
        BY <1>1, <1>11, <2>1 DEF IInv, Watched
  <2>2. ASSUME NEW t \in Task, Waiting(t), call'[t].done = "pending", On', stopIn' # 1
        PROVE  call[t].id \in Range(hooks')
    <3>1. hooks' = hooks /\ stopIn = None
          BY <1>3, <2>2 DEF On
    <3>2. stopIn # 1
          BY <3>1, RunUntilAssumption
    <3>3. QED BY <1>1, <1>11, <2>2, <3>1, <3>2 DEF IInv, Watched
  <2>3. QED BY <1>1, <1>5, <1>7, <2>1, <2>2 DEF Watched
<1>14. Turns'
  <2>1. woken' = {}
        BY <1>1
  <2>2. ASSUME NEW t \in Task, Waiting(t), call'[t].cancel PROVE call'[t].done # "pending"
        BY <1>5, <2>2 DEF IInv, Turns
  <2>3. QED BY <1>7, <2>1, <2>2 DEF Turns
<1>15. QED BY <1>4, <1>9, <1>10, <1>12, <1>13, <1>14 DEF IInv

\* The inductive invariant holds throughout.
LEMMA Invariance == Spec => []IInv
<1>1. Init => IInv
      BY InitInv
<1>2. IInv /\ [Next]_vars => IInv'
  <2> SUFFICES ASSUME IInv, [Next]_vars PROVE IInv'
      OBVIOUS
  <2>1. CASE UNCHANGED vars
        BY <2>1 DEF IInv, TypeOK, NothingLeftBehind, DeadlineIsKept, HooksDistinct, Settling,
                    Watched, Turns, On, Waiting, vars
  <2>2. QED BY <2>1, AlwaysKeeps, RunUntilKeeps, CancelKeeps, ResumeKeeps, UnwindKeeps,
               StepBeginKeeps, StepEndKeeps DEF Next
<1>3. QED BY <1>1, <1>2, PTL DEF Spec

-----------------------------------------------------------------------------
(* The theorems.                                                           *)

\* The state of the calls always has its type.
THEOREM TypeCorrect == Spec => []TypeOK
<1>1. IInv => TypeOK
      BY DEF IInv
<1>2. QED BY <1>1, Invariance, PTL

\* However a run_until ends, its check, its timer and the flag are gone
\* (the finally of run_until).
THEOREM CallsCleanUp == Spec => []NothingLeftBehind
<1>1. IInv => NothingLeftBehind
      BY DEF IInv
<1>2. QED BY <1>1, Invariance, PTL

\* No deadline is missed, none is late, and none is taken for a deadlock
\* (the timer of run_until, the autojump of _run_once).
THEOREM DeadlinesAreKept == Spec => []DeadlineIsKept
<1>1. IInv => DeadlineIsKept
      BY DEF IInv
<1>2. QED BY <1>1, Invariance, PTL

\* What happens in one step is ranked in the same way in every step: invariant
\* before predicate before deadline (check, _run_once).
THEOREM StepsAreRanked == Spec => SameStepPriority
<1> DEFINE Ranked ==
      \A inv, finished \in BOOLEAN, p \in {"true", "false", "raises"} :
         StepEnd(inv, p, finished) =>
            /\ ~inv /\ 0 \in Range(hooks) => run'.by = "invariant"
            /\ \A t \in Task : ToBeChecked(t) =>
                  /\ p = "true" => call'[t].done = "held"
                  /\ p = "raises" =>
                        /\ call'[t].done = "raised"
                        /\ run'.by = "invariant" => run'.note
<1>1. IInv /\ [Next]_vars => [Ranked]_vars
  <2> SUFFICES ASSUME IInv, NEW inv \in BOOLEAN, NEW finished \in BOOLEAN,
                      NEW p \in {"true", "false", "raises"}, StepEnd(inv, p, finished)
               PROVE  /\ ~inv /\ 0 \in Range(hooks) => run'.by = "invariant"
                      /\ \A t \in Task : ToBeChecked(t) =>
                            /\ p = "true" => call'[t].done = "held"
                            /\ p = "raises" =>
                                  /\ call'[t].done = "raised"
                                  /\ run'.by = "invariant" => run'.note
      OBVIOUS
  <2> DEFINE result(i) == HookResult(hooks[i], inv, p)
             hard == {i \in DOMAIN hooks : result(i) = "hard"}
             soft == {i \in DOMAIN hooks : result(i) = "soft"}
  <2>1. StepVerdict(inv, p) = IF hard # {} THEN [by |-> "invariant", note |-> soft # {}]
                              ELSE [by |-> "on", note |-> FALSE]
        BY DEF StepVerdict
  <2>2. ~inv /\ 0 \in Range(hooks) => hard # {}
        BY DEF Range, HookResult
  <2> HIDE DEF result, hard, soft
  <2>3. hard # {} => run' = [by |-> "invariant", note |-> soft # {}]
        BY <2>1 DEF StepEnd, End
  <2>4. hard = {} => run'.by # "invariant"
        BY <2>1 DEF StepEnd, End, On
  <2>5. ASSUME NEW t \in Task, ToBeChecked(t)
        PROVE  /\ p = "true" => call'[t].done = "held"
               /\ p = "raises" =>
                     /\ call'[t].done = "raised"
                     /\ soft # {}
    <3>1. Waiting(t) /\ call[t].done = "pending" /\ call[t].id \in Range(hooks)
      <4>1. Waiting(t) /\ call[t].done = "pending" /\ On
            BY <2>5 DEF ToBeChecked, StepEnd
      <4>2. QED BY <2>5, <4>1 DEF ToBeChecked, IInv, Watched
    <3>2. call[t] \in Call /\ call[t].id \in 1..MaxCalls
          BY <3>1, OneCall
    <3>3. call'[t].done = Verdict(call[t].deadline, p)
      <4>1. call'[t] = [call[t] EXCEPT !.done = Verdict(call[t].deadline, p)]
            BY <3>1, Checked
      <4>2. QED BY <3>2, <4>1 DEF Call
    <3>5. PICK i \in DOMAIN hooks : hooks[i] = call[t].id
          BY <3>1 DEF Range
    <3>6. p = "raises" => result(i) = "soft"
      <4>1. t \in Caller(hooks[i]) /\ hooks[i] # 0
            BY <3>1, <3>2, <3>5 DEF Caller
      <4>2. QED BY <4>1 DEF HookResult, result
    <3>7. p = "raises" => soft # {}
          BY <3>5, <3>6 DEF soft
    <3>8. /\ p = "true" => Verdict(call[t].deadline, p) = "held"
          /\ p = "raises" => Verdict(call[t].deadline, p) = "raised"
          BY DEF Verdict
    <3>9. QED BY <3>3, <3>7, <3>8
  <2>6. ~inv /\ 0 \in Range(hooks) => run'.by = "invariant"
        BY <2>2, <2>3
  <2>7. run'.by = "invariant" /\ soft # {} => run'.note
    <3>1. ASSUME hard # {}, soft # {} PROVE run' = [by |-> "invariant", note |-> TRUE]
      <4>1. (soft # {}) = TRUE
            BY <3>1
      <4>2. QED BY <2>3, <3>1, <4>1
    <3>2. QED BY <2>4, <3>1
  <2>8. QED BY <2>5, <2>6, <2>7
<1>2. QED BY <1>1, Invariance, PTL DEF Spec, SameStepPriority
=============================================================================
