-------------------------- MODULE TransportProofs --------------------------
(* Proofs of the safety properties of the links of Transport, for every    *)
(* value of its constants.                                                 *)
EXTENDS Transport, TLAPS

\* What timers and queues refer to exists.
References ==
    /\ \A t \in timers :
          /\ t.op = "deliver" => t.arg \in DOMAIN sent
          /\ t.op \in {"begin", "end"} => t.arg \in DOMAIN faults
          /\ t.op = "sleep" => t.arg \in DOMAIN calls
    /\ \A a \in Addr : \A i \in DOMAIN queue[a] :
          queue[a][i] \in DOMAIN sent /\ sent[queue[a][i]].dst = a

\* Messages come from bound endpoints, and each one used one draw.
Streams ==
    /\ netPos = Len(sent)
    /\ Len(sent) <= MaxSends
    /\ \A m \in DOMAIN sent : endpoints[sent[m].src] # None
    /\ NetStreamUnshifted

SameLink(m, n) == sent[m].src = sent[n].src /\ sent[m].dst = sent[n].dst
OnReliable(t) == t.op = "deliver" /\ Reliable(t.arg)

\* On a reliable link, what is in flight fires in the order of sending, not
\* before the link's clock allows, and after everything already delivered.
LinkOrder ==
    /\ \A t \in timers : t.seq < seq
    /\ \A t \in timers : OnReliable(t) =>
          t.when <= reliableClock[<<sent[t.arg].src, sent[t.arg].dst>>]
    /\ \A t, u \in timers :
          OnReliable(t) /\ OnReliable(u) /\ SameLink(t.arg, u.arg) =>
             /\ t.arg < u.arg => t.seq < u.seq /\ t.when <= u.when
             /\ t.arg = u.arg => t = u
    /\ \A a \in Addr : \A i \in DOMAIN queue[a] : \A t \in timers :
          OnReliable(t) /\ SameLink(queue[a][i], t.arg) => queue[a][i] < t.arg

IInv == TypeOK /\ References /\ Streams /\ LinkOrder /\ ReliableFIFO

-----------------------------------------------------------------------------
(* Types.                                                                  *)

\* What the seed makes of a valid fault handle is a fault of the modelled time.
LEMMA ResolutionsTyped ==
    ASSUME TypeOK, NEW spec \in FaultHandle, NEW secs \in Nat, now + secs <= MaxTime,
           Valid(spec, secs), NEW f \in Resolutions(spec, secs)
    PROVE  f \in Fault
<1> USE TransportAssumption
<1>1. \A w \in Windows(secs) : w[1] \in Time /\ w[2] \in Time
      BY DEF TypeOK, Windows, Time
<1>2. BoundAddresses \subseteq Addr
      BY DEF BoundAddresses
<1>3. CASE spec.kind = "partition"
  <2>1. PICK g \in IF spec.groups # << >> THEN {spec.groups} ELSE Bipartitions, w \in Windows(secs) :
           f = [kind |-> "partition", groups |-> g, who |-> {}, factor |-> 1,
                start |-> w[1], end |-> w[2]]
        BY <1>3 DEF Resolutions
  <2>2. g \in Groups
    <3>1. CASE spec.groups # << >>
          BY <2>1, <3>1 DEF FaultHandle
    <3>2. CASE spec.groups = << >>
      <4>1. PICK A \in SUBSET BoundAddresses : g = <<A, BoundAddresses \ A>>
            BY <2>1, <3>2 DEF Bipartitions
      <4>2. A \in SUBSET Addr /\ BoundAddresses \ A \in SUBSET Addr
            BY <1>2
      <4>3. QED BY <4>1, <4>2 DEF Groups
    <3>3. QED BY <3>1, <3>2
  <2>3. QED BY <2>1, <2>2, <1>1 DEF Fault
<1>4. CASE spec.kind = "slow"
  <2>1. PICK p \in Pairs(spec.a, spec.b),
             x \in IF spec.factor = None THEN Factors ELSE {spec.factor}, w \in Windows(secs) :
           f = [kind |-> "slow", groups |-> << >>, who |-> p, factor |-> x,
                start |-> w[1], end |-> w[2]]
        BY <1>4 DEF Resolutions
  <2>2. p \in SUBSET Addr
        BY <2>1, <1>2 DEF Pairs, FaultHandle
  <2>3. x \in Nat
        BY <2>1 DEF FaultHandle
  <2>4. QED BY <2>1, <2>2, <2>3, <1>1 DEF Fault, Groups
<1>5. CASE spec.kind = "crash"
  <2> DEFINE N == IF spec.a = None THEN BoundAddresses ELSE {spec.a}
             T == IF spec.at = None THEN now..(now + secs) ELSE {now + spec.at}
             Crash(n, t) == [kind |-> "crash", groups |-> << >>, who |-> {n}, factor |-> 1,
                             start |-> t, end |-> t]
  <2>0. Resolutions(spec, secs) = {Crash(n, t) : n \in N, t \in T}
        BY <1>5 DEF Resolutions
  <2>1. PICK n \in N, t \in T : f = Crash(n, t)
    <3> HIDE DEF N, T, Crash
    <3> QED BY <2>0
  <2>2. n \in Addr
        BY <2>1, <1>2 DEF FaultHandle
  <2>3. t \in Time
        BY <2>1, <1>5 DEF FaultHandle, Valid, TypeOK, Time
  <2>4. QED BY <2>1, <2>2, <2>3 DEF Fault, Groups
<1>6. QED BY <1>3, <1>4, <1>5 DEF FaultHandle

\* What one run_for adds: faults of the right type, and timers that are no
\* deliveries, numbered between the old and the new next number.
LEMMA RunForAdds ==
    ASSUME TypeOK, NEW secs \in Secs, NEW specs \in SpecLists, RunFor(secs, specs)
    PROVE  /\ faults' \in Seq(Fault)
           /\ DOMAIN faults \subseteq DOMAIN faults'
           /\ seq' \in Nat /\ seq <= seq'
           /\ timers \subseteq timers'
           /\ \A t \in timers' \ timers :
                 /\ t \in Timer /\ t.op # "deliver" /\ t.seq < seq'
                 /\ t.op \in {"begin", "end"} => t.arg \in DOMAIN faults'
                 /\ t.op = "sleep" => t.arg \in DOMAIN calls'
           /\ calls' \in Seq(Call) /\ DOMAIN calls \subseteq DOMAIN calls'
<1> USE TransportAssumption
<1>1. PICK n \in 0..MaxFaults : specs \in [1..n -> Specs]
      BY DEF SpecLists
<1>2. /\ now + secs <= MaxTime
      /\ \A i \in DOMAIN specs : Valid(specs[i], secs)
      BY DEF RunFor
<1>3. PICK fs \in [DOMAIN specs -> UNION {Resolutions(specs[i], secs) : i \in DOMAIN specs}] :
         /\ \A i \in DOMAIN specs : fs[i] \in Resolutions(specs[i], secs)
         /\ Schedule(secs, fs)
      BY DEF RunFor
<1>4. \A i \in 1..n : fs[i] \in Fault
  <2> SUFFICES ASSUME NEW i \in 1..n PROVE fs[i] \in Fault
      OBVIOUS
  <2>1. specs[i] \in FaultHandle
        BY <1>1
  <2>2. QED BY <1>1, <1>2, <1>3, <2>1, ResolutionsTyped
<1>5. fs \in [1..n -> Fault]
      BY <1>1, <1>3, <1>4
<1>6. fs \in Seq(Fault) /\ Len(fs) = n /\ DOMAIN fs = 1..n
      BY <1>5
<1>7. /\ faults' = faults \o fs
      /\ timers' = timers \cup ArmedBy(fs, Len(faults), seq) \cup Sleep(Len(calls) + 1, secs, seq + 2*n + 2)
      /\ seq' = seq + 2*n + 2 + 1
      /\ calls' = Append(calls,
             [at |-> now, secs |-> secs, mark |-> seq,
              faults |-> (Len(faults) + 1)..(Len(faults) + n),
              state |-> IF secs = 0 THEN "yielded" ELSE "asleep"])
  <2> HIDE TransportAssumption
  <2>1. QED BY <1>3, <1>6 DEF Schedule
<1>8. faults' \in Seq(Fault) /\ Len(faults') = Len(faults) + n
      BY <1>6, <1>7 DEF TypeOK
<1>9. seq' \in Nat /\ seq <= seq'
      BY <1>7 DEF TypeOK
<1>10. calls' \in Seq(Call) /\ Len(calls') = Len(calls) + 1
  <2>1. (Len(faults) + 1)..(Len(faults) + n) \in SUBSET Nat
        BY DEF TypeOK
  <2>2. [at |-> now, secs |-> secs, mark |-> seq,
         faults |-> (Len(faults) + 1)..(Len(faults) + n),
         state |-> IF secs = 0 THEN "yielded" ELSE "asleep"] \in Call
        BY <2>1 DEF Call, TypeOK
  <2>3. QED BY <2>2, <1>7 DEF TypeOK
<1>11. ASSUME NEW t \in ArmedBy(fs, Len(faults), seq)
       PROVE  t \in Timer /\ t.op \in {"begin", "end"} /\ t.seq < seq' /\ t.arg \in DOMAIN faults'
  <2>1. PICK i \in 1..n :
           \/ t = [when |-> fs[i].start, seq |-> seq + 2*i, op |-> "begin", arg |-> Len(faults) + i]
           \/ t = [when |-> fs[i].end, seq |-> seq + 2*i + 1, op |-> "end", arg |-> Len(faults) + i]
        BY <1>6 DEF ArmedBy
  <2>2. fs[i].start \in Time /\ fs[i].end \in Time
        BY <1>4 DEF Fault
  <2>3. Len(faults) + i \in DOMAIN faults' /\ Len(faults) + i \in Nat
        BY <1>8 DEF TypeOK
  <2>4. /\ seq + 2*i \in Nat /\ seq + 2*i + 1 \in Nat
        /\ seq + 2*i < seq' /\ seq + 2*i + 1 < seq'
        BY <1>7 DEF TypeOK
  <2>5. QED BY <2>1, <2>2, <2>3, <2>4 DEF Timer
<1>12. ASSUME NEW t \in Sleep(Len(calls) + 1, secs, seq + 2*n + 2)
       PROVE  t \in Timer /\ t.op = "sleep" /\ t.seq < seq' /\ t.arg \in DOMAIN calls'
       BY <1>2, <1>7, <1>10, SMTT(30) DEF Sleep, Timer, TypeOK, Time
<1>13. DOMAIN faults \subseteq DOMAIN faults' /\ DOMAIN calls \subseteq DOMAIN calls'
  <2>1. /\ DOMAIN faults = 1..Len(faults) /\ DOMAIN faults' = 1..Len(faults')
        /\ DOMAIN calls = 1..Len(calls) /\ DOMAIN calls' = 1..Len(calls')
        /\ Len(faults) \in Nat /\ Len(calls) \in Nat
        BY <1>8, <1>10 DEF TypeOK
  <2>2. QED BY <2>1, <1>8, <1>10
<1>14. QED BY <1>7, <1>8, <1>9, <1>10, <1>11, <1>12, <1>13

\* The message that src sends to dst now.
Sent(src, dst) == [src |-> src, dst |-> dst, at |-> now, base |-> net[Len(sent) + 1]]

\* What one send adds: a message with the next latency of the stream, and
\* deliveries of it numbered from the old next number on; on a reliable link
\* one delivery, not before the link's clock, which it moves.
LEMMA SendAdds ==
    ASSUME TypeOK, Streams, NEW src \in Addr, NEW dst \in Addr, Send(src, dst)
    PROVE  /\ Sent(src, dst) \in Message /\ sent' = Append(sent, Sent(src, dst))
           /\ endpoints[src] # None /\ netPos' = netPos + 1 /\ Len(sent) < MaxSends
           /\ seq' \in Nat /\ seq <= seq'
           /\ timers \subseteq timers'
           /\ \A t \in timers' \ timers :
                 /\ t \in Timer /\ t.op = "deliver" /\ t.arg = Len(sent) + 1
                 /\ seq <= t.seq /\ t.seq < seq'
           /\ timeline' \in Seq(Event)
           /\ \/ /\ ~endpoints[src].reliable
                 /\ reliableClock' = reliableClock
              \/ \E when \in Time :
                    /\ timers' = timers \cup {Delivery(when, seq, Len(sent) + 1)}
                    /\ reliableClock[<<src, dst>>] <= when
                    /\ reliableClock' = [reliableClock EXCEPT ![<<src, dst>>] = when]
<1> USE TransportAssumption
<1> DEFINE mid == Len(sent) + 1
<1>1. endpoints[src] # None /\ Len(sent) < MaxSends /\ netPos' = netPos + 1
      BY DEF Send, Draw
<1>2. net[mid] \in Nat /\ mid \in Nat
  <2>1. mid \in 1..MaxSends /\ mid \in Nat
        BY <1>1 DEF TypeOK
  <2>2. net[mid] \in Lat
        BY <2>1 DEF TypeOK
  <2> HIDE DEF mid
  <2>3. QED BY <2>1, <2>2
<1>3. Sent(src, dst) \in Message /\ sent' = Append(sent, Sent(src, dst))
      BY <1>2 DEF Sent, Message, TypeOK, Send, Streams
<1> DEFINE lat == net[netPos + 1] * SlowFactor(src, dst)
           Scheduled ==
              /\ seq' \in Nat /\ seq <= seq'
              /\ timers \subseteq timers'
              /\ \A t \in timers' \ timers :
                    /\ t \in Timer /\ t.op = "deliver" /\ t.arg = mid
                    /\ seq <= t.seq /\ t.seq < seq'
              /\ timeline' \in Seq(Event)
           Clocked ==
              \/ /\ ~endpoints[src].reliable
                 /\ reliableClock' = reliableClock
              \/ \E when \in Time :
                    /\ timers' = timers \cup {Delivery(when, seq, mid)}
                    /\ reliableClock[<<src, dst>>] <= when
                    /\ reliableClock' = [reliableClock EXCEPT ![<<src, dst>>] = when]
<1>4. Fate(src, dst, mid, lat)
      BY DEF Send
<1> HIDE DEF lat
<1>5. ASSUME endpoints[src].reliable PROVE Scheduled /\ Clocked
  <2>1. ScheduleReliable(src, dst, mid, lat)
        BY <1>4, <1>5 DEF Fate
  <2> DEFINE when == Later(now + lat, reliableClock[<<src, dst>>])
  <2>2. /\ when \in Time
        /\ reliableClock' = [reliableClock EXCEPT ![<<src, dst>>] = when]
        /\ timers' = timers \cup {Delivery(when, seq, mid)}
        /\ seq' = seq + 1
        /\ timeline' = timeline
        BY <2>1 DEF ScheduleReliable
  <2>3. reliableClock[<<src, dst>>] <= when
        BY <2>2 DEF Later, Time, TypeOK
  <2>4. Delivery(when, seq, mid) \in Timer
        BY <2>2, <1>2 DEF Delivery, Timer, TypeOK
  <2> HIDE DEF when
  <2>5. Scheduled
        BY <2>2, <2>4 DEF TypeOK, Delivery
  <2>6. Clocked
        BY <2>2, <2>3
  <2>7. QED BY <2>5, <2>6
<1>6. ASSUME ~endpoints[src].reliable PROVE Scheduled /\ Clocked
  <2>1. /\ Happens("drop", mid) \in Event
        /\ Happens("duplicate", mid) \in Event
        BY <1>2 DEF Happens, Event, TypeOK
  <2>2. CASE Lose(mid)
        BY <2>1, <2>2, <1>6 DEF Lose, TypeOK
  <2>3. CASE ScheduleOnce(mid, lat)
    <3>1. Delivery(now + lat, seq, mid) \in Timer
          BY <2>3, <1>2 DEF ScheduleOnce, Delivery, Timer, TypeOK
    <3>2. QED BY <3>1, <2>3, <1>6 DEF ScheduleOnce, TypeOK, Delivery
  <2>4. CASE \E d \in Lat : ScheduleTwice(mid, lat, d * SlowFactor(src, dst))
    <3>1. PICK d : ScheduleTwice(mid, lat, d)
          BY <2>4
    <3>2. /\ Delivery(now + lat, seq, mid) \in Timer
          /\ Delivery(now + d, seq + 1, mid) \in Timer
          BY <3>1, <1>2 DEF ScheduleTwice, Delivery, Timer, TypeOK
    <3>3. QED BY <3>1, <3>2, <2>1, <1>6 DEF ScheduleTwice, TypeOK, Delivery
  <2>5. QED BY <1>4, <1>6, <2>2, <2>3, <2>4 DEF Fate
<1>7. QED BY <1>1, <1>3, <1>5, <1>6

\* The steps that send, deliver, bind and schedule nothing.
Quiet ==
    /\ timers' \subseteq timers
    /\ UNCHANGED <<seq, net, netPos, sent, queue, reliableClock, endpoints, faults>>
    /\ DOMAIN calls' = DOMAIN calls

\* Every step is one of these.
LEMMA NextCases ==
    ASSUME TypeOK, [Next]_vars
    PROVE  \/ \E a \in Addr, p \in Policies : Bind(a, p)
           \/ \E src, dst \in Addr : Send(src, dst)
           \/ \E secs \in Secs, specs \in SpecLists : RunFor(secs, specs)
           \/ \E t \in timers : Deliver(t)
           \/ Quiet
<1>1. CASE \E groups \in Splits : Partition(groups)
      BY <1>1 DEF Partition, Quiet, schedVars, netVars, faultVars
<1>2. CASE Heal \/ Tick
      BY <1>2 DEF Heal, Tick, Quiet, schedVars, netVars, faultVars
<1>3. CASE \E c \in DOMAIN calls : RunForReturns(c)
      BY <1>3 DEF RunForReturns, Quiet, schedVars, netVars, faultVars, TypeOK
<1>4. CASE \E t \in timers : Begin(t) \/ End(t)
      BY <1>4 DEF Begin, End, Fires, Quiet, netVars
<1>5. CASE \E t \in timers : Wake(t)
      BY <1>5 DEF Wake, Fires, Quiet, netVars, faultVars, TypeOK
<1>6. CASE UNCHANGED vars
      BY <1>6 DEF Quiet, vars, schedVars, netVars, faultVars
<1>7. QED BY <1>1, <1>2, <1>3, <1>4, <1>5, <1>6 DEF Next, Horizon

-----------------------------------------------------------------------------
(* The invariant holds at first and is kept by every step.                 *)

\* The invariant holds before anything is bound or sent.
LEMMA InitInv == ASSUME Init PROVE IInv
<1> USE TransportAssumption DEF Init
<1>1. TypeOK
  <2>1. 0 \in Time
        BY DEF Time
  <2>2. QED BY <2>1 DEF TypeOK, Groups
<1>2. References
      BY DEF References
<1>3. Streams
      BY DEF Streams, NetStreamUnshifted
<1>4. LinkOrder
      BY DEF LinkOrder
<1>5. ReliableFIFO
      BY DEF ReliableFIFO
<1>6. QED BY <1>1, <1>2, <1>3, <1>4, <1>5 DEF IInv

\* The type invariant is kept by every step.
LEMMA TypeStep == ASSUME TypeOK, References, Streams, [Next]_vars PROVE TypeOK'
<1> USE TransportAssumption
<1>1. ASSUME NEW a \in Addr, NEW p \in Policies, Bind(a, p) PROVE TypeOK'
      BY <1>1 DEF Bind, TypeOK, schedVars, netVars, faultVars
<1>2. ASSUME NEW groups \in Splits, Partition(groups) PROVE TypeOK'
      BY <1>2 DEF Partition, TypeOK, schedVars, netVars, faultVars
<1>3. CASE Heal
      BY <1>3 DEF Heal, TypeOK, Groups, schedVars, netVars, faultVars
<1>4. ASSUME NEW src \in Addr, NEW dst \in Addr, Send(src, dst) PROVE TypeOK'
  <2>1. UNCHANGED <<now, net, faultVars, endpoints, partition, queue, calls>>
        BY <1>4 DEF Send
  <2>2. timers' \subseteq Timer
        BY <1>4, SendAdds DEF TypeOK
  <2>3. reliableClock' \in [Addr \X Addr -> Time]
    <3>1. \/ reliableClock' = reliableClock
          \/ \E when \in Time : reliableClock' = [reliableClock EXCEPT ![<<src, dst>>] = when]
          BY <1>4, SendAdds
    <3>2. QED BY <3>1 DEF TypeOK
  <2>4. sent' \in Seq(Message)
    <3>1. Sent(src, dst) \in Message /\ sent' = Append(sent, Sent(src, dst))
          BY <1>4, SendAdds
    <3>2. QED BY <3>1 DEF TypeOK
  <2>5. netPos' \in 0..MaxSends
    <3>1. netPos' = netPos + 1 /\ Len(sent) < MaxSends
          BY <1>4, SendAdds
    <3>2. QED BY <3>1 DEF TypeOK, Streams
  <2>6. seq' \in Nat /\ timeline' \in Seq(Event)
        BY <1>4, SendAdds
  <2>7. QED BY <2>1, <2>2, <2>3, <2>4, <2>5, <2>6 DEF TypeOK, faultVars
<1>5. ASSUME NEW secs \in Secs, NEW specs \in SpecLists, RunFor(secs, specs) PROVE TypeOK'
  <2>1. UNCHANGED <<now, netVars, active, crashed, endpoints, reliableClock, partition, queue, timeline>>
        BY <1>5 DEF RunFor
  <2>2. timers' \subseteq Timer /\ active \subseteq DOMAIN faults'
        BY <1>5, RunForAdds DEF TypeOK
  <2>3. faults' \in Seq(Fault) /\ seq' \in Nat /\ calls' \in Seq(Call)
        BY <1>5, RunForAdds
  <2>4. QED BY <2>1, <2>2, <2>3 DEF TypeOK, netVars
<1>6. ASSUME NEW c \in DOMAIN calls, RunForReturns(c) PROVE TypeOK'
  <2>1. calls' \in Seq(Call)
    <3>1. calls[c] \in Call /\ calls \in Seq(Call)
          BY <1>6 DEF TypeOK
    <3>2. [calls[c] EXCEPT !.state = "returned"] \in Call
          BY <3>1 DEF Call
    <3>3. calls' = [calls EXCEPT ![c] = [calls[c] EXCEPT !.state = "returned"]]
          BY <1>6 DEF RunForReturns
    <3>4. QED BY <1>6, <3>1, <3>2, <3>3
  <2>2. QED BY <1>6, <2>1 DEF RunForReturns, TypeOK, schedVars, netVars, faultVars
<1>7. ASSUME NEW t \in timers, Deliver(t) PROVE TypeOK'
  <2> DEFINE m == sent[t.arg]
  <2>1. t.arg \in Nat /\ t.arg \in DOMAIN sent /\ m \in Message
        BY <1>7 DEF Deliver, References, TypeOK, Timer
  <2>2. [ev |-> Outcome(m), mid |-> t.arg, t |-> now, scenario |-> ScenarioCut(m.src, m.dst)] \in Event
        BY <2>1 DEF Event, Outcome, ScenarioCut, Cut, TypeOK
  <2>3. timeline' \in Seq(Event)
        BY <1>7, <2>2 DEF Deliver, TypeOK
  <2>4. queue' \in [Addr -> Seq(Nat)]
    <3>1. \/ queue' = queue
          \/ queue' = [queue EXCEPT ![m.dst] = Append(queue[m.dst], t.arg)]
          BY <1>7 DEF Deliver
    <3>2. m.dst \in Addr /\ queue \in [Addr -> Seq(Nat)]
          BY <2>1 DEF Message, TypeOK
    <3>3. Append(queue[m.dst], t.arg) \in Seq(Nat)
          BY <2>1, <3>2
    <3> HIDE DEF m
    <3>4. QED BY <3>1, <3>2, <3>3
  <2>5. timers' \subseteq Timer
        BY <1>7 DEF Deliver, Fires, TypeOK
  <2>6. QED BY <1>7, <2>3, <2>4, <2>5 DEF Deliver, TypeOK, netVars, faultVars
<1>8. ASSUME NEW t \in timers, Begin(t) PROVE TypeOK'
  <2>1. t.arg \in DOMAIN faults
        BY <1>8 DEF Begin, References
  <2>2. faults[t.arg] \in Fault
        BY <2>1 DEF TypeOK
  <2>3. active' \subseteq DOMAIN faults /\ crashed' \subseteq Addr
        BY <1>8, <2>1, <2>2 DEF Begin, TypeOK, Fault
  <2>4. QED BY <1>8, <2>3 DEF Begin, Fires, TypeOK, netVars
<1>9. ASSUME NEW t \in timers, End(t) PROVE TypeOK'
      BY <1>9 DEF End, Fires, TypeOK, netVars
<1>10. ASSUME NEW t \in timers, Wake(t) PROVE TypeOK'
  <2>1. t.arg \in DOMAIN calls
        BY <1>10 DEF Wake, References
  <2>2. calls' \in Seq(Call)
    <3>1. calls[t.arg] \in Call /\ calls \in Seq(Call)
          BY <2>1 DEF TypeOK
    <3>2. [calls[t.arg] EXCEPT !.state = "woken"] \in Call
          BY <3>1 DEF Call
    <3>3. calls' = [calls EXCEPT ![t.arg] = [calls[t.arg] EXCEPT !.state = "woken"]]
          BY <1>10 DEF Wake
    <3>4. QED BY <2>1, <3>1, <3>2, <3>3
  <2>3. QED BY <1>10, <2>2 DEF Wake, Fires, TypeOK, netVars, faultVars
<1>11. CASE Tick
  <2>1. now' \in Time
        BY <1>11 DEF Tick, Time, TypeOK
  <2>2. QED BY <1>11, <2>1 DEF Tick, TypeOK, netVars, faultVars
<1>12. CASE UNCHANGED vars
       BY <1>12 DEF TypeOK, vars, schedVars, netVars, faultVars
<1>13. QED BY <1>1, <1>2, <1>3, <1>4, <1>5, <1>6, <1>7, <1>8, <1>9, <1>10, <1>11, <1>12
           DEF Next, Horizon

\* A new endpoint sends nothing that is already on its way.
LEMMA BindKeepsPolicies ==
    ASSUME TypeOK, Streams, NEW a \in Addr, NEW p \in Policies, Bind(a, p), NEW mid \in DOMAIN sent
    PROVE  Reliable(mid)' = Reliable(mid) /\ endpoints'[sent'[mid].src] # None
<1>1. sent[mid].src \in Addr /\ sent[mid].src # a
  <2>1. sent[mid] \in Message
        BY DEF TypeOK
  <2>2. QED BY <2>1 DEF Message, Streams, Bind
<1>2. QED BY <1>1 DEF Reliable, Bind, TypeOK, netVars, Streams

\* What is on its way keeps its message when another is sent.
LEMMA SendKeeps ==
    ASSUME TypeOK, Streams, NEW src \in Addr, NEW dst \in Addr, Send(src, dst)
    PROVE  /\ DOMAIN sent' = 1..(Len(sent) + 1) /\ DOMAIN sent = 1..Len(sent) /\ Len(sent) \in Nat
           /\ Len(sent') = Len(sent) + 1
           /\ \A mid \in DOMAIN sent : sent'[mid] = sent[mid] /\ Reliable(mid)' = Reliable(mid)
           /\ sent'[Len(sent) + 1].src = src /\ sent'[Len(sent) + 1].dst = dst
           /\ sent'[Len(sent) + 1].base = net[Len(sent) + 1]
           /\ endpoints' = endpoints
<1>1. Sent(src, dst) \in Message /\ sent' = Append(sent, Sent(src, dst))
      BY SendAdds
<1>2. endpoints' = endpoints
      BY DEF Send
<1>3. /\ DOMAIN sent' = 1..(Len(sent) + 1) /\ DOMAIN sent = 1..Len(sent) /\ Len(sent) \in Nat
      /\ Len(sent') = Len(sent) + 1
      /\ \A mid \in DOMAIN sent : sent'[mid] = sent[mid]
      /\ sent'[Len(sent) + 1] = Sent(src, dst)
      BY <1>1 DEF TypeOK
<1>4. QED BY <1>2, <1>3 DEF Reliable, Sent

\* Timers and queues keep referring to messages, faults and calls that exist.
LEMMA ReferencesStep == ASSUME TypeOK, References, Streams, [Next]_vars PROVE References'
<1>1. ASSUME NEW a \in Addr, NEW p \in Policies, Bind(a, p) PROVE References'
      BY <1>1 DEF Bind, References, schedVars, netVars, faultVars
<1>2. ASSUME NEW src \in Addr, NEW dst \in Addr, Send(src, dst) PROVE References'
  <2>1. UNCHANGED <<faults, queue, calls>>
        BY <1>2 DEF Send, faultVars
  <2>2. \A t \in timers' \ timers : t.op = "deliver" /\ t.arg = Len(sent) + 1
        BY <1>2, SendAdds
  <2>3. /\ DOMAIN sent' = 1..(Len(sent) + 1) /\ DOMAIN sent = 1..Len(sent) /\ Len(sent) \in Nat
        /\ \A mid \in DOMAIN sent : sent'[mid] = sent[mid]
        BY <1>2, SendKeeps
  <2>4. QED BY <2>1, <2>2, <2>3 DEF References
<1>3. ASSUME NEW secs \in Secs, NEW specs \in SpecLists, RunFor(secs, specs) PROVE References'
  <2>1. UNCHANGED <<sent, queue>>
        BY <1>3 DEF RunFor, netVars
  <2>2. QED BY <1>3, <2>1, RunForAdds DEF References
<1>4. ASSUME NEW t \in timers, Deliver(t) PROVE References'
  <2> DEFINE m == sent[t.arg]
  <2>1. t.arg \in DOMAIN sent /\ m.dst \in Addr /\ t.arg \in Nat
    <3>1. t.arg \in DOMAIN sent /\ t.arg \in Nat
          BY <1>4 DEF Deliver, References, TypeOK, Timer
    <3>2. m \in Message
          BY <3>1 DEF TypeOK
    <3>3. QED BY <3>1, <3>2 DEF Message
  <2>2. \/ queue' = queue
        \/ queue' = [queue EXCEPT ![m.dst] = Append(queue[m.dst], t.arg)]
        BY <1>4 DEF Deliver
  <2>3. timers' \subseteq timers /\ UNCHANGED <<sent, faults, calls>>
        BY <1>4 DEF Deliver, Fires, netVars, faultVars
  <2>4. \A a \in Addr : \A i \in DOMAIN queue'[a] :
           queue'[a][i] \in DOMAIN sent /\ sent[queue'[a][i]].dst = a
    <3> SUFFICES ASSUME NEW a \in Addr, NEW i \in DOMAIN queue'[a]
                 PROVE  queue'[a][i] \in DOMAIN sent /\ sent[queue'[a][i]].dst = a
        OBVIOUS
    <3>1. CASE queue'[a] = queue[a]
          BY <3>1 DEF References
    <3>2. CASE a = m.dst /\ queue'[a] = Append(queue[a], t.arg)
      <4>1. queue[a] \in Seq(Nat)
            BY DEF TypeOK
      <4>2. \/ i \in DOMAIN queue[a] /\ queue'[a][i] = queue[a][i]
            \/ queue'[a][i] = t.arg
            BY <2>1, <3>2, <4>1
      <4>3. QED BY <2>1, <3>2, <4>2 DEF References
    <3>3. QED BY <2>1, <2>2, <3>1, <3>2 DEF TypeOK
  <2>5. QED BY <2>3, <2>4 DEF References
<1>5. CASE Quiet
      BY <1>5 DEF Quiet, References
<1>6. QED BY <1>1, <1>2, <1>3, <1>4, <1>5, NextCases

\* Every send uses one draw of the "net" sub-stream, its own.
LEMMA StreamsStep == ASSUME TypeOK, References, Streams, [Next]_vars PROVE Streams'
<1>1. ASSUME NEW a \in Addr, NEW p \in Policies, Bind(a, p) PROVE Streams'
      BY <1>1, BindKeepsPolicies DEF Bind, Streams, NetStreamUnshifted, netVars
<1>2. ASSUME NEW src \in Addr, NEW dst \in Addr, Send(src, dst) PROVE Streams'
  <2>1. endpoints[src] # None /\ netPos' = netPos + 1 /\ Len(sent) < MaxSends
        BY <1>2, SendAdds
  <2>2. net' = net
        BY <1>2 DEF Send
  <2>3. /\ DOMAIN sent' = 1..(Len(sent) + 1) /\ DOMAIN sent = 1..Len(sent) /\ Len(sent) \in Nat
        /\ Len(sent') = Len(sent) + 1
        /\ \A mid \in DOMAIN sent : sent'[mid] = sent[mid]
        /\ sent'[Len(sent) + 1].src = src
        /\ sent'[Len(sent) + 1].base = net[Len(sent) + 1]
        /\ endpoints' = endpoints
        BY <1>2, SendKeeps
  <2>4. QED BY <2>1, <2>2, <2>3, TransportAssumption DEF Streams, NetStreamUnshifted
<1>3. ASSUME NEW secs \in Secs, NEW specs \in SpecLists, RunFor(secs, specs) PROVE Streams'
      BY <1>3 DEF RunFor, netVars, Streams, NetStreamUnshifted
<1>4. ASSUME NEW t \in timers, Deliver(t) PROVE Streams'
      BY <1>4 DEF Deliver, netVars, Streams, NetStreamUnshifted
<1>5. CASE Quiet
      BY <1>5 DEF Quiet, Streams, NetStreamUnshifted
<1>6. QED BY <1>1, <1>2, <1>3, <1>4, <1>5, NextCases

\* Steps after which the same deliveries, or fewer, are in flight on the same
\* links, and the clocks of the links have not gone back.
LEMMA OrderKept ==
    ASSUME TypeOK, References, LinkOrder,
           UNCHANGED <<sent, queue, reliableClock>>, seq <= seq', seq' \in Nat,
           \A m \in DOMAIN sent : Reliable(m)' = Reliable(m),
           \A t \in timers' : t \in timers \/ (t \in Timer /\ t.op # "deliver" /\ t.seq < seq')
    PROVE  LinkOrder'
<1>1. \A t \in timers' : OnReliable(t)' => t \in timers /\ OnReliable(t)
      BY DEF OnReliable, References
<1>2. \A t \in timers' : t.seq < seq'
      BY DEF LinkOrder, TypeOK, Timer
<1>3. \A m, n : SameLink(m, n)' = SameLink(m, n)
      BY DEF SameLink
<1>4. QED BY <1>1, <1>2, <1>3 DEF LinkOrder

\* A new message joins its link behind everything in flight on it.
LEMMA SendOrder ==
    ASSUME TypeOK, References, Streams, LinkOrder,
           NEW src \in Addr, NEW dst \in Addr, Send(src, dst)
    PROVE  LinkOrder'
<1> DEFINE mid == Len(sent) + 1
<1>1. /\ DOMAIN sent' = 1..mid /\ DOMAIN sent = 1..Len(sent) /\ Len(sent) \in Nat
      /\ \A m \in DOMAIN sent : sent'[m] = sent[m] /\ Reliable(m)' = Reliable(m)
      /\ sent'[mid].src = src /\ sent'[mid].dst = dst
      /\ endpoints' = endpoints
      BY SendKeeps
<1>2. /\ seq' \in Nat /\ seq <= seq'
      /\ timers \subseteq timers'
      /\ \A t \in timers' \ timers :
            /\ t \in Timer /\ t.op = "deliver" /\ t.arg = mid
            /\ seq <= t.seq /\ t.seq < seq'
      BY SendAdds
<1>3. queue' = queue
      BY DEF Send
<1>4. \A t \in timers' : t.seq < seq'
      BY <1>2 DEF LinkOrder, TypeOK, Timer
<1>5. ASSUME NEW t \in timers
      PROVE  /\ t \in Timer /\ OnReliable(t)' = OnReliable(t)
             /\ t.op = "deliver" =>
                   /\ t.arg \in DOMAIN sent /\ t.arg < mid /\ sent'[t.arg] = sent[t.arg]
                   /\ sent[t.arg] \in Message
      BY <1>1 DEF OnReliable, References, TypeOK
<1>6. ASSUME NEW a \in Addr, NEW i \in DOMAIN queue[a]
      PROVE  queue[a][i] < mid /\ sent'[queue[a][i]] = sent[queue[a][i]]
      BY <1>1 DEF References
<1>7. CASE ~endpoints[src].reliable /\ reliableClock' = reliableClock
  <2>1. \A t \in timers' : OnReliable(t)' => t \in timers
        BY <1>1, <1>2, <1>7 DEF OnReliable, Reliable
  <2>2. QED BY <1>3, <1>4, <1>5, <1>6, <1>7, <2>1 DEF LinkOrder, SameLink, OnReliable
<1>8. CASE \E when \in Time :
              /\ timers' = timers \cup {Delivery(when, seq, mid)}
              /\ reliableClock[<<src, dst>>] <= when
              /\ reliableClock' = [reliableClock EXCEPT ![<<src, dst>>] = when]
  <2>1. PICK when \in Time :
              /\ timers' = timers \cup {Delivery(when, seq, mid)}
              /\ reliableClock[<<src, dst>>] <= when
              /\ reliableClock' = [reliableClock EXCEPT ![<<src, dst>>] = when]
        BY <1>8
  <2> DEFINE new == Delivery(when, seq, mid)
  <2>2. /\ new.when = when /\ new.seq = seq /\ new.op = "deliver" /\ new.arg = mid
        /\ timers' = timers \cup {new}
        BY <2>1 DEF Delivery
  <2> HIDE DEF new
  <2>3. \A l \in Addr \X Addr : reliableClock[l] <= reliableClock'[l]
    <3> SUFFICES ASSUME NEW l \in Addr \X Addr PROVE reliableClock[l] <= reliableClock'[l]
        OBVIOUS
    <3>1. reliableClock[l] \in Nat /\ reliableClock \in [Addr \X Addr -> Time]
          BY DEF TypeOK, Time
    <3>2. CASE l = <<src, dst>>
          BY <2>1, <3>1, <3>2
    <3>3. CASE l # <<src, dst>>
          BY <2>1, <3>1, <3>3
    <3>4. QED BY <3>2, <3>3
  <2>4. \A t \in timers' : OnReliable(t)' =>
           t.when <= reliableClock'[<<sent'[t.arg].src, sent'[t.arg].dst>>]
    <3>1. ASSUME NEW t \in timers, OnReliable(t)
          PROVE  t.when <= reliableClock'[<<sent'[t.arg].src, sent'[t.arg].dst>>]
      <4> DEFINE l == <<sent[t.arg].src, sent[t.arg].dst>>
      <4>1. l \in Addr \X Addr /\ sent'[t.arg] = sent[t.arg]
            BY <1>5, <3>1 DEF OnReliable, Message
      <4>2. t.when <= reliableClock[l] /\ t.when \in Nat
            BY <1>5, <3>1 DEF LinkOrder, Timer, Time
      <4>3. reliableClock[l] \in Nat /\ reliableClock'[l] \in Nat
            BY <4>1, <2>1 DEF TypeOK, Time
      <4>4. reliableClock[l] <= reliableClock'[l]
            BY <4>1, <2>3
      <4> HIDE DEF l
      <4>5. t.when <= reliableClock'[l]
            BY <4>2, <4>3, <4>4
      <4>6. QED BY <4>1, <4>5 DEF l
    <3>2. new.when <= reliableClock'[<<sent'[new.arg].src, sent'[new.arg].dst>>]
          BY <1>1, <2>1, <2>2 DEF TypeOK, Time
    <3>3. QED BY <1>5, <2>2, <3>1, <3>2
  <2>5. ASSUME NEW t \in timers, OnReliable(t), sent'[t.arg].src = src, sent'[t.arg].dst = dst
        PROVE  t.arg < mid /\ t.seq < seq /\ t.when <= when
    <3>1. sent[t.arg].src = src /\ sent[t.arg].dst = dst /\ t.arg < mid
          BY <1>5, <2>5 DEF OnReliable
    <3>2. t.when <= reliableClock[<<src, dst>>] /\ t.seq < seq
          BY <2>5, <3>1 DEF LinkOrder
    <3>3. t.when \in Nat /\ reliableClock[<<src, dst>>] \in Nat
          BY <1>5 DEF Timer, Time, TypeOK
    <3>4. QED BY <2>1, <3>1, <3>2, <3>3 DEF Time
  <2>6. \A t, u \in timers' :
          OnReliable(t)' /\ OnReliable(u)' /\ SameLink(t.arg, u.arg)' =>
             /\ t.arg < u.arg => t.seq < u.seq /\ t.when <= u.when
             /\ t.arg = u.arg => t = u
    <3> SUFFICES ASSUME NEW t \in timers', NEW u \in timers',
                        OnReliable(t)', OnReliable(u)', SameLink(t.arg, u.arg)'
                 PROVE  /\ t.arg < u.arg => t.seq < u.seq /\ t.when <= u.when
                        /\ t.arg = u.arg => t = u
        OBVIOUS
    <3>1. CASE t \in timers /\ u \in timers
      <4>1. OnReliable(t) /\ OnReliable(u) /\ SameLink(t.arg, u.arg)
            BY <1>5, <3>1 DEF SameLink, OnReliable
      <4>2. QED BY <3>1, <4>1 DEF LinkOrder
    <3>2. CASE t \in timers /\ u = new
      <4>1. OnReliable(t) /\ sent'[t.arg].src = src /\ sent'[t.arg].dst = dst
            BY <1>1, <1>5, <2>2, <3>2 DEF SameLink
      <4>2. QED BY <1>1, <1>5, <2>2, <2>5, <3>2, <4>1 DEF Timer
    <3>3. CASE t = new /\ u \in timers
      <4>1. OnReliable(u) /\ sent'[u.arg].src = src /\ sent'[u.arg].dst = dst
            BY <1>1, <1>5, <2>2, <3>3 DEF SameLink
      <4>2. u.arg < mid /\ u.arg \in Nat /\ mid \in Nat
            BY <1>1, <1>5, <2>5, <3>3, <4>1 DEF Timer
      <4>3. QED BY <2>2, <3>3, <4>2
    <3>4. CASE t = new /\ u = new
          BY <1>1, <2>2, <3>4
    <3>5. QED BY <2>2, <3>1, <3>2, <3>3, <3>4
  <2>7. \A a \in Addr : \A i \in DOMAIN queue[a] : \A t \in timers' :
          OnReliable(t)' /\ SameLink(queue[a][i], t.arg)' => queue[a][i] < t.arg
    <3> SUFFICES ASSUME NEW a \in Addr, NEW i \in DOMAIN queue[a], NEW t \in timers',
                        OnReliable(t)', SameLink(queue[a][i], t.arg)'
                 PROVE  queue[a][i] < t.arg
        BY <1>3
    <3>1. CASE t \in timers
      <4>1. OnReliable(t) /\ SameLink(queue[a][i], t.arg)
            BY <1>3, <1>5, <1>6, <3>1 DEF SameLink, OnReliable
      <4>2. QED BY <3>1, <4>1 DEF LinkOrder
    <3>2. CASE t = new
          BY <1>6, <2>2, <3>2
    <3>3. QED BY <2>2, <3>1, <3>2
  <2>8. QED BY <1>3, <1>4, <2>4, <2>6, <2>7 DEF LinkOrder
<1>9. QED BY <1>7, <1>8, SendAdds

\* What is delivered was next on its link.
LEMMA DeliverOrder ==
    ASSUME TypeOK, References, LinkOrder, NEW t \in timers, Deliver(t)
    PROVE  /\ \A u \in timers' : OnReliable(u) /\ SameLink(t.arg, u.arg) => t.arg < u.arg
           /\ \/ queue' = queue
              \/ queue' = [queue EXCEPT ![sent[t.arg].dst] = Append(queue[sent[t.arg].dst], t.arg)]
           /\ t.op = "deliver" /\ t.arg \in DOMAIN sent /\ t.arg \in Nat
           /\ sent[t.arg].dst \in Addr
<1>1. /\ timers' = timers \ {t} /\ t.when = now /\ t.op = "deliver"
      /\ \A u \in timers \ {t} : u.when > now \/ u.seq > t.seq
      BY DEF Deliver, Fires
<1>2. t.arg \in DOMAIN sent /\ t.arg \in Nat
      BY <1>1 DEF References, TypeOK, Timer
<1>3. sent[t.arg] \in Message
      BY <1>2 DEF TypeOK
<1>4. ASSUME NEW u \in timers', OnReliable(u), SameLink(t.arg, u.arg) PROVE t.arg < u.arg
  <2>1. u \in timers /\ u # t /\ OnReliable(t) /\ SameLink(u.arg, t.arg)
        BY <1>1, <1>4 DEF OnReliable, SameLink, Reliable
  <2>2. /\ u.arg < t.arg => u.seq < t.seq /\ u.when <= t.when
        /\ u.arg # t.arg
        BY <1>4, <2>1 DEF LinkOrder
  <2>3. t \in Timer /\ u \in Timer /\ now \in Nat
        BY <2>1 DEF TypeOK, Time
  <2>4. u.when > now \/ u.seq > t.seq
        BY <1>1, <2>1
  <2>5. QED BY <1>1, <2>2, <2>3, <2>4 DEF Timer, Time
<1>5. QED BY <1>1, <1>2, <1>3, <1>4 DEF Deliver, Message

\* The order of a reliable link is kept by every step.
LEMMA OrderStep == ASSUME TypeOK, References, Streams, LinkOrder, [Next]_vars PROVE LinkOrder'
<1>1. ASSUME NEW a \in Addr, NEW p \in Policies, Bind(a, p) PROVE LinkOrder'
  <2>1. \A m \in DOMAIN sent : Reliable(m)' = Reliable(m)
        BY <1>1, BindKeepsPolicies
  <2>2. UNCHANGED <<sent, queue, reliableClock, timers, seq>>
        BY <1>1 DEF Bind, schedVars, netVars
  <2>3. seq <= seq' /\ seq' \in Nat
        BY <2>2 DEF TypeOK
  <2>4. QED BY <2>1, <2>2, <2>3, OrderKept
<1>2. ASSUME NEW src \in Addr, NEW dst \in Addr, Send(src, dst) PROVE LinkOrder'
      BY <1>2, SendOrder
<1>3. ASSUME NEW secs \in Secs, NEW specs \in SpecLists, RunFor(secs, specs) PROVE LinkOrder'
  <2>1. UNCHANGED <<sent, queue, reliableClock, endpoints>>
        BY <1>3 DEF RunFor, netVars
  <2>2. \A m \in DOMAIN sent : Reliable(m)' = Reliable(m)
        BY <2>1 DEF Reliable
  <2>3. /\ seq <= seq' /\ seq' \in Nat
        /\ \A t \in timers' \ timers : t \in Timer /\ t.op # "deliver" /\ t.seq < seq'
        BY <1>3, RunForAdds
  <2>4. QED BY <2>1, <2>2, <2>3, OrderKept
<1>4. ASSUME NEW t \in timers, Deliver(t) PROVE LinkOrder'
  <2>1. UNCHANGED <<sent, seq, reliableClock, endpoints>> /\ timers' \subseteq timers
        BY <1>4 DEF Deliver, Fires, netVars
  <2>2. \A u \in timers' : OnReliable(u)' = OnReliable(u)
        BY <2>1 DEF OnReliable, Reliable
  <2>3. \A m, n : SameLink(m, n)' = SameLink(m, n)
        BY <2>1 DEF SameLink
  <2>4. ASSUME NEW a \in Addr, NEW i \in DOMAIN queue'[a], NEW u \in timers',
               OnReliable(u), SameLink(queue'[a][i], u.arg)
        PROVE  queue'[a][i] < u.arg
    <3> DEFINE d == sent[t.arg].dst
    <3>1. /\ t.arg \in Nat /\ d \in Addr
          /\ queue' = queue \/ queue' = [queue EXCEPT ![d] = Append(queue[d], t.arg)]
          /\ SameLink(t.arg, u.arg) => t.arg < u.arg
          BY <1>4, <2>4, DeliverOrder
    <3> HIDE DEF d
    <3>2. queue[a] \in Seq(Nat) /\ queue \in [Addr -> Seq(Nat)]
          BY DEF TypeOK
    <3>3. \/ i \in DOMAIN queue[a] /\ queue'[a][i] = queue[a][i]
          \/ queue'[a][i] = t.arg
      <4>1. queue'[a] = queue[a] \/ queue'[a] = Append(queue[a], t.arg)
            BY <3>1, <3>2
      <4>2. QED BY <2>4, <3>1, <3>2, <4>1
    <3>4. QED BY <2>1, <2>4, <3>1, <3>3 DEF LinkOrder
  <2>5. QED BY <2>1, <2>2, <2>3, <2>4 DEF LinkOrder
<1>5. CASE Quiet
  <2>1. UNCHANGED <<sent, queue, reliableClock, seq, endpoints>> /\ timers' \subseteq timers
        BY <1>5 DEF Quiet
  <2>2. \A m \in DOMAIN sent : Reliable(m)' = Reliable(m)
        BY <2>1 DEF Reliable
  <2>3. seq <= seq' /\ seq' \in Nat
        BY <2>1 DEF TypeOK
  <2>4. QED BY <2>1, <2>2, <2>3, OrderKept
<1>6. QED BY <1>1, <1>2, <1>3, <1>4, <1>5, NextCases

\* What a reliable link has delivered stays in the order of sending.
LEMMA FIFOStep ==
    ASSUME TypeOK, References, Streams, LinkOrder, ReliableFIFO, [Next]_vars
    PROVE  ReliableFIFO'
<1>1. ASSUME queue' = queue,
             \A m \in DOMAIN sent : sent'[m] = sent[m] /\ Reliable(m)' = Reliable(m)
      PROVE  ReliableFIFO'
      BY <1>1 DEF ReliableFIFO, References
<1>2. ASSUME NEW a \in Addr, NEW p \in Policies, Bind(a, p) PROVE ReliableFIFO'
      BY <1>1, <1>2, BindKeepsPolicies DEF Bind, netVars
<1>3. ASSUME NEW src \in Addr, NEW dst \in Addr, Send(src, dst) PROVE ReliableFIFO'
  <2>1. queue' = queue
        BY <1>3 DEF Send
  <2>2. QED BY <1>1, <1>3, <2>1, SendKeeps
<1>4. ASSUME NEW secs \in Secs, NEW specs \in SpecLists, RunFor(secs, specs) PROVE ReliableFIFO'
      BY <1>1, <1>4 DEF RunFor, netVars, Reliable
<1>5. ASSUME NEW t \in timers, Deliver(t) PROVE ReliableFIFO'
  <2> DEFINE d == sent[t.arg].dst
  <2>1. UNCHANGED <<sent, endpoints>>
        BY <1>5 DEF Deliver, netVars
  <2>2. /\ t.op = "deliver" /\ t.arg \in Nat /\ d \in Addr /\ t.arg \in DOMAIN sent
        /\ queue' = queue \/ queue' = [queue EXCEPT ![d] = Append(queue[d], t.arg)]
        BY <1>5, DeliverOrder
  <2>3. SUFFICES ASSUME NEW a \in Addr, NEW i \in DOMAIN queue'[a], NEW j \in DOMAIN queue'[a],
                        i < j, sent[queue'[a][i]].src = sent[queue'[a][j]].src,
                        Reliable(queue'[a][i])
                 PROVE  queue'[a][i] < queue'[a][j]
        BY <2>1 DEF ReliableFIFO, Reliable
  <2>4. queue[a] \in Seq(Nat) /\ queue \in [Addr -> Seq(Nat)]
        BY DEF TypeOK
  <2>5. CASE queue'[a] = queue[a]
        BY <2>3, <2>5 DEF ReliableFIFO
  <2>6. CASE a = d /\ queue'[a] = Append(queue[a], t.arg)
    <3> HIDE DEF d
    <3>1. i \in DOMAIN queue[a] /\ queue'[a][i] = queue[a][i]
          BY <2>2, <2>3, <2>4, <2>6
    <3>2. CASE j \in DOMAIN queue[a]
      <4>1. queue'[a][j] = queue[a][j]
            BY <2>2, <2>4, <2>6, <3>2
      <4>2. QED BY <2>3, <3>1, <3>2, <4>1 DEF ReliableFIFO
    <3>3. CASE queue'[a][j] = t.arg
      <4>1. sent[queue[a][i]].dst = d
            BY <2>6, <3>1 DEF References
      <4>2. SameLink(queue[a][i], t.arg) /\ OnReliable(t)
            BY <2>2, <2>3, <3>1, <3>3, <4>1 DEF SameLink, OnReliable, Reliable, d
      <4>3. QED BY <3>1, <3>3, <4>2 DEF LinkOrder
    <3>4. QED BY <2>2, <2>3, <2>4, <2>6, <3>2, <3>3
  <2>7. QED BY <2>2, <2>4, <2>5, <2>6
<1>6. CASE Quiet
      BY <1>1, <1>6 DEF Quiet, Reliable
<1>7. QED BY <1>2, <1>3, <1>4, <1>5, <1>6, NextCases

\* The inductive invariant holds throughout.
LEMMA Invariance == Spec => []IInv
<1>1. Init => IInv
      BY InitInv
<1>2. IInv /\ [Next]_vars => IInv'
      BY TypeStep, ReferencesStep, StreamsStep, OrderStep, FIFOStep DEF IInv
<1>3. QED BY <1>1, <1>2, PTL DEF Spec

-----------------------------------------------------------------------------
(* The theorems.                                                           *)

\* The network's state always has its type: in particular a window that is
\* open is that of a scheduled fault, and no send draws past the stream.
THEOREM TypeCorrect == Spec => []TypeOK
<1>1. IInv => TypeOK
      BY DEF IInv
<1>2. QED BY <1>1, Invariance, PTL

\* Every reliable link delivers in the order of sending and never twice, for
\* any number of messages, any latencies, any slow links and any partitions.
THEOREM ReliableLinksAreFIFO == Spec => []ReliableFIFO
<1>1. IInv => ReliableFIFO
      BY DEF IInv
<1>2. QED BY <1>1, Invariance, PTL

\* The n-th send gets the n-th latency of the "net" sub-stream, whatever is
\* lost, duplicated, cut or slowed.
THEOREM LatenciesUnshifted == Spec => []NetStreamUnshifted
<1>1. IInv => NetStreamUnshifted
      BY DEF IInv, Streams
<1>2. QED BY <1>1, Invariance, PTL
=============================================================================
