------------------------ MODULE TransportFaultProofs ------------------------
(* Proofs of the safety properties of seed-timed faults, and of the copies *)
(* and the latencies of messages, of Transport, for every value of its     *)
(* constants.                                                              *)
EXTENDS TransportProofs, FiniteSetTheorems, WellFoundedInduction

Pending(op, i) == \E t \in timers : t.op = op /\ t.arg = i

\* The clock passes no timer of a fault or a call, and the timers of a fault
\* are those of its window: one for its beginning and, unless it is a crash, a
\* later one for its end.
Armed ==
    \A t \in timers : t.op # "deliver" =>
       /\ now <= t.when
       /\ t.op = "begin" => t.when = faults[t.arg].start
       /\ t.op = "end" => t.when = faults[t.arg].end /\ faults[t.arg].kind # "crash"
       /\ \A u \in timers : t.arg = u.arg =>
             /\ t.op = u.op => t = u
             /\ t.op = "begin" /\ u.op = "end" => t.seq < u.seq

\* How far fault i has come, from the timers it still has.
Progress(i) ==
    /\ ~Pending("begin", i) => faults[i].start <= now
    /\ IF faults[i].kind = "crash"
       THEN /\ i \notin active
            /\ ~Pending("begin", i) => faults[i].who \subseteq crashed
       ELSE /\ Pending("begin", i) => Pending("end", i)
            /\ ~Pending("end", i) => faults[i].end <= now
            /\ i \in active <=> ~Pending("begin", i) /\ Pending("end", i)

Progresses == \A i \in DOMAIN faults : Progress(i)

\* Only crashes take nodes down.
CrashesCaused ==
    \A a \in crashed : \E i \in DOMAIN faults :
       faults[i].kind = "crash" /\ faults[i].start <= now /\ a \in faults[i].who

\* What a resolved fault is, for ever.
Sound(f) ==
    /\ Disjoint(f.groups)
    /\ f.kind = "slow" => f.groups = << >> /\ Cardinality(f.who) = 2 /\ f.factor > 1
    /\ f.kind = "crash" => f.groups = << >>
    /\ f.start <= f.end

\* Every fault is sound and lies within the call that scheduled it; the sleep
\* of a call is the last of its timers, and a call that has slept has no timer
\* of a fault left.
CallsKept ==
    /\ \A i \in DOMAIN faults :
          /\ Sound(faults[i])
          /\ \E c \in DOMAIN calls : i \in calls[c].faults
    /\ \A c \in DOMAIN calls :
          /\ calls[c].state = "yielded" => calls[c].secs = 0
          /\ \A i \in calls[c].faults :
                /\ i \in DOMAIN faults
                /\ calls[c].at <= faults[i].start
                /\ faults[i].end <= calls[c].at + calls[c].secs
                /\ calls[c].state \in {"woken", "returned"} /\ calls[c].secs > 0 =>
                      ~Pending("begin", i) /\ ~Pending("end", i)
    /\ \A t \in timers : t.op = "sleep" =>
          /\ calls[t.arg].state = "asleep"
          /\ t.when = calls[t.arg].at + calls[t.arg].secs
          /\ \A u \in timers : u.op \in {"begin", "end"} /\ u.arg \in calls[t.arg].faults =>
                u.seq < t.seq

\* The timeline is of the past.
Past == \A k \in DOMAIN timeline : timeline[k].t <= now /\ timeline[k].mid \in DOMAIN sent

FInv == Armed /\ Progresses /\ CrashesCaused /\ CallsKept
DInv == Past /\ DecidedAtDelivery

-----------------------------------------------------------------------------
(* What run_for schedules.                                                 *)

\* What the seed makes of a valid fault handle does what the handle says,
\* within the call.
LEMMA ResolutionsSound ==
    ASSUME TypeOK, NEW spec \in FaultHandle, NEW secs \in Nat, now + secs <= MaxTime,
           Valid(spec, secs), NEW f \in Resolutions(spec, secs)
    PROVE  Sound(f) /\ now <= f.start /\ f.end <= now + secs
<1> USE TransportAssumption
<1>1. \A w \in Windows(secs) : now <= w[1] /\ w[1] <= w[2] /\ w[2] <= now + secs
      BY DEF TypeOK, Windows, Time
<1>2. BoundAddresses \subseteq Addr
      BY DEF BoundAddresses
<1>3. CASE spec.kind = "partition"
  <2>1. PICK g \in IF spec.groups # << >> THEN {spec.groups} ELSE Bipartitions, w \in Windows(secs) :
           f = [kind |-> "partition", groups |-> g, who |-> {}, factor |-> 1,
                start |-> w[1], end |-> w[2]]
        BY <1>3 DEF Resolutions
  <2>2. Disjoint(g)
    <3>1. CASE spec.groups # << >>
          BY <1>3, <2>1, <3>1 DEF Valid
    <3>2. CASE spec.groups = << >>
      <4>1. PICK A \in SUBSET BoundAddresses : g = <<A, BoundAddresses \ A>>
            BY <2>1, <3>2 DEF Bipartitions
      <4>2. DOMAIN g = {1, 2} /\ g[1] \cap g[2] = {} /\ g[2] \cap g[1] = {}
            BY <4>1
      <4>3. QED BY <4>2 DEF Disjoint
    <3>3. QED BY <3>1, <3>2
  <2>3. QED BY <2>1, <2>2, <1>1 DEF Sound
<1>4. CASE spec.kind = "slow"
  <2>1. PICK p \in Pairs(spec.a, spec.b),
             x \in IF spec.factor = None THEN Factors ELSE {spec.factor}, w \in Windows(secs) :
           f = [kind |-> "slow", groups |-> << >>, who |-> p, factor |-> x,
                start |-> w[1], end |-> w[2]]
        BY <1>4 DEF Resolutions
  <2>2. Cardinality(p) = 2
    <3>1. PICK a \in Addr, b \in Addr : p = {a, b} /\ p \notin {{y} : y \in Addr}
          BY <2>1, <1>2 DEF Pairs, FaultHandle
    <3>2. a # b
          BY <3>1
    <3>3. IsFiniteSet({a}) /\ Cardinality({a}) = 1
          BY FS_Singleton
    <3>4. p = {a} \cup {b} /\ b \notin {a}
          BY <3>1, <3>2
    <3>5. Cardinality({a} \cup {b}) = 1 + 1
          BY <3>3, <3>4, FS_AddElement
    <3>6. Cardinality(p) = 1 + 1
          BY <3>4, <3>5, Zenon
    <3>7. 1 + 1 = 2
          OBVIOUS
    <3>8. QED BY <3>6, <3>7, Zenon
  <2>3. x > 1
    <3>1. CASE spec.factor = None
          BY <2>1, <3>1
    <3>2. CASE spec.factor # None
          BY <1>4, <2>1, <3>2 DEF Valid
    <3>3. QED BY <3>1, <3>2
  <2>4. QED BY <2>1, <2>2, <2>3, <1>1 DEF Sound, Disjoint
<1>5. CASE spec.kind = "crash"
  <2> DEFINE N == IF spec.a = None THEN BoundAddresses ELSE {spec.a}
             T == IF spec.at = None THEN now..(now + secs) ELSE {now + spec.at}
             Crash(n, t) == [kind |-> "crash", groups |-> << >>, who |-> {n}, factor |-> 1,
                             start |-> t, end |-> t]
  <2>0. Resolutions(spec, secs) = {Crash(n, t) : n \in N, t \in T}
        BY <1>5 DEF Resolutions
  <2>1. PICK n \in N, t \in T : f = Crash(n, t)
    <3> HIDE DEF N, T, Crash
    <3> QED BY <2>0
  <2>2. t \in Nat /\ now <= t /\ t <= now + secs
        BY <2>1, <1>5 DEF FaultHandle, Valid, TypeOK, Time
  <2>3. QED BY <2>1, <2>2 DEF Sound, Disjoint
<1>6. QED BY <1>3, <1>4, <1>5 DEF FaultHandle

\* The faults and the call that a run_for adds.
NewFaults == DOMAIN faults' \ DOMAIN faults
NewCall == Len(calls) + 1

\* One run_for adds sound faults that lie within it, the timers of their
\* windows in order, and one call, whose sleep comes after all of them.
LEMMA RunForEffects ==
    ASSUME TypeOK, NEW secs \in Secs, NEW specs \in SpecLists, RunFor(secs, specs)
    PROVE  /\ \A i \in DOMAIN faults : i \in DOMAIN faults' /\ faults'[i] = faults[i]
           /\ \A i \in NewFaults :
                 /\ Sound(faults'[i])
                 /\ now <= faults'[i].start /\ faults'[i].end <= now + secs
                 /\ \E t \in timers' : t.op = "begin" /\ t.arg = i
                 /\ faults'[i].kind # "crash" => \E t \in timers' : t.op = "end" /\ t.arg = i
           /\ timers \subseteq timers'
           /\ \A t \in timers' \ timers :
                 \/ /\ t.op = "begin" /\ t.arg \in NewFaults
                    /\ t.when = faults'[t.arg].start
                    /\ t.seq = seq + 2 * (t.arg - Len(faults)) /\ t.seq < seq' - 1
                 \/ /\ t.op = "end" /\ t.arg \in NewFaults
                    /\ t.when = faults'[t.arg].end /\ faults'[t.arg].kind # "crash"
                    /\ t.seq = seq + 2 * (t.arg - Len(faults)) + 1 /\ t.seq < seq' - 1
                 \/ /\ t.op = "sleep" /\ t.arg = NewCall
                    /\ t.when = now + secs /\ t.seq = seq' - 1 /\ secs # 0
           /\ calls' = Append(calls, [at |-> now, secs |-> secs, mark |-> seq, faults |-> NewFaults,
                                      state |-> IF secs = 0 THEN "yielded" ELSE "asleep"])
           /\ UNCHANGED <<now, active, crashed, sent, timeline>>
<1> USE TransportAssumption
<1>1. PICK n \in 0..MaxFaults : specs \in [1..n -> Specs]
      BY DEF SpecLists
<1>2. /\ now + secs <= MaxTime /\ secs \in Nat
      /\ \A i \in DOMAIN specs : Valid(specs[i], secs)
      BY DEF RunFor
<1>3. PICK fs \in [DOMAIN specs -> UNION {Resolutions(specs[i], secs) : i \in DOMAIN specs}] :
         /\ \A i \in DOMAIN specs : fs[i] \in Resolutions(specs[i], secs)
         /\ Schedule(secs, fs)
      BY DEF RunFor
<1>4. \A i \in 1..n : /\ fs[i] \in Fault /\ Sound(fs[i])
                      /\ now <= fs[i].start /\ fs[i].end <= now + secs
  <2> SUFFICES ASSUME NEW i \in 1..n
               PROVE  /\ fs[i] \in Fault /\ Sound(fs[i])
                      /\ now <= fs[i].start /\ fs[i].end <= now + secs
      OBVIOUS
  <2>1. specs[i] \in FaultHandle /\ Valid(specs[i], secs) /\ fs[i] \in Resolutions(specs[i], secs)
        BY <1>1, <1>2, <1>3
  <2>2. QED BY <1>2, <2>1, ResolutionsTyped, ResolutionsSound
<1>5. fs \in Seq(Fault) /\ Len(fs) = n /\ DOMAIN fs = 1..n
  <2>1. fs \in [1..n -> Fault]
        BY <1>1, <1>3, <1>4
  <2>2. QED BY <2>1
<1> DEFINE base == Len(faults)
<1>6. /\ faults' = faults \o fs
      /\ timers' = timers \cup ArmedBy(fs, base, seq) \cup Sleep(Len(calls) + 1, secs, seq + 2*n + 2)
      /\ seq' = seq + 2*n + 2 + 1
      /\ calls' = Append(calls,
             [at |-> now, secs |-> secs, mark |-> seq, faults |-> (base + 1)..(base + n),
              state |-> IF secs = 0 THEN "yielded" ELSE "asleep"])
  <2> HIDE TransportAssumption
  <2>1. QED BY <1>3, <1>5 DEF Schedule
<1>7. /\ base \in Nat /\ n \in Nat /\ DOMAIN faults = 1..base /\ DOMAIN faults' = 1..(base + n)
      /\ \A i \in 1..base : faults'[i] = faults[i]
      /\ \A i \in 1..n : faults'[base + i] = fs[i]
  <2>1. faults \in Seq(Fault) /\ base \in Nat /\ n \in Nat /\ DOMAIN faults = 1..base
        BY DEF TypeOK
  <2>2. Len(faults') = base + n /\ DOMAIN faults' = 1..(base + n)
        BY <1>5, <1>6, <2>1
  <2>3. \A i \in 1..base : faults'[i] = faults[i]
        BY <1>5, <1>6, <2>1
  <2>4. \A i \in 1..n : faults'[base + i] = fs[i]
        BY <1>5, <1>6, <2>1
  <2>5. QED BY <2>1, <2>2, <2>3, <2>4
<1>8. seq \in Nat
      BY DEF TypeOK
<1> HIDE DEF base
<1>9. NewFaults = (base + 1)..(base + n)
      BY <1>7 DEF NewFaults
<1>10. \A i \in 1..n :
          /\ [when |-> fs[i].start, seq |-> seq + 2*i, op |-> "begin", arg |-> base + i] \in timers'
          /\ fs[i].kind # "crash" =>
                [when |-> fs[i].end, seq |-> seq + 2*i + 1, op |-> "end", arg |-> base + i] \in timers'
       BY <1>5, <1>6 DEF ArmedBy
<1>11. ASSUME NEW i \in NewFaults
       PROVE  /\ Sound(faults'[i])
              /\ now <= faults'[i].start /\ faults'[i].end <= now + secs
              /\ \E t \in timers' : t.op = "begin" /\ t.arg = i
              /\ faults'[i].kind # "crash" => \E t \in timers' : t.op = "end" /\ t.arg = i
  <2>1. PICK j \in 1..n : i = base + j
    <3>1. i - base \in 1..n /\ i = base + (i - base)
          BY <1>7, <1>9
    <3>2. QED BY <3>1
  <2>2. faults'[i] = fs[j]
        BY <1>7, <2>1
  <2>3. QED BY <1>4, <1>10, <2>1, <2>2
<1>12. ASSUME NEW t \in ArmedBy(fs, base, seq)
       PROVE  \/ /\ t.op = "begin" /\ t.arg \in NewFaults
                 /\ t.when = faults'[t.arg].start
                 /\ t.seq = seq + 2 * (t.arg - base) /\ t.seq < seq' - 1
              \/ /\ t.op = "end" /\ t.arg \in NewFaults
                 /\ t.when = faults'[t.arg].end /\ faults'[t.arg].kind # "crash"
                 /\ t.seq = seq + 2 * (t.arg - base) + 1 /\ t.seq < seq' - 1
  <2>1. PICK i \in 1..n :
           \/ t = [when |-> fs[i].start, seq |-> seq + 2*i, op |-> "begin", arg |-> base + i]
           \/ /\ t = [when |-> fs[i].end, seq |-> seq + 2*i + 1, op |-> "end", arg |-> base + i]
              /\ fs[i].kind # "crash"
        BY <1>5, <1>12 DEF ArmedBy
  <2>2. /\ base + i \in NewFaults /\ faults'[base + i] = fs[i] /\ (base + i) - base = i
        /\ seq + 2*i < seq' - 1 /\ seq + 2*i + 1 < seq' - 1
        BY <1>6, <1>7, <1>8, <1>9
  <2>3. QED BY <2>1, <2>2
<1>13. ASSUME NEW t \in Sleep(Len(calls) + 1, secs, seq + 2*n + 2)
       PROVE  /\ t.op = "sleep" /\ t.arg = NewCall
              /\ t.when = now + secs /\ t.seq = seq' - 1 /\ secs # 0
       BY <1>6, <1>7, <1>8, <1>13 DEF Sleep, NewCall
<1>14. UNCHANGED <<now, active, crashed, sent, timeline>>
       BY DEF RunFor, netVars
<1>15. \A i \in DOMAIN faults : i \in DOMAIN faults' /\ faults'[i] = faults[i]
       BY <1>7
<1>16. QED BY <1>6, <1>9, <1>11, <1>12, <1>13, <1>14, <1>15 DEF base

-----------------------------------------------------------------------------
(* The invariant of the faults is kept by every step.                      *)

\* Steps that touch neither the clock nor a fault nor a call keep it.
LEMMA Undisturbed ==
    ASSUME FInv, UNCHANGED <<now, faults, active, crashed, calls>>,
           \A t \in timers' : t.op # "deliver" => t \in timers,
           \A t \in timers : t.op # "deliver" => t \in timers'
    PROVE  FInv'
<1>1. \A i : Pending("begin", i)' = Pending("begin", i) /\ Pending("end", i)' = Pending("end", i)
      BY DEF Pending
<1>2. Armed'
      BY DEF FInv, Armed
<1>3. Progresses'
      BY <1>1 DEF FInv, Progresses, Progress
<1>4. CrashesCaused'
      BY DEF FInv, CrashesCaused
<1>5. CallsKept'
      BY <1>1 DEF FInv, CallsKept
<1>6. QED BY <1>2, <1>3, <1>4, <1>5 DEF FInv

\* run_for arms the windows of new faults and touches nothing of the old ones.
LEMMA RunForKeeps ==
    ASSUME TypeOK, References, LinkOrder, FInv,
           NEW secs \in Secs, NEW specs \in SpecLists, RunFor(secs, specs)
    PROVE  FInv'
<1> USE TransportAssumption
<1>1. /\ \A i \in DOMAIN faults : i \in DOMAIN faults' /\ faults'[i] = faults[i]
      /\ \A i \in NewFaults :
            /\ Sound(faults'[i])
            /\ now <= faults'[i].start /\ faults'[i].end <= now + secs
            /\ \E t \in timers' : t.op = "begin" /\ t.arg = i
            /\ faults'[i].kind # "crash" => \E t \in timers' : t.op = "end" /\ t.arg = i
      /\ timers \subseteq timers'
      /\ UNCHANGED <<now, active, crashed, sent, timeline>>
      BY RunForEffects
<1>2. ASSUME NEW t \in timers', t \notin timers
      PROVE  \/ /\ t.op = "begin" /\ t.arg \in NewFaults
                /\ t.when = faults'[t.arg].start
                /\ t.seq = seq + 2 * (t.arg - Len(faults)) /\ t.seq < seq' - 1
             \/ /\ t.op = "end" /\ t.arg \in NewFaults
                /\ t.when = faults'[t.arg].end /\ faults'[t.arg].kind # "crash"
                /\ t.seq = seq + 2 * (t.arg - Len(faults)) + 1 /\ t.seq < seq' - 1
             \/ /\ t.op = "sleep" /\ t.arg = NewCall
                /\ t.when = now + secs /\ t.seq = seq' - 1 /\ secs # 0
      BY <1>2, RunForEffects
<1>3. calls' = Append(calls, [at |-> now, secs |-> secs, mark |-> seq, faults |-> NewFaults,
                              state |-> IF secs = 0 THEN "yielded" ELSE "asleep"])
      BY RunForEffects
<1>4. /\ DOMAIN calls = 1..Len(calls) /\ Len(calls) \in Nat
      /\ DOMAIN calls' = DOMAIN calls \cup {NewCall}
      /\ \A c \in DOMAIN calls : calls'[c] = calls[c] /\ c # NewCall
      /\ calls'[NewCall].at = now /\ calls'[NewCall].secs = secs
      /\ calls'[NewCall].faults = NewFaults
      /\ calls'[NewCall].state = IF secs = 0 THEN "yielded" ELSE "asleep"
      BY <1>3 DEF TypeOK, NewCall
<1>5. timers' \subseteq Timer /\ faults' \in Seq(Fault) /\ seq' \in Nat /\ now \in Nat /\ seq \in Nat
  <2>1. faults' \in Seq(Fault) /\ seq' \in Nat /\ \A t \in timers' \ timers : t \in Timer
        BY RunForAdds
  <2>2. QED BY <2>1 DEF TypeOK, Time
<1>6. /\ \A i \in DOMAIN faults' : faults'[i] \in Fault /\ i \in Nat
      /\ Len(faults) \in Nat /\ DOMAIN faults \subseteq Nat
      /\ \A i \in DOMAIN faults' : faults'[i].start \in Nat /\ faults'[i].end \in Nat
  <2>1. \A i \in DOMAIN faults' : faults'[i] \in Fault /\ i \in Nat
        BY <1>5
  <2>2. faults \in Seq(Fault)
        BY DEF TypeOK
  <2>3. Len(faults) \in Nat /\ DOMAIN faults \subseteq Nat
        BY <2>2
  <2>4. \A f \in Fault : f.start \in Nat /\ f.end \in Nat
        BY DEF Fault, Time
  <2>5. QED BY <2>1, <2>3, <2>4
<1>7. \A t \in timers :
         /\ t \in Timer /\ t.seq < seq
         /\ t.op \in {"begin", "end"} => t.arg \in DOMAIN faults /\ t.arg \notin NewFaults
         /\ t.op = "sleep" => t.arg \in DOMAIN calls
      BY DEF TypeOK, References, LinkOrder, NewFaults
<1>8. NewFaults \cap DOMAIN faults = {} /\ DOMAIN faults' = DOMAIN faults \cup NewFaults
      BY <1>1 DEF NewFaults
<1>9. secs \in Nat
      OBVIOUS
<1>10. \A i \in DOMAIN faults :
          Pending("begin", i)' = Pending("begin", i) /\ Pending("end", i)' = Pending("end", i)
       BY <1>1, <1>2, <1>8 DEF Pending
<1> HIDE TransportAssumption
<1>11. Armed'
  <2> SUFFICES ASSUME NEW t \in timers', t.op # "deliver"
               PROVE  /\ now <= t.when
                      /\ t.op = "begin" => t.when = faults'[t.arg].start
                      /\ t.op = "end" => t.when = faults'[t.arg].end /\ faults'[t.arg].kind # "crash"
                      /\ \A u \in timers' : t.arg = u.arg =>
                            /\ t.op = u.op => t = u
                            /\ t.op = "begin" /\ u.op = "end" => t.seq < u.seq
      BY <1>1 DEF Armed
  <2>1. CASE t \in timers
    <3>1. /\ now <= t.when
          /\ t.op = "begin" => t.when = faults[t.arg].start
          /\ t.op = "end" => t.when = faults[t.arg].end /\ faults[t.arg].kind # "crash"
          /\ \A u \in timers : t.arg = u.arg =>
                /\ t.op = u.op => t = u
                /\ t.op = "begin" /\ u.op = "end" => t.seq < u.seq
          BY <2>1 DEF FInv, Armed
    <3>2. t.op \in {"begin", "end", "sleep"}
          BY <1>5 DEF Timer
    <3>3. ASSUME NEW u \in timers', u \notin timers, t.arg = u.arg
          PROVE  t.op # u.op /\ ~(t.op = "begin" /\ u.op = "end")
          BY <1>2, <1>4, <1>7, <2>1, <3>2, <3>3
    <3>4. QED BY <1>1, <1>7, <2>1, <3>1, <3>3
  <2>2. CASE t \notin timers
    <3>1. /\ now <= t.when
          /\ t.op = "begin" => t.when = faults'[t.arg].start
          /\ t.op = "end" => t.when = faults'[t.arg].end /\ faults'[t.arg].kind # "crash"
      <4>1. CASE t.op = "begin"
            BY <1>1, <1>2, <2>2, <4>1
      <4>2. CASE t.op = "end"
        <5>1. /\ t.arg \in NewFaults /\ t.when = faults'[t.arg].end
              /\ faults'[t.arg].kind # "crash"
              BY <1>2, <2>2, <4>2
        <5>2. now <= faults'[t.arg].start /\ faults'[t.arg].start <= faults'[t.arg].end
              BY <1>1, <5>1 DEF Sound
        <5>3. t.arg \in DOMAIN faults'
              BY <1>8, <5>1
        <5>4. QED BY <1>5, <1>6, <4>2, <5>1, <5>2, <5>3
      <4>3. CASE t.op = "sleep"
            BY <1>2, <1>5, <1>9, <2>2, <4>3
      <4>4. QED BY <1>2, <2>2, <4>1, <4>2, <4>3
    <3>2. ASSUME NEW u \in timers', t.arg = u.arg, t.op = u.op
          PROVE  t = u
      <4>1. u \notin timers
            BY <1>2, <1>4, <1>7, <2>2, <3>2
      <4>2. t.when = u.when /\ t.seq = u.seq
            BY <1>2, <2>2, <3>2, <4>1
      <4>3. QED BY <1>5, <3>2, <4>2 DEF Timer
    <3>3. ASSUME NEW u \in timers', t.arg = u.arg, t.op = "begin", u.op = "end"
          PROVE  t.seq < u.seq
      <4>1. t.arg \in NewFaults /\ t.seq = seq + 2 * (t.arg - Len(faults))
            BY <1>2, <2>2, <3>3
      <4>2. u \notin timers
            BY <1>7, <3>3, <4>1
      <4>3. u.seq = seq + 2 * (u.arg - Len(faults)) + 1
            BY <1>2, <3>3, <4>2
      <4>4. t.arg \in Nat
            BY <1>6, <1>8, <4>1
      <4>5. QED BY <1>5, <1>6, <3>3, <4>1, <4>3, <4>4
    <3>4. QED BY <3>1, <3>2, <3>3
  <2>3. QED BY <2>1, <2>2
<1>12. Progresses'
  <2> SUFFICES ASSUME NEW i \in DOMAIN faults' PROVE Progress(i)'
      BY DEF Progresses
  <2>1. CASE i \in DOMAIN faults
        BY <1>1, <1>10, <2>1 DEF FInv, Progresses, Progress
  <2>2. CASE i \in NewFaults
    <3>1. i \notin active
          BY <1>8, <2>2 DEF TypeOK
    <3>2. Pending("begin", i)' /\ (faults'[i].kind # "crash" => Pending("end", i)')
          BY <1>1, <2>2 DEF Pending
    <3>3. QED BY <1>1, <3>1, <3>2 DEF Progress
  <2>3. QED BY <1>8, <2>1, <2>2
<1>13. CrashesCaused'
       BY <1>1 DEF FInv, CrashesCaused
<1>14. CallsKept'
  <2>1. ASSUME NEW i \in DOMAIN faults'
        PROVE  Sound(faults'[i]) /\ \E c \in DOMAIN calls' : i \in calls'[c].faults
    <3>1. CASE i \in DOMAIN faults
          BY <1>1, <1>4, <3>1 DEF FInv, CallsKept
    <3>2. CASE i \in NewFaults
          BY <1>1, <1>4, <3>2
    <3>3. QED BY <1>8, <3>1, <3>2
  <2>2. ASSUME NEW c \in DOMAIN calls'
        PROVE  /\ calls'[c].state = "yielded" => calls'[c].secs = 0
               /\ \A i \in calls'[c].faults :
                     /\ i \in DOMAIN faults'
                     /\ calls'[c].at <= faults'[i].start
                     /\ faults'[i].end <= calls'[c].at + calls'[c].secs
                     /\ calls'[c].state \in {"woken", "returned"} /\ calls'[c].secs > 0 =>
                           ~Pending("begin", i)' /\ ~Pending("end", i)'
    <3>1. CASE c \in DOMAIN calls
      <4>1. calls'[c] = calls[c]
            BY <1>4, <3>1
      <4>2. \A i \in calls[c].faults : i \in DOMAIN faults /\ faults'[i] = faults[i] /\ i \in DOMAIN faults'
            BY <1>1, <3>1 DEF FInv, CallsKept
      <4>3. QED BY <1>10, <3>1, <4>1, <4>2 DEF FInv, CallsKept
    <3>2. CASE c = NewCall
          BY <1>1, <1>4, <1>8, <3>2
    <3>3. QED BY <1>4, <3>1, <3>2
  <2>3. ASSUME NEW t \in timers', t.op = "sleep"
        PROVE  /\ calls'[t.arg].state = "asleep"
               /\ t.when = calls'[t.arg].at + calls'[t.arg].secs
               /\ \A u \in timers' : u.op \in {"begin", "end"} /\ u.arg \in calls'[t.arg].faults =>
                     u.seq < t.seq
    <3>1. CASE t \in timers
      <4>1. t.arg \in DOMAIN calls /\ calls'[t.arg] = calls[t.arg]
            BY <1>4, <1>7, <2>3, <3>1
      <4>2. /\ calls[t.arg].state = "asleep"
            /\ t.when = calls[t.arg].at + calls[t.arg].secs
            /\ \A u \in timers : u.op \in {"begin", "end"} /\ u.arg \in calls[t.arg].faults =>
                  u.seq < t.seq
            BY <2>3, <3>1 DEF FInv, CallsKept
      <4>3. \A i \in calls[t.arg].faults : i \in DOMAIN faults
            BY <4>1 DEF FInv, CallsKept
      <4>4. ASSUME NEW u \in timers', u.op \in {"begin", "end"}, u.arg \in calls[t.arg].faults
            PROVE  u \in timers
            BY <1>2, <1>8, <4>3, <4>4
      <4>5. QED BY <4>1, <4>2, <4>4
    <3>2. CASE t \notin timers
      <4>1. t.arg = NewCall /\ t.when = now + secs /\ t.seq = seq' - 1 /\ secs # 0
            BY <1>2, <2>3, <3>2
      <4>2. ASSUME NEW u \in timers', u.op \in {"begin", "end"}, u.arg \in NewFaults
            PROVE  u.seq < t.seq
        <5>1. u \notin timers
              BY <1>7, <4>2
        <5>2. QED BY <1>2, <4>1, <4>2, <5>1
      <4>3. QED BY <1>4, <4>1, <4>2
    <3>3. QED BY <3>1, <3>2
  <2>4. QED BY <2>1, <2>2, <2>3 DEF CallsKept
<1>15. QED BY <1>11, <1>12, <1>13, <1>14 DEF FInv

\* Facts about a timer that fires: it is due, and the only one that goes.
LEMMA Firing ==
    ASSUME TypeOK, NEW t \in timers, Fires(t)
    PROVE  /\ t \in Timer /\ t.when = now /\ timers' = timers \ {t} /\ now \in Nat
           /\ \A u \in timers : u # t => u.when > now \/ u.seq > t.seq
           /\ \A u \in timers : u \in Timer /\ u.when \in Nat /\ u.seq \in Nat
BY DEF Fires, TypeOK, Timer, Time

\* The beginning of a window is not pending any more, the end still is; a
\* crash takes its node down.
LEMMA BeginKeeps == ASSUME TypeOK, References, FInv, NEW t \in timers, Begin(t) PROVE FInv'
<1>1. /\ t.op = "begin" /\ t.arg \in DOMAIN faults /\ t.when = now /\ timers' = timers \ {t}
      /\ UNCHANGED <<now, faults, calls>> /\ now \in Nat
      /\ t.when = faults[t.arg].start
      BY Firing DEF Begin, References, FInv, Armed
<1>2. /\ faults[t.arg].kind = "crash" => crashed' = crashed \cup faults[t.arg].who /\ active' = active
      /\ faults[t.arg].kind # "crash" => active' = active \cup {t.arg} /\ crashed' = crashed
      BY DEF Begin
<1>3. /\ ~Pending("begin", t.arg)'
      /\ \A i : Pending("end", i)' = Pending("end", i)
      /\ \A i : i # t.arg => Pending("begin", i)' = Pending("begin", i)
  <2>1. \A u \in timers' : ~(u.op = "begin" /\ u.arg = t.arg)
        BY <1>1 DEF FInv, Armed
  <2>2. QED BY <1>1, <2>1 DEF Pending
<1>4. Pending("begin", t.arg)
      BY <1>1 DEF Pending
<1>5. Armed'
      BY <1>1 DEF FInv, Armed
<1>6. Progresses'
  <2> SUFFICES ASSUME NEW i \in DOMAIN faults PROVE Progress(i)'
      BY <1>1 DEF Progresses
  <2>0. Progress(i)
        BY DEF FInv, Progresses
  <2>1. CASE i = t.arg
        BY <1>1, <1>2, <1>3, <1>4, <2>0, <2>1 DEF Progress
  <2>2. CASE i # t.arg
        BY <1>1, <1>2, <1>3, <2>0, <2>2 DEF Progress
  <2>3. QED BY <2>1, <2>2
<1>7. CrashesCaused'
      BY <1>1, <1>2 DEF FInv, CrashesCaused
<1>8. CallsKept'
  <2>1. \A i : (Pending("begin", i)' => Pending("begin", i)) /\ (Pending("end", i)' => Pending("end", i))
        BY <1>3, <1>4
  <2>2. QED BY <1>1, <2>1 DEF FInv, CallsKept
<1>9. QED BY <1>5, <1>6, <1>7, <1>8 DEF FInv

\* The end of a window comes after its beginning and closes that window only.
LEMMA EndKeeps == ASSUME TypeOK, References, FInv, NEW t \in timers, End(t) PROVE FInv'
<1>1. /\ t.op = "end" /\ t.arg \in DOMAIN faults /\ t.when = now /\ timers' = timers \ {t}
      /\ UNCHANGED <<now, faults, crashed, calls>> /\ active' = active \ {t.arg} /\ now \in Nat
      /\ t.when = faults[t.arg].end /\ faults[t.arg].kind # "crash"
      BY Firing DEF End, References, FInv, Armed
<1>2. /\ ~Pending("end", t.arg)'
      /\ \A i : Pending("begin", i)' = Pending("begin", i)
      /\ \A i : i # t.arg => Pending("end", i)' = Pending("end", i)
  <2>1. \A u \in timers' : ~(u.op = "end" /\ u.arg = t.arg)
        BY <1>1 DEF FInv, Armed
  <2>2. QED BY <1>1, <2>1 DEF Pending
<1>3. ~Pending("begin", t.arg)
  <2> SUFFICES ASSUME NEW b \in timers, b.op = "begin", b.arg = t.arg PROVE FALSE
      BY DEF Pending
  <2>1. b.when = faults[t.arg].start /\ b.when >= now /\ b.seq < t.seq /\ b # t
        BY <1>1 DEF FInv, Armed
  <2>2. faults[t.arg].start <= faults[t.arg].end
        BY <1>1 DEF FInv, CallsKept, Sound
  <2>3. b.when > now \/ b.seq > t.seq
        BY <2>1, Firing DEF End
  <2>4. b.when \in Nat /\ b.seq \in Nat /\ t.seq \in Nat
        BY Firing DEF End
  <2>5. QED BY <1>1, <2>1, <2>2, <2>3, <2>4
<1>4. Pending("end", t.arg)
      BY <1>1 DEF Pending
<1>5. Armed'
      BY <1>1 DEF FInv, Armed
<1>6. Progresses'
  <2> SUFFICES ASSUME NEW i \in DOMAIN faults PROVE Progress(i)'
      BY <1>1 DEF Progresses
  <2>0. Progress(i)
        BY DEF FInv, Progresses
  <2>1. CASE i = t.arg
        BY <1>1, <1>2, <1>3, <1>4, <2>0, <2>1 DEF Progress
  <2>2. CASE i # t.arg
        BY <1>1, <1>2, <1>3, <2>0, <2>2 DEF Progress
  <2>3. QED BY <2>1, <2>2
<1>7. CrashesCaused'
      BY <1>1 DEF FInv, CrashesCaused
<1>8. CallsKept'
  <2>1. \A i : (Pending("begin", i)' => Pending("begin", i)) /\ (Pending("end", i)' => Pending("end", i))
        BY <1>2, <1>4
  <2>2. QED BY <1>1, <2>1 DEF FInv, CallsKept
<1>9. QED BY <1>5, <1>6, <1>7, <1>8 DEF FInv

\* When the sleep of a call is over, no timer of its faults is left.
LEMMA WakeKeeps == ASSUME TypeOK, References, FInv, NEW t \in timers, Wake(t) PROVE FInv'
<1>1. /\ t.op = "sleep" /\ t.arg \in DOMAIN calls /\ t.when = now /\ timers' = timers \ {t}
      /\ UNCHANGED <<now, faults, active, crashed>> /\ now \in Nat
      /\ calls' = [calls EXCEPT ![t.arg].state = "woken"]
      BY Firing DEF Wake, References, faultVars
<1>2. /\ DOMAIN calls' = DOMAIN calls
      /\ calls'[t.arg].state = "woken" /\ calls'[t.arg].faults = calls[t.arg].faults
      /\ calls'[t.arg].at = calls[t.arg].at /\ calls'[t.arg].secs = calls[t.arg].secs
      /\ \A c \in DOMAIN calls : c # t.arg => calls'[c] = calls[c]
  <2>1. calls \in Seq(Call)
        BY DEF TypeOK
  <2>2. calls[t.arg] \in Call
        BY <1>1, <2>1
  <2>3. QED BY <1>1, <2>1, <2>2 DEF Call
<1>3. \A i : Pending("begin", i)' = Pending("begin", i) /\ Pending("end", i)' = Pending("end", i)
      BY <1>1 DEF Pending
<1>4. Armed'
      BY <1>1 DEF FInv, Armed
<1>5. Progresses' /\ CrashesCaused'
      BY <1>1, <1>3 DEF FInv, Progresses, Progress, CrashesCaused
<1>6. ASSUME NEW i \in calls[t.arg].faults PROVE ~Pending("begin", i) /\ ~Pending("end", i)
  <2> SUFFICES ASSUME NEW u \in timers, u.op \in {"begin", "end"}, u.arg = i PROVE FALSE
      BY DEF Pending
  <2>1. /\ i \in DOMAIN faults
        /\ faults[i].end <= calls[t.arg].at + calls[t.arg].secs
        /\ faults[i].start <= faults[i].end
        BY <1>1 DEF FInv, CallsKept, Sound
  <2>2. /\ t.when = calls[t.arg].at + calls[t.arg].secs
        /\ u.seq < t.seq
        BY <1>1 DEF FInv, CallsKept
  <2>3. /\ u.when >= now
        /\ u.when = faults[i].start \/ u.when = faults[i].end
        BY DEF FInv, Armed
  <2>4. u.when > now \/ u.seq > t.seq
        BY <1>1, Firing DEF Wake
  <2>5. u.when \in Nat /\ u.seq \in Nat /\ t.seq \in Nat
        BY Firing DEF Wake
  <2>6. faults[i].start \in Nat /\ faults[i].end \in Nat
    <3>1. faults[i] \in Fault
          BY <2>1 DEF TypeOK
    <3>2. QED BY <3>1 DEF Fault, Time
  <2>7. QED BY <1>1, <2>1, <2>2, <2>3, <2>4, <2>5, <2>6
<1>7. CallsKept'
  <2>1. \A i \in DOMAIN faults : Sound(faults[i]) /\ \E c \in DOMAIN calls' : i \in calls'[c].faults
    <3>1. \A c \in DOMAIN calls : calls'[c].faults = calls[c].faults
          BY <1>2
    <3>2. QED BY <1>2, <3>1 DEF FInv, CallsKept
  <2>2. ASSUME NEW c \in DOMAIN calls
        PROVE  /\ calls'[c].state = "yielded" => calls'[c].secs = 0
               /\ \A i \in calls'[c].faults :
                     /\ i \in DOMAIN faults
                     /\ calls'[c].at <= faults[i].start
                     /\ faults[i].end <= calls'[c].at + calls'[c].secs
                     /\ calls'[c].state \in {"woken", "returned"} /\ calls'[c].secs > 0 =>
                           ~Pending("begin", i)' /\ ~Pending("end", i)'
    <3>1. CASE c = t.arg
          BY <1>2, <1>3, <1>6, <3>1 DEF FInv, CallsKept
    <3>2. CASE c # t.arg
          BY <1>2, <1>3, <3>2 DEF FInv, CallsKept
    <3>3. QED BY <3>1, <3>2
  <2>3. ASSUME NEW u \in timers', u.op = "sleep"
        PROVE  u.arg # t.arg /\ u.arg \in DOMAIN calls /\ u \in timers
        BY <1>1, <2>3 DEF FInv, Armed, References
  <2>4. QED BY <1>1, <1>2, <2>1, <2>2, <2>3 DEF FInv, CallsKept
<1>8. QED BY <1>4, <1>5, <1>7 DEF FInv

\* run_for returns from a sleep that is over, or from a bare yield.
LEMMA ReturnKeeps == ASSUME TypeOK, References, FInv, NEW r \in DOMAIN calls, RunForReturns(r) PROVE FInv'
<1>1. /\ UNCHANGED <<now, timers, faults, active, crashed>>
      /\ calls' = [calls EXCEPT ![r].state = "returned"]
      /\ calls[r].state \in {"woken", "yielded"}
      BY DEF RunForReturns, schedVars, faultVars
<1>2. /\ DOMAIN calls' = DOMAIN calls
      /\ calls'[r].state = "returned" /\ calls'[r].faults = calls[r].faults
      /\ calls'[r].at = calls[r].at /\ calls'[r].secs = calls[r].secs
      /\ \A c \in DOMAIN calls : c # r => calls'[c] = calls[c]
  <2>1. calls \in Seq(Call)
        BY DEF TypeOK
  <2>2. calls[r] \in Call
        BY <2>1
  <2>3. QED BY <1>1, <2>1, <2>2 DEF Call
<1>3. \A i : Pending("begin", i)' = Pending("begin", i) /\ Pending("end", i)' = Pending("end", i)
      BY <1>1 DEF Pending
<1>4. Armed' /\ CrashesCaused'
      BY <1>1 DEF FInv, Armed, CrashesCaused
<1>5. Progresses'
      BY <1>1, <1>3 DEF FInv, Progresses, Progress
<1>6. CallsKept'
  <2>1. \A i \in DOMAIN faults : Sound(faults[i]) /\ \E c \in DOMAIN calls' : i \in calls'[c].faults
    <3>1. \A c \in DOMAIN calls : calls'[c].faults = calls[c].faults
          BY <1>2
    <3>2. QED BY <1>2, <3>1 DEF FInv, CallsKept
  <2>2. ASSUME NEW c \in DOMAIN calls
        PROVE  /\ calls'[c].state = "yielded" => calls'[c].secs = 0
               /\ \A i \in calls'[c].faults :
                     /\ i \in DOMAIN faults
                     /\ calls'[c].at <= faults[i].start
                     /\ faults[i].end <= calls'[c].at + calls'[c].secs
                     /\ calls'[c].state \in {"woken", "returned"} /\ calls'[c].secs > 0 =>
                           ~Pending("begin", i)' /\ ~Pending("end", i)'
    <3>1. CASE c = r
          BY <1>1, <1>2, <1>3, <3>1 DEF FInv, CallsKept
    <3>2. CASE c # r
          BY <1>2, <1>3, <3>2 DEF FInv, CallsKept
    <3>3. QED BY <3>1, <3>2
  <2>3. \A u \in timers : u.op = "sleep" => u.arg # r /\ u.arg \in DOMAIN calls
        BY <1>1 DEF FInv, CallsKept, References
  <2>4. QED BY <1>1, <1>2, <2>1, <2>2, <2>3 DEF FInv, CallsKept
<1>7. QED BY <1>4, <1>5, <1>6 DEF FInv

\* The clock moves on only past what has fired.
LEMMA TickKeeps == ASSUME TypeOK, FInv, Tick PROVE FInv'
<1>1. /\ now' = now + 1 /\ now \in Nat
      /\ UNCHANGED <<timers, faults, active, crashed, calls>>
      /\ \A t \in timers : t.when > now /\ t.when \in Nat
      BY DEF Tick, Idle, faultVars, TypeOK, Timer, Time
<1>2. \A i : Pending("begin", i)' = Pending("begin", i) /\ Pending("end", i)' = Pending("end", i)
      BY <1>1 DEF Pending
<1>3. \A i \in DOMAIN faults : faults[i].start \in Nat /\ faults[i].end \in Nat
  <2>1. \A f \in Fault : f.start \in Nat /\ f.end \in Nat
        BY DEF Fault, Time
  <2>2. QED BY <2>1 DEF TypeOK
<1>4. Armed'
      BY <1>1 DEF FInv, Armed
<1>5. Progresses'
      BY <1>1, <1>2, <1>3 DEF FInv, Progresses, Progress
<1>6. CrashesCaused'
      BY <1>1, <1>3 DEF FInv, CrashesCaused
<1>7. CallsKept'
      BY <1>1, <1>2 DEF FInv, CallsKept
<1>8. QED BY <1>4, <1>5, <1>6, <1>7 DEF FInv

\* What a send does to the timers and the timeline.
LEMMA SendFates ==
    ASSUME TypeOK, References, Streams, NEW src \in Addr, NEW dst \in Addr, Send(src, dst)
    PROVE  LET mid == Len(sent) + 1
               Copy(t) == t.op = "deliver" /\ t.arg = mid /\ t \notin timers
           IN  \/ /\ timers' = timers /\ ~endpoints[src].reliable
                  /\ timeline' = Append(timeline, Happens("drop", mid))
               \/ \E t : Copy(t) /\ timers' = timers \cup {t} /\ timeline' = timeline
               \/ \E t, u : /\ Copy(t) /\ Copy(u) /\ t # u
                            /\ timers' = timers \cup {t, u} /\ ~endpoints[src].reliable
                            /\ timeline' = Append(timeline, Happens("duplicate", mid))
<1> DEFINE mid == Len(sent) + 1
           Copy(t) == t.op = "deliver" /\ t.arg = mid /\ t \notin timers
           lat == net[netPos + 1] * SlowFactor(src, dst)
<1>1. Fate(src, dst, mid, lat)
      BY DEF Send
<1>2. \A when, n : Copy(Delivery(when, n, mid))
  <2>1. mid \notin DOMAIN sent
        BY DEF TypeOK
  <2>2. \A t \in timers : t.op = "deliver" => t.arg # mid
        BY <2>1 DEF References
  <2> HIDE DEF mid
  <2>3. QED BY <2>2 DEF Delivery
<1> HIDE DEF lat, mid
<1>3. CASE endpoints[src].reliable
      BY <1>1, <1>2, <1>3 DEF Fate, ScheduleReliable, mid
<1>4. CASE Lose(mid) /\ ~endpoints[src].reliable
      BY <1>4 DEF Lose, mid
<1>5. CASE ScheduleOnce(mid, lat)
      BY <1>2, <1>5 DEF ScheduleOnce, mid
<1>6. CASE ~endpoints[src].reliable /\ \E d \in Lat : ScheduleTwice(mid, lat, d * SlowFactor(src, dst))
  <2>1. PICK d : ScheduleTwice(mid, lat, d)
        BY <1>6
  <2> DEFINE t == Delivery(now + lat, seq, mid)
             u == Delivery(now + d, seq + 1, mid)
  <2>2. t # u
        BY DEF Delivery, TypeOK
  <2>3. Copy(t) /\ Copy(u)
        BY <1>2
  <2>4. /\ timers' = timers \cup {t, u}
        /\ timeline' = Append(timeline, Happens("duplicate", mid))
        BY <2>1 DEF ScheduleTwice
  <2> HIDE DEF t, u
  <2>5. QED BY <1>6, <2>2, <2>3, <2>4 DEF mid
<1>7. QED BY <1>1, <1>3, <1>4, <1>5, <1>6 DEF Fate

\* Every step keeps the invariant of the faults.
LEMMA FaultsStep == ASSUME IInv, FInv, [Next]_vars PROVE FInv'
<1> USE DEF IInv
<1>1. CASE \/ \E a \in Addr, p \in Policies : Bind(a, p)
           \/ \E groups \in Splits : Partition(groups)
           \/ Heal
           \/ UNCHANGED vars
  <2>1. UNCHANGED <<now, timers, faults, active, crashed, calls>>
        BY <1>1 DEF Bind, Partition, Heal, vars, schedVars, faultVars
  <2>2. QED BY <2>1, Undisturbed
<1>2. ASSUME NEW src \in Addr, NEW dst \in Addr, Send(src, dst) PROVE FInv'
  <2>1. UNCHANGED <<now, faults, active, crashed, calls>>
        BY <1>2 DEF Send, faultVars
  <2>2. timers \subseteq timers' /\ \A t \in timers' \ timers : t.op = "deliver"
        BY <1>2, SendAdds
  <2>3. QED BY <2>1, <2>2, Undisturbed
<1>3. ASSUME NEW secs \in Secs, NEW specs \in SpecLists, RunFor(secs, specs) PROVE FInv'
      BY <1>3, RunForKeeps
<1>4. ASSUME NEW c \in DOMAIN calls, RunForReturns(c) PROVE FInv'
      BY <1>4, ReturnKeeps
<1>5. ASSUME NEW t \in timers, Deliver(t) PROVE FInv'
  <2>1. UNCHANGED <<now, faults, active, crashed, calls>> /\ t.op = "deliver" /\ timers' = timers \ {t}
        BY <1>5 DEF Deliver, Fires, faultVars
  <2>2. QED BY <2>1, Undisturbed
<1>6. ASSUME NEW t \in timers, Begin(t) PROVE FInv'
      BY <1>6, BeginKeeps
<1>7. ASSUME NEW t \in timers, End(t) PROVE FInv'
      BY <1>7, EndKeeps
<1>8. ASSUME NEW t \in timers, Wake(t) PROVE FInv'
      BY <1>8, WakeKeeps
<1>9. CASE Tick
      BY <1>9, TickKeeps
<1>10. QED BY <1>1, <1>2, <1>3, <1>4, <1>5, <1>6, <1>7, <1>8, <1>9 DEF Next, Horizon

-----------------------------------------------------------------------------
(* What the invariant says of the schedule and of the outcomes.            *)

\* The times of a fault and of the clock are numbers.
LEMMA TimesAreNumbers ==
    ASSUME TypeOK
    PROVE  now \in Nat /\ \A i \in DOMAIN faults : faults[i].start \in Nat /\ faults[i].end \in Nat
<1>1. \A f \in Fault : f.start \in Nat /\ f.end \in Nat
      BY DEF Fault, Time
<1>2. faults \in Seq(Fault) /\ now \in Time
      BY DEF TypeOK
<1>3. QED BY <1>1, <1>2 DEF Time

\* A window is open from its beginning to its end.
LEMMA Schedules == ASSUME TypeOK, References, FInv PROVE FaultsFollowSchedule
<1>1. ASSUME NEW i \in DOMAIN faults
      PROVE  LET f == faults[i]
             IN  /\ f.kind # "crash" /\ f.start < now /\ now < f.end => i \in active
                 /\ i \in active => f.kind # "crash" /\ f.start <= now /\ now <= f.end
                 /\ f.kind = "crash" /\ f.start < now => f.who \subseteq crashed
  <2>1. now \in Nat /\ faults[i].start \in Nat /\ faults[i].end \in Nat
        BY TimesAreNumbers
  <2>2. Pending("begin", i) => now <= faults[i].start
        BY DEF FInv, Armed, Pending
  <2>3. Pending("end", i) => now <= faults[i].end
        BY DEF FInv, Armed, Pending
  <2>4. QED BY <2>1, <2>2, <2>3 DEF FInv, Progresses, Progress
<1>2. QED BY <1>1 DEF FaultsFollowSchedule, FInv, CrashesCaused

\* What DecidedAtDelivery says of one event.
Decided(e) ==
    LET Open(f) == f.start <= e.t /\ (f.kind = "crash" \/ e.t <= f.end)
        Inside(f) == f.start < e.t /\ (f.kind = "crash" \/ e.t < f.end)
    IN  /\ e.ev = "deliver" =>
              ~e.scenario /\ \A i \in DOMAIN faults : ~(Hits(faults[i], e.mid) /\ Inside(faults[i]))
        /\ e.ev \in {"drop-crashed", "drop-partitioned"} =>
              \/ e.scenario /\ e.ev = "drop-partitioned"
              \/ \E i \in DOMAIN faults :
                    /\ Hits(faults[i], e.mid) /\ Open(faults[i])
                    /\ (faults[i].kind = "crash") = (e.ev = "drop-crashed")

\* No later fault and no later message changes what decided an event.
LEMMA DecidedForGood ==
    ASSUME NEW e \in Event, e.t <= now, e.mid \in DOMAIN sent, Decided(e), now \in Nat,
           sent'[e.mid] = sent[e.mid],
           \A i \in DOMAIN faults : i \in DOMAIN faults' /\ faults'[i] = faults[i],
           \A i \in NewFaults : now <= faults'[i].start /\ faults'[i].start \in Nat
    PROVE  Decided(e)'
<1>1. e.t \in Nat
      BY DEF Event, Time
<1>2. \A f : Hits(f, e.mid)' = Hits(f, e.mid)
      BY DEF Hits
<1>3. \A i \in NewFaults : ~(faults'[i].start < e.t)
      BY <1>1
<1>4. QED BY <1>2, <1>3 DEF Decided, NewFaults

\* A list of no groups cuts nothing.
LEMMA NoGroupsNoCut == \A a, b : ~Cut(<< >>, a, b)
<1>1. \A a : {i \in DOMAIN << >> : a \in << >>[i]} = {}
      OBVIOUS
<1>2. \A a : GroupOf(<< >>, a) = 0
      BY <1>1 DEF GroupOf
<1>3. QED BY <1>2 DEF Cut

\* What happens to a message is decided by the faults in force.
LEMMA DeliveryDecided ==
    ASSUME TypeOK, References, FInv, NEW t \in timers, Deliver(t)
    PROVE  LET m == sent[t.arg]
           IN  Decided([ev |-> Outcome(m), mid |-> t.arg, t |-> now, scenario |-> ScenarioCut(m.src, m.dst)])
<1> DEFINE m == sent[t.arg]
           Down(i) == faults[i].kind = "crash" /\ faults[i].who \cap {m.src, m.dst} # {}
           Cuts(i) == faults[i].kind = "partition" /\ Cut(faults[i].groups, m.src, m.dst)
<1>1. FaultsFollowSchedule /\ now \in Nat
      BY Schedules, TimesAreNumbers
<1>2. \A i : Hits(faults[i], t.arg) <=> Cuts(i) \/ Down(i)
      BY DEF Hits
<1>3. \A i \in DOMAIN faults : faults[i].kind \in {"partition", "slow", "crash"}
  <2>1. \A f \in Fault : f.kind \in {"partition", "slow", "crash"}
        BY DEF Fault
  <2>2. faults \in Seq(Fault)
        BY DEF TypeOK
  <2>3. QED BY <2>1, <2>2
<1>4. \A i \in active : Cut(faults[i].groups, m.src, m.dst) => Cuts(i) /\ i \in DOMAIN faults
  <2> SUFFICES ASSUME NEW i \in active, Cut(faults[i].groups, m.src, m.dst)
               PROVE  Cuts(i) /\ i \in DOMAIN faults
      OBVIOUS
  <2>1. i \in DOMAIN faults
        BY DEF TypeOK
  <2>2. Sound(faults[i])
        BY <2>1 DEF FInv, CallsKept
  <2>3. faults[i].groups # << >>
        BY NoGroupsNoCut
  <2>4. faults[i].kind = "partition"
        BY <1>3, <2>1, <2>2, <2>3 DEF Sound
  <2>5. QED BY <2>1, <2>4
<1>5. CASE {m.src, m.dst} \cap crashed # {}
  <2>1. Outcome(m) = "drop-crashed"
        BY <1>5 DEF Outcome
  <2>2. \E i \in DOMAIN faults : Down(i) /\ faults[i].start <= now
        BY <1>5 DEF FInv, CrashesCaused
  <2>3. QED BY <1>2, <2>1, <2>2 DEF Decided
<1>6. CASE {m.src, m.dst} \cap crashed = {} /\ ~Reachable(m.src, m.dst)
  <2>1. Outcome(m) = "drop-partitioned"
        BY <1>6 DEF Outcome
  <2>2. ScenarioCut(m.src, m.dst) \/ \E i \in active : Cuts(i) /\ i \in DOMAIN faults
        BY <1>4, <1>6 DEF Reachable
  <2>3. ScenarioCut(m.src, m.dst) \/
        \E i \in DOMAIN faults : /\ Cuts(i) /\ faults[i].start <= now /\ now <= faults[i].end
                                 /\ faults[i].kind # "crash"
        BY <1>1, <2>2 DEF FaultsFollowSchedule
  <2>4. QED BY <1>2, <2>1, <2>3 DEF Decided
<1>7. CASE {m.src, m.dst} \cap crashed = {} /\ Reachable(m.src, m.dst)
  <2>1. Outcome(m) = "deliver" /\ ~ScenarioCut(m.src, m.dst)
        BY <1>7 DEF Outcome, Reachable
  <2>2. \A i \in DOMAIN faults : Cuts(i) => ~(faults[i].start < now /\ now < faults[i].end)
        BY <1>1, <1>7 DEF FaultsFollowSchedule, Reachable
  <2>3. \A i \in DOMAIN faults : Down(i) => ~(faults[i].start < now)
        BY <1>1, <1>7 DEF FaultsFollowSchedule
  <2>4. QED BY <1>2, <2>1, <2>2, <2>3 DEF Decided
<1>8. QED BY <1>5, <1>6, <1>7

\* An event of the past, with what decided it.
Good(e) == e.t <= now /\ e.mid \in DOMAIN sent /\ Decided(e)

\* Time goes on; messages and faults are added, none is changed.
Grows ==
    /\ now \in Nat /\ now' \in Nat /\ now <= now'
    /\ \A m \in DOMAIN sent : m \in DOMAIN sent' /\ sent'[m] = sent[m]
    /\ \A i \in DOMAIN faults : i \in DOMAIN faults' /\ faults'[i] = faults[i]
    /\ \A i \in NewFaults : now <= faults'[i].start /\ faults'[i].start \in Nat

\* An event of the past stays decided.
LEMMA GoodKept == ASSUME Grows, NEW e \in Event, Good(e) PROVE Good(e)'
<1>1. e.t \in Nat
      BY DEF Event, Time
<1>2. Decided(e)'
      BY DecidedForGood DEF Grows, Good
<1>3. QED BY <1>1, <1>2 DEF Grows, Good

\* The timeline stays good when what is added to it is.
LEMMA TimelineKept ==
    ASSUME DInv, timeline \in Seq(Event), Grows,
           \A k \in DOMAIN timeline' :
              \/ k \in DOMAIN timeline /\ timeline'[k] = timeline[k]
              \/ \E e \in Event : e = timeline'[k] /\ Good(e)'
    PROVE  DInv'
<1>1. ASSUME NEW k \in DOMAIN timeline, NEW e \in Event, e = timeline[k] PROVE Good(e)
      BY <1>1 DEF DInv, Past, DecidedAtDelivery, Decided, Good
<1>2. ASSUME NEW k \in DOMAIN timeline' PROVE \E e \in Event : e = timeline'[k] /\ Good(e)'
  <2>1. CASE k \in DOMAIN timeline /\ timeline'[k] = timeline[k]
    <3>1. PICK e \in Event : e = timeline[k]
          BY <2>1
    <3>2. Good(e)'
          BY <1>1, <2>1, <3>1, GoodKept
    <3>3. QED BY <2>1, <3>1, <3>2
  <2>2. QED BY <2>1
<1>3. QED BY <1>2 DEF DInv, Past, DecidedAtDelivery, Decided, Good

\* What the timeline says stays decided, whatever happens later.
LEMMA DecidedStep == ASSUME IInv, FInv, DInv, [Next]_vars PROVE DInv'
<1>0. /\ timeline \in Seq(Event) /\ sent \in Seq(Message) /\ now \in Nat
      /\ TypeOK /\ References /\ Streams
      BY TimesAreNumbers DEF TypeOK, IInv
<1>1. ASSUME UNCHANGED <<timeline, now, sent, faults>> PROVE DInv'
  <2>1. Grows
        BY <1>0, <1>1 DEF Grows, NewFaults
  <2>2. QED BY <1>0, <1>1, <2>1, TimelineKept
<1>2. CASE \/ \E a \in Addr, p \in Policies : Bind(a, p)
           \/ \E groups \in Splits : Partition(groups)
           \/ Heal
           \/ \E c \in DOMAIN calls : RunForReturns(c)
           \/ \E t \in timers : Begin(t) \/ End(t) \/ Wake(t)
           \/ UNCHANGED vars
      BY <1>1, <1>2 DEF Bind, Partition, Heal, RunForReturns, Begin, End, Wake, vars, schedVars,
                        netVars, faultVars
<1>3. CASE Tick
  <2>1. Grows /\ timeline' = timeline
        BY <1>0, <1>3 DEF Tick, netVars, faultVars, Grows, NewFaults
  <2>2. QED BY <1>0, <2>1, TimelineKept
<1>4. ASSUME NEW secs \in Secs, NEW specs \in SpecLists, RunFor(secs, specs) PROVE DInv'
  <2>1. /\ UNCHANGED <<timeline, now, sent>>
        /\ \A i \in DOMAIN faults : i \in DOMAIN faults' /\ faults'[i] = faults[i]
        /\ \A i \in NewFaults : now <= faults'[i].start
        BY <1>0, <1>4, RunForEffects
  <2>2. faults' \in Seq(Fault)
        BY <1>0, <1>4, RunForAdds
  <2>3. \A f \in Fault : f.start \in Nat
        BY DEF Fault, Time
  <2>4. \A i \in NewFaults : faults'[i].start \in Nat
        BY <2>2, <2>3 DEF NewFaults
  <2>5. Grows
        BY <1>0, <2>1, <2>4 DEF Grows
  <2>6. QED BY <1>0, <2>1, <2>5, TimelineKept
<1>5. ASSUME NEW src \in Addr, NEW dst \in Addr, Send(src, dst) PROVE DInv'
  <2>1. /\ UNCHANGED <<now, faults>> /\ sent' = Append(sent, Sent(src, dst))
        /\ Sent(src, dst) \in Message /\ timeline' \in Seq(Event)
        BY <1>0, <1>5, SendAdds DEF Send, faultVars
  <2>2. Grows /\ Len(sent) + 1 \in DOMAIN sent'
        BY <1>0, <2>1 DEF Grows, NewFaults
  <2>3. CASE timeline' = timeline
        BY <1>0, <2>2, <2>3, TimelineKept
  <2>4. ASSUME NEW ev \in {"drop", "duplicate"}, timeline' = Append(timeline, Happens(ev, Len(sent) + 1))
        PROVE  DInv'
    <3>1. PICK e \in Event : e = Happens(ev, Len(sent) + 1)
      <4>1. timeline'[Len(timeline')] = Happens(ev, Len(sent) + 1) /\ Len(timeline') \in DOMAIN timeline'
            BY <1>0, <2>4
      <4>2. QED BY <2>1, <4>1
    <3>2. e.ev = ev /\ e.t = now /\ e.mid = Len(sent) + 1
          BY <3>1 DEF Happens
    <3>3. Decided(e)'
          BY <3>2 DEF Decided
    <3>4. Good(e)'
          BY <1>0, <2>1, <2>2, <3>2, <3>3 DEF Good
    <3>5. \A k \in DOMAIN timeline' :
             (k \in DOMAIN timeline /\ timeline'[k] = timeline[k]) \/ timeline'[k] = e
          BY <1>0, <2>4, <3>1
    <3>6. QED BY <1>0, <2>2, <3>4, <3>5, TimelineKept
  <2>5. QED BY <1>0, <1>5, <2>3, <2>4, SendFates
<1>6. ASSUME NEW t \in timers, Deliver(t) PROVE DInv'
  <2> DEFINE m == sent[t.arg]
             new == [ev |-> Outcome(m), mid |-> t.arg, t |-> now, scenario |-> ScenarioCut(m.src, m.dst)]
  <2>1. UNCHANGED <<now, faults, sent>> /\ timeline' = Append(timeline, new) /\ t.op = "deliver"
        BY <1>6 DEF Deliver, netVars, faultVars
  <2>2. Decided(new) /\ t.arg \in DOMAIN sent
        BY <1>0, <1>6, <2>1, DeliveryDecided DEF References
  <2>3. timeline' \in Seq(Event)
        BY <1>0, <1>6, TypeStep DEF TypeOK, Next
  <2>4. PICK e \in Event : e = new
    <3>1. timeline'[Len(timeline')] = new /\ Len(timeline') \in DOMAIN timeline'
          BY <1>0, <2>1
    <3>2. QED BY <2>3, <3>1
  <2>5. Good(e)
        BY <1>0, <2>2, <2>4 DEF Good
  <2>6. Grows
        BY <1>0, <2>1 DEF Grows, NewFaults
  <2>7. Good(e)'
        BY <2>5, <2>6, GoodKept
  <2>8. \A k \in DOMAIN timeline' :
           (k \in DOMAIN timeline /\ timeline'[k] = timeline[k]) \/ timeline'[k] = e
        BY <1>0, <2>1, <2>4
  <2>9. QED BY <1>0, <2>6, <2>7, <2>8, TimelineKept
<1>7. QED BY <1>2, <1>3, <1>4, <1>5, <1>6 DEF Next, Horizon

\* A group of disjoint groups is not cut.
LEMMA DisjointGroups ==
    ASSUME NEW groups, Disjoint(groups), NEW g \in DOMAIN groups, g # 0,
           NEW a \in groups[g], NEW b \in groups[g]
    PROVE  ~Cut(groups, a, b)
<1>1. \A x \in groups[g] : {i \in DOMAIN groups : x \in groups[i]} = {g}
      BY DEF Disjoint
<1>2. \A x \in groups[g] : GroupOf(groups, x) = g
      BY <1>1 DEF GroupOf
<1>3. QED BY <1>2 DEF Cut

\* A scheduled fault does what its handle says.
LEMMA Effective == ASSUME TypeOK, FInv PROVE FaultsAreEffective
<1> SUFFICES ASSUME NEW i \in DOMAIN faults
             PROVE  LET f == faults[i]
                    IN  /\ \A g \in DOMAIN f.groups : \A a, b \in f.groups[g] : ~Cut(f.groups, a, b)
                        /\ f.kind = "slow" => Cardinality(f.who) = 2 /\ f.factor > 1
                        /\ \E c \in DOMAIN calls :
                              /\ i \in calls[c].faults
                              /\ calls[c].at <= f.start /\ f.start <= f.end
                              /\ f.end <= calls[c].at + calls[c].secs
    BY DEF FaultsAreEffective
<1>1. Sound(faults[i])
      BY DEF FInv, CallsKept
<1>2. faults[i].groups \in Groups
  <2>1. \A f \in Fault : f.groups \in Groups
        BY DEF Fault
  <2>2. faults \in Seq(Fault)
        BY DEF TypeOK
  <2>3. QED BY <2>1, <2>2
<1>3. \A g \in DOMAIN faults[i].groups : g # 0
      BY <1>2 DEF Groups
<1>4. \A g \in DOMAIN faults[i].groups : \A a, b \in faults[i].groups[g] : ~Cut(faults[i].groups, a, b)
      BY <1>1, <1>3, DisjointGroups DEF Sound
<1>5. \E c \in DOMAIN calls : /\ i \in calls[c].faults
                              /\ calls[c].at <= faults[i].start
                              /\ faults[i].end <= calls[c].at + calls[c].secs
      BY DEF FInv, CallsKept
<1>6. QED BY <1>1, <1>4, <1>5 DEF Sound

\* The faults of a call that has returned after some time are over.
LEMMA Resolves == ASSUME FInv PROVE RunForResolves
<1> SUFFICES ASSUME NEW c \in DOMAIN calls, calls[c].state = "returned", calls[c].secs > 0,
                    NEW i \in calls[c].faults
             PROVE  Resolved(i)
    BY DEF RunForResolves
<1>1. i \in DOMAIN faults /\ ~Pending("begin", i) /\ ~Pending("end", i)
      BY DEF FInv, CallsKept
<1>2. Progress(i)
      BY <1>1 DEF FInv, Progresses
<1>3. QED BY <1>1, <1>2 DEF Progress, Resolved, Pending

-----------------------------------------------------------------------------
(* The copies of a message.                                                *)

\* The deliveries of a message that are still to come.
Copies(mid) == {t \in timers : t.op = "deliver" /\ t.arg = mid}
Outcomes == {"drop", "deliver", "drop-crashed", "drop-partitioned"}

\* The account of one message.
Balanced(mid) ==
    /\ IsFiniteSet(Copies(mid))
    /\ InFlight(mid) + Times(Outcomes, mid) = 1 + Times({"duplicate"}, mid)
    /\ Reliable(mid) => Times({"drop", "duplicate"}, mid) = 0

CInv == \A mid \in DOMAIN sent : Balanced(mid)

\* One more event is counted where it belongs.
LEMMA Tally ==
    ASSUME timeline \in Seq(Event), NEW e \in Event, timeline' = Append(timeline, e),
           NEW evs, NEW mid
    PROVE  /\ Times(evs, mid) \in Nat
           /\ Times(evs, mid)' = IF e.mid = mid /\ e.ev \in evs THEN Times(evs, mid) + 1
                                 ELSE Times(evs, mid)
<1> DEFINE K == {k \in DOMAIN timeline : timeline[k].mid = mid /\ timeline[k].ev \in evs}
           L == {k \in DOMAIN timeline' : timeline'[k].mid = mid /\ timeline'[k].ev \in evs}
           n == Len(timeline)
<1>1. /\ n \in Nat /\ DOMAIN timeline = 1..n /\ DOMAIN timeline' = 1..(n + 1)
      /\ timeline'[n + 1] = e /\ \A k \in 1..n : timeline'[k] = timeline[k]
      OBVIOUS
<1> HIDE DEF n
<1>2. IsFiniteSet(K) /\ Cardinality(K) \in Nat
  <2>1. IsFiniteSet(1..n)
        BY <1>1, FS_Interval
  <2>2. K \in SUBSET (1..n)
        BY <1>1
  <2>3. QED BY <2>1, <2>2, FS_Subset, FS_CardinalityType
<1>3. n + 1 \notin K
      BY <1>1
<1>4. L = IF e.mid = mid /\ e.ev \in evs THEN K \cup {n + 1} ELSE K
  <2>1. \A k : k \in L <=> \/ k \in K
                           \/ k = n + 1 /\ e.mid = mid /\ e.ev \in evs
        BY <1>1
  <2> HIDE DEF K, L
  <2>2. QED BY <2>1
<1>5. Times(evs, mid) = Cardinality(K) /\ Times(evs, mid)' = Cardinality(L)
      BY DEF Times
<1> HIDE DEF K, L
<1>6. QED BY <1>2, <1>3, <1>4, <1>5, FS_AddElement

\* What has not been sent has no copies and no history.
LEMMA NothingBefore ==
    ASSUME TypeOK, References, Past, NEW mid, mid \notin DOMAIN sent, NEW evs
    PROVE  Copies(mid) = {} /\ Times(evs, mid) = 0
<1>1. Copies(mid) = {}
      BY DEF Copies, References
<1>2. {k \in DOMAIN timeline : timeline[k].mid = mid /\ timeline[k].ev \in evs} = {}
      BY DEF Past
<1>3. QED BY <1>1, <1>2, FS_EmptySet DEF Times

\* A message that neither the timers nor the timeline mention keeps its account.
LEMMA AccountKept ==
    ASSUME NEW mid, Balanced(mid), Copies(mid)' = Copies(mid), Reliable(mid)' = Reliable(mid),
           \A evs : Times(evs, mid)' = Times(evs, mid)
    PROVE  Balanced(mid)'
<1>1. InFlight(mid)' = InFlight(mid)
      BY DEF InFlight, Copies
<1>2. QED BY <1>1 DEF Balanced

\* A send opens the account of its message.
LEMMA SendBalances ==
    ASSUME TypeOK, References, Streams, Past, CInv, NEW src \in Addr, NEW dst \in Addr, Send(src, dst)
    PROVE  CInv'
<1>0. PICK new \in Nat : new = Len(sent) + 1
      BY DEF TypeOK
<1>1. /\ DOMAIN sent' = DOMAIN sent \cup {new} /\ new \notin DOMAIN sent
      /\ \A mid \in DOMAIN sent : Reliable(mid)' = Reliable(mid)
      /\ Reliable(new)' = endpoints[src].reliable
  <2>1. /\ DOMAIN sent' = 1..new /\ DOMAIN sent = 1..Len(sent) /\ Len(sent) \in Nat
        /\ \A mid \in DOMAIN sent : Reliable(mid)' = Reliable(mid)
        /\ sent'[new].src = src /\ endpoints' = endpoints
        BY <1>0, SendKeeps
  <2>2. QED BY <1>0, <2>1 DEF Reliable
<1>2. timeline \in Seq(Event) /\ timeline' \in Seq(Event)
      BY SendAdds DEF TypeOK
<1>3. /\ timers \subseteq timers'
      /\ \A t \in timers' \ timers : t.op = "deliver" /\ t.arg = new
      BY <1>0, SendAdds
<1>4. Copies(new) = {} /\ \A evs : Times(evs, new) = 0
      BY <1>1, NothingBefore
<1> DEFINE Copy(t) == t.op = "deliver" /\ t.arg = new /\ t \notin timers
<1>5. \/ /\ timers' = timers /\ ~endpoints[src].reliable
         /\ timeline' = Append(timeline, Happens("drop", new))
      \/ \E t : Copy(t) /\ timers' = timers \cup {t} /\ timeline' = timeline
      \/ \E t, u : /\ Copy(t) /\ Copy(u) /\ t # u
                   /\ timers' = timers \cup {t, u} /\ ~endpoints[src].reliable
                   /\ timeline' = Append(timeline, Happens("duplicate", new))
      BY <1>0, SendFates
<1>6. \/ timeline' = timeline
      \/ \E e \in Event : e.mid = new /\ timeline' = Append(timeline, e)
  <2>1. ASSUME NEW ev, timeline' = Append(timeline, Happens(ev, new))
        PROVE  \E e \in Event : e.mid = new /\ timeline' = Append(timeline, e)
    <3>1. timeline'[Len(timeline')] = Happens(ev, new) /\ Len(timeline') \in DOMAIN timeline'
          BY <1>2, <2>1
    <3>2. Happens(ev, new) \in Event
          BY <1>2, <3>1
    <3>3. Happens(ev, new).mid = new
          BY DEF Happens
    <3>4. QED BY <2>1, <3>2, <3>3
  <2>2. QED BY <1>5, <2>1
<1>7. ASSUME NEW mid \in DOMAIN sent PROVE Balanced(mid)'
  <2>1. Copies(mid)' = Copies(mid)
        BY <1>1, <1>3 DEF Copies
  <2>2. \A evs : Times(evs, mid)' = Times(evs, mid)
    <3>1. CASE timeline' = timeline
          BY <3>1 DEF Times
    <3>2. CASE \E e \in Event : e.mid = new /\ timeline' = Append(timeline, e)
          BY <1>1, <1>2, <3>2, Tally
    <3>3. QED BY <1>6, <3>1, <3>2
  <2>3. QED BY <1>1, <2>1, <2>2, AccountKept DEF CInv
<1>8. Balanced(new)'
  <2>0. InFlight(new)' = Cardinality(Copies(new)')
        BY DEF InFlight, Copies
  <2>1. CASE /\ timers' = timers /\ ~endpoints[src].reliable
             /\ timeline' = Append(timeline, Happens("drop", new))
    <3>1. PICK e \in Event : e.mid = new /\ e.ev = "drop" /\ timeline' = Append(timeline, e)
      <4>1. timeline'[Len(timeline')] = Happens("drop", new) /\ Len(timeline') \in DOMAIN timeline'
            BY <1>2, <2>1
      <4>2. Happens("drop", new) \in Event
            BY <1>2, <4>1
      <4>3. QED BY <2>1, <4>2 DEF Happens
    <3>2. Copies(new)' = {}
          BY <1>4, <2>1 DEF Copies
    <3>3. Times(Outcomes, new)' = 1 /\ Times({"duplicate"}, new)' = 0
          BY <1>2, <1>4, <3>1, Tally DEF Outcomes
    <3>4. QED BY <1>1, <2>0, <2>1, <3>2, <3>3, FS_EmptySet DEF Balanced, Outcomes
  <2>2. ASSUME NEW t, Copy(t), timers' = timers \cup {t}, timeline' = timeline PROVE Balanced(new)'
    <3>1. Copies(new)' = {t}
          BY <1>4, <2>2 DEF Copies
    <3>2. \A evs : Times(evs, new)' = 0
          BY <1>4, <2>2 DEF Times
    <3>3. IsFiniteSet({t}) /\ Cardinality({t}) = 1
          BY FS_Singleton
    <3>4. QED BY <2>0, <3>1, <3>2, <3>3 DEF Balanced, Outcomes
  <2>3. ASSUME NEW t, NEW u, Copy(t), Copy(u), t # u, timers' = timers \cup {t, u},
               ~endpoints[src].reliable, timeline' = Append(timeline, Happens("duplicate", new))
        PROVE  Balanced(new)'
    <3>1. PICK e \in Event : e.mid = new /\ e.ev = "duplicate" /\ timeline' = Append(timeline, e)
      <4>1. timeline'[Len(timeline')] = Happens("duplicate", new) /\ Len(timeline') \in DOMAIN timeline'
            BY <1>2, <2>3
      <4>2. Happens("duplicate", new) \in Event
            BY <1>2, <4>1
      <4>3. QED BY <2>3, <4>2 DEF Happens
    <3>2. Copies(new)' = {t} \cup {u} /\ u \notin {t}
          BY <1>4, <2>3 DEF Copies
    <3>3. IsFiniteSet({t}) /\ Cardinality({t}) = 1
          BY FS_Singleton
    <3>4. IsFiniteSet({t} \cup {u}) /\ Cardinality({t} \cup {u}) = 2
      <4>1. Cardinality({t} \cup {u}) = 1 + 1 /\ IsFiniteSet({t} \cup {u})
            BY <3>2, <3>3, FS_AddElement
      <4>2. QED BY <4>1
    <3>5. Times(Outcomes, new)' = 0 /\ Times({"duplicate"}, new)' = 1
          BY <1>2, <1>4, <3>1, Tally DEF Outcomes
    <3>6. InFlight(new)' = 2 /\ IsFiniteSet(Copies(new)')
          BY <2>0, <3>2, <3>4
    <3>7. ~Reliable(new)'
          BY <1>1, <2>3
    <3>8. QED BY <3>5, <3>6, <3>7 DEF Balanced, Outcomes
  <2>4. QED BY <1>5, <2>1, <2>2, <2>3
<1>9. QED BY <1>1, <1>7, <1>8 DEF CInv

\* A delivery moves one copy from the timers to the timeline.
LEMMA DeliverBalances ==
    ASSUME TypeOK, References, Streams, CInv, NEW t \in timers, Deliver(t)
    PROVE  CInv'
<1> DEFINE m == sent[t.arg]
           new == [ev |-> Outcome(m), mid |-> t.arg, t |-> now, scenario |-> ScenarioCut(m.src, m.dst)]
<1>1. /\ UNCHANGED <<sent, endpoints>> /\ t.op = "deliver" /\ timers' = timers \ {t}
      /\ timeline' = Append(timeline, new) /\ t.arg \in DOMAIN sent
      BY DEF Deliver, Fires, netVars, References
<1>2. timeline \in Seq(Event) /\ timeline' \in Seq(Event)
      BY TypeStep DEF TypeOK, Next
<1>3. PICK e \in Event : /\ e.mid = t.arg /\ timeline' = Append(timeline, e)
                         /\ e.ev \in {"deliver", "drop-crashed", "drop-partitioned"}
  <2>1. timeline'[Len(timeline')] = new /\ Len(timeline') \in DOMAIN timeline'
        BY <1>1, <1>2
  <2>2. new \in Event
        BY <1>2, <2>1
  <2>3. Outcome(m) \in {"deliver", "drop-crashed", "drop-partitioned"}
        BY DEF Outcome
  <2>4. QED BY <1>1, <2>2, <2>3
<1> SUFFICES ASSUME NEW mid \in DOMAIN sent PROVE Balanced(mid)'
    BY <1>1 DEF CInv
<1>4. Balanced(mid) /\ Reliable(mid)' = Reliable(mid)
      BY <1>1 DEF CInv, Reliable
<1>5. CASE mid # t.arg
  <2>1. Copies(mid)' = Copies(mid)
        BY <1>1, <1>5 DEF Copies
  <2>2. \A evs : Times(evs, mid)' = Times(evs, mid)
        BY <1>2, <1>3, <1>5, Tally
  <2>3. QED BY <1>4, <2>1, <2>2, AccountKept
<1>6. CASE mid = t.arg
  <2>1. Copies(mid)' = Copies(mid) \ {t} /\ t \in Copies(mid)
        BY <1>1, <1>6 DEF Copies
  <2>2. /\ IsFiniteSet(Copies(mid)')
        /\ Cardinality(Copies(mid)') = Cardinality(Copies(mid)) - 1
        /\ Cardinality(Copies(mid)) \in Nat
        BY <1>4, <2>1, FS_RemoveElement, FS_CardinalityType DEF Balanced
  <2>3. InFlight(mid) = Cardinality(Copies(mid)) /\ InFlight(mid)' = Cardinality(Copies(mid)')
        BY DEF InFlight, Copies
  <2>4. Times(Outcomes, mid)' = Times(Outcomes, mid) + 1 /\ Times(Outcomes, mid) \in Nat
        BY <1>2, <1>3, <1>6, Tally DEF Outcomes
  <2>5. /\ Times({"duplicate"}, mid)' = Times({"duplicate"}, mid) /\ Times({"duplicate"}, mid) \in Nat
        /\ Times({"drop", "duplicate"}, mid)' = Times({"drop", "duplicate"}, mid)
        BY <1>2, <1>3, <1>6, Tally
  <2>6. InFlight(mid)' + Times(Outcomes, mid)' = 1 + Times({"duplicate"}, mid)'
        BY <1>4, <2>2, <2>3, <2>4, <2>5 DEF Balanced
  <2>7. QED BY <1>4, <2>2, <2>5, <2>6 DEF Balanced, Outcomes
<1>7. QED BY <1>5, <1>6

\* Every step keeps the accounts.
LEMMA CopiesStep == ASSUME IInv, Past, CInv, [Next]_vars PROVE CInv'
<1>1. TypeOK /\ References /\ Streams
      BY DEF IInv
<1>2. ASSUME UNCHANGED <<timeline, sent>>, \A mid \in DOMAIN sent : Reliable(mid)' = Reliable(mid),
             \A mid \in DOMAIN sent : Copies(mid)' = Copies(mid)
      PROVE  CInv'
  <2>1. \A mid, evs : Times(evs, mid)' = Times(evs, mid)
        BY <1>2 DEF Times
  <2>2. QED BY <1>2, <2>1, AccountKept DEF CInv
<1>3. ASSUME NEW a \in Addr, NEW p \in Policies, Bind(a, p) PROVE CInv'
      BY <1>1, <1>2, <1>3, BindKeepsPolicies DEF Bind, netVars, schedVars, Copies
<1>4. CASE \/ \E groups \in Splits : Partition(groups)
           \/ Heal
           \/ \E c \in DOMAIN calls : RunForReturns(c)
           \/ Tick
           \/ UNCHANGED vars
  <2>1. UNCHANGED <<timeline, sent, endpoints, timers>>
        BY <1>4 DEF Partition, Heal, RunForReturns, Tick, vars, schedVars, netVars, faultVars
  <2>2. QED BY <1>2, <2>1 DEF Reliable, Copies
<1>5. ASSUME NEW src \in Addr, NEW dst \in Addr, Send(src, dst) PROVE CInv'
      BY <1>1, <1>5, SendBalances
<1>6. ASSUME NEW secs \in Secs, NEW specs \in SpecLists, RunFor(secs, specs) PROVE CInv'
  <2>1. UNCHANGED <<timeline, sent, endpoints>>
        BY <1>6 DEF RunFor, netVars
  <2>2. timers \subseteq timers' /\ \A t \in timers' \ timers : t.op # "deliver"
        BY <1>1, <1>6, RunForAdds
  <2>3. QED BY <1>2, <2>1, <2>2 DEF Reliable, Copies
<1>7. ASSUME NEW t \in timers, Deliver(t) PROVE CInv'
      BY <1>1, <1>7, DeliverBalances
<1>8. ASSUME NEW t \in timers, Begin(t) \/ End(t) \/ Wake(t) PROVE CInv'
  <2>1. /\ UNCHANGED <<timeline, sent, endpoints>> /\ t.op # "deliver" /\ timers' = timers \ {t}
        BY <1>8 DEF Begin, End, Wake, Fires, netVars
  <2>2. QED BY <1>2, <2>1 DEF Reliable, Copies
<1>9. QED BY <1>3, <1>4, <1>5, <1>6, <1>7, <1>8 DEF Next, Horizon

-----------------------------------------------------------------------------
(* Products of factors.                                                    *)

\* Slowdown and SlowFactor, for any list of faults.
Product(fs, ids) ==
    MapThenFoldSet(LAMBDA x, y : x * y, 1, LAMBDA i : fs[i].factor,
                   LAMBDA S : CHOOSE i \in S : TRUE, ids)

First(s) == CHOOSE i \in s : TRUE

\* The product of ids comes from the one without its first member.
Multiplied(fs, ids) ==
    Product(fs, ids) = IF ids = {} THEN 1 ELSE fs[First(ids)].factor * Product(fs, ids \ {First(ids)})

\* g is the recursive function of the fold over ids.
Multiplies(fs, ids, g) ==
    g = [s \in SUBSET ids |->
           IF s = {} THEN 1 ELSE LET x == First(s) IN fs[x].factor * g[s \ {x}]]

\* Every non-empty set of naturals has a least element.
LEMMA LeastNat ==
    ASSUME NEW S \in SUBSET Nat, S # {}
    PROVE  \E x \in S : \A y \in S : x <= y
<1> DEFINE R == {ss \in Nat \X Nat : ss[1] < ss[2]}
<1>1. R = OpToRel(<, Nat)
      BY DEF OpToRel
<1>2. IsWellFoundedOn(R, Nat)
      BY <1>1, NatLessThanWellFounded
<1>3. PICK x \in S : \A y \in S : ~(<<y, x>> \in R)
  <2> HIDE DEF R
  <2> QED BY <1>2, WFMin
<1>4. ASSUME NEW y \in S PROVE x <= y
  <2>1. x \in Nat /\ y \in Nat
        OBVIOUS
  <2>2. <<y, x>> \in R <=> y < x
        BY <2>1
  <2>3. QED BY <1>3, <2>1, <2>2
<1>5. QED BY <1>4

\* A set of subsets of a finite set that has each one it has without any one
\* of its members has them all.
LEMMA FiniteSubsets ==
    ASSUME NEW S, IsFiniteSet(S), NEW good,
           \A T \in SUBSET S : (\A x \in T : T \ {x} \in good) => T \in good
    PROVE  \A T \in SUBSET S : T \in good
<1> DEFINE Bad == {Cardinality(T) : T \in (SUBSET S) \ good}
<1>1. \A T \in SUBSET S : IsFiniteSet(T) /\ Cardinality(T) \in Nat
      BY FS_Subset, FS_CardinalityType
<1>2. SUFFICES ASSUME Bad # {} PROVE FALSE
      OBVIOUS
<1>3. Bad \in SUBSET Nat
      BY <1>1
<1>4. PICK n \in Bad : \A m \in Bad : n <= m
  <2> HIDE DEF Bad
  <2> QED BY <1>2, <1>3, LeastNat
<1>5. PICK T \in (SUBSET S) \ good : n = Cardinality(T)
      OBVIOUS
<1>6. PICK x \in T : T \ {x} \notin good
      OBVIOUS
<1>7. Cardinality(T \ {x}) \in Bad /\ Cardinality(T \ {x}) = Cardinality(T) - 1
      BY <1>1, <1>6, FS_RemoveElement
<1>8. n <= Cardinality(T \ {x}) /\ n \in Nat
      BY <1>3, <1>4, <1>7
<1>9. QED BY <1>5, <1>7, <1>8

\* The fold is determined by its equation.
LEMMA OneFold ==
    ASSUME NEW fs, NEW ids, IsFiniteSet(ids),
           NEW g, Multiplies(fs, ids, g), NEW h, Multiplies(fs, ids, h)
    PROVE  \A s \in SUBSET ids : g[s] = h[s]
<1> DEFINE good == {s \in SUBSET ids : g[s] = h[s]}
<1>1. ASSUME NEW T \in SUBSET ids, \A x \in T : T \ {x} \in good PROVE T \in good
  <2>1. /\ g[T] = IF T = {} THEN 1 ELSE fs[First(T)].factor * g[T \ {First(T)}]
        /\ h[T] = IF T = {} THEN 1 ELSE fs[First(T)].factor * h[T \ {First(T)}]
        BY DEF Multiplies
  <2>2. T # {} => First(T) \in T
        BY DEF First
  <2>3. T # {} => g[T \ {First(T)}] = h[T \ {First(T)}]
        BY <1>1, <2>2
  <2>4. QED BY <2>1, <2>3
<1>2. \A s \in SUBSET ids : s \in good
  <2> HIDE DEF good
  <2> QED BY <1>1, FiniteSubsets
<1>3. QED BY <1>2

\* The product over a finite set obeys its recursion.
LEMMA ProductUnfolds ==
    ASSUME NEW fs, NEW ids, IsFiniteSet(ids)
    PROVE  Multiplied(fs, ids)
<1> DEFINE good == {T \in SUBSET ids : \A s \in SUBSET T : Multiplied(fs, s)}
<1>1. ASSUME NEW T \in SUBSET ids, \A x \in T : T \ {x} \in good PROVE T \in good
  <2> DEFINE g == [s \in SUBSET T |->
                     IF s = {} THEN 1
                     ELSE IF s = T THEN fs[First(T)].factor * Product(fs, T \ {First(T)})
                     ELSE Product(fs, s)]
             h == CHOOSE f : Multiplies(fs, T, f)
  <2>1. \A s \in SUBSET T : s # T => Multiplied(fs, s)
    <3>1. ASSUME NEW s \in SUBSET T, s # T PROVE Multiplied(fs, s)
      <4>1. PICK x \in T : s \in SUBSET (T \ {x})
            BY <3>1
      <4>2. QED BY <1>1, <4>1
    <3>2. QED BY <3>1
  <2>2. \A s \in SUBSET T : s # {} => First(s) \in s /\ s \ {First(s)} \in SUBSET T /\ s \ {First(s)} # T
        BY DEF First
  <2>3. \A s \in SUBSET T : s # T => g[s] = Product(fs, s)
    <3>1. {} \in SUBSET T /\ ({} # T => Product(fs, {}) = 1)
          BY <2>1 DEF Multiplied
    <3>2. QED BY <3>1
  <2>4. \A s \in SUBSET T :
           g[s] = IF s = {} THEN 1 ELSE fs[First(s)].factor * g[s \ {First(s)}]
    <3>1. ASSUME NEW s \in SUBSET T, s # {}, s = T
          PROVE  g[s] = fs[First(s)].factor * g[s \ {First(s)}]
      <4>1. g[s] = fs[First(T)].factor * Product(fs, T \ {First(T)})
            BY <3>1
      <4>2. g[T \ {First(T)}] = Product(fs, T \ {First(T)})
            BY <2>2, <2>3, <3>1
      <4>3. QED BY <3>1, <4>1, <4>2, Zenon
    <3>2. ASSUME NEW s \in SUBSET T, s # {}, s # T
          PROVE  g[s] = fs[First(s)].factor * g[s \ {First(s)}]
      <4>1. g[s] = Product(fs, s)
            BY <2>3, <3>2
      <4>2. Product(fs, s) = fs[First(s)].factor * Product(fs, s \ {First(s)})
            BY <2>1, <3>2 DEF Multiplied
      <4>3. g[s \ {First(s)}] = Product(fs, s \ {First(s)})
            BY <2>2, <2>3, <3>2
      <4>4. QED BY <4>1, <4>2, <4>3, Zenon
    <3>3. g[{}] = 1
          OBVIOUS
    <3> HIDE DEF g
    <3>4. QED BY <3>1, <3>2, <3>3
  <2>5. Multiplies(fs, T, g)
    <3>1. g = [s \in SUBSET T |-> g[s]]
          OBVIOUS
    <3> HIDE DEF g
    <3>2. QED BY <2>4, <3>1 DEF Multiplies
  <2>6. Multiplies(fs, T, h)
    <3> HIDE DEF g
    <3> QED BY <2>5
  <2>7. Product(fs, T) = h[T]
        BY DEF Product, MapThenFoldSet, Multiplies, First
  <2>8. h[T] = g[T]
    <3>1. IsFiniteSet(T)
          BY FS_Subset
    <3> HIDE DEF g, h
    <3>2. QED BY <2>5, <2>6, <3>1, OneFold
  <2>9. Multiplied(fs, T)
    <3>1. T # {} => g[T] = fs[First(T)].factor * Product(fs, T \ {First(T)})
          OBVIOUS
    <3>2. T = {} => g[T] = 1
          OBVIOUS
    <3> HIDE DEF g, h
    <3>3. QED BY <2>7, <2>8, <3>1, <3>2 DEF Multiplied
  <2>10. QED BY <2>1, <2>9
<1>2. \A T \in SUBSET ids : T \in good
  <2> HIDE DEF good
  <2> QED BY <1>1, FiniteSubsets
<1>3. QED BY <1>2

Positive(fs, ids) == \A i \in ids : fs[i].factor \in Nat \ {0}

\* A product of positive numbers is one.
LEMMA ProductIsPositive ==
    ASSUME NEW fs, NEW ids, IsFiniteSet(ids), Positive(fs, ids)
    PROVE  Product(fs, ids) \in Nat \ {0}
<1> DEFINE good == {T \in SUBSET ids : Product(fs, T) \in Nat \ {0}}
<1>1. ASSUME NEW T \in SUBSET ids, \A x \in T : T \ {x} \in good PROVE T \in good
  <2>1. Multiplied(fs, T)
        BY FS_Subset, ProductUnfolds
  <2>2. CASE T = {}
        BY <2>1, <2>2 DEF Multiplied
  <2>3. CASE T # {}
    <3>1. PICK x \in T : x = First(T)
          BY <2>3 DEF First
    <3>2. Product(fs, T) = fs[x].factor * Product(fs, T \ {x})
          BY <2>1, <2>3, <3>1 DEF Multiplied
    <3>3. fs[x].factor \in Nat \ {0} /\ Product(fs, T \ {x}) \in Nat \ {0}
          BY <1>1 DEF Positive
    <3>4. \A a, b \in Nat \ {0} : a * b \in Nat \ {0}
          OBVIOUS
    <3>5. Product(fs, T) \in Nat \ {0}
          BY <3>2, <3>3, <3>4
    <3>6. QED BY <3>5
  <2>4. QED BY <2>2, <2>3
<1>2. \A T \in SUBSET ids : T \in good
  <2> HIDE DEF good
  <2> QED BY <1>1, FiniteSubsets
<1>3. QED BY <1>2

\* Any member may be multiplied last: the product does not depend on the order.
LEMMA ProductAnyOrder ==
    ASSUME NEW fs, NEW ids, IsFiniteSet(ids), Positive(fs, ids), NEW i \in ids
    PROVE  Product(fs, ids) = fs[i].factor * Product(fs, ids \ {i})
<1> DEFINE Apart(T, x) == Product(fs, T) = fs[x].factor * Product(fs, T \ {x})
           good == {T \in SUBSET ids : \A x \in T : Apart(T, x)}
<1>1. ASSUME NEW T \in SUBSET ids, \A x \in T : T \ {x} \in good, NEW x \in T PROVE Apart(T, x)
  <2>1. PICK c \in T : c = First(T)
        BY DEF First
  <2>2. Product(fs, T) = fs[c].factor * Product(fs, T \ {c})
        BY <2>1, FS_Subset, ProductUnfolds DEF Multiplied
  <2>3. CASE c = x
        BY <2>2, <2>3
  <2>4. CASE c # x
    <3>1. Product(fs, T \ {c}) = fs[x].factor * Product(fs, (T \ {c}) \ {x})
          BY <1>1, <2>4
    <3>2. Product(fs, T \ {x}) = fs[c].factor * Product(fs, (T \ {x}) \ {c})
          BY <1>1, <2>4
    <3>3. (T \ {x}) \ {c} = (T \ {c}) \ {x}
          OBVIOUS
    <3>4. Product(fs, (T \ {c}) \ {x}) \in Nat
      <4>1. (T \ {c}) \ {x} \in SUBSET ids /\ Positive(fs, (T \ {c}) \ {x})
            BY DEF Positive
      <4>2. QED BY <4>1, FS_Subset, ProductIsPositive
    <3>5. fs[x].factor \in Nat /\ fs[c].factor \in Nat
          BY DEF Positive
    <3>6. \A a, b, n \in Nat : a * (b * n) = b * (a * n)
          OBVIOUS
    <3>7. PICK a \in Nat, b \in Nat, n \in Nat :
             a = fs[x].factor /\ b = fs[c].factor /\ n = Product(fs, (T \ {c}) \ {x})
          BY <3>4, <3>5
    <3>8. Product(fs, T) = b * (a * n) /\ fs[x].factor * Product(fs, T \ {x}) = a * (b * n)
          BY <2>2, <3>1, <3>2, <3>3, <3>7, Zenon
    <3>9. QED BY <3>6, <3>8, Zenon
  <2>5. QED BY <2>3, <2>4
<1>2. \A T \in SUBSET ids : T \in good
  <2>1. ASSUME NEW T \in SUBSET ids, \A x \in T : T \ {x} \in good PROVE T \in good
    <3> HIDE DEF Apart
    <3> QED BY <1>1, <2>1
  <2> HIDE DEF good
  <2>2. QED BY <2>1, FiniteSubsets
<1>3. QED BY <1>2

\* More links slow a message at least as much.
LEMMA ProductGrows ==
    ASSUME NEW fs, NEW ids, IsFiniteSet(ids), Positive(fs, ids), NEW some \in SUBSET ids
    PROVE  Product(fs, some) <= Product(fs, ids)
<1> DEFINE good == {T \in SUBSET ids : \A U \in SUBSET T : Product(fs, U) <= Product(fs, T)}
<1>0. \A T \in SUBSET ids : IsFiniteSet(T) /\ Positive(fs, T) /\ Product(fs, T) \in Nat \ {0}
  <2>1. \A T \in SUBSET ids : IsFiniteSet(T) /\ Positive(fs, T)
        BY FS_Subset DEF Positive
  <2>2. QED BY <2>1, ProductIsPositive
<1>1. ASSUME NEW T \in SUBSET ids, \A x \in T : T \ {x} \in good, NEW U \in SUBSET T
      PROVE  Product(fs, U) <= Product(fs, T)
  <2>1. CASE U = T
        BY <1>0, <2>1
  <2>2. CASE U # T
    <3>1. PICK x \in T : U \in SUBSET (T \ {x})
          BY <2>2
    <3>2. Product(fs, U) <= Product(fs, T \ {x})
          BY <1>1, <3>1
    <3>3. Product(fs, T) = fs[x].factor * Product(fs, T \ {x})
          BY <1>0, ProductAnyOrder
    <3>4. PICK a \in Nat \ {0}, n \in Nat \ {0}, k \in Nat \ {0} :
             a = fs[x].factor /\ n = Product(fs, T \ {x}) /\ k = Product(fs, U)
      <4>1. fs[x].factor \in Nat \ {0}
            BY DEF Positive
      <4>2. U \in SUBSET ids /\ T \ {x} \in SUBSET ids
            OBVIOUS
      <4>3. QED BY <1>0, <4>1, <4>2
    <3>5. n <= a * n
          BY <3>4
    <3>6. k <= n /\ Product(fs, T) = a * n
          BY <3>2, <3>3, <3>4, Zenon
    <3>7. k <= a * n
      <4>1. PICK p \in Nat : p = a * n
            OBVIOUS
      <4>2. QED BY <3>5, <3>6, <4>1
    <3>8. QED BY <3>4, <3>6, <3>7, Zenon
  <2>3. QED BY <2>1, <2>2
<1>2. \A T \in SUBSET ids : T \in good
  <2>1. ASSUME NEW T \in SUBSET ids, \A x \in T : T \ {x} \in good PROVE T \in good
        BY <1>1, <2>1
  <2> HIDE DEF good
  <2>2. QED BY <2>1, FiniteSubsets
<1>3. QED BY <1>2

\* The product looks at no other fault.
LEMMA ProductIsLocal ==
    ASSUME NEW fs, NEW gs, NEW ids, IsFiniteSet(ids), \A i \in ids : fs[i] = gs[i]
    PROVE  Product(fs, ids) = Product(gs, ids)
<1> DEFINE good == {T \in SUBSET ids : Product(fs, T) = Product(gs, T)}
<1>1. ASSUME NEW T \in SUBSET ids, \A x \in T : T \ {x} \in good PROVE T \in good
  <2>1. Multiplied(fs, T) /\ Multiplied(gs, T)
        BY FS_Subset, ProductUnfolds
  <2>2. CASE T = {}
        BY <2>1, <2>2 DEF Multiplied
  <2>3. CASE T # {}
    <3>1. PICK x \in T : x = First(T)
          BY <2>3 DEF First
    <3>2. QED BY <1>1, <2>1, <2>3, <3>1 DEF Multiplied
  <2>4. QED BY <2>2, <2>3
<1>2. \A T \in SUBSET ids : T \in good
  <2> HIDE DEF good
  <2> QED BY <1>1, FiniteSubsets
<1>3. QED BY <1>2

\* A finite set of naturals that is not empty has a least and a greatest member.
LEMMA Extremes ==
    ASSUME NEW S \in SUBSET Nat, IsFiniteSet(S), S # {}
    PROVE  /\ Min(S) \in S /\ \A x \in S : Min(S) <= x
           /\ Max(S) \in S /\ \A x \in S : x <= Max(S)
<1>1. \E x \in S : \A y \in S : x <= y
      BY LeastNat
<1>2. \E x \in S : \A y \in S : x >= y
  <2> DEFINE good == {T \in SUBSET S : T # {} => \E x \in T : \A y \in T : x >= y}
  <2>1. ASSUME NEW T \in SUBSET S, \A x \in T : T \ {x} \in good PROVE T \in good
    <3> SUFFICES ASSUME T # {} PROVE \E x \in T : \A y \in T : x >= y
        OBVIOUS
    <3>1. PICK z \in T : TRUE
          OBVIOUS
    <3>2. CASE T = {z}
          BY <3>2
    <3>3. CASE T # {z}
      <4>1. PICK x \in T \ {z} : \A y \in T \ {z} : x >= y
            BY <2>1, <3>1, <3>3
      <4>2. x \in Nat /\ z \in Nat /\ T \subseteq Nat
            OBVIOUS
      <4>3. CASE z <= x
            BY <4>1, <4>2, <4>3
      <4>4. CASE ~(z <= x)
            BY <4>1, <4>2, <4>4
      <4>5. QED BY <4>3, <4>4
    <3>4. QED BY <3>2, <3>3
  <2>2. \A T \in SUBSET S : T \in good
    <3> HIDE DEF good
    <3> QED BY <2>1, FiniteSubsets
  <2>3. S \in good
    <3> HIDE DEF good
    <3> QED BY <2>2
  <2>4. QED BY <2>3
<1>3. Min(S) \in S /\ \A x \in S : Min(S) <= x
      BY <1>1 DEF Min
<1>4. Max(S) \in S /\ \A x \in S : Max(S) >= x
      BY <1>2 DEF Max
<1>5. QED BY <1>3, <1>4

-----------------------------------------------------------------------------
(* How long a message is under way.                                        *)

\* The slow links of a message, and those that are open when it is sent: the
\* fewest it can be slowed by and the most.
LinksOf(mid) ==
    {i \in DOMAIN faults : /\ faults[i].kind = "slow"
                           /\ faults[i].who = {sent[mid].src, sent[mid].dst}}
InsideLinks(mid) ==
    {i \in LinksOf(mid) : faults[i].start < sent[mid].at /\ sent[mid].at < faults[i].end}
OpenLinks(mid) ==
    {i \in LinksOf(mid) : faults[i].start <= sent[mid].at /\ sent[mid].at <= faults[i].end}

\* What SlowedAtSend says of one delivery.
Slowed(t) ==
    /\ t.when - sent[t.arg].at >= Product(faults, InsideLinks(t.arg)) * Min(Lat)
    /\ ~Reliable(t.arg) => t.when - sent[t.arg].at <= Product(faults, OpenLinks(t.arg)) * Max(Lat)

AllSlowed == \A t \in timers : t.op = "deliver" => Slowed(t)

\* Nothing is sent in the future.
SentBefore == \A m \in DOMAIN sent : sent[m].at <= now

SInv == SentBefore /\ AllSlowed

\* SlowedAtSend says it of every delivery.
LEMMA SlowedIsSlowedAtSend == AllSlowed <=> SlowedAtSend
<1>1. \A ids : Slowdown(ids) = Product(faults, ids)
      BY DEF Slowdown, Product
<1>2. ASSUME NEW t PROVE
         LET m == sent[t.arg]
             links == {i \in DOMAIN faults :
                          faults[i].kind = "slow" /\ faults[i].who = {m.src, m.dst}}
             inside == {i \in links : faults[i].start < m.at /\ m.at < faults[i].end}
             open == {i \in links : faults[i].start <= m.at /\ m.at <= faults[i].end}
         IN  Slowed(t) <=> /\ t.when - m.at >= Slowdown(inside) * Min(Lat)
                           /\ ~Reliable(t.arg) => t.when - m.at <= Slowdown(open) * Max(Lat)
      BY <1>1, Zenon DEF Slowed, InsideLinks, OpenLinks, LinksOf
<1>3. QED BY <1>2 DEF AllSlowed, SlowedAtSend

\* There are finitely many faults, and a slow link slows.
LEMMA LinksMultiply ==
    ASSUME NEW fs \in Seq(Fault), \A i \in DOMAIN fs : Sound(fs[i]),
           NEW ids \in SUBSET DOMAIN fs, \A i \in ids : fs[i].kind = "slow"
    PROVE  IsFiniteSet(ids) /\ Positive(fs, ids) /\ Product(fs, ids) \in Nat \ {0}
<1>1. DOMAIN fs = 1..Len(fs) /\ Len(fs) \in Nat
      OBVIOUS
<1>2. IsFiniteSet(ids)
  <2>0. \A n \in Nat : IsFiniteSet(1..n)
        BY FS_Interval
  <2>1. IsFiniteSet(1..Len(fs))
        BY <1>1, <2>0
  <2>2. ids \in SUBSET (1..Len(fs))
        BY <1>1
  <2>3. QED BY <2>1, <2>2, FS_Subset
<1>3. Positive(fs, ids)
  <2>1. \A f \in Fault : f.factor \in Nat
        BY DEF Fault
  <2>2. \A i \in ids : fs[i].factor > 1
        BY DEF Sound
  <2>3. QED BY <2>1, <2>2 DEF Positive
<1>4. QED BY <1>2, <1>3, ProductIsPositive

\* A larger product gives a longer latency.
LEMMA LongerProduct ==
    ASSUME NEW fs, NEW ids, IsFiniteSet(ids), Positive(fs, ids), NEW some \in SUBSET ids,
           NEW l \in Nat, NEW k \in Nat, l <= k
    PROVE  Product(fs, some) * l <= Product(fs, ids) * k
<1>1. Product(fs, some) \in Nat /\ Product(fs, ids) \in Nat
  <2>1. IsFiniteSet(some) /\ Positive(fs, some)
        BY FS_Subset DEF Positive
  <2>2. QED BY <2>1, ProductIsPositive
<1>2. Product(fs, some) <= Product(fs, ids)
      BY ProductGrows
<1>3. \A a, b, c, d \in Nat : a <= b /\ c <= d => a * c <= b * d
  <2> TAKE a, b, c, d \in Nat
  <2> HAVE a <= b /\ c <= d
  <2>1. a * c <= b * c
        BY SMT
  <2>2. b * c <= b * d
        BY SMT
  <2>3. a * c \in Nat /\ b * c \in Nat /\ b * d \in Nat
        BY SMT
  <2>4. QED BY <2>1, <2>2, <2>3
<1>4. QED BY <1>1, <1>2, <1>3, Zenon

\* The latencies are numbers, the least and the greatest of them too.
LEMMA Latencies ==
    ASSUME NEW d \in Lat
    PROVE  Lat \subseteq Nat /\ Min(Lat) \in Nat /\ Max(Lat) \in Nat /\ Min(Lat) <= d /\ d <= Max(Lat)
<1>1. Lat \in SUBSET Nat /\ Lat # {}
      BY TransportAssumption
<1>2. /\ Min(Lat) \in Lat /\ \A x \in Lat : Min(Lat) <= x
      /\ Max(Lat) \in Lat /\ \A x \in Lat : x <= Max(Lat)
      BY <1>1, LatAssumption, Extremes
<1>3. QED BY <1>1, <1>2

\* What opens or closes later changes nothing of what slows a message.
LEMMA SlowedForGood ==
    ASSUME TypeOK, TypeOK', FInv', Streams, Grows, SentBefore,
           NEW t \in timers, t.arg \in DOMAIN sent, Slowed(t),
           Reliable(t.arg)' = Reliable(t.arg)
    PROVE  Slowed(t)'
<1> DEFINE mid == t.arg
<1>1. sent'[mid] = sent[mid] /\ sent[mid].at <= now /\ sent[mid].at \in Nat /\ t.when \in Nat /\ now \in Nat
  <2>1. sent[mid] \in Message /\ t \in Timer
        BY DEF TypeOK
  <2>2. QED BY <2>1 DEF Grows, SentBefore, Message, Timer, Time
<1>2. /\ \A i \in DOMAIN faults : i \in DOMAIN faults' /\ faults'[i] = faults[i]
      /\ \A i \in DOMAIN faults' : i \notin DOMAIN faults => ~(faults'[i].start < sent[mid].at)
      BY <1>1 DEF Grows, NewFaults
<1>3. InsideLinks(mid)' = InsideLinks(mid) /\ OpenLinks(mid) \in SUBSET OpenLinks(mid)'
  <2>1. \A i : i \in InsideLinks(mid)' <=> i \in InsideLinks(mid)
        BY <1>1, <1>2 DEF InsideLinks, LinksOf
  <2>2. \A i : i \in OpenLinks(mid) => i \in OpenLinks(mid)'
        BY <1>1, <1>2 DEF OpenLinks, LinksOf
  <2>3. QED BY <2>1, <2>2
<1>4. /\ InsideLinks(mid) \subseteq DOMAIN faults /\ OpenLinks(mid) \subseteq DOMAIN faults
      /\ OpenLinks(mid)' \subseteq DOMAIN faults'
      /\ \A i \in OpenLinks(mid)' : faults'[i].kind = "slow"
      /\ \A i \in InsideLinks(mid)' : faults'[i].kind = "slow"
      BY DEF InsideLinks, OpenLinks, LinksOf
<1>5. \A ids \in SUBSET DOMAIN faults' : (\A i \in ids : faults'[i].kind = "slow") =>
         IsFiniteSet(ids) /\ Positive(faults', ids) /\ Product(faults', ids) \in Nat \ {0}
  <2>1. faults' \in Seq(Fault) /\ \A i \in DOMAIN faults' : Sound(faults'[i])
        BY DEF TypeOK, FInv, CallsKept
  <2>2. QED BY <2>1, LinksMultiply
<1>6. /\ IsFiniteSet(OpenLinks(mid)') /\ Positive(faults', OpenLinks(mid)')
      /\ IsFiniteSet(InsideLinks(mid)) /\ IsFiniteSet(OpenLinks(mid))
      /\ Product(faults', OpenLinks(mid)') \in Nat /\ Product(faults', OpenLinks(mid)) \in Nat
  <2>1. OpenLinks(mid) \subseteq DOMAIN faults' /\ \A i \in OpenLinks(mid) : faults'[i].kind = "slow"
        BY <1>3, <1>4
  <2>2. InsideLinks(mid) \subseteq DOMAIN faults' /\ \A i \in InsideLinks(mid) : faults'[i].kind = "slow"
        BY <1>3, <1>4, <1>2
  <2>3. QED BY <1>4, <1>5, <2>1, <2>2
<1>7. /\ Product(faults, InsideLinks(mid)) = Product(faults', InsideLinks(mid))
      /\ Product(faults, OpenLinks(mid)) = Product(faults', OpenLinks(mid))
  <2>1. /\ \A i \in InsideLinks(mid) : faults[i] = faults'[i]
        /\ \A i \in OpenLinks(mid) : faults[i] = faults'[i]
        BY <1>2, <1>4
  <2>2. QED BY <1>6, <2>1, ProductIsLocal
<1>8. t.when - sent[mid].at >= Product(faults', InsideLinks(mid)') * Min(Lat)
      BY <1>3, <1>7, Zenon DEF Slowed
<1>9. PICK d \in Lat : TRUE
  <2>1. mid \in 1..MaxSends /\ net[mid] \in Lat
    <3>1. DOMAIN sent = 1..Len(sent) /\ Len(sent) \in Nat /\ Len(sent) <= MaxSends
          BY DEF TypeOK, Streams
    <3>2. mid \in 1..MaxSends
          BY <3>1, TransportAssumption
    <3>3. QED BY <3>2 DEF TypeOK
  <2>2. QED BY <2>1
<1>10. ASSUME ~Reliable(mid)
       PROVE  t.when - sent[mid].at <= Product(faults', OpenLinks(mid)') * Max(Lat)
  <2>1. Max(Lat) \in Nat
        BY <1>9, Latencies
  <2>2. t.when - sent[mid].at <= Product(faults', OpenLinks(mid)) * Max(Lat)
        BY <1>7, <1>10, Zenon DEF Slowed
  <2>3. Product(faults', OpenLinks(mid)) * Max(Lat) <= Product(faults', OpenLinks(mid)') * Max(Lat)
    <3>1. Max(Lat) <= Max(Lat)
          BY <2>1
    <3>2. QED BY <1>3, <1>6, <2>1, <3>1, LongerProduct
  <2>4. PICK x \in Int, y \in Nat, z \in Nat :
           /\ x = t.when - sent[mid].at
           /\ y = Product(faults', OpenLinks(mid)) * Max(Lat)
           /\ z = Product(faults', OpenLinks(mid)') * Max(Lat)
    <3>1. t.when - sent[mid].at \in Int
          BY <1>1
    <3>2. \A a, b \in Nat : a * b \in Nat
          OBVIOUS
    <3>3. QED BY <1>6, <2>1, <3>1, <3>2
  <2>5. x <= y /\ y <= z
        BY <2>2, <2>3, <2>4, Zenon
  <2>6. x <= z
        BY <2>5
  <2>7. QED BY <2>4, <2>6, Zenon
<1>11. sent'[mid] = sent[mid] /\ (~Reliable(mid))' = ~Reliable(mid)
       BY <1>1
<1>12. QED BY <1>8, <1>10, <1>11, Zenon DEF Slowed

\* A message takes one latency of the range, slowed by the links in force, or
\* on a reliable link as long as it must.
LEMMA SendLatency ==
    ASSUME TypeOK, Streams, NEW src \in Addr, NEW dst \in Addr, Send(src, dst), SlowFactor(src, dst) \in Nat,
           NEW t \in timers', t \notin timers
    PROVE  \E d \in Lat : /\ now + d * SlowFactor(src, dst) <= t.when
                          /\ ~endpoints[src].reliable => t.when = now + d * SlowFactor(src, dst)
<1> DEFINE mid == Len(sent) + 1
           base == net[netPos + 1]
           slow == SlowFactor(src, dst)
<1>1. Fate(src, dst, mid, base * slow)
      BY DEF Send
<1>2. base \in Lat /\ now \in Nat /\ reliableClock[<<src, dst>>] \in Nat
  <2>1. netPos + 1 \in 1..MaxSends
    <3>1. netPos = Len(sent) /\ Len(sent) \in Nat /\ Len(sent) < MaxSends /\ MaxSends \in Nat
          BY TransportAssumption DEF Send, Streams, TypeOK
    <3>2. QED BY <3>1
  <2>2. base \in Lat
        BY <2>1 DEF TypeOK
  <2> HIDE DEF base
  <2>3. now \in Time /\ reliableClock[<<src, dst>>] \in Time
        BY DEF TypeOK
  <2>4. QED BY <2>2, <2>3 DEF Time
<1> HIDE DEF mid, base, slow
<1>3. CASE endpoints[src].reliable
  <2>1. t = Delivery(Later(now + base * slow, reliableClock[<<src, dst>>]), seq, mid)
        BY <1>1, <1>3 DEF Fate, ScheduleReliable
  <2>2. now + base * slow <= t.when
    <3>1. PICK lat \in Nat : lat = base * slow
          BY <1>2, TransportAssumption DEF slow
    <3>2. QED BY <1>2, <2>1, <3>1 DEF Delivery, Later
  <2>3. QED BY <1>2, <1>3, <2>2 DEF slow
<1>4. CASE ~endpoints[src].reliable
  <2>1. PICK d \in Lat : t.when = now + d * slow
    <3>1. CASE Lose(mid)
          BY <3>1 DEF Lose
    <3>2. CASE ScheduleOnce(mid, base * slow)
          BY <1>2, <3>2 DEF ScheduleOnce, Delivery
    <3>3. CASE \E d \in Lat : ScheduleTwice(mid, base * slow, d * slow)
          BY <1>2, <3>3 DEF ScheduleTwice, Delivery
    <3>4. QED BY <1>1, <1>4, <3>1, <3>2, <3>3 DEF Fate, slow
  <2>2. now + d * slow <= t.when
    <3>1. PICK lat \in Nat : lat = d * slow
          BY TransportAssumption DEF slow
    <3>2. t.when = now + lat
          BY <2>1, <3>1, Zenon
    <3>3. QED BY <1>2, <3>1, <3>2
  <2>3. QED BY <2>1, <2>2 DEF slow
<1>5. QED BY <1>3, <1>4

\* The links that slow a message when it is sent are open then, and none that
\* is inside its window is missing.
LEMMA SlowedBySend ==
    ASSUME IInv, FInv, NEW src \in Addr, NEW dst \in Addr, Send(src, dst),
           NEW t \in timers', t \notin timers
    PROVE  Slowed(t)'
<1> DEFINE slowing == {i \in active : faults[i].kind = "slow" /\ faults[i].who = {src, dst}}
<1>0. TypeOK /\ References /\ Streams
      BY DEF IInv
<1>1. PICK mid \in Nat : mid = Len(sent) + 1
      BY <1>0 DEF TypeOK
<1>2. /\ t.arg = mid /\ UNCHANGED <<faults, endpoints>>
      /\ sent'[mid].src = src /\ sent'[mid].dst = dst /\ sent'[mid].at = now
      /\ now \in Nat /\ t.when \in Nat
  <2>1. /\ t \in Timer /\ t.arg = mid /\ sent' = Append(sent, Sent(src, dst))
        /\ sent \in Seq(Message) /\ now \in Time
        BY <1>1, <1>0, SendAdds DEF TypeOK
  <2>2. sent'[mid] = Sent(src, dst)
        BY <1>1, <2>1
  <2>3. UNCHANGED <<faults, endpoints>>
        BY DEF Send, faultVars
  <2>4. sent'[mid].src = src /\ sent'[mid].dst = dst /\ sent'[mid].at = now
        BY <2>2 DEF Sent
  <2>5. now \in Nat /\ t.when \in Nat
        BY <2>1 DEF Timer, Time
  <2>6. QED BY <2>1, <2>3, <2>4, <2>5
<1>3. slowing \in SUBSET OpenLinks(mid)' /\ InsideLinks(mid)' \in SUBSET slowing
  <2>1. \A i \in DOMAIN faults :
           /\ faults[i].kind # "crash" /\ faults[i].start < now /\ now < faults[i].end => i \in active
           /\ i \in active => faults[i].start <= now /\ now <= faults[i].end
        BY <1>0, Schedules DEF FaultsFollowSchedule
  <2>2. active \subseteq DOMAIN faults
        BY <1>0 DEF TypeOK
  <2>3. \A i \in slowing : i \in OpenLinks(mid)'
        BY <1>2, <2>1, <2>2 DEF OpenLinks, LinksOf
  <2>4. \A i \in InsideLinks(mid)' : i \in slowing
        BY <1>2, <2>1 DEF InsideLinks, LinksOf
  <2>5. QED BY <2>3, <2>4
<1>4. /\ IsFiniteSet(OpenLinks(mid)') /\ Positive(faults, OpenLinks(mid)')
      /\ Product(faults, OpenLinks(mid)') \in Nat
      /\ IsFiniteSet(slowing) /\ Positive(faults, slowing) /\ Product(faults, slowing) \in Nat
      /\ Product(faults, InsideLinks(mid)') \in Nat
  <2>1. faults \in Seq(Fault) /\ \A i \in DOMAIN faults : Sound(faults[i])
        BY <1>0 DEF TypeOK, FInv, CallsKept
  <2>2. OpenLinks(mid)' \in SUBSET DOMAIN faults /\ \A i \in OpenLinks(mid)' : faults[i].kind = "slow"
        BY <1>2 DEF OpenLinks, LinksOf
  <2> HIDE DEF slowing
  <2>3. slowing \in SUBSET DOMAIN faults /\ \A i \in slowing : faults[i].kind = "slow"
        BY <1>3, <2>2
  <2>4. InsideLinks(mid)' \in SUBSET DOMAIN faults /\ \A i \in InsideLinks(mid)' : faults[i].kind = "slow"
        BY <1>3, <2>3
  <2>5. QED BY <2>1, <2>2, <2>3, <2>4, LinksMultiply
<1>5. SlowFactor(src, dst) = Product(faults, slowing)
      BY DEF SlowFactor, Product
<1> HIDE DEF slowing
<1>6. PICK d \in Lat : /\ now + d * SlowFactor(src, dst) <= t.when
                       /\ ~endpoints[src].reliable => t.when = now + d * SlowFactor(src, dst)
      BY <1>0, <1>4, <1>5, SendLatency
<1>7. d \in Nat /\ Min(Lat) \in Nat /\ Max(Lat) \in Nat /\ Min(Lat) <= d /\ d <= Max(Lat)
      BY Latencies
<1>8. /\ Product(faults, InsideLinks(mid)') * Min(Lat) <= Product(faults, slowing) * d
      /\ Product(faults, slowing) * d <= Product(faults, OpenLinks(mid)') * Max(Lat)
      BY <1>3, <1>4, <1>7, LongerProduct
<1>9. PICK low \in Nat, lat \in Nat, high \in Nat :
         /\ low = Product(faults, InsideLinks(mid)') * Min(Lat)
         /\ lat = Product(faults, slowing) * d
         /\ high = Product(faults, OpenLinks(mid)') * Max(Lat)
  <2>1. \A a, b \in Nat : a * b \in Nat
        OBVIOUS
  <2>2. QED BY <1>4, <1>7, <2>1
<1>10. lat = d * SlowFactor(src, dst)
  <2>1. \A a, b \in Nat : a * b = b * a
        OBVIOUS
  <2>2. QED BY <1>4, <1>5, <1>7, <1>9, <2>1
<1>11. /\ now + lat <= t.when
       /\ ~endpoints[src].reliable => t.when = now + lat
       BY <1>6, <1>10, Zenon
<1>12. low <= lat /\ lat <= high
       BY <1>8, <1>9, Zenon
<1>13. t.when - now >= low /\ (~endpoints[src].reliable => t.when - now <= high)
       BY <1>2, <1>11, <1>12
<1>14. Reliable(t.arg)' = endpoints[src].reliable
       BY <1>2 DEF Reliable
<1>15. /\ t.when - sent'[t.arg].at >= Product(faults', InsideLinks(t.arg)') * Min(Lat)
       /\ ~endpoints[src].reliable =>
             t.when - sent'[t.arg].at <= Product(faults', OpenLinks(t.arg)') * Max(Lat)
  <2>1. t.arg = mid /\ sent'[mid].at = now /\ faults' = faults
        BY <1>2
  <2>2. QED BY <1>9, <1>13, <2>1, Zenon
<1>16. QED BY <1>14, <1>15, Zenon DEF Slowed

\* Time goes on, and what is sent is sent now.
LEMMA HistoryGrows ==
    ASSUME IInv, [Next]_vars
    PROVE  Grows /\ \A m \in DOMAIN sent : Reliable(m)' = Reliable(m)
<1>1. TypeOK /\ Streams /\ now \in Nat /\ sent \in Seq(Message) /\ faults \in Seq(Fault)
      BY TimesAreNumbers DEF TypeOK, IInv
<1>2. ASSUME NEW a \in Addr, NEW p \in Policies, Bind(a, p)
      PROVE  Grows /\ \A m \in DOMAIN sent : Reliable(m)' = Reliable(m)
  <2>1. UNCHANGED <<now, sent, faults>>
        BY <1>2 DEF Bind, schedVars, netVars, faultVars
  <2>2. QED BY <1>1, <1>2, <2>1, BindKeepsPolicies DEF Grows, NewFaults
<1>3. CASE \/ \E groups \in Splits : Partition(groups)
           \/ Heal
           \/ \E c \in DOMAIN calls : RunForReturns(c)
           \/ \E t \in timers : Deliver(t) \/ Begin(t) \/ End(t) \/ Wake(t)
           \/ UNCHANGED vars
  <2>1. UNCHANGED <<now, sent, faults, endpoints>>
        BY <1>3 DEF Partition, Heal, RunForReturns, Deliver, Begin, End, Wake, vars, schedVars,
                    netVars, faultVars
  <2>2. QED BY <1>1, <2>1 DEF Grows, NewFaults, Reliable
<1>4. CASE Tick
  <2>1. UNCHANGED <<sent, faults, endpoints>> /\ now' = now + 1
        BY <1>4 DEF Tick, netVars, faultVars
  <2>2. QED BY <1>1, <2>1 DEF Grows, NewFaults, Reliable
<1>5. ASSUME NEW secs \in Secs, NEW specs \in SpecLists, RunFor(secs, specs)
      PROVE  Grows /\ \A m \in DOMAIN sent : Reliable(m)' = Reliable(m)
  <2>1. /\ UNCHANGED <<now, sent>>
        /\ \A i \in DOMAIN faults : i \in DOMAIN faults' /\ faults'[i] = faults[i]
        /\ \A i \in NewFaults : now <= faults'[i].start
        BY <1>1, <1>5, RunForEffects
  <2>2. faults' \in Seq(Fault)
        BY <1>1, <1>5, RunForAdds
  <2>3. \A f \in Fault : f.start \in Nat
        BY DEF Fault, Time
  <2>4. \A i \in NewFaults : faults'[i].start \in Nat
        BY <2>2, <2>3 DEF NewFaults
  <2>5. endpoints' = endpoints
        BY <1>5 DEF RunFor
  <2>6. QED BY <1>1, <2>1, <2>4, <2>5 DEF Grows, Reliable
<1>6. ASSUME NEW src \in Addr, NEW dst \in Addr, Send(src, dst)
      PROVE  Grows /\ \A m \in DOMAIN sent : Reliable(m)' = Reliable(m)
  <2>1. /\ DOMAIN sent' = 1..(Len(sent) + 1) /\ DOMAIN sent = 1..Len(sent) /\ Len(sent) \in Nat
        /\ \A m \in DOMAIN sent : sent'[m] = sent[m] /\ Reliable(m)' = Reliable(m)
        BY <1>1, <1>6, SendKeeps
  <2>2. UNCHANGED <<now, faults>>
        BY <1>6 DEF Send, faultVars
  <2>3. QED BY <1>1, <2>1, <2>2 DEF Grows, NewFaults
<1>7. QED BY <1>2, <1>3, <1>4, <1>5, <1>6 DEF Next, Horizon

\* Every step keeps what is known of the latencies.
LEMMA SlowedStep == ASSUME IInv, IInv', FInv, FInv', SInv, [Next]_vars PROVE SInv'
<1>1. TypeOK /\ TypeOK' /\ References /\ Streams /\ SentBefore /\ AllSlowed
      BY DEF IInv, SInv
<1>2. Grows /\ \A m \in DOMAIN sent : Reliable(m)' = Reliable(m)
      BY HistoryGrows
<1>3. ASSUME NEW t \in timers, t.op = "deliver" PROVE Slowed(t)'
  <2>1. t.arg \in DOMAIN sent /\ Slowed(t)
        BY <1>1, <1>3 DEF References, AllSlowed
  <2>2. QED BY <1>1, <1>2, <2>1, SlowedForGood
<1>4. \A m \in DOMAIN sent : sent'[m] = sent[m] /\ sent[m].at \in Nat /\ sent[m].at <= now'
  <2>1. \A m \in DOMAIN sent : sent[m].at \in Nat
    <3>1. \A m \in Message : m.at \in Nat
          BY DEF Message, Time
    <3>2. QED BY <1>1, <3>1 DEF TypeOK
  <2>2. QED BY <1>1, <1>2, <2>1 DEF Grows, SentBefore
<1>5. ASSUME NEW src \in Addr, NEW dst \in Addr, Send(src, dst) PROVE SInv'
  <2>1. \A t \in timers' : t \notin timers => Slowed(t)'
        BY <1>5, SlowedBySend
  <2>2. AllSlowed'
        BY <1>3, <2>1 DEF AllSlowed
  <2>3. /\ DOMAIN sent' = DOMAIN sent \cup {Len(sent) + 1} /\ sent'[Len(sent) + 1].at = now
        /\ now' = now /\ now \in Nat
    <3>1. sent' = Append(sent, Sent(src, dst)) /\ sent \in Seq(Message) /\ Sent(src, dst) \in Message
          BY <1>1, <1>5, SendAdds DEF TypeOK
    <3>2. now' = now /\ now \in Nat
          BY <1>2, <1>5 DEF Send, Grows
    <3>3. QED BY <3>1, <3>2 DEF Sent
  <2>4. SentBefore'
        BY <1>4, <2>3 DEF SentBefore
  <2>5. QED BY <2>2, <2>4 DEF SInv
<1>6. ASSUME \A t \in timers' : t.op = "deliver" => t \in timers, sent' = sent PROVE SInv'
      BY <1>3, <1>4, <1>6 DEF SInv, AllSlowed, SentBefore
<1>7. ASSUME NEW secs \in Secs, NEW specs \in SpecLists, RunFor(secs, specs) PROVE SInv'
  <2>1. \A t \in timers' : t.op = "deliver" => t \in timers
        BY <1>1, <1>7, RunForAdds
  <2>2. sent' = sent
        BY <1>7 DEF RunFor, netVars
  <2>3. QED BY <1>6, <2>1, <2>2
<1>8. CASE \E a \in Addr, p \in Policies : Bind(a, p)
      BY <1>6, <1>8 DEF Bind, schedVars, netVars
<1>9. CASE \E t \in timers : Deliver(t)
      BY <1>6, <1>9 DEF Deliver, Fires, netVars
<1>10. CASE Quiet
       BY <1>6, <1>10 DEF Quiet
<1>11. QED BY <1>1, <1>5, <1>7, <1>8, <1>9, <1>10, NextCases

-----------------------------------------------------------------------------
(* The theorems.                                                           *)

\* The invariants of the faults, the timeline and the copies hold throughout.
LEMMA FaultInvariance == Spec => []IInv /\ [](FInv /\ DInv /\ CInv)
<1>1. Init => FInv /\ DInv /\ CInv
      BY DEF Init, FInv, Armed, Progresses, CrashesCaused, CallsKept, DInv, Past,
             DecidedAtDelivery, CInv
<1>2. IInv /\ FInv /\ DInv /\ CInv /\ [Next]_vars => (FInv /\ DInv /\ CInv)'
      BY FaultsStep, DecidedStep, CopiesStep DEF DInv
<1>3. QED BY <1>1, <1>2, Invariance, PTL DEF Spec

\* For any schedule of any number of overlapping faults, a window is in force
\* from its beginning to its end and a crash from its time on
\* (_begin_fault_partition, _end_fault_partition, _begin_slow_link,
\* _end_slow_link, _begin_crash).
THEOREM WindowsAreKept == Spec => []FaultsFollowSchedule
<1>1. IInv /\ FInv => FaultsFollowSchedule
      BY Schedules DEF IInv
<1>2. QED BY <1>1, FaultInvariance, PTL

\* Whether a message gets through depends on the faults in force when it is
\* delivered and on nothing else (_deliver).
THEOREM OutcomesAreDecided == Spec => []DecidedAtDelivery
<1>1. DInv => DecidedAtDelivery
      BY DEF DInv
<1>2. QED BY <1>1, FaultInvariance, PTL

\* No fault run_for schedules is void: no group overlaps the other, a slow link
\* has two ends and a factor above 1, and the window or the crash lies within
\* the call (_validate_fault, _commit_fault).
THEOREM FaultsDoSomething == Spec => []FaultsAreEffective
<1>1. IInv /\ FInv => FaultsAreEffective
      BY Effective DEF IInv
<1>2. QED BY <1>1, FaultInvariance, PTL

\* A run_for that took time leaves none of its faults behind (run_for).
THEOREM RunForCleansUp == Spec => []RunForResolves
<1>1. FInv => RunForResolves
      BY Resolves
<1>2. QED BY <1>1, FaultInvariance, PTL

\* No copy of any message is lost without a trace or made up, and a reliable
\* endpoint loses and duplicates none (_send, _deliver).
THEOREM CopiesAreConserved == Spec => []CopiesConserved
<1>1. CInv => CopiesConserved
      BY DEF CInv, Balanced, CopiesConserved, Outcomes
<1>2. QED BY <1>1, FaultInvariance, PTL

\* A message is slowed by the slow links in force when it was sent, all of
\* them, and by no other, however many overlap (SlowFactor in _send).
THEOREM MessagesAreSlowed == Spec => []SlowedAtSend
<1>1. Init => SInv
      BY DEF Init, SInv, SentBefore, AllSlowed
<1>2. IInv /\ IInv' /\ FInv /\ FInv' /\ SInv /\ [Next]_vars => SInv'
      BY SlowedStep
<1>3. SInv => SlowedAtSend
      BY SlowedIsSlowedAtSend DEF SInv
<1>4. QED BY <1>1, <1>2, <1>3, FaultInvariance, PTL DEF Spec
=============================================================================
