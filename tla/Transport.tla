----------------------------- MODULE Transport -----------------------------
(***************************************************************************)
(* The simulated network: class Transport of src/src/seedloop/_net.py with *)
(* the sending side of _Endpoint, and World.run_for of _world.py, which    *)
(* schedules seed-timed faults.                                            *)
(*                                                                         *)
(* A message in flight is a timer; timers fire in (when, seq) order and    *)
(* the clock never passes one, which is what DetLoop shows of the loop.    *)
(* The "net" sub-stream is a sequence chosen once; every draw from the     *)
(* "faults" sub-stream is a nondeterministic choice.                       *)
(***************************************************************************)
EXTENDS Naturals, Sequences, FiniteSets, FiniteSetsExt

CONSTANTS
    Addr,           \* the addresses
    Lat,            \* the latencies _LAT_MIN.._LAT_MAX
    Factors,        \* the slow-link factors the seed may draw
    Policies,       \* the endpoint policies bind() is called with
    Splits,         \* the group lists net.partition() is called with
    Specs,          \* the fault handles run_for() is given
    Secs,           \* the durations run_for() is given
    MaxTime,        \* bound: the latest time of the model
    MaxSends,       \* bound: messages sent
    MaxCalls,       \* bound: run_for calls
    MaxFaults,      \* bound: faults of one run_for call
    None

Time == 0..MaxTime

Groups == Seq(SUBSET Addr)

\* What bind() is told: is the link reliable, can it lose, can it duplicate?
Policy == [reliable : BOOLEAN, loss : BOOLEAN, duplicate : BOOLEAN]

\* A fault handle (_faults.py); None and << >> are left to the seed.  For a
\* crash, a is the node and at the time.
FaultHandle == [kind : {"partition", "slow", "crash"}, groups : Groups,
                a : Addr \cup {None}, b : Addr \cup {None},
                factor : Nat \cup {None}, at : Nat \cup {None}]

ASSUME TransportAssumption ==
    /\ MaxTime \in Nat /\ MaxSends \in Nat /\ MaxCalls \in Nat /\ MaxFaults \in Nat
    /\ Lat \subseteq Nat \ {0}
    /\ Factors \subseteq Nat \ {0, 1}
    /\ Policies \subseteq Policy
    /\ Splits \subseteq Groups
    /\ Secs \subseteq Nat
    /\ Specs \subseteq FaultHandle
    /\ None \notin Addr /\ None \notin Nat /\ None \notin Policy /\ None \notin Groups

\* _LAT_MIN.._LAT_MAX has ends, which SlowedAtSend speaks of.
ASSUME LatAssumption == IsFiniteSet(Lat)

\* A resolved fault: the groups it cuts, the nodes it slows or crashes.
Fault == [kind : {"partition", "slow", "crash"}, groups : Groups, who : SUBSET Addr,
          factor : Nat, start : Time, end : Time]

Message == [src : Addr, dst : Addr, at : Time, base : Nat]
Timer == [when : Time, seq : Nat, op : {"deliver", "begin", "end", "sleep"}, arg : Nat]
Event == [ev : {"drop", "duplicate", "deliver", "drop-crashed", "drop-partitioned"},
          mid : Nat, t : Time, scenario : BOOLEAN]
Call == [at : Time, secs : Nat, mark : Nat, faults : SUBSET Nat,
         state : {"asleep", "woken", "yielded", "returned"}]

VARIABLES
    now,            \* the virtual clock
    timers,         \* the timers that have not fired
    seq,            \* the next timer's sequence number
    net,            \* the "net" sub-stream
    netPos,         \* how many draws of it are used up
    endpoints,      \* _endpoints: the policy of each bound address, or None
    reliableClock,  \* _reliable_clock
    partition,      \* _partition
    faults,         \* the scheduled faults; the index is the fault id
    active,         \* the ids in _fault_partitions and _fault_slow_links
    crashed,        \* _crashed
    sent,           \* the messages; the index is the message id
    queue,          \* queue[a]: the message ids enqueued at a, none received
    timeline,       \* what became of each copy of a message
    calls           \* the run_for calls

schedVars == <<now, timers, seq>>
netVars   == <<net, netPos, sent>>
faultVars == <<faults, active, crashed>>
vars == <<schedVars, netVars, faultVars, endpoints, reliableClock, partition,
          queue, timeline, calls>>

Later(a, b) == IF a >= b THEN a ELSE b
BoundAddresses == {a \in Addr : endpoints[a] # None}

-----------------------------------------------------------------------------
(* Reachability.                                                           *)

\* The first group that lists a, or 0.
GroupOf(groups, a) ==
    LET with == {i \in DOMAIN groups : a \in groups[i]}
    IN  IF with = {} THEN 0 ELSE CHOOSE i \in with : \A j \in with : i <= j

\* _cut: both are listed, and not in the same group.
Cut(groups, src, dst) ==
    /\ GroupOf(groups, src) # 0
    /\ GroupOf(groups, dst) # 0
    /\ GroupOf(groups, src) # GroupOf(groups, dst)

\* _partition, with None (full connectivity) as the empty list of groups.
ScenarioCut(src, dst) == Cut(partition, src, dst)

\* Mutant of Reachable: heal() lifts the scheduled partitions too.
MutHealLiftsAll(src, dst) ==
    \/ partition = << >>
    \/ /\ ~ScenarioCut(src, dst)
       /\ \A i \in active : ~Cut(faults[i].groups, src, dst)

Reachable(src, dst) ==
    /\ ~ScenarioCut(src, dst)
    /\ \A i \in active : ~Cut(faults[i].groups, src, dst)

\* Mutant of SlowFactor: overlapping slow links do not compound.
MutLargestFactor(src, dst) ==
    Max({1} \cup {faults[i].factor : i \in
           {j \in active : faults[j].kind = "slow" /\ faults[j].who = {src, dst}}})

\* The product of the factors of the active slow links between src and dst.
SlowFactor(src, dst) ==
    MapThenFoldSet(LAMBDA x, y : x * y, 1, LAMBDA i : faults[i].factor,
                   LAMBDA S : CHOOSE i \in S : TRUE,
                   {i \in active : faults[i].kind = "slow" /\ faults[i].who = {src, dst}})

-----------------------------------------------------------------------------
(* bind, partition, heal and send.                                         *)

Bind(a, p) ==
    /\ endpoints[a] = None
    /\ endpoints' = [endpoints EXCEPT ![a] = p]
    /\ UNCHANGED <<schedVars, netVars, faultVars, reliableClock, partition, queue, timeline, calls>>

Partition(groups) ==
    /\ partition' = groups
    /\ UNCHANGED <<schedVars, netVars, faultVars, endpoints, reliableClock, queue, timeline, calls>>

Heal ==
    /\ partition' = << >>
    /\ UNCHANGED <<schedVars, netVars, faultVars, endpoints, reliableClock, queue, timeline, calls>>

Delivery(when, n, mid) == [when |-> when, seq |-> n, op |-> "deliver", arg |-> mid]
Happens(ev, mid) == [ev |-> ev, mid |-> mid, t |-> now, scenario |-> FALSE]

\* Mutant of ScheduleReliable: the link's clock is not kept.
MutForgetsClock(src, dst, mid, lat) ==
    LET when == Later(now + lat, reliableClock[<<src, dst>>])
    IN  /\ when \in Time
        /\ timers' = timers \cup {Delivery(when, seq, mid)}
        /\ seq' = seq + 1
        /\ UNCHANGED <<reliableClock, timeline>>

\* _schedule_reliable: never before an earlier message of the link.
ScheduleReliable(src, dst, mid, lat) ==
    LET when == Later(now + lat, reliableClock[<<src, dst>>])
    IN  /\ when \in Time
        /\ reliableClock' = [reliableClock EXCEPT ![<<src, dst>>] = when]
        /\ timers' = timers \cup {Delivery(when, seq, mid)}
        /\ seq' = seq + 1
        /\ UNCHANGED timeline

Lose(mid) ==
    /\ timeline' = Append(timeline, Happens("drop", mid))
    /\ UNCHANGED <<timers, seq, reliableClock>>

ScheduleOnce(mid, lat) ==
    /\ now + lat \in Time
    /\ timers' = timers \cup {Delivery(now + lat, seq, mid)}
    /\ seq' = seq + 1
    /\ UNCHANGED <<timeline, reliableClock>>

ScheduleTwice(mid, lat, dupLat) ==
    /\ now + lat \in Time
    /\ now + dupLat \in Time
    /\ timers' = timers \cup {Delivery(now + lat, seq, mid), Delivery(now + dupLat, seq + 1, mid)}
    /\ seq' = seq + 2
    /\ timeline' = Append(timeline, Happens("duplicate", mid))
    /\ UNCHANGED reliableClock

\* Mutant of Fate: a reliable endpoint still duplicates.
MutReliableDuplicates(src, dst, mid, lat) ==
    \/ endpoints[src].reliable /\ ScheduleReliable(src, dst, mid, lat)
    \/ endpoints[src].loss /\ Lose(mid)
    \/ ~endpoints[src].reliable /\ ScheduleOnce(mid, lat)
    \/ /\ endpoints[src].duplicate
       /\ \E d \in Lat : ScheduleTwice(mid, lat, d * SlowFactor(src, dst))

\* What _send does with a message whose latency is drawn.
Fate(src, dst, mid, lat) ==
    IF endpoints[src].reliable
    THEN ScheduleReliable(src, dst, mid, lat)
    ELSE \/ endpoints[src].loss /\ Lose(mid)
         \/ ScheduleOnce(mid, lat)
         \/ /\ endpoints[src].duplicate
            /\ \E d \in Lat : ScheduleTwice(mid, lat, d * SlowFactor(src, dst))

\* Mutant of Draw: the latency is drawn only for a message that is not lost.
MutDrawIfSent == netPos' = IF timers' = timers THEN netPos ELSE netPos + 1

\* One draw of "net" for every send.
Draw == netPos' = netPos + 1

\* _send, from a bound endpoint to any address.
Send(src, dst) ==
    LET base == net[netPos + 1]
    IN  /\ endpoints[src] # None
        /\ Len(sent) < MaxSends
        /\ sent' = Append(sent, [src |-> src, dst |-> dst, at |-> now, base |-> base])
        /\ Fate(src, dst, Len(sent) + 1, base * SlowFactor(src, dst))
        /\ Draw
        /\ UNCHANGED <<now, net, faultVars, endpoints, partition, queue, calls>>

-----------------------------------------------------------------------------
(* run_for and the faults it schedules.                                    *)

\* Mutant of Disjoint: groups that share an address are let through.
MutGroupsMayOverlap(groups) == TRUE

\* _validate_groups.
Disjoint(groups) ==
    \A i, j \in DOMAIN groups : i # j => groups[i] \cap groups[j] = {}

\* _validate_fault.
Valid(spec, secs) ==
    \/ /\ spec.kind = "partition"
       /\ IF spec.groups # << >> THEN Disjoint(spec.groups)
          ELSE Cardinality(BoundAddresses) >= 2
    \/ /\ spec.kind = "slow"
       /\ spec.a = None /\ spec.b = None => Cardinality(BoundAddresses) >= 2
       /\ spec.a = None => BoundAddresses \ {spec.b} # {}
       /\ spec.b = None => BoundAddresses \ {spec.a} # {}
       /\ spec.a # None => spec.a # spec.b
       /\ spec.factor # None => spec.factor > 1
    \/ /\ spec.kind = "crash"
       /\ spec.at # None => spec.at <= secs
       /\ spec.a = None => BoundAddresses # {}

\* _draw_bipartition: both sides are non-empty.
Bipartitions ==
    {<<A, BoundAddresses \ A>> : A \in (SUBSET BoundAddresses) \ {{}, BoundAddresses}}

\* The ends a slow link may get: two different ones.
Pairs(a, b) ==
    {{x, y} : x \in IF a = None THEN BoundAddresses \ {b} ELSE {a},
              y \in IF b = None THEN BoundAddresses \ {a} ELSE {b}}
       \ {{x} : x \in Addr}

\* Windows of a call of secs seconds: uniform(0, secs), uniform(start, secs).
Windows(secs) == {w \in (now..(now + secs)) \X (now..(now + secs)) : w[1] <= w[2]}

\* _commit_fault: what the seed may make of a valid fault handle.
Resolutions(spec, secs) ==
    CASE spec.kind = "partition" ->
            {[kind |-> "partition", groups |-> g, who |-> {}, factor |-> 1,
              start |-> w[1], end |-> w[2]] :
                g \in IF spec.groups # << >> THEN {spec.groups} ELSE Bipartitions,
                w \in Windows(secs)}
      [] spec.kind = "slow" ->
            {[kind |-> "slow", groups |-> << >>, who |-> p, factor |-> f,
              start |-> w[1], end |-> w[2]] :
                p \in Pairs(spec.a, spec.b),
                f \in IF spec.factor = None THEN Factors ELSE {spec.factor},
                w \in Windows(secs)}
      [] spec.kind = "crash" ->
            {[kind |-> "crash", groups |-> << >>, who |-> {n}, factor |-> 1,
              start |-> t, end |-> t] :
                n \in IF spec.a = None THEN BoundAddresses ELSE {spec.a},
                t \in IF spec.at = None THEN now..(now + secs) ELSE {now + spec.at}}

\* The timers of the faults fs, numbered from n; a crash has no end.
ArmedBy(fs, base, n) ==
    {[when |-> fs[i].start, seq |-> n + 2*i, op |-> "begin", arg |-> base + i] : i \in DOMAIN fs}
    \cup
    {[when |-> fs[i].end, seq |-> n + 2*i + 1, op |-> "end", arg |-> base + i] :
        i \in {j \in DOMAIN fs : fs[j].kind # "crash"}}

\* asyncio.sleep: a timer, or for zero seconds a bare yield.
Sleep(c, secs, n) ==
    IF secs = 0 THEN {} ELSE {[when |-> now + secs, seq |-> n, op |-> "sleep", arg |-> c]}

\* The resolved faults fs are scheduled, in order, and the call sleeps.
Schedule(secs, fs) ==
    LET base == Len(faults)
        n    == seq + 2 * Len(fs) + 2
    IN  /\ faults' = faults \o fs
        /\ timers' = timers \cup ArmedBy(fs, base, seq) \cup Sleep(Len(calls) + 1, secs, n)
        /\ seq' = n + 1
        /\ calls' = Append(calls,
              [at |-> now, secs |-> secs, mark |-> seq, faults |-> (base + 1)..(base + Len(fs)),
               state |-> IF secs = 0 THEN "yielded" ELSE "asleep"])

\* run_for: every fault of the list is validated before any is scheduled; an
\* invalid one leaves everything as it was.
RunFor(secs, specs) ==
    /\ now + secs <= MaxTime
    /\ \A i \in DOMAIN specs : Valid(specs[i], secs)
    /\ \E fs \in [DOMAIN specs -> UNION {Resolutions(specs[i], secs) : i \in DOMAIN specs}] :
          /\ \A i \in DOMAIN specs : fs[i] \in Resolutions(specs[i], secs)
          /\ Schedule(secs, fs)
    /\ UNCHANGED <<now, netVars, active, crashed, endpoints, reliableClock, partition, queue, timeline>>

\* The task that called run_for goes on.
RunForReturns(c) ==
    /\ calls[c].state \in {"woken", "yielded"}
    /\ calls' = [calls EXCEPT ![c].state = "returned"]
    /\ UNCHANGED <<schedVars, netVars, faultVars, endpoints, reliableClock, partition, queue, timeline>>

-----------------------------------------------------------------------------
(* Timers.                                                                 *)

\* Mutant of Fires: timers of the same time fire in reverse order.
MutTiesLifo(t) ==
    /\ t.when = now
    /\ \A u \in timers \ {t} : u.when > now \/ u.seq < t.seq
    /\ \A c \in DOMAIN calls : calls[c].state = "yielded" => t.seq < calls[c].mark
    /\ timers' = timers \ {t}

\* t is the next timer to fire; one that a yielding call armed waits for it.
Fires(t) ==
    /\ t.when = now
    /\ \A u \in timers \ {t} : u.when > now \/ u.seq > t.seq
    /\ \A c \in DOMAIN calls : calls[c].state = "yielded" => t.seq < calls[c].mark
    /\ timers' = timers \ {t}

\* The outcome of a delivery, decided when it fires.
Outcome(m) ==
    IF {m.src, m.dst} \cap crashed # {} THEN "drop-crashed"
    ELSE IF ~Reachable(m.src, m.dst) THEN "drop-partitioned"
    ELSE "deliver"

\* _deliver; what reaches an unbound address is gone.
Deliver(t) ==
    /\ t.op = "deliver"
    /\ Fires(t)
    /\ LET m == sent[t.arg]
       IN  /\ timeline' = Append(timeline, [ev |-> Outcome(m), mid |-> t.arg, t |-> now,
                                            scenario |-> ScenarioCut(m.src, m.dst)])
           /\ queue' = IF Outcome(m) = "deliver" /\ endpoints[m.dst] # None
                          THEN [queue EXCEPT ![m.dst] = Append(@, t.arg)] ELSE queue
    /\ UNCHANGED <<now, seq, netVars, faultVars, endpoints, reliableClock, partition, calls>>

\* _begin_fault_partition, _begin_slow_link, _begin_crash.
Begin(t) ==
    /\ t.op = "begin"
    /\ Fires(t)
    /\ IF faults[t.arg].kind = "crash"
          THEN crashed' = crashed \cup faults[t.arg].who /\ UNCHANGED active
          ELSE active' = active \cup {t.arg} /\ UNCHANGED crashed
    /\ UNCHANGED <<now, seq, netVars, faults, endpoints, reliableClock, partition, queue, timeline, calls>>

\* Mutant of End: there is one slot for the active fault.
MutOneSlot(t) ==
    /\ t.op = "end"
    /\ Fires(t)
    /\ active' = {}
    /\ UNCHANGED <<now, seq, netVars, faults, crashed, endpoints, reliableClock, partition, queue, timeline, calls>>

\* _end_fault_partition, _end_slow_link.
End(t) ==
    /\ t.op = "end"
    /\ Fires(t)
    /\ active' = active \ {t.arg}
    /\ UNCHANGED <<now, seq, netVars, faults, crashed, endpoints, reliableClock, partition, queue, timeline, calls>>

\* The sleep of a run_for is over; its task runs in the next step.
Wake(t) ==
    /\ t.op = "sleep"
    /\ Fires(t)
    /\ calls' = [calls EXCEPT ![t.arg].state = "woken"]
    /\ UNCHANGED <<now, seq, netVars, faultVars, endpoints, reliableClock, partition, queue, timeline>>

\* Nothing is left to do at this time.
Idle ==
    /\ \A t \in timers : t.when > now
    /\ \A c \in DOMAIN calls : calls[c].state \in {"asleep", "returned"}

Tick ==
    /\ Idle
    /\ now < MaxTime
    /\ now' = now + 1
    /\ UNCHANGED <<timers, seq, netVars, faultVars, endpoints, reliableClock, partition, queue, timeline, calls>>

\* The end of the modelled time.
Horizon == now = MaxTime /\ Idle /\ UNCHANGED vars

Init ==
    /\ now = 0
    /\ timers = {}
    /\ seq = 0
    /\ net \in [1..MaxSends -> Lat]
    /\ netPos = 0
    /\ endpoints = [a \in Addr |-> None]
    /\ reliableClock = [l \in Addr \X Addr |-> 0]
    /\ partition = << >>
    /\ faults = << >>
    /\ active = {}
    /\ crashed = {}
    /\ sent = << >>
    /\ queue = [a \in Addr |-> << >>]
    /\ timeline = << >>
    /\ calls = << >>

SpecLists == UNION {[1..n -> Specs] : n \in 0..MaxFaults}

Next ==
    \/ \E a \in Addr, p \in Policies : Bind(a, p)
    \/ \E groups \in Splits : Partition(groups)
    \/ Heal
    \/ \E src, dst \in Addr : Send(src, dst)
    \/ /\ Len(calls) < MaxCalls
       /\ \E secs \in Secs, specs \in SpecLists : RunFor(secs, specs)
    \/ \E c \in DOMAIN calls : RunForReturns(c)
    \/ \E t \in timers : Deliver(t) \/ Begin(t) \/ End(t) \/ Wake(t)
    \/ Tick
    \/ Horizon

Spec == Init /\ [][Next]_vars

-----------------------------------------------------------------------------
(* Properties.                                                             *)

TypeOK ==
    /\ now \in Time
    /\ timers \subseteq Timer
    /\ seq \in Nat
    /\ net \in [1..MaxSends -> Lat]
    /\ netPos \in 0..MaxSends
    /\ endpoints \in [Addr -> Policy \cup {None}]
    /\ reliableClock \in [Addr \X Addr -> Time]
    /\ partition \in Groups
    /\ faults \in Seq(Fault)
    /\ active \subseteq DOMAIN faults
    /\ crashed \subseteq Addr
    /\ sent \in Seq(Message)
    /\ queue \in [Addr -> Seq(Nat)]
    /\ timeline \in Seq(Event)
    /\ calls \in Seq(Call)

Reliable(mid) == endpoints[sent[mid].src].reliable

\* A reliable link delivers in the order of sending and never twice, whatever
\* slow-link windows open and close between two sends (_schedule_reliable).
ReliableFIFO ==
    \A a \in Addr : \A i, j \in DOMAIN queue[a] :
       /\ i < j
       /\ sent[queue[a][i]].src = sent[queue[a][j]].src
       /\ Reliable(queue[a][i])
       => queue[a][i] < queue[a][j]

InFlight(mid) == Cardinality({t \in timers : t.op = "deliver" /\ t.arg = mid})
Times(evs, mid) ==
    Cardinality({k \in DOMAIN timeline : timeline[k].mid = mid /\ timeline[k].ev \in evs})

\* No copy of a message is lost without a trace on the timeline or made up:
\* what was sent or duplicated is in flight or has one outcome, and only a
\* crash or a partition takes a message of a reliable endpoint.
CopiesConserved ==
    \A mid \in DOMAIN sent :
       /\ InFlight(mid) + Times({"drop", "deliver", "drop-crashed", "drop-partitioned"}, mid)
             = 1 + Times({"duplicate"}, mid)
       /\ Reliable(mid) => Times({"drop", "duplicate"}, mid) = 0

\* A seed-scheduled window is in force inside its times and not outside, also
\* when it is empty or overlaps another, and a crash is for ever.
FaultsFollowSchedule ==
    /\ \A i \in DOMAIN faults :
          LET f == faults[i]
          IN  /\ f.kind # "crash" /\ f.start < now /\ now < f.end => i \in active
              /\ i \in active => f.kind # "crash" /\ f.start <= now /\ now <= f.end
              /\ f.kind = "crash" /\ f.start < now => f.who \subseteq crashed
    /\ \A a \in crashed : \E i \in DOMAIN faults :
          faults[i].kind = "crash" /\ faults[i].start <= now /\ a \in faults[i].who

Hits(f, mid) ==
    \/ f.kind = "partition" /\ Cut(f.groups, sent[mid].src, sent[mid].dst)
    \/ f.kind = "crash" /\ f.who \cap {sent[mid].src, sent[mid].dst} # {}

\* Whether a message gets through is decided by the faults at the time of its
\* delivery and by nothing else: one delivered strictly inside a window that
\* cuts it, or after a crash of an end, is dropped, and one that is dropped has
\* such a cause (_deliver, _reachable).
DecidedAtDelivery ==
    \A k \in DOMAIN timeline :
       LET e == timeline[k]
           Open(f) == f.start <= e.t /\ (f.kind = "crash" \/ e.t <= f.end)
           Inside(f) == f.start < e.t /\ (f.kind = "crash" \/ e.t < f.end)
       IN  /\ e.ev = "deliver" =>
                 ~e.scenario /\ \A i \in DOMAIN faults : ~(Hits(faults[i], e.mid) /\ Inside(faults[i]))
           /\ e.ev \in {"drop-crashed", "drop-partitioned"} =>
                 \/ e.scenario /\ e.ev = "drop-partitioned"
                 \/ \E i \in DOMAIN faults :
                       /\ Hits(faults[i], e.mid) /\ Open(faults[i])
                       /\ (faults[i].kind = "crash") = (e.ev = "drop-crashed")

\* The product of the factors of the slow links in ids.
Slowdown(ids) == MapThenFoldSet(LAMBDA x, y : x * y, 1, LAMBDA i : faults[i].factor,
                                LAMBDA S : CHOOSE i \in S : TRUE, ids)

\* A message is slowed by exactly the slow links open when it was sent, all of
\* them together, whatever opens or closes while it is in flight.
SlowedAtSend ==
    \A t \in {u \in timers : u.op = "deliver"} :
       LET m == sent[t.arg]
           links == {i \in DOMAIN faults :
                        faults[i].kind = "slow" /\ faults[i].who = {m.src, m.dst}}
           inside == {i \in links : faults[i].start < m.at /\ m.at < faults[i].end}
           open == {i \in links : faults[i].start <= m.at /\ m.at <= faults[i].end}
       IN  /\ t.when - m.at >= Slowdown(inside) * Min(Lat)
           /\ ~Reliable(t.arg) => t.when - m.at <= Slowdown(open) * Max(Lat)

\* The n-th send gets the n-th latency of the "net" sub-stream: no loss,
\* duplicate or fault of another message shifts it (_send).
NetStreamUnshifted == \A mid \in DOMAIN sent : sent[mid].base = net[mid]

\* No scheduled fault is void, whatever the handle left to the seed: a partition
\* cuts no two nodes of one of its groups, a slow link has two ends and slows
\* them, and every window lies within the call that scheduled it.
FaultsAreEffective ==
    \A i \in DOMAIN faults :
       LET f == faults[i]
       IN  /\ \A g \in DOMAIN f.groups : \A a, b \in f.groups[g] : ~Cut(f.groups, a, b)
           /\ f.kind = "slow" => Cardinality(f.who) = 2 /\ f.factor > 1
           /\ \E c \in DOMAIN calls :
                 /\ i \in calls[c].faults
                 /\ calls[c].at <= f.start /\ f.start <= f.end /\ f.end <= calls[c].at + calls[c].secs

Resolved(i) ==
    /\ i \notin active
    /\ faults[i].kind = "crash" => faults[i].who \subseteq crashed
    /\ \A t \in timers : t.op \in {"begin", "end"} => t.arg # i

\* When run_for returns after some time, all its faults have come and gone: the
\* end of a window at the last instant still precedes the end of the sleep.
RunForResolves ==
    \A c \in DOMAIN calls :
       calls[c].state = "returned" /\ calls[c].secs > 0 => \A i \in calls[c].faults : Resolved(i)

-----------------------------------------------------------------------------
(* What the documents say and the code does not do.                        *)

\* A fault "always resolves within the call that scheduled it - nothing leaks
\* past run_for's return".
NothingLeaksPastRunFor ==
    \A c \in DOMAIN calls : calls[c].state = "returned" => \A i \in calls[c].faults : Resolved(i)
=============================================================================
