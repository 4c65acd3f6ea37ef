# A TLA+ verification of seedloop

seedloop runs an asyncio program deterministically: a virtual clock instead of
real waiting, a simulated network instead of sockets, and every random choice
derived from one seed. A scenario is run once per seed, and a failing seed
replays exactly. The value of the tool rests on a scheduler that is never
surprising, on runs that end and report the error that mattered, and on faults
that do what they say. These are what the modules here are about.

Paths are relative to the repository root's parent (`src/` is the repository,
`src/src/seedloop/` the package). `PROJECT.json` maps every definition to the
lines it models.

## 1. Inventory

| Part | State | Operations | Interacts with |
|---|---|---|---|
| `DeterministicLoop` (`_loop.py`) | clock, timer heap with tombstones, ready queue, hooks, step allowance, stop countdown | `call_at`, `call_soon`, cancel, `stop`, `limit_steps`, `run_until_done`, `run_one_more_step`, `_run_once` | everything runs on it |
| World lifecycle (`_world.py`) | started tasks, registered properties, hook flag, teardown flag, the error in flight and its notes | `_drive`, `_cancel_everything`, `start`, `always` | drives the loop; called by `check`/`replay` |
| `run_until` (`_world.py`) | one active waiter, its hook and its timer | `run_until` | a soft after-step hook of the loop |
| `Transport` (`_net.py`, `_faults.py`), `run_for` | endpoints, scenario partition, open fault windows, crashed nodes, per-link clocks, two random streams | `bind`, `send`, `partition`, `heal`, `_deliver`, `run_for` with faults | a message or a fault is a timer of the loop |
| `_Endpoint` receiving side (`_net.py`) | queue, one waiter | `recv`, `_enqueue` | `_deliver`, user tasks, `wait_for` |
| Timeline (`_trace.py`) | list of events | `record` | Transport, scenarios |
| `check`, `replay` (`_run.py`) | seeds checked | the sweep, one run | World, patches |
| Entropy (`_entropy.py`) | process-wide `os.urandom`, `random._urandom`, one lock | install, restore, sub-streams | every run; other threads |
| Auditor (`_audit.py`) | process-wide tripwires | install, restore | shares the lock |
| Raft demonstration (`demos/raft.py`) | term, role, vote, votes | election timeout, three message handlers | Transport |
| Hypothesis glue (`hypothesis.py`) | none | `given_seed` tags a failing example | `replay` in the test |
| Errors, scripts, examples | none of their own | - | - |

**What is hard.** There are no threads inside a run, but everything interleaves:
which callback runs next, what it cancels, in which of the two stop steps
something happens. Ties of virtual time are common, not rare. Ending a run is
the subtle part: a scenario, a check, a node, a cancel handler and an interrupt
can each raise while another error is already in flight, tasks can ignore
cancellation or start new tasks in teardown, user code can call `loop.stop()`
anywhere. On the network, windows of faults overlap, open and close while
messages are in flight, and a random draw made or missed for one message moves
the latency of all later ones. A timeout and a message, or a deadline and a
predicate, meet in one step. And outside a run there are threads after all: the
patches of `os.urandom` and the clocks are process-wide, other threads run checks
of their own, and a Ctrl-C may hit between any two steps. The list under `hazards` in `PROJECT.json` gives
each of these at its line.

**What makes each part correct.**

* Loop: timers run in (deadline, creation) order; the clock moves only to the
  next wanted deadline and only if nothing is ready; a deadlock verdict is true;
  a drive takes its two stop steps; no callback starves another.
* Lifecycle: the first failure is the one reported; an interrupt gets through;
  success means success; no task is left behind in silence; every run ends.
* Transport: reliable links are FIFO without loss or duplication of their own;
  every copy has one outcome; faults are in force exactly in their windows; the
  outcome of a message is decided at delivery, its slowness at sending.
* Endpoint: a FIFO mailbox; a timeout that races with a message does not lose
  it, no wakeup is lost, no waiter is left behind.
* `run_until`: ties in one step are decided as documented, a deadline is kept
  and is no deadlock, every call ends and leaves nothing behind.
* Patches: whatever the interrupts, threads and nesting, a wrapper acts only on
  its own thread and the originals are back afterwards.
* `check`: the first failing seed is the one reported, and only a failure is;
  an interrupt gets out.
* Raft: a term is won at most once.

## 2. Modules

```
VirtualTime  what the loop promises       Mailbox   what an endpoint promises
   ^ implemented by                          ^ implemented by
DetLoop      the loop                     Endpoint  recv, the queue, the waiter
   |- DetLoopImpl   refinement mapping       |- EndpointProofs
   |- DetLoopProofs theorems                 `- MCEndpoint
   `- MCDetLoop     instances             RunUntil  run_until and the hooks
Drive        one run of a scenario           |- RunUntilProofs
   |- DriveProofs                            `- MCRunUntil
   `- MCDrive                             Raft      the election of the demonstration
Transport    network, faults, run_for        |- RaftProofs
   |- TransportProofs       FIFO             `- MCRaft
   |  `- TransportFaultProofs             Patching  the process-wide patches
   |           faults, copies, latencies     `- Sweep  check and replay
   `- MCTransport                               |- SweepProofs
                                                `- MCSweep
```

The component modules meet at narrow interfaces, so each abstracts the others to
what it needs. `Transport` uses of the loop that timers fire in `(when, seq)`
order and that the clock never passes one, which is `FiringOrder` and
`ClockMovesToNextLiveTimer` of `DetLoop`. `Drive` uses that a step is refused at
the limit, that a drive takes two stop steps (`TwoStopSteps`) and that a deadlock
is reported when nothing can run (`DeadlockIsReal`); so does `RunUntil`.
`Endpoint` takes deliveries in any order from `Transport`, and `Raft` relies on
neither FIFO nor delivery. `Sweep` extends `Patching`, because the order of a
run's end, its restores and the next seed is one history; which outcome a run has
is what `Drive` is about.

### DetLoop

One iteration of `run_forever` is a cycle of program-counter values
`top -> (purge ->) fire -> batch -> hooks -> top`. A timer is its heap key, a
record `[when, seq]`; the heap is a set and its head the least key. A cancelled
handle stays where it is and is a member of `cancelled` (the tombstone). User
code appears through what it may call while it has control: `CallSoon`,
`CallAt`, `Cancel`, `FinishWatched`, `Stop`, `AddHook`. `Inf` stands for
`math.inf`. `drive` says which entry point is active; `run_until_complete`, used
in teardown, is the entry point `forever`, with nothing watched. `after`,
`settled` and `userStop` are history. Left out: the methods that reject real I/O
(they raise and change nothing), NaN deadlines (rejected), the text of errors.

`VirtualTime` is the loop a programmer has in mind: cancelling removes a handle
at once, there are no steps. `DetLoopImpl` maps `pending` to the heap without
tombstones and `runnable` to the ready queue without cancelled handles (`Kept`).

### Drive

A task is `live`, `blocked` on something only another task can provide, or done
(`returned`, `failed`, `cancelled`); time and the queue are abstracted to that.
`phase` is the part of `_drive` that runs: `run`, `settle` (the scenario alone is
being unwound), `onemore` (`run_one_more_step`), `teardown`, `closed`. `pc` is
the position in the loop or between two passes. `Absorb` is `_secondary` with
the `except` clauses of `_drive`: an exception becomes a note, an interrupt takes
over and notes what it replaced. `LeaveLoop` is the path of an error out of the
loop in each phase. A task acts in any order within a step, any number of times;
that is more than the code allows, so what holds here holds there.
`cancelReq` holds cancellations not yet delivered; a task may end with one,
swallow it, return or fail on it. `first` and `ended` are history. Two small
abstractions: an error is known by its kind (and its task), and a waker is not
told from the event it provides.

### Transport

A message in flight, the beginning and the end of a window, and the sleep of a
`run_for` are timers. The "net" sub-stream is a sequence chosen in the initial
state, so that a shifted draw shows; each draw from "faults" is a choice
(`Resolutions`, the disjuncts of `Fate`). An endpoint policy says whether its
link is reliable, can lose, can duplicate; a probability is its being positive.
`_fault_partitions` and `_fault_slow_links` are one set of open fault ids,
`active`, told apart by the kind of the fault. Time is discrete; latencies and
factors are numbers. `Tick` moves the clock by one when nothing is left to do,
so the scenario may act at every time; the code jumps, with the scenario's own
sleeps as further timers. `asyncio.sleep(0)` is a bare yield: such a call is
`yielded`, and what it has just scheduled does not fire before it goes on, which
is what the next step of the loop does. `timeline` keeps the events that decide
about copies of messages; `scenario` in an event is history, whether the
scenario's own partition cut the link then. Invalid faults are guards
(`Valid`): the call raises and changes nothing.

### Endpoint and Mailbox

`waiter` is the future in `_waiter` with the task that awaits it; a task goes on
in a step (`Resume`) after the one that completed or cancelled the future, so a
delivery, a timeout and a cancellation may fall in between, in any order.
`Cancel` is asyncio's: it cancels a pending future, and on a completed one is
remembered and thrown at the await. `wait_for` (3.12) turns it into
`TimeoutError` only if nobody else asked. `Mailbox` is a queue with `Put` and
`Take`; its `box` is the endpoint's queue, and everything else is a stutter. That
is the point: no timeout takes a message along.

### RunUntil

A step is `StepBegin` (limit, jump, due timers), the tasks that run in it, and
`StepEnd` (the hooks). Predicates and invariants have any value whenever they are
evaluated. `hooks` keeps the registration order, `0` being the one hook of all
`always()` properties; `HookResult` tells the hard failure (raised) from the soft
one (returned), `StepVerdict` combines them as `_run_once` does. `work` says
whether other code of the scenario can run in a step, `sleeps` holds the timers
of other tasks. After the step in which the scenario finishes come the two stop
steps (`stopIn`): the hooks run once more in the first, are cleared, and what is
registered then runs in the second, so a call of another task can still be decided
and an invariant can still fail there. `installed` is the flag that is never reset:
an invariant whose hook was cleared is not checked again, and a first one may still
come in the second stop step and keeps its hook, as `_drive` clears the hooks
only after a failure. `End` and `Unwind` are that clearing and the `finally` of the
calls that still wait: after a failure those whose turn it was go on with their
verdict, the scenario first; after a run that finished the teardown cancels them
all. Not modelled: a `run_until` that a cancel handler calls during this unwinding,
whose steps are those of `Drive`'s settling and teardown. One observation: the
exception of a predicate in the last step that the limit allows is lost, since
the step that would deliver it is refused.

### Raft

One action per handler and timeout; `msgs` is the set of all messages ever sent
and never shrinks, so a message may be received late, repeatedly, in any order or
not at all, which is more than `Transport` does. Timeouts may come at any time.
A node that handles a message acts atomically: `send` never suspends. `Buggy` is
the demonstration's switch.

### Patching and Sweep

A context (`csprng_shim`, `audit_mode`) is a frame on its thread's stack, with
its phase, its next instruction and the restores registered so far. `Program` is
the order of reads, registrations and installs, which differs for the two. Every
instruction and both halves of `restore_if_ours` are steps of their own.
`InterruptEntered`, `InterruptRestore` and `InterruptWait` say where a Ctrl-C
leaves a context: `ExitStack` runs the other restores, the lock is released if it
was taken. (An interrupt within `__enter__` itself is taken to be one just before
or after it.) `Call` follows the chain of wrappers to the one that acts on a
thread. `cut`, `replaced` and `raced` are history. `Sweep` adds `check`, `replay`
and `given_seed` with the outcome of each run (`ended`, history), and contexts
entered by hand around or inside a run. A `CancelledError` of a scenario that ends
cancelled is an outcome of its own: `check` lets it through as it does an interrupt,
though nothing documents that (section 6). Exceptions of the user's own code are
handled there; a `BaseException` goes on outwards.

`RestoredWhenIdle` has two exceptions, and they are the honest limit of the
comment "an interrupt between two steps cannot leave a name patched"
(`_entropy.py`): a name stays patched if the interrupt hits its own restore, and
a replacement by other code is overwritten if it falls between the reading and
the writing of that name by a context.

## 3. Runs

Every run is exhaustive within its bounds. In `violation` runs the property is
a sentence of the documentation and TLC's counterexample is the behaviour of the
code (section 6).

| Run | What it shows | Bounds |
|---|---|---|
| `DetLoopSafety` | order of firing, the autojump, deadlock verdicts, stop steps; `DetLoop` implements `VirtualTime` | 3 timers with deadlines 0, 1 and infinity, one callback, all drives, stops, failing checks, interrupts |
| `DetLoopLive` | steps end, nothing starves, a step limit ends a drive | 2 self-rescheduling callbacks, 1 timer, limit 0 or 1 |
| `DriveRun` | which error is reported, what success means, order of unwinding, every run ends with the loop closed | 3 tasks, 4 steps, 2 rounds of 3 steps, 2 interrupts, 1 property |
| `TransportFaults` | windows follow their schedule, delivery-time decisions, valid faults, `run_for` resolves its faults, slow links compound and act at sending | 2 addresses, up to 2 faults of all kinds in one call of 0 or 2 seconds, 1 message, scenario partitions, time 5 |
| `TransportLinks` | FIFO, conservation of copies, one draw per send | 2 messages, latencies 1 and 2, reliable and lossy duplicating endpoints, partitions, late binds |
| `EndpointRecv` | the waiter, lost wakeups, `Endpoint` implements `Mailbox`, a receiver is served | 2 tasks, 3 messages, 3 timeouts or cancellations |
| `RunUntilCalls` | cleanup, deadlines, priority within a step, every call ends | 2 tasks, 2 waiting calls, deadlines 0, 1 and none, time 2, 6 steps with the stop steps |
| `RaftElection` | one leader and one winner per term | 3 nodes, 2 terms, no bound on messages |
| `SweepRuns` | what every thread gets, what is left when all is over, the lock, what `check` reports, every sweep ends | 2 threads, 2 names, 2 seeds, a context by hand, 1 interrupt, 1 replacement |
| `DriveFirstError`, `TransportZero`, `SweepCancelled` | section 6 | the smallest instance that shows it |

Why the bounds are enough to be interesting: an overtaking needs two timers and
a tombstone between them a third; deadlines 0, 1 and infinity give past, equal,
later and unreachable ones. Three tasks are the scenario, a node, and one that either spawns
or stands for an unrelated task; four steps reach both stop steps after a step
of ordinary work, and two rounds let a handler spawn in one and be cancelled in
the next. `DriveRun` compares states by `Relevant` (`MCDrive`), which leaves out how
many properties were registered once the teardown flag refuses new ones: no later
step and no property of the run reads it. Two faults overlap, nest, touch or are disjoint within two seconds,
and with the time after them what stays open is seen; a link can
misorder only with two messages, and two latencies do to it what a slow link that
closes between them does (the proof of FIFO covers the windows themselves). A message inside two slow
links takes four times its latency: sent a second into the call it arrives at
time five. A timeout, a delivery and a second receiver are
the race of an endpoint; two calls of `run_until` show what the first leaves to
the second, and six steps are enough to set up a call, jump to its deadline, and
go on. An election can go wrong with three nodes and a second term. Two names
are the least for which the order of installs and restores matters, and a
sweeping thread, one that replays and one nested context make wrappers of
wrappers. The mutants of `PROJECT.json` confirm that each
property can fail within these bounds: each is a plausible slip in the code
(LIFO ties, a purge forgotten, one stop step, a later error that wins, an
unclamped link clock, one slot for all open windows) and violates its property.

**Fairness.** `DetLoop` assumes weak fairness of `LoopStep`, `Drive` of
`DriveStep`, `RunUntil` of its steps and of the tasks that are ready, `Endpoint`
of a task that is ready. All stand for the one thread that runs the loop; the
code never waits for anything outside itself. That a callback gives control back
is part of `LoopStep` (`HandleReturns`): asyncio is cooperative, and a callback
that never returns hangs the real loop too. No fairness is assumed of user code:
tasks may do nothing for ever, reschedule themselves, ignore cancellation or stop
the loop again and again. `Sweep` assumes weak fairness of each thread's
`Proceed`: the operating system runs every thread, and a run's body ends, which
is `RunEnds` of `Drive`. An `RLock` is not fair, and a thread could be overtaken
for as long as others keep entering contexts; the bounded number of contexts
keeps that out of `SweepEnds`. Deadlock is checked in all runs but `RunUntilCalls`
and the two of `Sweep`, where the run or every thread really ends; the end of a run in
`Drive` (`Closed`) and of the modelled time in `Transport` (`Horizon`) are
explicit stutters.

## 4. Proofs

Proved with TLAPS for all values of the constants, hence any number of timers,
callbacks, tasks, addresses, messages, faults, nodes, threads and interrupts.
Every safety invariant, every action property and both refinements that a passing
run checks are theorems; only liveness is not.

**DetLoopProofs** - `TypeCorrect`, `FiringOrderHolds`, `ClockMoves`,
`ClockStays`, `DeadlocksAreReal`, `StopsAfterTwoSteps`, `LoopIsVirtualTime`. The
inductive invariant `IInv` is `TypeOK` with:

* `Control`: what each program-counter value implies about the queues; a purge
  starts with nothing ready, so the clock moves only then;
* `Countdown`: `stopIn` is set exactly when a watched future is done at the top
  of a step. Without it a drive could purge, and so jump, with its future done;
* `StopCount`: how many steps were begun since then and whether `settle` ran,
  by the value of `stopIn`; a user stop may save one step;
* `CreatedBefore`: indices in use are below the counter, so that a new timer is
  younger than all others;
* `FiringOrder` itself, which is inductive with it: no timer in the ready queue
  or running overtakes another, in the queue or still in the heap;
* `Once`: a handle is in one place, once in the ready queue or in the heap. Only
  the refinement needs it: a `Cancel` must take exactly one handle from the abstract
  queue.

The action properties follow from `IInv` and the definition of the one or two
actions that can move the clock, report a deadlock or return.

`LoopIsVirtualTime` takes one action at a time. `CallSoon`, `CallAt`, `Cancel`,
`Autojump`, `FireDueTimer`, `PopHandle` and the end of a callback are steps of the
abstract scheduler, or stutters when the handle is a tombstone; the rest are
stutters. What the mapping makes of an `Append`, of a `Tail` and of a new tombstone
are lemmas on `Kept` (`KeptAppend`, `KeptTail`, `KeptCancel`). They speak of a
recursive function over the queue: `KeptIs` shows that its equation has a solution,
the others compare two solutions at the least index where they could differ.

**TransportProofs** - `TypeCorrect`, `ReliableLinksAreFIFO`,
`LatenciesUnshifted`. `IInv` is `TypeOK` with:

* `References`: a timer's argument is an existing message, fault or call, and a
  queued message was sent to that address;
* `Streams`: as many draws as messages, each message has its own draw, and its
  sender is bound (so its policy cannot change);
* `LinkOrder`: on a reliable link the deliveries in flight have times and
  sequence numbers in the order of sending, none later than the link's clock, and
  everything already queued was sent before them. This is the strengthening
  FIFO needs: the order of the queue is only as good as that of the timers;
* `ReliableFIFO`.

The lemmas `SendAdds` and `RunForAdds` say once what these two large actions add
to the timers; every other step only removes timers or leaves them alone.

**TransportFaultProofs** - `WindowsAreKept`, `OutcomesAreDecided`,
`FaultsDoSomething`, `RunForCleansUp`, `CopiesAreConserved`, `MessagesAreSlowed`.
On top of the invariant of `TransportProofs`:

* `Armed`: a fault has one timer for its beginning, at its start, and one for its
  end, numbered above it; the clock passes neither. `FaultsFollowSchedule` alone
  says nothing of what is still to come;
* `Progress`: from the timers a fault still has follows how far it is: open
  exactly between the two, and then the clock is within its window;
* `CallsKept`: every fault lies within the call that scheduled it, and the sleep
  of a call is numbered above all its faults' timers, so a window that ends at the
  very instant of the return is closed first. That is where `RunForResolves` needs
  `secs > 0`: a `yielded` call has no such timer;
* `CrashesCaused`, `Past`: what is down was crashed, the timeline is of the past.

`CopiesConserved` is inductive once the copies in flight are known to be finitely
many (`Balanced`); what a step does to the number of timers and of events of one
message is a lemma on cardinalities each (`Tally` is one).

`MessagesAreSlowed` first needs that the fold of `SlowFactor` is a product, which
its definition does not say: it multiplies in an order picked by `CHOOSE`, and the
order of a smaller set need not be that of a larger one. `ProductUnfolds` gives
the recursion for every finite set, `ProductAnyOrder` that any factor may come
last, and from it `ProductGrows` (more windows slow at least as much) and
`ProductIsLocal` (other faults do not count). All go through `FiniteSubsets`, which
is induction on finite sets with a set in the place of the predicate. Then
`SlowedAtSend` is inductive together with `SentBefore` (no message is from the
future, so a fault scheduled later cannot have begun before it was sent): a new
message is slowed by the active links, which lie between those it is inside of and
those that are open (`FaultsFollowSchedule`), and later windows only add to the
open ones.

**EndpointProofs** - `WaiterNeverOrphaned`, `NoLostWakeup`,
`EndpointIsMailbox`. `EndpointInv` is `TypeOK` with `WaiterIsSuspended`,
`WaiterTellsQueue` and `CancelledForAReason` (a cancelled waiter belongs to a task
that was asked to stop). The last is what makes `Resume` safe: without it a task
could go on with a cancelled waiter, no cancellation to raise, and an empty queue.
The refinement then needs, of each step, that it is a `Put`, a `Take` of a
non-empty queue, or leaves `queue` and `got` alone.

**RaftProofs** - `TypeCorrect`, `ElectionIsSafe`, `WinnerIsUnique`,
`LeaderKeepsItsTerm`, each for `Buggy = FALSE`. `ElectionInv` speaks of votes
through messages, which are never unsent: a vote cast in a node's current term is
the one it remembers (`VoteRemembered`), so no node votes for two candidates of a
term (`VoteOnce`); the votes a candidate counts were cast (`VotesWereCast`); who
sent a heartbeat has a majority of cast votes (`WinnersHaveMajority`), and a
leader sent one (`LeadersAnnounce`). Two majorities of a finite set meet
(`MajoritiesMeet`), and the voter they share voted once.

**DriveProofs** - `TypeCorrect`, `FailureIsKept`, `InterruptGetsThrough`,
`AbandonedIsReported`, `SuccessIsTrue`, `TeardownWithoutChecks`, `ScenarioFirst`.
Most of these are about the end of a run. `IInv` carries them back to its
beginning:

* `Control`: what `pc` and `stopIn` are in each phase; teardown has set its flag;
* `Errors`: where an error can be in flight and what happened to the first one.
  It is the error in flight, or an interrupt is and it has become a note, or a
  second interrupt has come. The last case is real: `_secondary` notes on an
  interrupt what it replaced, and a second interrupt that leaves the loop takes
  the place of the first together with its notes. `FailureSurvives` allows exactly
  that;
* `Outcomes`: in teardown the scenario is over unless settling it failed, and it
  returned if there is no error.

`ScenarioUnwindsFirst` is an action property: only `BeginRound` asks other tasks
to stop, and there `Outcomes` gives the condition.

**RunUntilProofs** - `TypeCorrect`, `CallsCleanUp`, `DeadlinesAreKept`,
`StepsAreRanked`. `IInv` is `TypeOK` and the two invariants with

* `HooksDistinct`: removing a call's hook once removes it;
* `Watched`: an undecided call has its hook and, as long as the clock is before
  its deadline, a timer armed there. Without it the loop could jump past a
  deadline or find nothing to wait for. In the second stop step the hook may be
  cleared, but the clock stands still then, before the deadline;
* `Settling`: the invariants' hook is there only if it was installed, and a run that
  is on has a stop step left;
* `Turns`: only a decided call has its turn, and a cancelled call is decided.

**SweepProofs** - `TypeCorrect`, `NothingStaysPatched`, `LockIsAccountedFor`,
`ReportsAreTrue`, `WrappersNest`, `WrappersKeepToTheirThread`. The invariant has a part for the patches and one for the
checks, and the first holds for any use of the contexts. For the patches:

* `Stacked`: only a thread's innermost context is outside its body, and no two
  contexts have one name;
* `Locked`: the lock counts its holder's contexts past it, so of two threads one
  patches;
* `Prepares`: during the set-up exactly the names whose registration was executed
  are to be restored. With the order of `Program` (`ProgramOrder`: read, register,
  install) an installed wrapper has been registered before;
* `Owned`: a wrapper that is installed, or that a context falls back to, belongs to
  a context that will restore that name, the latter to one further out on the same
  thread. This is what makes `RestoredWhenIdle` inductive: a restore puts back the
  original its context read, which may be another wrapper, and that wrapper then
  has an owner still. `Locked` is needed for it: a context that reads finds only
  wrappers of its own thread's contexts;
* `Unread`: a context that is not entered yet has no originals;
* `Unreplaced`: if nobody replaced a name, no foreign function is reached from it;
* `Replacements`: if somebody did, and no context was between reading and writing
  the name then, there is a set of contexts, closed under falling back, from which
  one comes to the replacement, and every later writer is in it. A set instead of
  a chain of wrappers needs no recursion.

`WrappersKeepToTheirThread` needs the order of the wrappers too, in `NInv`:

* `Nested`: for each name nobody replaced, what is installed is the innermost
  context of the stack that holds the name, and each falls back to the next one
  that does. An interrupt may skip restores while it unwinds, so it speaks of
  threads that none is unwinding. Without it a context could be in its body with an outer
  one's wrapper installed;
* `RestoredOnce`: no name is registered twice in one context, or the second restore
  would put back what the first has already undone.

`Call` follows a chain of wrappers to its end. It is a tail recursion, so its
equation has a solution whether chains end or not: the ends of the chains (`CallIs`).
That they do end at a function on every other thread follows from `Owned`, by which
each wrapper falls back to a context further out: a wrapper that did not come to
one would have a least counterexample (`PassedOn`).

For the checks, `Kept` says that a `check()` in a run has exactly one context of a
run on its thread, that its counters agree with the runs that ended, and that an
interrupt that hit it is still on its way out of the innermost context. `Reported`
is `FirstFailureReported` for one thread, both ways: a failed run is reported, with
its seed, and what is reported is a failed run. `AfterIs` and `RunOver` give both
from what `After` makes of an outcome.

Assumptions: `BoundsAssumption` and `NoneAssumption` (bounds are naturals, `None`
differs from every value it is compared with) in `DetLoop`;
`TransportAssumption` (types of the constants, latencies positive, factors above
1) and `LatAssumption` (finitely many latencies: they are `_LAT_MIN.._LAT_MAX`) in
`Transport`; `EndpointAssumption` (bounds, `None`) in `Endpoint`; those of
`Drive` and `RunUntil` (bounds, `None`); `PatchingAssumption` and
`SweepAssumption` (each kind of context patches at least one name and none twice,
as the statements of `csprng_shim` and the tables of `audit_mode` do; the real and a
foreign function are no wrappers; bounds); that of `Raft` (a finite set of nodes,
`None` is not one). TLC evaluates them in the runs.

**Only model-checked.** Liveness (`StepEnds`, `NoStarvation`, `LimitEndsDrive`,
`RunEnds`, `ReceiverIsServed`, `CallEnds`, `SweepEnds`): fairness and `ENABLED` are
out of the prover's reach. For `CallEnds` the ranking that makes it true is proved
(`StepsAreRanked`). `NothingLeaksPastRunFor` and the property of `DriveFirstError`
are false, see section 6, and so is `AnyExceptionIsReported`.

The library's induction theorems take an operator as a parameter and cannot be
used, so no proof here is an induction as such. An argument by induction on
numbers is put as one about a least counterexample (`LeastNat`), one on finite sets
as one about a set of subsets (`FiniteSubsets`), and that a recursive function has
a value is shown where it is used (`KeptIs`, `CallIs`, `ProductUnfolds`). The audit
part of `Program` is a function of the index instead of a concatenation.

## 5. Not modelled

Deriving a sub-stream or a hash seed is a hash, and re-executing the interpreter
with a pinned hash seed is process control; neither has anything to model-check.
Which functions the auditor covers, and which arguments make a calendar function
read the clock, is data. Of the Hypothesis glue only the handling of an outcome
is modelled. The development scripts (mutation testing, pinned corpora, process
trees, releases) are file and process I/O outside the library; examples and the
demonstration's `main` print. Malformed arguments of `_validate_fault`,
`run_until` and `check` raise before anything changes and are not enumerated.
Floating point: times are naturals, so rounding of `now + latency` is not seen.

## 6. What the documentation says and the code does not do

The first and the last two are runs whose property is the documented sentence; the
others can be read off `Drive`, the second off `RunUntil` too.

* `DriveFirstError`: the scenario raises and a property is found false in the
  same step or in the first stop step; the run reports only the `InvariantError`.
  The scenario's own error is not even a note, although `decisions.md` and
  `api.md` promise that the first error is reported.
* A first property registered in the second stop step of a successful run is
  evaluated in teardown, which the docstring of `always` excludes. (If there was
  an earlier property, one registered in that step is never evaluated at all,
  although `internals.md` says it stays active: both come from the flag
  `_invariants_hook_installed`, which is never reset.)
* If everything finishes in the last teardown round allowed, `TeardownError` is
  raised all the same and names no task.
* `TransportZero`: `run_for(seconds=0, faults=[...])` returns before its faults
  have come and gone, although `decisions.md` says nothing leaks past the return.
* `SweepCancelled`: a scenario that ends with `CancelledError` leaves `check` without
  its seed and, with `on_failure="return"`, without a `CheckResult`, although the
  docstring of `check` and `api.md` call any exception from the scenario the
  failure. `check` catches `Exception`, which a `CancelledError` is not.

## 7. Plan

Every part of the library that keeps state is modelled, and for each the safety
properties its run checks are theorems. What a next step could add is the
development scripts (section 5) and, with a prover that handles fairness, the
liveness properties: `StepsAreRanked` is the ranking `CallEnds` would need.
