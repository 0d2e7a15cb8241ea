# A TLA+ verification of CoRE4INET

CoRE4INET simulates real-time Ethernet (AS6802 time-triggered and
rate-constrained traffic with its clock synchronisation, AVB, IEEE
802.1Q/Qbv/Qci) on top of OMNeT++ and INET. This directory holds TLA+ modules
of its scheduler, of its time-triggered and rate-constrained egress, of the
AS6802 synchronisation with all its devices, of the AVB stream reservation, and
of the Phone–Telematics notification protocol whose Java files lie in the root
of the repository; the TLC runs that check them on small instances; and theorems
about them that TLAPS checks for every value of the constants. Paths below are
relative to `src/src/core4inet/`, except those of the Java files.

## 1. Inventory

A node is a set of simple modules that OMNeT++ runs one message at a time. What
makes the code hard is not threads but *instants* and *stale state*: many
messages have the same time stamp, their order is that of their priority and
insertion, methods of other modules are called in the middle of a handler, and
the local clock of a node is corrected while events, windows and time stamps
computed from the old clock are still in use.

| Component | State | Operations | Talks to | Correct when |
|---|---|---|---|---|
| **Timer, Period, SimpleOscillator** (`scheduler/`) | tick counter, two maps of registered events, one self message, cycle counter, tick length | `registerEvent` (timer / action time), wake-up, `clockCorrection`, new cycle, drift | every timed module, by `sendDirect` in the same instant | each event is sent once, at its tick; corrections move cyclic events and not timers; the exceptions are unreachable; the clock follows the global time |
| **DummySync** (`synchronisation/base`) | – | corrects the clock once per cycle | Timer | the deviation is bounded by the precision |
| **TTBuffer, TTShaper** (`buffer/AS6802`, `linklayer/shaper/AS6802`) | next window, map of windows, queues, requests of the MAC | send window, frame or "empty" to the port, lower frames, `requestPacket` | Timer, Period, MAC, the classes below | time-triggered frames find the port idle in their windows; lower frames are delayed, not lost |
| **RCBuffer, RCShaper, BEShaper** (same places) | frame queue, gap (BAG), count of ports passed; queues by priority | arrival, end of the gap, `resetBag`, `requestPacket` | Timer, several ports | one frame per gap and port; gap less jitter is kept everywhere; strict priority |
| **AS6802 synchronisation client** (`synchronisation/AS6802/SynchronisationClient`) | state, container of received frames, memberships, clock readings | integrate, evaluate a cycle, correct, detect cliques | compression masters through RC buffers, a scheduler | follows a live clique, leaves a silent or foreign one, never uses a deleted frame |
| **Synchronisation master** (`.../SynchronisationMaster`) | the same, flags of the coldstart | coldstart (CS, CA), IN frames, eight states | as above, and sends | the coldstart ends, no state waits without its timer |
| **Compression masters** SI, HI (`.../SICompressionMaster`, `.../HICompressionMaster`) | collections of frames with their windows, compressed frames waiting for dispatch | compression function, relay of coldstart frames, dispatch | synchronisation masters | each collection ends once; a compressed frame lives until its dispatch |
| **SRPTable, SRProtocol, AVB applications** (`services/avb`, `applications`) | talkers, listeners with age, self messages of sinks | register, update, age; advertise, ready, failed; retry, stream | each other by signals, along the path by frames | reserved bandwidth within the limit; requests reach known talkers; who renews stays served |
| **Phone–Telematics** (`*.java`) | counter, cache, registered listeners; last number | notify, register, callbacks, crashes | Binder | no listener goes back to an older state; all recover |
| **AVBBuffer, AVBShaper** | credit, state of the transmission | slopes, end of transmission, scheduler events | SRPTable, MAC | credit bounds, no lost wake-up |
| **Qbv** (`linklayer/shaper/IEEE8021Qbv`) | gate control list, gate states, queues | gate events, selection, transmission selection algorithm | Timer, MAC | gates are in the state the list gives for the time |
| **Qci** (`linklayer/filtering`) | stream filters, gates, meters | per-frame filtering | incoming side | meters bound the rate |
| **Incoming** (`incoming/`) | held frame, last arrival | arrival, permanence point | buffers | early and late frames are dropped, accepted ones delivered once |
| IPv4 filters, TTE API, other applications, `inControl`, utilities, nodes, examples, tests | – | dispatch, parsing, statistics, configuration | – | no behaviour over time of their own |

The hazards of this code, each at its line and with the properties that watch it,
are listed in `PROJECT.json`.

## 2. Modules

| Module | Models | Abstracted |
|---|---|---|
| `Timer` | Timer, Period, SimpleOscillator, DummySync | messages are the clients they go to |
| `TTPort` | TTIncomings, TTBuffers of one port (queue or double buffer), TTShaper over PCF, RC and BE, the part of Timer they use | lower frames are names with a class and a length in ticks, stored frames are counted |
| `RcTraffic` | RCBuffers (queue or double buffer), RCShaper and BEShaper of several ports | a frame is its virtual link |
| `SyncScheduler` | the scheduler the AS6802 devices call (external) | time is relative to each device's clock |
| `SyncFollower` | what clients and synchronisation masters share: the container of IN frames, evaluation, clock correction | a frame is port, cycle, set of members |
| `SyncClient`, `SyncMaster` | all states of the two devices | – |
| `CompressionFunction` | what the compression masters share: collections, observation windows, `compress()`, evaluation | – |
| `SiCompressionMaster`, `HiCompressionMaster` | all reachable states of the two devices | – |
| `SyncCluster` | two `SyncMaster`s and a `SiCompressionMaster` that hear only one another, with drift | the network is a delay |
| `StreamReservation` | SRPTable, SRProtocol and the AVB applications of all nodes of a tree | a stream is its bandwidth |
| `StateSync` | what the sequence numbers of Phone and Telematics promise | – |
| `PhoneTelematics` | PhoneSequenceManager, TelematicsService, TelematicsSequenceHandler; implements `StateSync` | the state of an APN is the number of its changes |
| `Timer_proofs`, `TTPort_proofs`, `RcTraffic_proofs`, `StreamReservation_proofs`, `SyncClient_proofs`, `SyncMaster_proofs`, `PhoneTelematics_proofs`; `IntegerLemmas` | theorems; the lemmas on numbers and sums they use | – |
| `MC*` | constants for TLC | – |

`PROJECT.json` maps every definition to its lines. `TTPort` and `RcTraffic` use
relative time and rely on what `Timer` shows: an action-time event is sent in its
slot (`ActionOnSlot`), a timer after the real ticks it was set for, whatever the
corrections (`TimerOnTime`). `RcTraffic` gives the traffic that `TTPort` sees as
its class 2. `SyncCluster` instantiates `SyncMaster` and `SiCompressionMaster`
unchanged and puts the frames one sends in place of the arbitrary frames the
other is checked with.

### Timer
An action is one message handler: `Fire` (self message), `NewCycle`,
`SendWindow`, `ChangeDrift`, `Synchronise`, `Expire`, and `StartTimer` for a
registration that comes with a frame. The methods of the class are operators on
the record `tm` and compose as in the code (`Synchronise` registers, then
corrects: move the events, reschedule, send what is due). Simulation time is
finer than a tick, so the rounding of `recalculate()` is exact. What was sent in
an instant is the set `inflight`: its order is left open, which includes the
order of the event queue. The self message comes first, as it was inserted
earlier. The maps are functions from client to key; every client has at most one
event of each kind, as in the code.

Left out: changes of a period's parameters at run time.

### TTPort
A frame comes in by `Arrives` (receive window), `PermanencePoint` and `Enqueue`, and
goes out by `BufferSends` and `FromTTBuffer`; `TimerFires` sends the events of
both halves, `fes` is the queue of messages without delay in between;
`FromLower`, `RequestPacket`, `Switch`, `ClockCorrection` and `Tick` are the
rest. All tick counts are relative to the clock, so that the state space is
finite without a bound on time; a key further back than two common cycles
(`Oldest`) stays there. The exceptions of the shaper and of TTIncoming are values of
`error`. Which frame of a queue is sent makes no difference here, so `stored` counts.

Assumed, and named `WellScheduled`: windows of a port are apart by a frame and a
safety margin (`Separated`); between a receive window and its permanence point, and a
safety margin around them, the buffer has no send window (`ReceivedApart`); a
correction is at most `SafetyMargin` (the parameter is documented as "set according to
maximum clock correction"), and the next comes `CorrectionGap` ticks later, after every
frame sent before it has left (`Gradual`); none comes between an event and its buffer
in one instant, and buffers stay enabled (`Undisturbed`). `MCTTPort` has TLC check that
its schedule is one. A link carries at most one frame of a buffer in a tick (the shortest
frame takes many). Left out: frames larger than `maxMessageSize`, other run-time parameters (the
shaper then registers all buffers anew), the check of overlapping windows (static).

### RcTraffic
`Arrive`, `BagExpires` and `resetBag()` (inside `FromBuffer` and `PopRC`) are the
buffer; `FromBuffer`, `FromLower` and `RequestPacket` the shaper; the MAC of INET
is the countdown `mac` and is external. Frames of one instant are a set (`wire`),
so ports may start them in any order. Ages of `lastSent` are kept up to the value
from which they make no difference. A full queue with `dropNew` deletes the frame
and the caller reads it afterwards (undefined): what it reads is open (`onIn`).

Left out: `clear()`, changes of `bag` and `jitter`.

### The AS6802 devices
A device is one record (`client`, `sm[m]`, `cm`). Each state class of the code has
one `handleMessage()` that branches on gate and message name; each branch is an
action named after state and message (`SyncOnInFrame`, `FloodOnTimeout`), and
a handler is an operator from the record to the next record, so that the calls a
branch makes (`registerEvent`, `clockCorrection`, the constructor of the next
state) compose in the order of the code. Where several states have the same text
the handler is shared and every copy of the text is mapped to its own action.

*Scheduler.* The devices call a `TTEScheduler` (`registerEvent`,
`unregisterEvent`, `clockCorrection`, `getTicks`, `getTotalTicks`) whose header
is not in the repository; `.oppfeatures` accordingly marks the feature as not
functional. `SyncScheduler` gives these calls the meaning of `Timer` and
`Period`, except that a positive correction sets the clock back, which all
callers expect. Pending events have the ticks that are left; action-time events
follow a correction, timers do not. Events of one tick are handled by
scheduling priority (CS, CA, IN, then the device's own), and in any order within
one.

*Undefined behaviour.* A deleted message that is used again, or an event
registered twice, sets `fault`; nothing is said of the program after it. It is
reachable in `SyncClient` and `SyncMaster` (see the observations below) and shown
unreachable in the compression masters (`Dispatches`) and in the cluster
(`Agreement`). The code changes state by a placement `new` over the current
object; the members are taken to keep their values, as the compilers in use do.
`clear()` of `clock_stack` leaves the storage of the deque, and the code reads
`front()` of the empty deque: the last reading is what it gets.

*Abstractions.* A membership field is the set of masters whose bits are set;
where the code mixes counts and masks in one variable the model does too
(`WithBit`, `AsBits`). Half of a difference that wrapped in `compress()`
is far away (`Wrapped`) and its event never due. Frames become events at their
permanence point after a delay from `PermanenceDelays`. Counters of a device that
stays in its state are capped at their last relevant value. Entries of the
container are forgotten `GoneHorizon` ticks after their event.

*Environment.* In the runs of one device any frame with any field of the
configured sets arrives at any tick, up to `MaxPending` or `MaxFrames` at a time.
In `SyncCluster` frames are those the others sent, permanent after
`TransmissionDelay`; devices are switched on in any order (`SmPowerOn`,
`CmPowerOn`), and a set of devices from `Lags` may fall a tick behind every
`DriftGap` ticks.

*Not reachable, and so not modelled:* CM_WAIT_4_CYCLE_START of the HI compression
master (HICMStates.cc:514 asks for a number that is at least and below the same
threshold); the dispatch in UNSYNC of the SI compression master, with its double
delete; the transition to STABLE in TENTATIVE_SYNC of a synchronisation master,
behind a `return`.

### StreamReservation
Nodes are a tree with the sources at the root. `Announce` is the registration of
a talker with everything the signals do in the same handler (SRProtocol sends the
advertisement on, sinks register), `TalkerAdvertise`, `ListenerReady`,
`ListenerFails`, `ListenerAskingFailed` and `ListenerReadyFailed` are the
messages of SRProtocol, `Subscribe` the self messages of a sink. A sweep
(`removeAgedEntriesIfNeeded()`) is part of each call that makes it (`Swept`); calls
of the shapers, which may come at any time, are `GetBandwidth`. `nextAging` is
kept as time left, and cleared by a sweep and not set again for the survivors, as
in the code. Frames of a link stay in order and take up to `MaxDelay`.

Left out: static entries, tables from XML files, `removeTalker` and
`removeListener` (no callers), updates of a talker, sweeps by the GUI, the chains
of send events of a source (`streaming` is its `isStreaming`).

### PhoneTelematics
Each synchronized method of the Phone and each callback is a step, so that
threads interleave where the code lets them; `RemoteCallbackList`, process death
and Binder are external. Named assumptions select the environment: `Serialised`
(callers of the Phone wait for one another), `Fifo` (callbacks arrive in order),
`Drained` (the restart broadcast comes after the callbacks of the old process).

## 3. Runs

| Run | Question | Bounds | States |
|---|---|---|---|
| `timer` | Do all events come once and on time under drift and correction? | two periods (9 and 4 ticks, offset 2), ticks of 11 to 13 units, corrections with an error of one tick, allowed delay 2, 270 units | 2 080 000 |
| `tt_port` | Is the port idle at every window, and only when nothing fits? Does what was taken leave in its cycle? Do the queues drain? | windows every 6 and 12 ticks, frames of 1 and 2 ticks, corrections of ±1, two frames per class, one buffer with a receive window of two ticks and one without | 240 000 |
| `rc` | One frame per gap and port, strict priority, cached sizes, progress | two links (one to both ports, one with a double buffer), queues of two | 90 000 |
| `rc_corrected` | The same pacing under corrections and a switched buffer | one link to two ports, corrections of ±1 up to ±2 in sum | 729 000 |
| `phone` | Does every registered listener get every state, do listeners with a receiver recover? | ring of 6, two APNs, three changes each, one crash of the Phone and two of Telematics | 114 000 |
| `phone_unordered` | Does `PhoneTelematics` implement `StateSync` when callbacks are reordered? | ring of 10, a crash and a stop of the listener | 88 000 |
| `sync_client` | Does a client follow, leave and correct as it should, whatever it hears? | cycle of 9 ticks, 3 cycles, two ports, two masters, two frames at a time | 2 290 000 |
| `sync_master` | The same of a synchronisation master, through the coldstart | cycle of 8 ticks, 2 cycles, frames of one and of two members, one IN and one CS or CA frame at a time | 3 120 000 |
| `si_master` | Do windows, compressed frames and dispatches of the SI compression master belong together? | cycle of 7 ticks, 2 cycles, two masters, two frames at a time, two observation windows | 3 740 000 |
| `hi_master` | The same of the HI compression master | as `si_master` | 1 150 000 |
| `cluster` | Does every coldstart end, and do synchronised masters agree? | two masters, one compression master, cycle of 12 ticks, 5 cycles, a lag of one tick every two cycles | 456 000 |
| `srp` | Are reservations admitted, kept and given up as promised? | source – switch – two hosts, two streams, three sinks, room for one of two streams at one port, ageing 5, delay 1 | 435 000 |

Why these bounds are enough: in `timer` both periods go round at least twice
with two corrections in between, one of which jumps over a slot that is sent at
once and one over a slot that is moved; drift, rounding and correction errors
add up to more than a tick, and the drift of a cycle is the fastest that `SlowDrift`
(section 4) admits. In `tt_port` the order of the two windows changes
within the common cycle, a frame of two ticks fits into some gaps and not into
others, and the MAC may be busy at every phase; frames come before, in and after the
receive window, at its last tick, and twice when a correction opens it again. In `rc` both queue kinds overflow,
both ports hold frames of both links, and lower frames are in between. In
`phone` the six changes go once round the ring; in `phone_unordered` half the ring is never
exceeded by the numbers under way, which is the condition of the scheme itself.

In the runs of one AS6802 device every action of every state fires. Timeouts are
a few ticks, so that they race the cycle and the frames in every order; a
cycle has room for the windows around `ReceivePit`, the evaluation, the
correction and the end of the asynchronous window with a tick between them, which
is all the code's order of slots asks for. Two members and thresholds of one and
two separate "too few", "enough" and "as many as a foreign clique". Two
frames at a time suffice for a second frame in an open window, a frame of another
cycle beside it, and two frames for one permanence point; three would only extend
`compress()` to its next case. In `cluster` the integration cycle wraps every
five cycles and devices lag in every phase of the coldstart. In
`srp` the switch has one port with room for both streams' worth of requests less
one, so that failure frames, retries and the sweep of one sink race the renewal of
another; the path of two links is the shortest on which a reservation is kept
upstream and lost downstream.

The check for deadlock is off where it would report the end of the bounded time
(`Timer`), of the changes and crashes (`PhoneTelematics`), or a fault (`SyncClient`,
`SyncMaster`), which these models do not go on from. All others are checked for
deadlock.

### What the runs show
* `SentInItsCycle`: the permanence point of a frame and the window of its buffer are
  two events of one timer, which corrections move and may both jump over. What was
  taken in the receive window is in the buffer when the buffer sends. It needs more
  than a correction between the two points, and between the send window and the next
  receive window; with one tick between them TLC finds the early frame of the next
  cycle held while the jumped window is sent.
* `Consistent` is, for each device, the conjunction of its type, of the events it
  must have registered in its state (`WakeUps`) and of the relations between its
  collections (`WindowsOpen`, `Dispatches`). The events are registered and
  unregistered one by one in every handler that changes state; a forgotten one
  stops the device.
* `LeavesSilence` and `CliqueNoticed` compare the device with a history of what
  it really heard, so that they hold or fail whatever the device noted about it.
* `StepsWithinPrecision`, `StepsWithinWindow`: a synchronised clock is never moved
  further than the window, although readings survive changes of state.
* `Agreement`, `ColdStarts`: in the cluster synchronised masters agree on time and
  cycle, and the cluster is synchronised again and again.
* `Sound`, `StaysServed`: admission and signals keep the tables of all nodes
  consistent, and a sink that renews in time and for which there is room is
  served for good.

### Disagreements observed
None of these is a property of a run; each was seen in a trace while the model
was built and is part of what the models do.

* Nobody calls `reschedule()` after a change of the tick length
  (SimpleOscillator.cc:75), although Timer.h demands it; the wake-up is off by the
  change. `WakesForNext` shows that it stays within a tick, and that the exception of
  `sendOutEvents()` is not reached, while the drift is slow (`SlowDrift`, section 4).
  With the NED defaults (200 ppm, ±12.5 ppm per cycle) it is slow up to cycles of about
  80 000 ticks, with ±50 ppm up to 20 000. Some examples combine ±50 ppm with 62 500
  ticks (`examples/AS6802/small_network/omnetpp.ini`); there it is only the density of
  events, each of which schedules the wake-up anew, that keeps timers from being late.
* A lower frame that fits before the next window overtakes a higher one that does
  not (TTShaper.h:330). With several buffers and `allowedEventDelay` 0 the timer
  skips a window and the shaper still waits for it. A correction in the instant of
  a window makes the buffer register the same window again (TTBuffer.cc:123).
* `lastSent` is not set for a frame that is sent on arrival (RCBuffer.cc:70), so
  that the gap after an idle time is only kept less the jitter. The default
  priority of `CTBuffer.ned` is -1 and wraps the cached size (RCShaper.h:316).
* A restarted Telematics does not register its receiver (TelematicsService.java:64).
* A synchronisation master in STABLE compares its count of missed cycles with
  `num_unstable_cycles` at once, so that it tolerates one cycle less than its
  documentation and than a client does (SMStates.cc:961-971). The SI compression
  master never resets that counter.
* An IN frame of the last cycle carries `max_integration_cycles` (`+ 1` without
  modulo, SMStates.cc:886, 1852) while receivers wrap to 0: the whole cluster loses
  its synchronisation at each wrap and cold-starts. `ColdStarts` says "again and
  again" because of it.
* A master that is exactly `precision` behind receives an IN frame in the tick of
  its own `inc` event; the frame comes first and counts for the old cycle.
* WAIT_4_CYCLE_START of the synchronisation master compares the name the wrong way
  round (SMStates.cc:3529): any frame completes the round, the timer does not.
  An IN frame of too few members stops the coldstart timer of UNSYNC
  (SMStates.cc:1449). FLOOD and WAIT_4_CYCLE_START_CS delete a received IN
  frame twice (SMStates.cc:2284-2290).
* Changes of state keep half of the asynchronous evidence (the r or f set).
* `clock_stack->front()` is read when it is empty (SICMStates.cc:889, 1866;
  HICMStates.cc:1226, 2689, 3510): the last correction is applied again.
  `local_sync_membership` collects the bits of all cycles (SICMStates.cc:1950), so
  that a shrinking clique is noticed late. The differences in `compress()` are
  unsigned and wrap (SICMState.h:173-214).
* `dispatch_delay` must not be shorter than the acceptance window, or the frame
  that is dispatched is gone (SICMStates.cc:1656); the NED default satisfies it.
* `removeAgedEntries()` clears `nextAging` and never lowers it for the entries that
  survive (SRPTable.cc:767): a survivor that is not renewed and whose table nobody
  renews stays, although SRPTable.ned:44 says that entries not updated are deleted
  after `agingTime`. Its reservation can shut out another sink for good.
  `StaysServed` is therefore about sinks that have room for all that is wanted.
* ListenerAskingFailed is sent towards the talker and never to the sink that asked;
  ListenerReadyFailed has no handler; a rejection leaves the reservations made below.
* A sink whose update interval reaches the ageing time times out between two updates,
  and its retry starts a second chain of updates beside the first
  (AVBTrafficSinkApp.cc:102). A sink that never updates hears of its timeout only
  when something else queries the table of its node.

Assumptions named above are needed: with `SyncInWindow`, without `Serialised`
or without `Drained` the same properties fail (`SentInWindow`, `CaughtUp`); the
hazards in `PROJECT.json` say how. `Serialised` and `Drained` are more than the code
ensures: the runs of the Phone say nothing of callers that overlap or of callbacks that
outlive a Phone, and the theorems of `PhoneTelematics_proofs` (section 4) do without both.

### Fairness
An event simulation handles every message of an instant before time goes on and
then goes on, so `Tick`, the messages without delay and the requests of the MAC
are weakly fair (`TTPort`, `RcTraffic`), and so is the step of the network in
`SyncCluster` (`Step`) and `StreamReservation` (`Progress`): the simulation never
stops while an event is scheduled. Which of several possible steps is taken is not
fair. Devices are switched on and sources started in the end (weak fairness).
Arrivals, corrections, lags, switches and the queries of shapers (`GetBandwidth`)
are not fair. `RcTraffic!FairSpec` leaves out switches and corrections: a disabled
buffer may keep its frames. In `PhoneTelematics` threads run, Binder delivers,
Android starts a dead process again (weak fairness); a call that must wait for
others is strongly fair.

## 4. Proofs

`Timer_proofs`: `TypeCorrect`, `NeverOverflows` and `FreshForHandlers` for every
schedule, drift, correction and set of clients. None of them is inductive alone.
`NoOverflow` needs that no registered event lies before the clock whenever
`reschedule()` runs; that in turn holds because handlers only run with a clock
that is recalculated in this instant and after all due events have been taken
out (`HandlersSeeFreshClock`), and because between instants the self message is
not later than the first event (`Wakeable`). The invariant `IInv` is the
conjunction; each method of the class has a lemma that keeps its part, and each
action composes them. `IntegerLemmas` has division, least elements of sets of
integers and sums over finite sets.

`Timer_proofs` continues with `AlwaysWakesForNext`, `TimersAreOnTime` and
`ActionsAreOnSlot`, for corrections of any size and tick lengths that change as the
oscillator allows. `WakesForNext` is not inductive: it only says that the wake-up is in
the right tick, and one more change of the tick length could move it out. The invariant
`Timed` measures instead how far the self message is from the tick of the first event,
in simulation time (`Off`), and adds what bounds it:

* the wake-up is `Exact` when it is scheduled, and again at the latest when the
  oscillator is about to change the tick, because it is an event of the same timer and
  has just made `sendOutEvents()` reschedule;
* the change then moves it by `DriftStep` in each tick that is left, and none is further
  away than the oscillator's own next event, so by no more than `Slip`; recalculating the
  clock does not move it (`RecalculateKeeps`), as the fraction of a tick is carried over
  (`Residual`);
* a timer event keeps its distance to the uncorrected clock (`due`), a cyclic event its
  slot (`CyclicOnSlot`), through corrections (`ClockCorrectionExact`).

The hypothesis of the three is `SlowDrift`: the change of a cycle of the oscillator plus
three times the largest drift are no more than a tick. It is what makes "at most a tick
late" true; the code tolerates that one tick and throws beyond it. The run `timer` is at
its limit (9 + 3 of 12 units).

`EventsAreKept` adds that no cyclic event is lost, registered twice or pushed further
and further away by corrections (`CyclicEventsKept`). That property bounds how far an
event is from the clock by its cycle and one correction, which is not inductive: the
bound alone would let the next correction add to it. The invariant `KeptTimed` says why
corrections do not add up (`Registers`): an event is within its cycle of the clock, or
within its cycle of the next event of `DummySync`, which is registered before the clock
is set back and so lies ahead of the tick that it is set back from. When it is handled,
the clock has made up for the last correction. Cycles may have any lengths, those of the
other clients be much longer or shorter than that of the corrections. Besides `SlowDrift`
the theorem needs `RoomForSetBack`: the first cycle of the period begins no earlier than
what a correction may take back. `Timer::ticks` is unsigned and nothing in
`clockCorrection()` keeps it from passing below zero, only that `DummySync` waits for the
first cycle (DummySync.cc:69), and `AfterFirst` is the part of the
invariant that follows this. A period without offset has that room as long as half the
precision is at most half the cycle; the run has 9 ticks for 5.

`TTPort_proofs`: the four invariants of the run `tt_port` (`AlwaysInOrder`,
`AlwaysSentInWindow`, `AlwaysSentInItsCycle`, `AlwaysIdleOnlyWhenBlocked`) for any number
of buffers with any cycles, receive windows, frames and corrections that are
`WellScheduled`. The exceptions of the shaper, that a frame comes out of turn or finds
the port busy, are unreachable then. What `InOrder` says of the map and the timer is not
inductive; the invariant `IInv` says why the two agree:

* each buffer has one window in the timer and one at the shaper, which are the same
  until the shaper has the message of the window (`OnTime`), and both are starts of the
  window in the cycle, whatever corrections have been made (`Slot`, `SlotMoves`);
* at most one message of a window is under way (`OneOf`): two windows that have both
  started less than a safety margin ago are the same (`BothDue`), so the timer wakes no
  buffer while another one is met (`NoneMet`);
* what the MAC sends ends before every window at the shaper (`PortFree`); by a safety
  margin more while a correction may still come before its end (`Slack`), so the frame of
  a window finds an open request (`Expected`);
* a frame that a TTIncoming holds has its event a safety margin before the next window
  of its buffer (`InTime`, `ArrivesBefore`), and a correction moves both;
* an open request waits because no first frame fits, up to what the last correction
  has made of it (`Blocked`).

`RcTraffic_proofs`: `TypeCorrect` and `LowerAlwaysYields` (invariant `PortsOK`:
an idle MAC means empty queues), the other half `LowerNeverOvertakes` (when no queue
is the first with frames, none has any: the least priority with frames would be),
then `OneFrameAtATime` and the action property `PortsArePaced`. The second invariant `LinksOK` says that a link is in one of three
phases (gap expired, gap running, a frame ahead of `n` ports with `numReset + n`
the number of ports) and that in the first two phases every port started the
last frame long enough ago: gap less jitter less what is left of the timer;
`Clear` that a port never gets a frame of a link that still waits there. A wrap
of the unsigned difference after a backward correction is part of the model, and
the theorem covers it.

`StreamReservation_proofs`: `TalkersAlwaysKnown` and `StreamsExactlyToListeners`
for every finite set of sinks in every tree, with any capacities, intervals and
delays. They are parts of `Sound`, which the run checks. `TalkersKnown` is not
inductive: a request that is passed on upwards reaches a table that knows the
talker because a node learns of a talker only from the node above
(`KnownAbove`: the talkers of a node are among those of the node above, and so
are the advertisements on the way down). `StreamsToListeners` needs that a sweep
in the same handler emits its signals before the new registration does (`Left`).
Each operator on tables has a lemma, `SignalsKeep` composes them, and each action
has a step of its own. `AlwaysSound` adds the
sums: `NotOverbooked` compares the reserved bandwidth of a port, a sum over its
listeners, with the capacity. An admission books exactly what the table then
counts, a renewal replaces an entry of the same bandwidth, and a sweep only takes
entries away, so the sum never grows except under the guard. The lemmas on sums over
finite sets (one element more, subsets weigh less, renaming changes nothing) are in
`IntegerLemmas`; the induction they need is over sets of cases.

`RcTraffic_proofs` also has `SizesAreCached`: the byte count a MAC keeps beside each
queue is the sum over the queued frames. The counter of the code is an unsigned
number, the model's one is modulo `SizeMod`, and the statement needs that it cannot
wrap: `RoomForBytes`, a hypothesis of the theorem, says that one frame of every link
fits the counter together. The code has a `size_t` counter and at most 4096 links of
1518 bytes. That at most one frame of a link is in a port (`OneFramePerGap`) is
proved, not assumed.

`SyncClient_proofs`: `AlwaysConsistent`, `ClockMovesLittle` and `CliquesAreNoticed`
for every cycle, precision, window, threshold, set of ports and memberships, and
every order in which events of one tick are handled. The three properties share one
invariant, `IInv`, which tells where in the cycle the client is. A client replays
recorded corrections, integrates, or follows. When it follows, the set `done` of
cyclic events handled since the last `async_eval` is one of five (`Phases`), each
cyclic event is registered once and due exactly at its slot of this or the next
cycle (`CyclicOnTime`), and a correction is registered only between `sync_eval` and
`async_up` (`Correcting`). From that follow:

* a correction moves the clock by at most the precision (`Small`), because every
  reading in the stack lies in the window and the average of finitely many such
  readings does too; and the clock does not jump over a slot, because the next one
  is further away than the precision (`SlotsInOrder`);
* the members that were out of schedule are in the half-window that is evaluated
  next, and in both while `done` is neither empty nor full (`Remembers`);
* the counter bounds the number of silent cycles (`Counts`).

Each operation of the scheduler has a lemma on what it does to a device (the
fields it changes and the events it registers), then each handler one on the
invariant; `EveryStep` composes them.

`SyncMaster_proofs`: the same three theorems of the synchronisation master, for any
number of masters, each of which may hear any frame at any time, in all nine states.
The invariant `IInv` says of each master that it is in one of three modes (`Sound`):

* `Resting`, in the five states that wait: no event of the cycle is registered, stack,
  counter and history are empty, and the three states with a timeout have their timer
  exactly once, unless a fault was met. Every handler that gives up ends here (`Waits`);
  this is where a forgotten `unregister` would show;
* `Replaying` recorded corrections, with `inc` and `clock_corr` registered;
* `Following` the cycle in TENTATIVE_SYNC, SYNC or STABLE, at one of five places in it
  (`Phases`, `CyclicOnTime`, `Correcting`) as a client is. `Counts` differs by state: in
  STABLE the counter bounds the silent cycles, in the others there are none. `Swept`
  says that the correction of a cycle leaves no reading to the next; TENTATIVE_SYNC is
  excepted, because a master may join it behind the slots of its first evaluation.

A master enters the cycle at the receive pit, by an IN frame in INTEGRATE or UNSYNC or
any frame in WAIT_4_CYCLE_START (`Joins`), or by the timeout of WAIT_4_CYCLE_START_CS,
which registers the events first and then sets the clock to 0: those whose slots lie
behind the old clock count as handled (`WaitCsTimeoutEnters`). Each handler of a
synchronised state either gives up or goes on (`Proceeds`). `EveryStep`
composes the lemmas: a step keeps `IInv`, a clock that stays synchronised moves by half
the window at most (`StaysClose`), and an evaluation that forgets enough members unheard
in the schedule leaves the state (`LeavesCliques`).

`PhoneTelematics_proofs` is about every number of listeners, threads and APNs, every
ring and any number of crashes of both sides and of stops, and assumes nothing of
`Serialised`, `Fifo` and `Drained`: callers of the Phone may overlap, callbacks may come in
any order, and a listener may hear of a new Phone before it has the callbacks of the old
one. Under these conditions two promises hold without exception: `NothingInvented`, that
a listener only has states that the APN had, and `NeverForgotten`, that a listener whose
receiver is registered is registered with a Phone that is up or has a restart broadcast on
its way to it. The promises of the sequence numbers do not: `ImplementsStateSync` and
`CaughtUp` fail when certain steps are taken, which the code does not exclude. The
theorems name these steps, and say that each promise is kept until one of them is taken
or a number has grown too old. They are theorems of `SafeSpec`, the specification without
its fairness, so that they hold of each beginning of a behaviour.

* `NeverGoesBack` (`ImplementsStateSync`) holds until half of the ring is used up while a
  callback, or a caller that has its number, is under way (`~InTime`; after a restart of
  the Phone old callbacks meet the new numbers), a caller gets its number for a state that
  has changed since (`StaleNumber`), or a listener resets its handler while something
  older than what it has is under way (`ForgetsTooSoon`). The invariant `Orderly` says of
  what is under way to a listener that all of it lies on the younger half of the ring,
  that of two callbacks about one APN the younger has the younger state, and that a
  callback that would take the listener back is refused, *as is everything older* (`Lined`).
  The last part is what makes the others survive a delivery in any order: whatever is
  accepted is younger than all that is to be refused, and so refuses it too.
  `Behind(top, seq)` says how many numbers have been used since `seq`; the lemmas
  `Between` and `SameOrder` carry this order from one number to the next and to that of a
  new Phone.
* `NothingIsMissed` (`CaughtUp`) holds until half of the ring has been used up since the
  newest callback to a served listener (`~Recent`; callbacks to other services are numbered as
  well), `StaleNumber`, two callers get one number (`SharedNumber`), a callback overtakes
  another one (`Overtakes`), or a service connects while callbacks are under way to it or when
  the last number it has is the one the Phone uses next (`ConnectsTooSoon`). The
  invariant `Complete` says that each callback under way to a registered listener will be
  accepted after the one before it (`Chain`), and that for every APN the last callback
  under way, the listener itself, or a job that is not done yet has the cached state
  (`Reaches`, `Owed`). `OneNumbered` and `CurrentNumber` say that one caller at most has a
  number that is not used up, and that it is the current one; `Membership` says who may be
  registered and what a process that is gone leaves behind.

In the run `phone` `Serialised` excludes `StaleNumber` and `SharedNumber`, `Fifo` excludes
`Overtakes`, `Drained` and no stops exclude `ConnectsTooSoon`, and with one listener
`Recent` always holds. In `phone_unordered` `Serialised` excludes `StaleNumber`, no crash of
the Phone excludes `ForgetsTooSoon`, and the bounds keep the numbers from becoming so old
that they would be taken for new ones.

Assumptions: the named `ASSUME`s on constants in `Timer`, `TTPort`, `RcTraffic`,
`StreamReservation`, `SyncClient`, `SyncMaster` and `PhoneTelematics` (the last about the
ring), and the hypotheses named above: `SlowDrift`, `RoomForSetBack`, `WellScheduled` and
`RoomForBytes`.
`SlotsInOrder` of `SyncClient` and `SyncMaster` says that the slots of a cycle lie in
the order in which the device works, with room for a correction between them. `SC.ned`
and `SM.ned` configure 80 for the precision, 160 for the window, 374 (client) and 630
(master) for the receive pit and 12500 for the cycle, and nothing in the code checks
them; without the assumption the theorems are
false (two events of one name would be registered).

Only model-checked: liveness (`QueuesDrain`, `EveryFrameLeaves`,
`RecoversWithReceiver`, `ColdStarts`, `StaysServed`), which is out of the
prover's reach; `ClockFollowsGlobalTime` of `Timer` (a quotient of a product of three
variables, beyond the arithmetic of the provers); the compression masters and the
cluster.

## 5. Not modelled

* **Credit-based shaping** (`AVBBuffer`, `AVBShaper`): credit is a real-valued
  account over bandwidth; only its questions to the reservation table are modelled.
* **Qbv gates, Qci filters, 802.1Q and backdoor shapers, `RCIncoming`**: discrete
  enough to be modelled in the manner of `TTPort`, not done yet. What the
  synchronisation devices hear stands for any incoming side.
* **Run-time changes of parameters** in Timer, TTShaper and the buffers, other than
  `enabled`.
* IPv4 filters (routing is INET's), TTE API (a C interface on top of the buffers),
  statistics, file formats and NED compositions, which have no behaviour over time of
  their own.

## 6. Plan

1. Proofs: `WakeUps` and `Dispatches` of the compression masters in the manner of
   `SyncMaster`.
2. `QbvPort`: gate control list, gates, queues and selection. Gates follow the list;
   a closed gate sends nothing.
3. `Incoming`: the minimum gaps of `RCIncoming`, Qci filters and meters.
4. `AvbPort`: credit, slopes and the shaper on top of `StreamReservation`.
