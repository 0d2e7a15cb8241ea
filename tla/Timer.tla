------------------------------- MODULE Timer -------------------------------
(***************************************************************************)
(* The scheduler of a CoRE4INET node: the Timer that turns the oscillator  *)
(* into a tick counter and wakes the registered events, the Period that    *)
(* counts its cycles through the Timer, the SimpleOscillator that changes  *)
(* the length of a tick once per cycle, and the DummySync module that      *)
(* corrects the clock once per cycle.                                      *)
(*                                                                         *)
(* Simulation time is counted in units that are finer than a tick, so that *)
(* the rounding in recalculate() and a tick of changing length are visible.*)
(* The methods of Timer are operators on the record tm, which holds the    *)
(* members of the class and the messages it has sent in this instant; an   *)
(* action is one message handler and composes the methods it calls.        *)
(***************************************************************************)
EXTENDS Integers, FiniteSets

CONSTANTS
  Periods,           \* the Period modules (their new-cycle events)
  TTClients,         \* modules with one cyclic time-triggered event (TTBuffer)
  TimerClients,      \* modules that register one-shot timer events (RCBuffer, ...)
  Osc, Sync,         \* the SimpleOscillator and the DummySync module
  PeriodOf,          \* the period of a time-triggered event
  ActionTime,        \* its action time in the cycle (ticks)
  CycleTicks, OffsetTicks,
  Delays,            \* the timers a TimerClient asks for (ticks)
  PreciseTick,       \* nominal length of a tick (units of simulation time)
  MaxDrift,          \* SimpleOscillator.max_drift (units)
  DriftStep,         \* largest change of the tick length per cycle (units)
  Precision,         \* half of DummySync.precission (ticks)
  AllowedEventDelay, \* Timer.allowedEventDelay
  MaxTime            \* bound on the simulation time

ActionClients == Periods \union TTClients \union {Osc, Sync}
Clients == ActionClients \union TimerClients

None == -1           \* no key, no self message

(* What the NED files and the modules' own checks guarantee: the clients   *)
(* are distinct modules, a schedule lies within its cycle (registerEvent   *)
(* drops an event with action_time > cycle_ticks), the oscillator cannot   *)
(* drift down to a tick of no length.                                      *)
ASSUME ClientsAssumption ==
  /\ Periods \intersect TTClients = {}
  /\ {Osc, Sync} \intersect (Periods \union TTClients) = {}
  /\ Osc # Sync
  /\ TimerClients \intersect ActionClients = {}
  /\ IsFiniteSet(Clients)
  /\ PeriodOf \in [ActionClients -> Periods]
  /\ \A p \in Periods : PeriodOf[p] = p

ASSUME ScheduleAssumption ==
  /\ CycleTicks \in [Periods -> Nat \ {0}]
  /\ OffsetTicks \in [Periods -> Nat]
  /\ \A p \in Periods : OffsetTicks[p] <= CycleTicks[p]
  /\ ActionTime \in [ActionClients -> Nat]
  /\ \A c \in ActionClients : ActionTime[c] <= CycleTicks[PeriodOf[c]]
  /\ \A p \in Periods : ActionTime[p] = 0
  /\ Delays \subseteq Nat

ASSUME ClockAssumption ==
  /\ PreciseTick \in Nat
  /\ MaxDrift \in Nat
  /\ MaxDrift < PreciseTick
  /\ DriftStep \in Nat
  /\ Precision \in Nat
  /\ AllowedEventDelay \in Int
  /\ MaxTime \in Nat

VARIABLES
  now,       \* simTime()
  tm,        \* the Timer and its oscillator, see TimerState
  cycles,    \* Period::cycles
  corrected, \* history: the sum of all clock corrections
  due        \* history: uncorrected tick at which a client's timer expires

vars == <<now, tm, cycles, corrected, due>>

TickLengths == (PreciseTick - MaxDrift) .. (PreciseTick + MaxDrift)

TimerState ==
  [tick       : TickLengths,                     \* Oscillator::current_tick
   ticks      : Int,
   lastRecalc : Int,
   recalcTime : Int,
   selfAt     : Int,                             \* arrival of selfMessage
   action     : [ActionClients -> Int],          \* registredActionTimeEvents
   timer      : [TimerClients -> Int],           \* registredTimerEvents
   inflight   : SUBSET Clients,                  \* sent, not yet handled
   error      : {"none", "overflow", "misscheduled"}]

Cycle(c)  == CycleTicks[PeriodOf[c]]
Offset(c) == OffsetTicks[PeriodOf[c]]
-----------------------------------------------------------------------------
(* The methods of Timer.                                                   *)

(* Mutant: recalculates again in the same instant.                         *)
Recalculate_Unguarded(t) ==
  LET elapsed == (now - t.lastRecalc) \div t.tick
  IN  [t EXCEPT !.ticks = @ + elapsed,
                !.lastRecalc = @ + elapsed * t.tick,
                !.recalcTime = now]

(* Mutant: forgets the fraction of the tick that has already passed.       *)
Recalculate_Rounding(t) ==
  IF now = t.recalcTime THEN t
  ELSE [t EXCEPT !.ticks = @ + (now - t.lastRecalc) \div t.tick,
                 !.lastRecalc = now,
                 !.recalcTime = now]

Recalculate(t) ==
  IF now = t.recalcTime THEN t
  ELSE LET elapsed == (now - t.lastRecalc) \div t.tick
       IN  [t EXCEPT !.ticks = @ + elapsed,
                     !.lastRecalc = @ + elapsed * t.tick,
                     !.recalcTime = now]

Keys(t) == ({t.action[c] : c \in ActionClients} \union
            {t.timer[c] : c \in TimerClients}) \ {None}

NextAction(t) == CHOOSE k \in Keys(t) : \A other \in Keys(t) : k <= other

Reschedule(t) ==
  LET r == Recalculate(t) IN
  IF Keys(r) = {} THEN [r EXCEPT !.selfAt = None]
  ELSE IF NextAction(r) < r.ticks
  THEN [r EXCEPT !.selfAt = None, !.error = "overflow"]
  ELSE [r EXCEPT !.selfAt = now + (NextAction(r) - r.ticks) * r.tick]

IsDue(key, t) == key # None /\ key <= t.ticks

SendOutEvents(t) ==
  LET r    == Recalculate(t)
      dueA == {c \in ActionClients : IsDue(r.action[c], r)}
      dueT == {c \in TimerClients : IsDue(r.timer[c], r)}
  IN  IF \E c \in dueT : r.ticks - r.timer[c] > 1
      THEN [r EXCEPT !.error = "misscheduled"]
      ELSE Reschedule(
             [r EXCEPT !.action = [c \in ActionClients |->
                                     IF c \in dueA THEN None ELSE r.action[c]],
                       !.timer  = [c \in TimerClients |->
                                     IF c \in dueT THEN None ELSE r.timer[c]],
                       !.inflight = @ \union dueA \union dueT])

(* Mutant: an earlier event does not move the wake-up.                     *)
Registered_NoReschedule(t, old, key) ==
  IF Keys(old) = {} \/ old.selfAt = None THEN Reschedule(t) ELSE t

(* The common end of both registerEvent methods: t holds the new event,    *)
(* old the state before it was inserted at key.                            *)
Registered(t, old, key) ==
  IF \/ Keys(old) = {}
     \/ old.selfAt = None
     \/ key < NextAction(old)
  THEN Reschedule(t)
  ELSE t

RegisterTimer(t, c, delay) ==
  LET r   == Recalculate(t)
      key == r.ticks + delay
  IN  IF delay = 0
      THEN [r EXCEPT !.inflight = @ \union {c}]
      ELSE Registered([r EXCEPT !.timer[c] = key], r, key)

PeriodTicks(t, c) == (Cycle(c) + t.ticks - Offset(c)) % Cycle(c)

(* Mutant: the next event is a cycle from now, not a cycle from its slot.  *)
RegisterAction_FromNow(t, c, nextCycle) ==
  LET r   == Recalculate(t)
      key == r.ticks + Cycle(c)
  IN  Registered([r EXCEPT !.action[c] = key], r, key)

RegisterAction(t, c, nextCycle) ==
  LET r        == Recalculate(t)
      distance == ActionTime[c] - PeriodTicks(r, c)
      key      == IF distance < 0 \/ (distance = 0 /\ nextCycle)
                  THEN r.ticks + Cycle(c) + distance
                  ELSE r.ticks + distance
  IN  IF key = r.ticks
      THEN [r EXCEPT !.inflight = @ \union {c}]
      ELSE Registered([r EXCEPT !.action[c] = key], r, key)

(* The first slot of c, from a slot key of c on, that is not before tick.  *)
NextSlot(c, key, tick) ==
  key + Cycle(c) * ((tick - key + Cycle(c) - 1) \div Cycle(c))

(* The parts of clockCorrection(): the timer events keep their distance to *)
(* the clock; of the time-triggered events that the clock jumps over, some *)
(* are sent at once and the rest waits for its next slot.                  *)

(* Mutant: the timer events keep their old keys.                           *)
ShiftedTimers_Stay(t, correction) == t.timer

ShiftedTimers(t, correction) ==
  [c \in TimerClients |-> IF t.timer[c] = None THEN None
                          ELSE t.timer[c] + correction]

JumpedOver(t, correction) ==
  {c \in ActionClients : t.action[c] # None /\ t.action[c] < t.ticks + correction}

(* Mutant: allowedEventDelay is not looked at.                             *)
SentAtOnce_AnyDelay(t, correction) == JumpedOver(t, correction)

SentAtOnce(t, correction) ==
  {c \in JumpedOver(t, correction) :
     \/ AllowedEventDelay < 0
     \/ t.ticks + correction - t.action[c] < AllowedEventDelay}

(* Mutant: the events that were jumped over are left where they are.       *)
MovedActions_LeftBehind(t, correction) == t.action

(* Mutant: the events that are sent at once stay registered.               *)
MovedActions_SentTwice(t, correction) ==
  [c \in ActionClients |->
     IF c \in JumpedOver(t, correction)
     THEN NextSlot(c, t.action[c], t.ticks + correction)
     ELSE t.action[c]]

(* Mutant: an event later than allowed is dropped, not moved a cycle on.   *)
MovedActions_Dropped(t, correction) ==
  [c \in ActionClients |->
     IF c \in JumpedOver(t, correction) THEN None ELSE t.action[c]]

MovedActions(t, correction) ==
  [c \in ActionClients |->
     IF c \in SentAtOnce(t, correction) THEN None
     ELSE IF c \in JumpedOver(t, correction)
     THEN NextSlot(c, t.action[c], t.ticks + correction)
     ELSE t.action[c]]

ClockCorrection(t, correction) ==
  SendOutEvents(Reschedule(
    [t EXCEPT !.ticks    = @ + correction,
              !.timer    = ShiftedTimers(t, correction),
              !.action   = MovedActions(t, correction),
              !.inflight = @ \union SentAtOnce(t, correction)]))
-----------------------------------------------------------------------------
(* Initialisation: every module registers its event at simulation time 0;  *)
(* Period and SimpleOscillator ask for the next cycle, the others do not.  *)

FirstKey(c) ==
  LET distance == ActionTime[c] - ((Cycle(c) - Offset(c)) % Cycle(c))
  IN  IF distance < 0 \/ (distance = 0 /\ c \in Periods \union {Osc})
      THEN Cycle(c) + distance
      ELSE distance

InitialTimer ==
  [tick       |-> PreciseTick,
   ticks      |-> 0,
   lastRecalc |-> 0,
   recalcTime |-> 0,
   selfAt     |-> None,
   action     |-> [c \in ActionClients |->
                     IF FirstKey(c) = 0 THEN None ELSE FirstKey(c)],
   timer      |-> [c \in TimerClients |-> None],
   inflight   |-> {c \in ActionClients : FirstKey(c) = 0},
   error      |-> "none"]

Init ==
  /\ now = 0
  /\ tm = [InitialTimer EXCEPT !.selfAt =
             IF Keys(InitialTimer) = {} THEN None
             ELSE NextAction(InitialTimer) * PreciseTick]
  /\ cycles = [p \in Periods |-> 0]
  /\ corrected = 0
  /\ due = [c \in TimerClients |-> 0]

(* The self message was inserted before anything that is sent in the       *)
(* instant of its arrival, so it is handled first.                         *)
CanHandle(c) ==
  /\ tm.error = "none"
  /\ tm.selfAt # now
  /\ c \in tm.inflight

Taken(c) == [tm EXCEPT !.inflight = @ \ {c}]

(* Timer::handleMessage for the self message.                              *)
Fire ==
  /\ tm.error = "none"
  /\ tm.selfAt = now
  /\ tm' = SendOutEvents([tm EXCEPT !.selfAt = None])
  /\ UNCHANGED <<now, cycles, corrected, due>>

(* Period::handleMessage.                                                  *)
NewCycle(p) ==
  /\ CanHandle(p)
  /\ cycles' = [cycles EXCEPT ![p] = @ + 1]
  /\ tm' = RegisterAction(Taken(p), p, TRUE)
  /\ UNCHANGED <<now, corrected, due>>

(* TTBuffer::handleMessage, as far as the scheduler is concerned.          *)
SendWindow(c) ==
  /\ CanHandle(c)
  /\ tm' = RegisterAction(Taken(c), c, TRUE)
  /\ UNCHANGED <<now, cycles, corrected, due>>

(* Mutant: the drift is not limited by max_drift.                          *)
ChangeDrift_NoLimit(length) ==
  /\ CanHandle(Osc)
  /\ tm' = RegisterAction([Taken(Osc) EXCEPT !.tick = @ + DriftStep], Osc, TRUE)
  /\ UNCHANGED <<now, cycles, corrected, due>>

(* SimpleOscillator::handleMessage: a new tick length within max_drift.    *)
ChangeDrift(length) ==
  /\ CanHandle(Osc)
  /\ length \in TickLengths
  /\ length - tm.tick \in (-DriftStep) .. DriftStep
  /\ tm' = RegisterAction([Taken(Osc) EXCEPT !.tick = length], Osc, TRUE)
  /\ UNCHANGED <<now, cycles, corrected, due>>

(* How many ticks the action time of Sync is off the simulation time.      *)
Deviation ==
  LET cycle == Cycle(Sync)
      ahead == ((now \div PreciseTick) - ActionTime[Sync]) % cycle
  IN  IF ahead > cycle \div 2 THEN ahead - cycle ELSE ahead

(* DummySync::handleMessage: the deviation and a random error.             *)
Synchronise(noise) ==
  /\ CanHandle(Sync)
  /\ LET again == RegisterAction(Taken(Sync), Sync, TRUE) IN
     IF cycles[PeriodOf[Sync]] > 0
     THEN /\ tm' = ClockCorrection(again, Deviation + noise)
          /\ corrected' = corrected + Deviation + noise
     ELSE /\ tm' = again
          /\ UNCHANGED corrected
  /\ UNCHANGED <<now, cycles, due>>

(* A module registers a timer event, at any time (a frame has arrived).    *)
StartTimer(c, delay) ==
  /\ tm.error = "none"
  /\ tm.timer[c] = None
  /\ c \notin tm.inflight
  /\ tm' = RegisterTimer(tm, c, delay)
  /\ due' = [due EXCEPT ![c] = Recalculate(tm).ticks - corrected + delay]
  /\ UNCHANGED <<now, cycles, corrected>>

(* A module handles its expired timer event.                               *)
Expire(c) ==
  /\ CanHandle(c)
  /\ tm' = Taken(c)
  /\ UNCHANGED <<now, cycles, corrected, due>>

(* Nothing is left to do in this instant.                                  *)
Advance(time) ==
  /\ tm.error = "none"
  /\ tm.inflight = {}
  /\ tm.selfAt # now
  /\ time > now
  /\ tm.selfAt # None => time <= tm.selfAt
  /\ now' = time
  /\ UNCHANGED <<tm, cycles, corrected, due>>

Next ==
  \/ Fire
  \/ \E p \in Periods : NewCycle(p)
  \/ \E c \in TTClients : SendWindow(c)
  \/ \E length \in TickLengths : ChangeDrift(length)
  \/ \E noise \in (-Precision) .. Precision : Synchronise(noise)
  \/ \E c \in TimerClients, delay \in Delays : StartTimer(c, delay)
  \/ \E c \in TimerClients : Expire(c)
  \/ \E time \in now .. MaxTime : Advance(time)

Spec == Init /\ [][Next]_vars
-----------------------------------------------------------------------------
(***************************************************************************)
(* Properties.                                                             *)
(***************************************************************************)

(* Every member keeps its type.                                            *)
TypeOK ==
  /\ now \in Nat
  /\ tm \in TimerState
  /\ cycles \in [Periods -> Nat]
  /\ corrected \in Int
  /\ due \in [TimerClients -> Int]

(* The "overflow" exception of reschedule() is unreachable: whatever is    *)
(* registered, corrected or drifting, the next action is never found in    *)
(* the past when the self message is scheduled.                            *)
NoOverflow == tm.error # "overflow"

(* While a time-triggered event waits for its handler, the clock is that   *)
(* of this very instant and every event still registered lies ahead of it. *)
(* clockCorrection() does not recalculate the clock and relies on this.    *)
HandlersSeeFreshClock ==
  (tm.error = "none" /\ tm.inflight \intersect ActionClients # {})
    => /\ tm.recalcTime = now
       /\ \A key \in Keys(tm) : key > tm.ticks

(* How late an event may be in ticks when the tick length has changed      *)
(* after its wake-up was scheduled.                                        *)
Lateness == IF MaxDrift = 0 THEN 0 ELSE 1

(* Whenever something is registered, the self message is scheduled, not in *)
(* the past, and for the tick of the next action: registerEvent() and the  *)
(* handlers keep the one wake-up right for all the events.  So no timer    *)
(* event is found more than a tick late, and the exception "THIS SHOULD    *)
(* NOT HAPPEN!" of sendOutEvents() is unreachable.                         *)
WakesForNext ==
  /\ tm.error # "misscheduled"
  /\ (tm.error = "none" /\ Keys(tm) # {})
       => /\ tm.selfAt >= now
          /\ LET wake == tm.ticks + (tm.selfAt - tm.lastRecalc) \div tm.tick
             IN  wake - NextAction(tm) \in (-Lateness) .. Lateness

(* A timer event is sent exactly when the requested number of ticks has    *)
(* elapsed on the uncorrected clock: "the timer events that must be        *)
(* independent of clockCorrection".                                        *)
TimerOnTime ==
  [][\A c \in tm'.inflight \ tm.inflight : c \in TimerClients =>
       tm'.ticks - corrected' - due'[c] \in 0 .. Lateness]_vars

(* A time-triggered event is sent at its action time in the cycle, or in   *)
(* the correction that jumps over it and then no later than the jump and   *)
(* than allowedEventDelay permits.                                         *)
ActionOnSlot ==
  [][\A c \in tm'.inflight \ tm.inflight : c \in ActionClients =>
       LET late == (PeriodTicks(tm', c) - ActionTime[c]) % Cycle(c)
           jump == corrected' - corrected
       IN  \/ late <= Lateness
           \/ /\ late <= jump
              /\ AllowedEventDelay < 0 \/ late < AllowedEventDelay]_vars

(* The farthest a single correction sets the clock back.                   *)
MaxSetBack == Cycle(Sync) \div 2 + Precision

(* No cyclic event is lost or duplicated by corrections, drift and         *)
(* re-registration: it is either waiting for its handler or registered     *)
(* once, within a cycle and what the clock may have been set back.         *)
CyclicEventsKept ==
  tm.error = "none" =>
    \A c \in ActionClients :
      IF c \in tm.inflight THEN tm.action[c] = None
      ELSE tm.action[c] - tm.ticks \in (-Lateness) .. (Cycle(c) + MaxSetBack)

(* How far drift takes the clock from the global time in a cycle, in ticks  *)
(* that have begun.                                                         *)
DriftPerCycle == (Cycle(Sync) * MaxDrift + PreciseTick - MaxDrift - 1) \div (PreciseTick - MaxDrift)

(* The position in the cycle of a Period that starts with the simulation   *)
(* stays within the precision of the global time, one tick of rounding     *)
(* each side and the drift of a cycle, however the corrections fall        *)
(* between the wake-ups.                                                   *)
ClockFollowsGlobalTime ==
  (tm.error = "none" /\ Offset(Sync) = 0) =>
    LET local == PeriodTicks(Recalculate(tm), Sync)
        ahead == (local - (now \div PreciseTick)) % Cycle(Sync)
        apart == Precision + 1 + DriftPerCycle
    IN  ahead <= apart \/ ahead >= Cycle(Sync) - apart
=============================================================================
