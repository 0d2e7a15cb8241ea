---------------------------- MODULE Timer_proofs ----------------------------
(***************************************************************************)
(* Proofs about Timer for all periods, schedules, timers, drifts and       *)
(* corrections: IInv holds initially and is kept by every action, and it   *)
(* implies the properties at the end of this module.                       *)
(***************************************************************************)
EXTENDS Timer, IntegerLemmas, FiniteSetTheorems, TLAPS

(* What recalculate() changes: nothing but the tick counter and its time.  *)
SameButClock(s, t) ==
  /\ s.tick = t.tick
  /\ s.action = t.action
  /\ s.timer = t.timer
  /\ s.inflight = t.inflight

(* recalculate() brings the clock to this instant and changes nothing      *)
(* else; a second call in the same instant changes nothing at all.         *)
LEMMA RecalculateType ==
  ASSUME NEW t \in TimerState, now \in Nat
  PROVE  /\ Recalculate(t) \in TimerState
         /\ Recalculate(t).recalcTime = now
         /\ t.recalcTime = now => Recalculate(t) = t
         /\ SameButClock(Recalculate(t), t)
         /\ Recalculate(t).selfAt = t.selfAt
         /\ Recalculate(t).error = t.error
<1>1. t.tick \in Nat \ {0}
  BY ClockAssumption DEF TimerState, TickLengths
<1>2. CASE now = t.recalcTime
  BY <1>2 DEF Recalculate, SameButClock
<1>3. CASE now # t.recalcTime
  <2> DEFINE elapsed == (now - t.lastRecalc) \div t.tick
             span == elapsed * t.tick
  <2>1. elapsed \in Int /\ span \in Int
    BY <1>1, Division DEF TimerState
  <2>2. Recalculate(t) = [t EXCEPT !.ticks = @ + elapsed,
                                   !.lastRecalc = @ + span,
                                   !.recalcTime = now]
    BY <1>3 DEF Recalculate
  <2> HIDE DEF elapsed, span
  <2> DEFINE u == [t EXCEPT !.ticks = @ + elapsed]
             v == [u EXCEPT !.lastRecalc = @ + span]
             w == [v EXCEPT !.recalcTime = now]
  <2>3. u \in TimerState /\ SameButClock(u, t) /\ u.selfAt = t.selfAt /\ u.error = t.error
    BY <2>1 DEF TimerState, SameButClock
  <2>4. v \in TimerState /\ SameButClock(v, t) /\ v.selfAt = t.selfAt /\ v.error = t.error
    <3> HIDE DEF u
    <3> QED
      BY <2>1, <2>3 DEF TimerState, SameButClock
  <2>5. /\ w \in TimerState /\ SameButClock(w, t) /\ w.selfAt = t.selfAt
        /\ w.error = t.error /\ w.recalcTime = now
    <3> HIDE DEF v
    <3> QED
      BY <2>1, <2>4 DEF TimerState, SameButClock
  <2>6. Recalculate(t) = w
    BY <2>2
  <2> HIDE DEF w
  <2> QED
    BY <1>3, <2>5, <2>6
<1> QED
  BY <1>2, <1>3

(* nextAction() is a registered key and the smallest of them.              *)
LEMMA NextActionIsLeast ==
  ASSUME NEW t \in TimerState, Keys(t) # {}
  PROVE  /\ NextAction(t) \in Keys(t)
         /\ Keys(t) \subseteq Int
         /\ \A key \in Keys(t) : NextAction(t) <= key
<1>1. /\ t.action \in [ActionClients -> Int]
      /\ t.timer \in [TimerClients -> Int]
  BY DEF TimerState
<1>2. Keys(t) \in SUBSET Int
  BY <1>1 DEF Keys
<1>3. IsFiniteSet({t.action[c] : c \in ActionClients})
  <2> DEFINE I == {t.action[c] : c \in ActionClients}
  <2>1. t.action \in Surjection(ActionClients, I)
    BY <1>1 DEF Surjection
  <2>2. IsFiniteSet(ActionClients)
    BY ClientsAssumption, FS_Subset DEF Clients
  <2> QED
    BY <2>1, <2>2, FS_Surjection
<1>4. IsFiniteSet({t.timer[c] : c \in TimerClients})
  <2> DEFINE I == {t.timer[c] : c \in TimerClients}
  <2>1. t.timer \in Surjection(TimerClients, I)
    BY <1>1 DEF Surjection
  <2>2. IsFiniteSet(TimerClients)
    BY ClientsAssumption, FS_Subset DEF Clients
  <2> QED
    BY <2>1, <2>2, FS_Surjection
<1>5. IsFiniteSet(Keys(t))
  <2>1. IsFiniteSet({t.action[c] : c \in ActionClients} \union
                    {t.timer[c] : c \in TimerClients})
    BY <1>3, <1>4, FS_Union
  <2> QED
    BY <2>1, FS_Subset DEF Keys
<1>6. \E least \in Keys(t) : \A key \in Keys(t) : least <= key
  BY <1>2, <1>5, LeastInteger
<1> QED
  BY <1>2, <1>6 DEF NextAction

(* A Timer has a wake-up whenever it has an event.                         *)
Wakeable(t) == t.selfAt = None => Keys(t) = {}

(* reschedule() keeps the events and has a wake-up for them; it does not   *)
(* throw as long as no key lies in the past of the recalculated clock.     *)
LEMMA RescheduleType ==
  ASSUME NEW t \in TimerState, now \in Nat
  PROVE  LET s == Reschedule(t) IN
         /\ s \in TimerState
         /\ s.recalcTime = now
         /\ s.ticks = Recalculate(t).ticks
         /\ SameButClock(s, t)
         /\ (\A key \in Keys(t) : key >= s.ticks) =>
              /\ s.error = t.error
              /\ Wakeable(s)
<1> DEFINE r == Recalculate(t)
           s == Reschedule(t)
<1>1. /\ r \in TimerState
      /\ r.recalcTime = now
      /\ SameButClock(r, t)
      /\ r.error = t.error
  BY RecalculateType
<1>2. Keys(r) = Keys(t)
  BY <1>1 DEF Keys, SameButClock
<1> HIDE DEF r
<1>3. CASE Keys(r) = {}
  <2>1. s = [r EXCEPT !.selfAt = None]
    BY <1>3 DEF Reschedule, r
  <2>2. Keys(s) = {}
    BY <2>1, <1>3, <1>1 DEF Keys, TimerState
  <2> QED
    BY <2>1, <2>2, <1>1 DEF TimerState, SameButClock, Wakeable, None, r
<1>4. CASE Keys(r) # {} /\ NextAction(r) < r.ticks
  <2>1. s = [r EXCEPT !.selfAt = None, !.error = "overflow"]
    BY <1>4 DEF Reschedule, r
  <2>2. NextAction(r) \in Keys(t)
    BY <1>1, <1>2, <1>4, NextActionIsLeast
  <2>3. s \in TimerState /\ s.ticks = r.ticks /\ s.recalcTime = now /\ SameButClock(s, t)
    <3> DEFINE u == [r EXCEPT !.selfAt = None]
    <3>1. u \in TimerState /\ u.ticks = r.ticks /\ u.recalcTime = now /\ SameButClock(u, t)
      BY <1>1 DEF TimerState, SameButClock, None
    <3>2. s = [u EXCEPT !.error = "overflow"]
      BY <2>1
    <3> HIDE DEF u, s
    <3> QED
      BY <3>1, <3>2 DEF TimerState, SameButClock
  <2>4. ~(\A key \in Keys(t) : key >= s.ticks)
    <3>1. NextAction(r) \in Int /\ r.ticks \in Int
      BY <1>1, <1>4, NextActionIsLeast DEF TimerState
    <3> QED
      BY <3>1, <2>2, <2>3, <1>4
  <2> QED
    BY <2>3, <2>4 DEF r
<1>5. CASE Keys(r) # {} /\ ~(NextAction(r) < r.ticks)
  <2> DEFINE wait == NextAction(r) - r.ticks
  <2>1. s = [r EXCEPT !.selfAt = now + wait * r.tick]
    BY <1>5 DEF Reschedule, r
  <2>2. wait * r.tick \in Nat
    <3>1. wait \in Nat
      BY <1>1, <1>5, NextActionIsLeast DEF TimerState
    <3>2. r.tick \in Nat
      BY <1>1, ClockAssumption DEF TimerState, TickLengths
    <3> HIDE DEF wait
    <3> QED
      BY <3>1, <3>2
  <2> HIDE DEF wait
  <2> QED
    BY <2>1, <2>2, <1>1 DEF TimerState, SameButClock, Wakeable, None, r
<1> QED
  BY <1>3, <1>4, <1>5

(* The clock of t is that of this instant and all its events are ahead.    *)
Ahead(t) == \A key \in Keys(t) : key > t.ticks

Fresh(t) == t.recalcTime = now /\ Ahead(t)

(* sendOutEvents() never throws "overflow", and unless it throws at all    *)
(* every event that it leaves registered lies ahead of the clock.          *)
LEMMA SendOutEventsType ==
  ASSUME NEW t \in TimerState, now \in Nat
  PROVE  LET s == SendOutEvents(t) IN
         /\ s \in TimerState
         /\ t.error # "overflow" => s.error # "overflow"
         /\ s.error = "none" => Wakeable(s) /\ Fresh(s)
<1> DEFINE r == Recalculate(t)
           dueA == {c \in ActionClients : IsDue(r.action[c], r)}
           dueT == {c \in TimerClients : IsDue(r.timer[c], r)}
           sent == [r EXCEPT !.action = [c \in ActionClients |->
                                           IF c \in dueA THEN None ELSE r.action[c]],
                             !.timer  = [c \in TimerClients |->
                                           IF c \in dueT THEN None ELSE r.timer[c]],
                             !.inflight = @ \union dueA \union dueT]
           s == SendOutEvents(t)
<1>1. /\ r \in TimerState
      /\ r.recalcTime = now
      /\ r.error = t.error
  BY RecalculateType
<1>2. CASE \E c \in dueT : r.ticks - r.timer[c] > 1
  <2>1. s = [r EXCEPT !.error = "misscheduled"]
    BY <1>2 DEF SendOutEvents
  <2> HIDE DEF r, s
  <2>2. s \in TimerState /\ s.error = "misscheduled"
    BY <2>1, <1>1 DEF TimerState
  <2> QED
    BY <2>2 DEF s
<1>3. CASE ~(\E c \in dueT : r.ticks - r.timer[c] > 1)
  <2>1. s = Reschedule(sent)
    BY <1>3 DEF SendOutEvents
  <2> HIDE DEF r, s
  <2>2. dueA \subseteq Clients /\ dueT \subseteq Clients
    BY DEF Clients
  <2>3. /\ r.action \in [ActionClients -> Int]
        /\ r.timer \in [TimerClients -> Int]
        /\ r.inflight \in SUBSET Clients
        /\ r.ticks \in Int
    BY <1>1 DEF TimerState
  <2>4. /\ sent.action = [c \in ActionClients |->
                            IF c \in dueA THEN None ELSE r.action[c]]
        /\ sent.timer = [c \in TimerClients |->
                            IF c \in dueT THEN None ELSE r.timer[c]]
        /\ sent.ticks = r.ticks
        /\ sent.recalcTime = now
        /\ sent.error = t.error
    BY <1>1 DEF TimerState
  <2>5. sent \in TimerState
    <3> DEFINE A == [c \in ActionClients |-> IF c \in dueA THEN None ELSE r.action[c]]
               T == [c \in TimerClients |-> IF c \in dueT THEN None ELSE r.timer[c]]
               F == r.inflight \union dueA \union dueT
    <3>1. A \in [ActionClients -> Int] /\ T \in [TimerClients -> Int] /\ F \in SUBSET Clients
      BY <2>2, <2>3 DEF None
    <3>2. sent = [r EXCEPT !.action = A, !.timer = T, !.inflight = F]
      OBVIOUS
    <3> HIDE DEF A, T, F, sent
    <3> QED
      BY <3>1, <3>2, <1>1 DEF TimerState
  <2>6. Recalculate(sent).ticks = r.ticks
    BY <2>4, <2>5, RecalculateType
  <2>7. \A key \in Keys(sent) : key > r.ticks
    <3>1. \A c \in ActionClients : sent.action[c] # None => sent.action[c] > r.ticks
      BY <2>3, <2>4 DEF IsDue, None
    <3>2. \A c \in TimerClients : sent.timer[c] # None => sent.timer[c] > r.ticks
      BY <2>3, <2>4 DEF IsDue, None
    <3> HIDE DEF sent
    <3> QED
      BY <3>1, <3>2 DEF Keys
  <2> HIDE DEF sent
  <2>8. /\ s \in TimerState
        /\ s.recalcTime = now
        /\ s.ticks = r.ticks
        /\ SameButClock(s, sent)
        /\ (\A key \in Keys(sent) : key >= s.ticks) => s.error = sent.error /\ Wakeable(s)
    BY <2>1, <2>5, <2>6, RescheduleType
  <2>9. \A key \in Keys(sent) : key >= s.ticks
    <3>1. Keys(sent) \subseteq Int
      BY <2>5, NextActionIsLeast
    <3> QED
      BY <3>1, <2>3, <2>7, <2>8
  <2>10. Ahead(s)
    <3>1. Keys(s) = Keys(sent)
      BY <2>8 DEF Keys, SameButClock
    <3> QED
      BY <3>1, <2>7, <2>8 DEF Ahead
  <2> QED
    BY <2>4, <2>8, <2>9, <2>10 DEF Fresh, s
<1> QED
  BY <1>2, <1>3

(* A new event at an arbitrary key: the wake-up is only moved forward to an *)
(* event that is the earliest one and not in the past.                     *)
LEMMA RegisteredType ==
  ASSUME NEW t \in TimerState, NEW old \in TimerState, now \in Nat,
         NEW key \in Int, Wakeable(old),
         t.selfAt = old.selfAt, t.recalcTime = now, key >= t.ticks,
         Keys(t) \subseteq Keys(old) \union {key}
  PROVE  LET s == Registered(t, old, key) IN
         /\ s \in TimerState
         /\ s.error = t.error
         /\ s.recalcTime = now
         /\ s.ticks = t.ticks
         /\ Keys(s) = Keys(t)
         /\ s.inflight = t.inflight /\ s.action = t.action
         /\ Wakeable(s)
<1> DEFINE s == Registered(t, old, key)
<1>1. CASE s = t /\ ~(Keys(old) = {} \/ old.selfAt = None \/ key < NextAction(old))
  BY <1>1 DEF Wakeable
<1>2. CASE /\ s = Reschedule(t)
           /\ Keys(old) = {} \/ old.selfAt = None \/ key < NextAction(old)
  <2>1. Keys(old) # {} => key < NextAction(old)
    BY <1>2 DEF Wakeable
  <2>2. \A k \in Keys(t) : k >= key /\ k \in Int
    <3> SUFFICES ASSUME NEW k \in Keys(t), k # key
                 PROVE  k >= key /\ k \in Int
      OBVIOUS
    <3>1. k \in Keys(old)
      OBVIOUS
    <3>2. NextAction(old) <= k /\ k \in Int /\ NextAction(old) \in Int
      BY <3>1, NextActionIsLeast
    <3> QED
      BY <3>1, <3>2, <2>1
  <2>3. Recalculate(t) = t
    BY RecalculateType
  <2>4. \A k \in Keys(t) : k >= t.ticks
    <3>1. t.ticks \in Int
      BY DEF TimerState
    <3> QED
      BY <3>1, <2>2
  <2> HIDE DEF s
  <2>5. /\ s \in TimerState
        /\ s.recalcTime = now
        /\ s.ticks = t.ticks
        /\ SameButClock(s, t)
        /\ s.error = t.error
        /\ Wakeable(s)
    BY <1>2, <2>3, <2>4, RescheduleType
  <2> QED
    BY <2>5 DEF SameButClock, Keys, s
<1> QED
  BY <1>1, <1>2 DEF Registered

(* registerEvent() of a timer event keeps the wake-up, and keeps every     *)
(* event ahead of a fresh clock.                                           *)
LEMMA RegisterTimerType ==
  ASSUME NEW t \in TimerState, now \in Nat, Wakeable(t),
         NEW c \in TimerClients, NEW delay \in Nat
  PROVE  LET s == RegisterTimer(t, c, delay) IN
         /\ s \in TimerState
         /\ s.error = t.error
         /\ Wakeable(s)
         /\ s.inflight \subseteq t.inflight \union {c}
         /\ t.inflight \subseteq s.inflight
         /\ s.action = t.action /\ s.ticks = Recalculate(t).ticks
         /\ Fresh(t) => Fresh(s)
<1> DEFINE r == Recalculate(t)
           key == r.ticks + delay
           new == [r EXCEPT !.timer[c] = key]
           s == RegisterTimer(t, c, delay)
<1>1. /\ r \in TimerState
      /\ r.recalcTime = now
      /\ r.error = t.error
      /\ SameButClock(r, t)
      /\ r.selfAt = t.selfAt
      /\ t.recalcTime = now => r = t
  BY RecalculateType
<1>2. Wakeable(r)
  BY <1>1 DEF Wakeable, Keys, SameButClock
<1> HIDE DEF r
<1>3. CASE delay = 0
  <2>1. s = [r EXCEPT !.inflight = @ \union {c}]
    BY <1>3 DEF RegisterTimer, r
  <2>2. r.inflight \union {c} \in SUBSET Clients
    BY <1>1 DEF TimerState, Clients
  <2> HIDE DEF s
  <2>3. /\ s \in TimerState
        /\ s.error = r.error /\ s.selfAt = r.selfAt
        /\ s.action = r.action /\ s.timer = r.timer
        /\ s.ticks = r.ticks /\ s.recalcTime = r.recalcTime
        /\ s.inflight = r.inflight \union {c}
    BY <2>1, <2>2, <1>1 DEF TimerState
  <2> QED
    BY <2>3, <1>1, <1>2 DEF Wakeable, Fresh, Ahead, Keys, SameButClock, s, r
<1>4. CASE delay # 0
  <2>1. s = Registered(new, r, key)
    BY <1>4 DEF RegisterTimer, r
  <2>2. key \in Int /\ key > r.ticks /\ r.ticks \in Int
    BY <1>1, <1>4 DEF TimerState
  <2> HIDE DEF s, key
  <2>3. /\ new \in TimerState
        /\ new.error = r.error /\ new.selfAt = r.selfAt
        /\ new.action = r.action
        /\ new.timer = [r.timer EXCEPT ![c] = key]
        /\ new.ticks = r.ticks /\ new.recalcTime = r.recalcTime
        /\ new.inflight = r.inflight
    BY <2>2, <1>1 DEF TimerState
  <2>4. r.timer \in [TimerClients -> Int]
    BY <1>1 DEF TimerState
  <2> HIDE DEF new
  <2>5. Keys(new) \subseteq Keys(r) \union {key}
    BY <2>3, <2>4 DEF Keys
  <2>6. /\ s \in TimerState
        /\ s.error = new.error
        /\ s.recalcTime = now
        /\ s.ticks = new.ticks
        /\ Keys(s) = Keys(new)
        /\ s.inflight = new.inflight /\ s.action = new.action
        /\ Wakeable(s)
    BY <1>1, <1>2, <2>1, <2>2, <2>3, <2>5, RegisteredType
  <2>7. Fresh(t) => Fresh(s)
    BY <1>1, <2>2, <2>3, <2>5, <2>6 DEF Fresh, Ahead
  <2> QED
    BY <1>1, <2>3, <2>6, <2>7 DEF SameButClock, s, r
<1> QED
  BY <1>3, <1>4

(* The schedule of a client: a positive cycle and an action time in it.    *)
LEMMA PeriodType ==
  ASSUME NEW c \in ActionClients
  PROVE  Cycle(c) \in Nat \ {0} /\ Offset(c) \in Nat /\ ActionTime[c] \in 0 .. Cycle(c)
<1>1. PeriodOf[c] \in Periods
  BY ClientsAssumption
<1> QED
  BY <1>1, ScheduleAssumption DEF Cycle, Offset

(* Asked for the next cycle, registerEvent() never sends at once.          *)
LEMMA RegisterActionType ==
  ASSUME NEW t \in TimerState, now \in Nat, Wakeable(t), NEW c \in ActionClients
  PROVE  LET s == RegisterAction(t, c, TRUE) IN
         /\ s \in TimerState
         /\ s.error = t.error
         /\ Wakeable(s)
         /\ s.inflight = t.inflight /\ s.ticks = Recalculate(t).ticks
         /\ \E key \in Int : /\ s.action = [t.action EXCEPT ![c] = key]
                             /\ key > s.ticks /\ key <= s.ticks + Cycle(c)
         /\ Fresh(t) => Fresh(s)
<1> DEFINE r == Recalculate(t)
           distance == ActionTime[c] - PeriodTicks(r, c)
           key == IF distance < 0 \/ (distance = 0 /\ TRUE)
                  THEN r.ticks + Cycle(c) + distance
                  ELSE r.ticks + distance
           new == [r EXCEPT !.action[c] = key]
           s == RegisterAction(t, c, TRUE)
<1>1. /\ r \in TimerState
      /\ r.recalcTime = now
      /\ r.error = t.error
      /\ SameButClock(r, t)
      /\ r.selfAt = t.selfAt
      /\ t.recalcTime = now => r = t
  BY RecalculateType
<1>2. Wakeable(r)
  BY <1>1 DEF Wakeable, Keys, SameButClock
<1>3. key \in Int /\ key > r.ticks /\ key <= r.ticks + Cycle(c) /\ r.ticks \in Int
  <2> HIDE DEF r
  <2>1. r.ticks \in Int
    BY <1>1 DEF TimerState
  <2>2. PeriodTicks(r, c) \in 0 .. (Cycle(c) - 1)
    <3> DEFINE a == Cycle(c) + r.ticks - Offset(c)
               d == Cycle(c)
    <3>1. a \in Int /\ d \in Nat \ {0}
      BY <2>1, PeriodType
    <3> HIDE DEF a, d
    <3>2. a % d \in 0 .. (d - 1)
      BY <3>1, Remainder
    <3> QED
      BY <3>2 DEF PeriodTicks, a, d
  <2> QED
    BY <2>1, <2>2, PeriodType
<1>4. s = Registered(new, r, key)
  BY <1>3 DEF RegisterAction
<1> HIDE DEF r, s, key
<1>5. /\ new \in TimerState
      /\ new.error = r.error /\ new.selfAt = r.selfAt
      /\ new.timer = r.timer
      /\ new.action = [r.action EXCEPT ![c] = key]
      /\ new.ticks = r.ticks /\ new.recalcTime = r.recalcTime
      /\ new.inflight = r.inflight
  BY <1>1, <1>3 DEF TimerState
<1>6. r.action \in [ActionClients -> Int]
  BY <1>1 DEF TimerState
<1> HIDE DEF new
<1>7. Keys(new) \subseteq Keys(r) \union {key}
  BY <1>5, <1>6 DEF Keys
<1>8. /\ s \in TimerState
      /\ s.error = new.error
      /\ s.recalcTime = now
      /\ s.ticks = new.ticks
      /\ Keys(s) = Keys(new)
      /\ s.inflight = new.inflight /\ s.action = new.action
      /\ Wakeable(s)
  BY <1>1, <1>2, <1>3, <1>4, <1>5, <1>7, RegisteredType
<1>9. Fresh(t) => Fresh(s)
  BY <1>1, <1>3, <1>5, <1>7, <1>8 DEF Fresh, Ahead
<1> QED
  BY <1>1, <1>3, <1>5, <1>8, <1>9 DEF SameButClock, s, r

(* The loop of clockCorrection() ends at a slot that the clock has not     *)
(* passed.                                                                 *)
LEMMA NextSlotAhead ==
  ASSUME NEW c \in ActionClients, NEW key \in Int, NEW tick \in Int
  PROVE  NextSlot(c, key, tick) \in Int /\ NextSlot(c, key, tick) >= tick
<1> DEFINE a == tick - key + Cycle(c) - 1
           span == Cycle(c) * (a \div Cycle(c))
<1>1. Cycle(c) \in Nat \ {0} /\ a \in Int
  BY PeriodType
<1>2. span \in Int /\ a < span + Cycle(c)
  <2> DEFINE d == Cycle(c)
  <2> HIDE DEF a, d
  <2>1. d \in Nat \ {0} /\ a \in Int
    BY <1>1 DEF d
  <2>2. a \div d \in Int /\ a < d * (a \div d) + d
    BY <2>1, Division
  <2>3. d * (a \div d) \in Int
    BY <2>1, <2>2
  <2> QED
    BY <2>2, <2>3 DEF d
<1>3. NextSlot(c, key, tick) = key + span
  BY DEF NextSlot
<1> HIDE DEF span
<1> QED
  BY <1>1, <1>2, <1>3

(* The clock and its events between the two loops of clockCorrection().    *)
Corrected(t, correction) ==
  [t EXCEPT !.ticks    = @ + correction,
            !.timer    = ShiftedTimers(t, correction),
            !.action   = MovedActions(t, correction),
            !.inflight = @ \union SentAtOnce(t, correction)]

(* None of the events that stay registered lies in the past.               *)
LEMMA CorrectedType ==
  ASSUME NEW t \in TimerState, now \in Nat, Fresh(t), NEW correction \in Int
  PROVE  LET moved == Corrected(t, correction) IN
         /\ moved \in TimerState
         /\ moved.ticks = t.ticks + correction
         /\ moved.timer = ShiftedTimers(t, correction)
         /\ moved.action = MovedActions(t, correction)
         /\ moved.inflight = t.inflight \union SentAtOnce(t, correction)
         /\ moved.recalcTime = now /\ moved.lastRecalc = t.lastRecalc
         /\ moved.error = t.error
         /\ \A key \in Keys(moved) : key >= moved.ticks
<1> DEFINE sent   == SentAtOnce(t, correction)
           late   == JumpedOver(t, correction)
           timer  == ShiftedTimers(t, correction)
           action == MovedActions(t, correction)
           moved  == [t EXCEPT !.ticks    = @ + correction,
                               !.timer    = timer,
                               !.action   = action,
                               !.inflight = @ \union sent]
<1>1. /\ t.ticks \in Int
      /\ t.action \in [ActionClients -> Int]
      /\ t.timer \in [TimerClients -> Int]
      /\ t.inflight \in SUBSET Clients
  BY DEF TimerState
<1>2. timer \in [TimerClients -> Int]
  BY <1>1 DEF ShiftedTimers, None
<1>3. action \in [ActionClients -> Int]
  BY <1>1, NextSlotAhead DEF MovedActions, None
<1>4. t.inflight \union sent \in SUBSET Clients
  BY <1>1 DEF SentAtOnce, JumpedOver, Clients
<1>5. \A c \in TimerClients : timer[c] # None => timer[c] >= t.ticks + correction
  <2> SUFFICES ASSUME NEW c \in TimerClients, timer[c] # None
               PROVE  timer[c] >= t.ticks + correction
    OBVIOUS
  <2>1. t.timer[c] # None /\ timer[c] = t.timer[c] + correction
    BY DEF ShiftedTimers
  <2>2. t.timer[c] > t.ticks
    BY <2>1 DEF Fresh, Ahead, Keys
  <2> QED
    BY <2>1, <2>2, <1>1
<1>6. \A c \in ActionClients : action[c] # None => action[c] >= t.ticks + correction
  <2> SUFFICES ASSUME NEW c \in ActionClients, action[c] # None
               PROVE  action[c] >= t.ticks + correction
    OBVIOUS
  <2>1. CASE c \in late
    <3>1. action[c] = NextSlot(c, t.action[c], t.ticks + correction)
      BY <2>1 DEF MovedActions
    <3> QED
      BY <3>1, <1>1, NextSlotAhead
  <2>2. CASE c \notin late
    <3>1. action[c] = t.action[c]
      BY <2>2 DEF MovedActions, SentAtOnce
    <3> QED
      BY <3>1, <2>2, <1>1 DEF JumpedOver
  <2> QED
    BY <2>1, <2>2
<1> HIDE DEF timer, action, sent
<1>7. moved \in TimerState
  <2> DEFINE u == [t EXCEPT !.ticks = @ + correction]
             v == [u EXCEPT !.timer = timer]
             w == [v EXCEPT !.action = action]
  <2>1. u \in TimerState /\ u.inflight = t.inflight
    BY <1>1 DEF TimerState
  <2>2. v \in TimerState /\ v.inflight = t.inflight
    <3> HIDE DEF u
    <3> QED
      BY <2>1, <1>2 DEF TimerState
  <2>3. w \in TimerState /\ w.inflight = t.inflight
    <3> HIDE DEF v
    <3> QED
      BY <2>2, <1>3 DEF TimerState
  <2>4. moved = [w EXCEPT !.inflight = @ \union sent]
    OBVIOUS
  <2> HIDE DEF w, moved
  <2> QED
    BY <2>3, <2>4, <1>4 DEF TimerState
<1>8. /\ moved.ticks = t.ticks + correction
      /\ moved.timer = timer
      /\ moved.action = action
      /\ moved.inflight = t.inflight \union sent
      /\ moved.recalcTime = now /\ moved.lastRecalc = t.lastRecalc
      /\ moved.error = t.error
  BY <1>1 DEF TimerState, Fresh
<1>9. moved = Corrected(t, correction)
  BY DEF Corrected, timer, action, sent
<1> HIDE DEF moved
<1>10. \A key \in Keys(moved) : key >= moved.ticks
  BY <1>5, <1>6, <1>8 DEF Keys
<1> QED
  BY <1>7, <1>8, <1>9, <1>10 DEF timer, action, sent

(* A correction that starts from a fresh clock leaves a fresh clock.       *)
LEMMA ClockCorrectionType ==
  ASSUME NEW t \in TimerState, now \in Nat, Fresh(t), t.error = "none",
         NEW correction \in Int
  PROVE  LET s == ClockCorrection(t, correction) IN
         /\ s \in TimerState
         /\ s.error # "overflow"
         /\ s.error = "none" => Wakeable(s) /\ Fresh(s)
<1> DEFINE moved == Corrected(t, correction)
<1>1. /\ moved \in TimerState /\ moved.recalcTime = now /\ moved.error = "none"
      /\ \A key \in Keys(moved) : key >= moved.ticks
  BY CorrectedType
<1>2. ClockCorrection(t, correction) = SendOutEvents(Reschedule(moved))
  BY DEF ClockCorrection, Corrected
<1> HIDE DEF moved
<1>3. Recalculate(moved) = moved
  BY <1>1, RecalculateType
<1>4. Reschedule(moved) \in TimerState /\ Reschedule(moved).error = "none"
  BY <1>1, <1>3, RescheduleType
<1> QED
  BY <1>2, <1>4, SendOutEventsType

-----------------------------------------------------------------------------
(* The inductive invariant: without the error there is a wake-up for the   *)
(* events, and whoever handles a time-triggered event sees a fresh clock.  *)
IInv ==
  /\ TypeOK
  /\ NoOverflow
  /\ tm.error = "none" => Wakeable(tm)
  /\ HandlersSeeFreshClock

(* The invariant holds once every module has registered its first event.   *)
LEMMA InitIInv == Init => IInv
<1> SUFFICES ASSUME Init PROVE IInv
  OBVIOUS
<1> DEFINE t == InitialTimer
<1>1. \A c \in ActionClients : FirstKey(c) \in Nat
  <2> SUFFICES ASSUME NEW c \in ActionClients PROVE FirstKey(c) \in Nat
    OBVIOUS
  <2> DEFINE a == Cycle(c) - Offset(c)
             d == Cycle(c)
  <2>1. a \in Int /\ d \in Nat \ {0}
    BY PeriodType
  <2>2. a % d \in 0 .. (d - 1)
    <3> HIDE DEF a, d
    <3> QED
      BY <2>1, Remainder
  <2> QED
    BY <2>2, PeriodType DEF FirstKey
<1>2. t \in TimerState
  <2>1. [c \in ActionClients |-> IF FirstKey(c) = 0 THEN None ELSE FirstKey(c)]
          \in [ActionClients -> Int]
    BY <1>1 DEF None
  <2>2. [c \in TimerClients |-> None] \in [TimerClients -> Int]
    BY DEF None
  <2>3. {c \in ActionClients : FirstKey(c) = 0} \in SUBSET Clients
    BY DEF Clients
  <2>4. PreciseTick \in TickLengths
    BY ClockAssumption DEF TickLengths
  <2> QED
    BY <2>1, <2>2, <2>3, <2>4 DEF InitialTimer, TimerState, None
<1>3. \A key \in Keys(t) : key \in Nat \ {0}
  BY <1>1 DEF Keys, InitialTimer, None
<1> HIDE DEF t
<1> DEFINE first == IF Keys(t) = {} THEN None ELSE NextAction(t) * PreciseTick
<1>4. first \in Int /\ (first = None => Keys(t) = {})
  <2>1. Keys(t) # {} => NextAction(t) \in Nat
    BY <1>2, <1>3, NextActionIsLeast
  <2>2. Keys(t) # {} => NextAction(t) * PreciseTick \in Nat
    BY <2>1, ClockAssumption
  <2> QED
    BY <2>2 DEF None
<1>5. tm = [t EXCEPT !.selfAt = first]
  BY DEF Init, t
<1>6. t.error = "none" /\ t.ticks = 0 /\ t.recalcTime = 0
  BY DEF t, InitialTimer
<1> HIDE DEF first
<1>7. /\ tm \in TimerState /\ tm.selfAt = first /\ tm.error = "none"
      /\ tm.action = t.action /\ tm.timer = t.timer
      /\ tm.ticks = 0 /\ tm.recalcTime = 0
  BY <1>2, <1>4, <1>5, <1>6 DEF TimerState
<1>8. Keys(tm) = Keys(t)
  BY <1>7 DEF Keys
<1>9. now = 0 /\ corrected = 0 /\ cycles \in [Periods -> Nat] /\ due \in [TimerClients -> Int]
  BY DEF Init
<1> QED
  BY <1>3, <1>4, <1>7, <1>8, <1>9 DEF IInv, TypeOK, NoOverflow, Wakeable,
     HandlersSeeFreshClock

(* What a handler of a time-triggered event starts from.                   *)
LEMMA TakenType ==
  ASSUME IInv, NEW c \in Clients, CanHandle(c)
  PROVE  /\ Taken(c) \in TimerState
         /\ Taken(c).error = "none"
         /\ Wakeable(Taken(c))
         /\ now \in Nat
         /\ Taken(c).inflight \subseteq tm.inflight
         /\ tm.inflight \intersect ActionClients # {} => Fresh(Taken(c))
<1>1. /\ tm \in TimerState /\ tm.error = "none" /\ now \in Nat /\ Wakeable(tm)
      /\ tm.inflight \in SUBSET Clients
  BY DEF IInv, TypeOK, CanHandle, TimerState
<1>2. /\ Taken(c) \in TimerState
      /\ Taken(c).error = "none"
      /\ Taken(c).selfAt = tm.selfAt
      /\ Taken(c).action = tm.action /\ Taken(c).timer = tm.timer
      /\ Taken(c).ticks = tm.ticks /\ Taken(c).recalcTime = tm.recalcTime
      /\ Taken(c).inflight = tm.inflight \ {c}
  BY <1>1 DEF Taken, TimerState
<1>3. Keys(Taken(c)) = Keys(tm)
  BY <1>2 DEF Keys
<1> QED
  BY <1>1, <1>2, <1>3 DEF Wakeable, Fresh, Ahead, IInv, HandlersSeeFreshClock

(* Every message handler and every advance of the time keeps the           *)
(* invariant.                                                              *)
LEMMA NextIInv == IInv /\ [Next]_vars => IInv'
<1> SUFFICES ASSUME IInv, [Next]_vars PROVE IInv'
  OBVIOUS
<1>0. /\ tm \in TimerState /\ now \in Nat /\ tm.error # "overflow"
      /\ cycles \in [Periods -> Nat] /\ corrected \in Int /\ due \in [TimerClients -> Int]
  BY DEF IInv, TypeOK, NoOverflow
(* The clock of the node after a step in which time stands still.          *)
<1> DEFINE Good(t) == /\ t \in TimerState
                      /\ t.error # "overflow"
                      /\ t.error = "none" => Wakeable(t) /\ Fresh(t)
<1>a. ASSUME NEW t, Good(t), tm' = t, now' = now
      PROVE  /\ tm' \in TimerState /\ NoOverflow'
             /\ (tm.error = "none" => Wakeable(tm))' /\ HandlersSeeFreshClock'
  BY <1>a DEF NoOverflow, HandlersSeeFreshClock, Wakeable, Fresh, Ahead, Keys
<1>1. CASE Fire
  <2> DEFINE t == [tm EXCEPT !.selfAt = None]
  <2>1. t \in TimerState /\ t.error # "overflow"
    BY <1>0 DEF TimerState, None
  <2> HIDE DEF t
  <2>2. Good(SendOutEvents(t))
    BY <2>1, <1>0, SendOutEventsType
  <2>3. tm' = SendOutEvents(t) /\ now' = now /\ UNCHANGED <<cycles, corrected, due>>
    BY <1>1 DEF Fire, t
  <2> HIDE DEF Good
  <2> QED
    BY <2>2, <2>3, <1>a, <1>0 DEF IInv, TypeOK
<1>2. ASSUME NEW p \in Periods, NewCycle(p) PROVE IInv'
  <2>1. p \in ActionClients /\ p \in Clients /\ CanHandle(p) /\ p \in tm.inflight
    BY <1>2 DEF NewCycle, ActionClients, Clients, CanHandle
  <2>2. Good(RegisterAction(Taken(p), p, TRUE))
    BY <2>1, TakenType, RegisterActionType
  <2>3. /\ tm' = RegisterAction(Taken(p), p, TRUE) /\ now' = now
        /\ cycles' \in [Periods -> Nat] /\ UNCHANGED <<corrected, due>>
    BY <1>2, <1>0 DEF NewCycle
  <2> HIDE DEF Good
  <2> QED
    BY <2>2, <2>3, <1>a, <1>0 DEF IInv, TypeOK
<1>3. ASSUME NEW c \in TTClients, SendWindow(c) PROVE IInv'
  <2>1. c \in ActionClients /\ c \in Clients /\ CanHandle(c) /\ c \in tm.inflight
    BY <1>3 DEF SendWindow, ActionClients, Clients, CanHandle
  <2>2. Good(RegisterAction(Taken(c), c, TRUE))
    BY <2>1, TakenType, RegisterActionType
  <2>3. /\ tm' = RegisterAction(Taken(c), c, TRUE) /\ now' = now
        /\ UNCHANGED <<cycles, corrected, due>>
    BY <1>3 DEF SendWindow
  <2> HIDE DEF Good
  <2> QED
    BY <2>2, <2>3, <1>a, <1>0 DEF IInv, TypeOK
<1>4. ASSUME NEW length \in TickLengths, ChangeDrift(length) PROVE IInv'
  <2> DEFINE t == [Taken(Osc) EXCEPT !.tick = length]
  <2>1. Osc \in ActionClients /\ Osc \in Clients /\ CanHandle(Osc) /\ Osc \in tm.inflight
    BY <1>4 DEF ChangeDrift, ActionClients, Clients, CanHandle
  <2>2. /\ Taken(Osc) \in TimerState /\ Taken(Osc).error = "none"
        /\ Wakeable(Taken(Osc)) /\ Fresh(Taken(Osc))
    BY <2>1, TakenType
  <2>3. t \in TimerState /\ t.error = "none" /\ Wakeable(t) /\ Fresh(t)
    <3> DEFINE u == Taken(Osc)
    <3>1. u \in TimerState /\ u.error = "none" /\ Wakeable(u) /\ Fresh(u)
      BY <2>2
    <3> HIDE DEF u
    <3>2. t = [u EXCEPT !.tick = length]
      BY DEF u
    <3> HIDE DEF t
    <3>3. /\ t \in TimerState /\ t.error = "none" /\ t.selfAt = u.selfAt
          /\ t.action = u.action /\ t.timer = u.timer
          /\ t.ticks = u.ticks /\ t.recalcTime = u.recalcTime
      BY <3>1, <3>2 DEF TimerState
    <3> QED
      BY <3>1, <3>3 DEF Wakeable, Fresh, Ahead, Keys
  <2> HIDE DEF t
  <2>4. Good(RegisterAction(t, Osc, TRUE))
    BY <2>1, <2>3, <1>0, RegisterActionType
  <2>5. /\ tm' = RegisterAction(t, Osc, TRUE) /\ now' = now
        /\ UNCHANGED <<cycles, corrected, due>>
    BY <1>4 DEF ChangeDrift, t
  <2> HIDE DEF Good
  <2> QED
    BY <2>4, <2>5, <1>a, <1>0 DEF IInv, TypeOK
<1>5. ASSUME NEW noise \in (-Precision) .. Precision, Synchronise(noise) PROVE IInv'
  <2> DEFINE again == RegisterAction(Taken(Sync), Sync, TRUE)
             correction == Deviation + noise
  <2>1. Sync \in ActionClients /\ Sync \in Clients /\ CanHandle(Sync) /\ Sync \in tm.inflight
    BY <1>5 DEF Synchronise, ActionClients, Clients, CanHandle
  <2>2. Good(again) /\ again.error = "none"
    BY <2>1, TakenType, RegisterActionType
  <2>3. correction \in Int /\ Deviation \in Int
    <3> DEFINE a == (now \div PreciseTick) - ActionTime[Sync]
               d == Cycle(Sync)
    <3>1. now \div PreciseTick \in Int
      BY <1>0, ClockAssumption, Division
    <3>2. a \in Int /\ d \in Nat \ {0}
      BY <2>1, <3>1, PeriodType
    <3>3. a % d \in Int
      <4> HIDE DEF a, d
      <4> QED
        BY <3>2, Remainder
    <3>4. Deviation \in Int
      BY <3>2, <3>3 DEF Deviation
    <3> QED
      BY <3>4, ClockAssumption
  <2> HIDE DEF again, correction
  <2>4. Good(ClockCorrection(again, correction))
    BY <2>2, <2>3, <1>0, ClockCorrectionType
  <2>5. /\ \/ tm' = again /\ corrected' = corrected
           \/ tm' = ClockCorrection(again, correction) /\ corrected' \in Int
        /\ now' = now /\ UNCHANGED <<cycles, due>>
    <3>1. CASE cycles[PeriodOf[Sync]] > 0
      <4>1. /\ tm' = ClockCorrection(again, correction) /\ now' = now
            /\ corrected' = corrected + Deviation + noise /\ UNCHANGED <<cycles, due>>
        BY <3>1, <1>5 DEF Synchronise, again, correction
      <4>2. corrected' = corrected + correction
        <5>1. noise \in Int
          BY ClockAssumption
        <5> QED
          BY <4>1, <5>1, <2>3, <1>0 DEF correction
      <4> QED
        BY <4>1, <4>2, <2>3, <1>0
    <3>2. CASE ~(cycles[PeriodOf[Sync]] > 0)
      BY <3>2, <1>5 DEF Synchronise, again
    <3> QED
      BY <3>1, <3>2
  <2> HIDE DEF Good
  <2> QED
    BY <2>2, <2>4, <2>5, <1>a, <1>0 DEF IInv, TypeOK
<1>6. ASSUME NEW c \in TimerClients, NEW delay \in Delays, StartTimer(c, delay) PROVE IInv'
  <2> DEFINE t == RegisterTimer(tm, c, delay)
  <2>1. delay \in Nat /\ Wakeable(tm) /\ tm.error = "none"
    BY <1>6, ScheduleAssumption DEF StartTimer, IInv
  <2>2. /\ t \in TimerState /\ t.error = "none" /\ Wakeable(t)
        /\ t.inflight \subseteq tm.inflight \union {c}
        /\ Fresh(tm) => Fresh(t)
    BY <2>1, <1>0, RegisterTimerType
  <2> HIDE DEF t
  <2>3. tm' = t /\ now' = now /\ UNCHANGED <<cycles, corrected>>
    BY <1>6 DEF StartTimer, t
  <2>4. due' \in [TimerClients -> Int]
    <3>1. Recalculate(tm).ticks \in Int
      BY <1>0, RecalculateType DEF TimerState
    <3>2. Recalculate(tm).ticks - corrected + delay \in Int
      BY <3>1, <2>1, <1>0
    <3> QED
      BY <3>2, <1>0, <1>6 DEF StartTimer
  <2>5. HandlersSeeFreshClock'
    <3> SUFFICES ASSUME t.inflight \intersect ActionClients # {} PROVE Fresh(t)
      BY <2>3 DEF HandlersSeeFreshClock, Fresh, Ahead, Keys
    <3>1. tm.inflight \intersect ActionClients # {}
      BY <2>2, ClientsAssumption
    <3> QED
      BY <3>1, <2>1, <2>2 DEF IInv, HandlersSeeFreshClock, Fresh, Ahead
  <2> QED
    BY <2>2, <2>3, <2>4, <2>5, <1>0 DEF IInv, TypeOK, NoOverflow, Wakeable, Keys
<1>7. ASSUME NEW c \in TimerClients, Expire(c) PROVE IInv'
  <2>1. c \in Clients /\ CanHandle(c)
    BY <1>7 DEF Expire, Clients
  <2> DEFINE t == Taken(c)
  <2>2. /\ t \in TimerState /\ t.error = "none" /\ Wakeable(t)
        /\ t.inflight \subseteq tm.inflight
        /\ tm.inflight \intersect ActionClients # {} => Fresh(t)
    BY <2>1, TakenType
  <2> HIDE DEF t
  <2>3. tm' = t /\ now' = now /\ UNCHANGED <<cycles, corrected, due>>
    BY <1>7 DEF Expire, t
  <2>4. HandlersSeeFreshClock'
    BY <2>2, <2>3 DEF HandlersSeeFreshClock, Fresh, Ahead, Keys
  <2> QED
    BY <2>2, <2>3, <2>4, <1>0 DEF IInv, TypeOK, NoOverflow, Wakeable, Keys
<1>8. ASSUME NEW time \in now .. MaxTime, Advance(time) PROVE IInv'
  <2>1. now' \in Nat /\ UNCHANGED <<tm, cycles, corrected, due>> /\ tm.inflight = {}
    BY <1>8, <1>0, ClockAssumption DEF Advance
  <2> QED
    BY <2>1, <1>0 DEF IInv, TypeOK, NoOverflow, Wakeable, Keys, HandlersSeeFreshClock
<1>9. CASE UNCHANGED vars
  BY <1>9 DEF vars, IInv, TypeOK, NoOverflow, Wakeable, Keys, HandlersSeeFreshClock
<1> QED
  BY <1>1, <1>2, <1>3, <1>4, <1>5, <1>6, <1>7, <1>8, <1>9 DEF Next

(* The types hold, for all schedules, drifts and corrections.              *)
THEOREM TypeCorrect == Spec => []TypeOK
<1>1. IInv => TypeOK
  BY DEF IInv
<1> QED
  BY <1>1, InitIInv, NextIInv, PTL DEF Spec

(* reschedule() never finds the next action in the past and so never       *)
(* throws, for all schedules, drifts, corrections and timers.              *)
THEOREM NeverOverflows == Spec => []NoOverflow
<1>1. IInv => NoOverflow
  BY DEF IInv
<1> QED
  BY <1>1, InitIInv, NextIInv, PTL DEF Spec

(* Handlers of time-triggered events always run with a recalculated clock  *)
(* and no overdue event, which clockCorrection() relies on.                *)
THEOREM FreshForHandlers == Spec => []HandlersSeeFreshClock
<1>1. IInv => HandlersSeeFreshClock
  BY DEF IInv
<1> QED
  BY <1>1, InitIInv, NextIInv, PTL DEF Spec

-----------------------------------------------------------------------------
(***************************************************************************)
(* The wake-up.  It is scheduled with the tick length of that moment, and  *)
(* nothing moves it when the oscillator changes the length afterwards.  So *)
(* it is exact until the next change and then wrong by what the change     *)
(* adds up to in the ticks that are left, at most a cycle of the           *)
(* oscillator.  SlowDrift bounds that by about a tick: the change of a     *)
(* cycle and three times the maximum drift are no more than a tick.        *)
(***************************************************************************)
MaxTick == PreciseTick + MaxDrift

(* How far the wake-up may be off by a change of the tick length.          *)
Slip == IF MaxDrift = 0 THEN 0 ELSE Cycle(Osc) * DriftStep

SlowDrift == Slip + 3 * MaxDrift <= PreciseTick

(* The time from the tick of the next action, as the clock now counts, to  *)
(* the wake-up.                                                            *)
Off(t) == t.selfAt - t.lastRecalc - (NextAction(t) - t.ticks) * t.tick

(* The clock was last recalculated less than a tick after its last tick.   *)
Residual(t) ==
  /\ t.lastRecalc <= t.recalcTime /\ t.recalcTime <= now
  /\ t.recalcTime - t.lastRecalc <= MaxTick - 1

(* The wake-up is scheduled, and off by no more than the change of a cycle *)
(* and the fraction of a tick.                                             *)
Woken(t) ==
  Keys(t) # {} => /\ t.selfAt >= now
                  /\ Off(t) >= -Slip /\ Off(t) <= Slip + MaxTick - 1

(* The wake-up as it was scheduled in this instant.                        *)
Exact(t) ==
  Keys(t) # {} => t.selfAt >= now /\ Off(t) = now - t.lastRecalc

LEMMA SlipType == Slip \in Nat /\ MaxTick \in Nat /\ PreciseTick - MaxDrift \in Nat \ {0}
<1>1. Osc \in ActionClients
  BY DEF ActionClients
<1>2. Cycle(Osc) \in Nat
  BY <1>1, PeriodType
<1>3. Cycle(Osc) * DriftStep \in Nat
  BY <1>2, ClockAssumption
<1> QED
  BY <1>3, ClockAssumption DEF Slip, MaxTick

LEMMA TickType ==
  ASSUME NEW t \in TimerState
  PROVE  /\ t.tick \in Nat \ {0} /\ t.tick <= MaxTick /\ t.tick >= PreciseTick - MaxDrift
         /\ t.ticks \in Int /\ t.lastRecalc \in Int /\ t.recalcTime \in Int /\ t.selfAt \in Int
  BY ClockAssumption DEF TimerState, TickLengths, MaxTick

(* Off() is a number, and the same for the same events and clock.          *)
LEMMA OffType ==
  ASSUME NEW t \in TimerState, Keys(t) # {}
  PROVE  /\ Off(t) \in Int /\ NextAction(t) \in Int
         /\ Off(t) = (t.selfAt - NextAction(t) * t.tick) + (t.ticks * t.tick - t.lastRecalc)
<1>1. NextAction(t) \in Int
  BY NextActionIsLeast
<1>2. /\ (NextAction(t) - t.ticks) * t.tick = NextAction(t) * t.tick - t.ticks * t.tick
      /\ NextAction(t) * t.tick \in Int /\ t.ticks * t.tick \in Int
  BY <1>1, TickType, Product
<1> QED
  BY <1>1, <1>2, TickType DEF Off

(* recalculate() does not change where the clock will be at a time: the    *)
(* wake-up stays as far off as it was.                                     *)
LEMMA RecalculateKeeps ==
  ASSUME NEW t \in TimerState, now \in Nat, Residual(t)
  PROVE  LET r == Recalculate(t) IN
         /\ Residual(r)
         /\ now - r.lastRecalc >= 0 /\ now - r.lastRecalc <= MaxTick - 1
         /\ r.ticks * r.tick - r.lastRecalc = t.ticks * t.tick - t.lastRecalc
         /\ Keys(r) = Keys(t) /\ NextAction(r) = NextAction(t)
         /\ Keys(t) # {} => Off(r) = Off(t)
<1> DEFINE r == Recalculate(t)
<1>1. /\ r \in TimerState /\ r.recalcTime = now /\ SameButClock(r, t) /\ r.selfAt = t.selfAt
      /\ now = t.recalcTime => r = t
  BY RecalculateType
<1>2. Keys(r) = Keys(t) /\ NextAction(r) = NextAction(t)
  BY <1>1 DEF Keys, NextAction, SameButClock
<1>3. r.ticks * r.tick - r.lastRecalc = t.ticks * t.tick - t.lastRecalc
  <2>1. CASE now = t.recalcTime
    BY <1>1, <2>1
  <2>2. CASE now # t.recalcTime
    <3> DEFINE e == (now - t.lastRecalc) \div t.tick
    <3>1. e \in Int
      BY TickType, Division
    <3>2. r.ticks = t.ticks + e /\ r.lastRecalc = t.lastRecalc + e * t.tick /\ r.tick = t.tick
      BY <2>2, <1>1 DEF Recalculate, TimerState, SameButClock
    <3> HIDE DEF e, r
    <3>3. (t.ticks + e) * t.tick = t.ticks * t.tick + e * t.tick /\ e * t.tick \in Int
          /\ t.ticks * t.tick \in Int
      BY <3>1, TickType, Product
    <3> QED
      BY <3>2, <3>3, TickType
  <2> QED
    BY <2>1, <2>2
<1>4. now - r.lastRecalc >= 0 /\ now - r.lastRecalc <= MaxTick - 1
  <2>1. CASE now = t.recalcTime
    <3>1. r = t /\ t.lastRecalc \in Int /\ MaxTick \in Nat
      BY <1>1, <2>1, TickType, SlipType
    <3> HIDE DEF r
    <3> QED
      BY <2>1, <3>1 DEF Residual
  <2>2. CASE now # t.recalcTime
    <3> DEFINE d == t.tick
               e == (now - t.lastRecalc) \div d
    <3>1. d \in Nat \ {0} /\ now - t.lastRecalc \in Int /\ d <= MaxTick /\ t.lastRecalc \in Int
      BY TickType
    <3>2. r.lastRecalc = t.lastRecalc + e * d
      BY <2>2 DEF Recalculate, TimerState
    <3> HIDE DEF d, r
    <3>3. e \in Int /\ d * e <= now - t.lastRecalc /\ now - t.lastRecalc < d * e + d
      BY <3>1, Division
    <3> HIDE DEF e
    <3>4. d * e = e * d /\ e * d \in Int
      BY <3>1, <3>3
    <3> QED
      BY <3>1, <3>2, <3>3, <3>4, SlipType
  <2> QED
    BY <2>1, <2>2
<1>5. Keys(t) # {} => Off(r) = Off(t)
  <2> HAVE Keys(t) # {}
  <2> HIDE DEF r
  <2>1. /\ Off(t) = (t.selfAt - NextAction(t) * t.tick) + (t.ticks * t.tick - t.lastRecalc)
        /\ Off(r) = (r.selfAt - NextAction(r) * r.tick) + (r.ticks * r.tick - r.lastRecalc)
    BY <1>1, <1>2, OffType
  <2> QED
    BY <2>1, <1>1, <1>2, <1>3 DEF SameButClock
<1>6. Residual(r)
  <2> HIDE DEF r
  <2>1. r.lastRecalc \in Int /\ r.recalcTime = now
    BY <1>1, TickType
  <2> QED
    BY <2>1, <1>4 DEF Residual
<1> QED
  BY <1>2, <1>3, <1>4, <1>5, <1>6

(* A wake-up of this instant is as right as any.                           *)
LEMMA ExactIsWoken ==
  ASSUME NEW t \in TimerState, now \in Nat, Residual(t), t.recalcTime = now, Exact(t)
  PROVE  Woken(t)
<1>1. t.lastRecalc \in Int /\ Slip \in Nat /\ MaxTick \in Nat
  BY TickType, SlipType
<1> QED
  BY <1>1 DEF Residual, Exact, Woken

(* reschedule() schedules the wake-up for the next action exactly.         *)
LEMMA RescheduleExact ==
  ASSUME NEW t \in TimerState, now \in Nat, Residual(t),
         \A key \in Keys(t) : key >= Recalculate(t).ticks
  PROVE  LET s == Reschedule(t) IN
         /\ Exact(s) /\ Residual(s) /\ s.lastRecalc = Recalculate(t).lastRecalc
<1> DEFINE r == Recalculate(t)
           s == Reschedule(t)
           wait == NextAction(r) - r.ticks
<1>1. /\ r \in TimerState /\ r.recalcTime = now /\ Residual(r) /\ Keys(r) = Keys(t)
  BY RecalculateType, RecalculateKeeps
<1>2. s \in TimerState /\ s.recalcTime = now
  BY RescheduleType
<1>3. Keys(t) # {} => NextAction(r) \in Int /\ NextAction(r) >= r.ticks
  <2> HIDE DEF r
  <2>1. Keys(t) # {} => NextAction(r) \in Keys(t) /\ Keys(t) \subseteq Int
    BY <1>1, NextActionIsLeast
  <2> QED
    BY <2>1 DEF r
<1>4. s = [r EXCEPT !.selfAt = IF Keys(t) = {} THEN None ELSE now + wait * r.tick]
  <2>1. CASE Keys(t) = {}
    BY <2>1, <1>1 DEF Reschedule
  <2>2. CASE Keys(t) # {}
    <3>1. r.ticks \in Int
      BY <1>1, TickType
    <3>2. ~(NextAction(r) < r.ticks)
      <4> HIDE DEF r
      <4> QED
        BY <2>2, <1>3, <3>1
    <3> QED
      BY <2>2, <3>2, <1>1 DEF Reschedule
  <2> QED
    BY <2>1, <2>2
<1> HIDE DEF r, s
<1>5. /\ s.lastRecalc = r.lastRecalc /\ s.recalcTime = r.recalcTime /\ s.ticks = r.ticks
      /\ s.tick = r.tick /\ s.action = r.action /\ s.timer = r.timer
      /\ Keys(t) # {} => s.selfAt = now + wait * r.tick
  BY <1>1, <1>4 DEF TimerState
<1>6. Keys(s) = Keys(t) /\ NextAction(s) = NextAction(r)
  BY <1>1, <1>5 DEF Keys, NextAction
<1>7. Residual(s)
  BY <1>1, <1>5 DEF Residual
<1>8. ASSUME Keys(s) # {} PROVE s.selfAt >= now /\ Off(s) = now - s.lastRecalc
  <2>1. wait \in Nat /\ r.tick \in Nat /\ r.lastRecalc \in Int
    BY <1>1, <1>3, <1>6, <1>8, TickType
  <2>2. Off(s) = s.selfAt - s.lastRecalc - wait * r.tick
    BY <1>5, <1>6 DEF Off
  <2> HIDE DEF wait
  <2>3. wait * r.tick \in Nat
    BY <2>1
  <2>4. s.selfAt = now + wait * r.tick /\ s.lastRecalc = r.lastRecalc
    BY <1>5, <1>6, <1>8
  <2> QED
    BY <2>1, <2>2, <2>3, <2>4
<1> QED
  BY <1>5, <1>7, <1>8 DEF Exact, r, s

(* A new event leaves the wake-up as it was or schedules it anew; it is    *)
(* never left behind a new first event.                                    *)
LEMMA RegisteredWoken ==
  ASSUME NEW t \in TimerState, NEW old \in TimerState, now \in Nat,
         NEW key \in Int, Wakeable(old), Residual(old),
         t.selfAt = old.selfAt, t.recalcTime = now, old.recalcTime = now, key >= t.ticks,
         t.tick = old.tick, t.ticks = old.ticks, t.lastRecalc = old.lastRecalc,
         Keys(old) \subseteq Keys(t), Keys(t) \subseteq Keys(old) \union {key}
  PROVE  LET s == Registered(t, old, key) IN
         /\ Residual(s) /\ s.lastRecalc = t.lastRecalc /\ s.tick = t.tick
         /\ s.action = t.action /\ s.timer = t.timer
         /\ \/ Exact(s)
            \/ /\ s = t /\ Keys(old) # {} /\ NextAction(s) = NextAction(old)
               /\ Off(s) = Off(old) /\ key >= NextAction(s)
         /\ Woken(old) => Woken(s)
         /\ Exact(old) => Exact(s)
<1> DEFINE s == Registered(t, old, key)
<1>0. Residual(t)
  BY DEF Residual
<1>1. Recalculate(t) = t
  BY RecalculateType
<1>2. CASE /\ s = Reschedule(t)
           /\ Keys(old) = {} \/ old.selfAt = None \/ key < NextAction(old)
  <2>1. \A k \in Keys(t) : k >= key /\ k \in Int
    <3> SUFFICES ASSUME NEW k \in Keys(t), k # key
                 PROVE  k >= key /\ k \in Int
      OBVIOUS
    <3>1. k \in Keys(old)
      OBVIOUS
    <3>2. NextAction(old) <= k /\ k \in Int /\ NextAction(old) \in Int
      BY <3>1, NextActionIsLeast
    <3>3. key < NextAction(old)
      BY <3>1, <1>2 DEF Wakeable
    <3> QED
      BY <3>2, <3>3
  <2>2. \A k \in Keys(t) : k >= Recalculate(t).ticks
    <3>1. t.ticks \in Int
      BY TickType
    <3> QED
      BY <3>1, <2>1, <1>1
  <2>3. Exact(s) /\ Residual(s) /\ s.lastRecalc = t.lastRecalc
    BY <1>0, <1>1, <1>2, <2>2, RescheduleExact
  <2>4. s \in TimerState /\ s.recalcTime = now /\ SameButClock(s, t)
    BY <1>2, RescheduleType
  <2>5. Woken(s)
    BY <2>3, <2>4, ExactIsWoken
  <2> QED
    BY <2>3, <2>4, <2>5 DEF SameButClock
<1>3. CASE s = t /\ ~(Keys(old) = {} \/ old.selfAt = None \/ key < NextAction(old))
  <2>1. /\ NextAction(old) \in Keys(old) /\ NextAction(old) \in Int
        /\ \A k \in Keys(old) : NextAction(old) <= k
    BY <1>3, NextActionIsLeast
  <2>2. /\ NextAction(t) \in Keys(t) /\ NextAction(t) \in Int
        /\ \A k \in Keys(t) : NextAction(t) <= k
    <3>1. Keys(t) # {}
      BY <1>3
    <3> QED
      BY <3>1, NextActionIsLeast
  <2>3. NextAction(t) = NextAction(old)
    <3>1. NextAction(t) <= NextAction(old)
      BY <2>1, <2>2
    <3>2. NextAction(old) <= NextAction(t)
      BY <1>3, <2>1, <2>2
    <3> QED
      BY <3>1, <3>2, <2>1, <2>2
  <2>4. Off(t) = Off(old)
    BY <2>3 DEF Off
  <2>5. key >= NextAction(t)
    BY <1>3, <2>1, <2>3
  <2>6. (Woken(old) => Woken(t)) /\ (Exact(old) => Exact(t))
    BY <1>3, <2>4 DEF Woken, Exact
  <2> QED
    BY <1>0, <1>3, <2>3, <2>4, <2>5, <2>6
<1> QED
  BY <1>2, <1>3 DEF Registered

(* registerEvent() of a timer event that is not yet registered.            *)
LEMMA RegisterTimerWoken ==
  ASSUME NEW t \in TimerState, now \in Nat, Wakeable(t), Residual(t),
         NEW c \in TimerClients, NEW delay \in Nat, t.timer[c] = None
  PROVE  LET s == RegisterTimer(t, c, delay)
             key == Recalculate(t).ticks + delay IN
         /\ Residual(s)
         /\ s.action = t.action
         /\ \/ /\ delay = 0 /\ s.timer = t.timer
               /\ s.inflight = t.inflight \union {c} /\ s.ticks = key
            \/ /\ s.timer = [t.timer EXCEPT ![c] = key]
               /\ s.inflight = t.inflight
         /\ Woken(t) => Woken(s)
         /\ t.recalcTime = now /\ Exact(t) => Exact(s)
<1> DEFINE r == Recalculate(t)
           key == r.ticks + delay
           new == [r EXCEPT !.timer[c] = key]
           s == RegisterTimer(t, c, delay)
<1>1. /\ r \in TimerState /\ r.recalcTime = now /\ r.selfAt = t.selfAt
      /\ SameButClock(r, t)
      /\ t.recalcTime = now => r = t
  BY RecalculateType
<1>2. /\ Residual(r) /\ Keys(r) = Keys(t)
      /\ Keys(t) # {} => Off(r) = Off(t)
  BY RecalculateKeeps
<1>3. Wakeable(r) /\ (Woken(t) => Woken(r)) /\ (t.recalcTime = now /\ Exact(t) => Exact(r))
  <2> HIDE DEF r
  <2> QED
    BY <1>1, <1>2 DEF Wakeable, Woken, Exact
<1> HIDE DEF r
<1>4. r.ticks \in Int /\ key \in Int /\ key >= r.ticks
  BY <1>1, TickType
<1>5. CASE delay = 0
  <2>1. s = [r EXCEPT !.inflight = @ \union {c}]
    BY <1>5 DEF RegisterTimer, r
  <2> HIDE DEF s
  <2>2. /\ s.inflight = r.inflight \union {c} /\ s.ticks = r.ticks
        /\ s.tick = r.tick /\ s.selfAt = r.selfAt /\ s.lastRecalc = r.lastRecalc
        /\ s.recalcTime = r.recalcTime /\ s.action = r.action /\ s.timer = r.timer
    BY <1>1, <2>1 DEF TimerState
  <2>3. Keys(s) = Keys(r) /\ NextAction(s) = NextAction(r)
    BY <2>2 DEF Keys, NextAction
  <2>4. Off(s) = Off(r)
    BY <2>2, <2>3 DEF Off
  <2>5. Residual(s) /\ (Woken(r) => Woken(s)) /\ (Exact(r) => Exact(s))
    BY <1>2, <2>2, <2>3, <2>4 DEF Residual, Woken, Exact
  <2>6. s.ticks = key
    BY <1>4, <1>5, <2>2
  <2> QED
    BY <1>1, <1>3, <1>5, <2>2, <2>5, <2>6 DEF SameButClock, s, r
<1>6. CASE delay # 0
  <2>1. s = Registered(new, r, key)
    BY <1>6 DEF RegisterTimer, r
  <2> HIDE DEF s, key
  <2>2. /\ new \in TimerState /\ new.selfAt = r.selfAt
        /\ new.action = r.action
        /\ new.timer = [r.timer EXCEPT ![c] = key]
        /\ new.ticks = r.ticks /\ new.recalcTime = r.recalcTime
        /\ new.tick = r.tick /\ new.lastRecalc = r.lastRecalc
        /\ new.inflight = r.inflight
    BY <1>4, <1>1 DEF TimerState
  <2>3. r.timer \in [TimerClients -> Int] /\ r.timer[c] = None
    BY <1>1 DEF TimerState, SameButClock
  <2> HIDE DEF new
  <2>4. Keys(new) \subseteq Keys(r) \union {key} /\ Keys(r) \subseteq Keys(new)
    BY <2>2, <2>3 DEF Keys
  <2>5. /\ Residual(s) /\ s.action = new.action /\ s.timer = new.timer
        /\ Woken(r) => Woken(s)
        /\ Exact(r) => Exact(s)
    BY <1>1, <1>2, <1>3, <1>4, <2>1, <2>2, <2>4, RegisteredWoken
  <2>6. s.inflight = new.inflight
    BY <1>1, <1>3, <1>4, <2>1, <2>2, <2>4, RegisteredType
  <2> QED
    BY <1>1, <1>3, <2>2, <2>5, <2>6 DEF SameButClock, s, key, r
<1> QED
  BY <1>5, <1>6

(* A key lies on the action time of the client in its cycle.               *)
OnSlot(c, key) == ((key - Offset(c) - ActionTime[c]) % Cycle(c)) = 0

(* The position of the clock in the cycle of a client.                     *)
LEMMA PeriodTicksIs ==
  ASSUME NEW c \in ActionClients, NEW t, t.ticks \in Int
  PROVE  /\ PeriodTicks(t, c) \in 0 .. (Cycle(c) - 1)
         /\ \E q \in Int : PeriodTicks(t, c) = Cycle(c) + t.ticks - Offset(c) - Cycle(c) * q
<1> DEFINE a == Cycle(c) + t.ticks - Offset(c)
           d == Cycle(c)
<1>1. a \in Int /\ d \in Nat \ {0}
  BY PeriodType
<1>2. PeriodTicks(t, c) = a % d
  BY DEF PeriodTicks
<1> HIDE DEF a, d
<1>3. (a % d) \in 0 .. (d - 1) /\ (a \div d) \in Int /\ a = d * (a \div d) + (a % d)
  BY <1>1, QuotientAndRemainder
<1>4. (a % d) = a - d * (a \div d)
  <2> DEFINE q == a \div d
             r == a % d
  <2>1. q \in Int /\ r \in Int /\ a = d * q + r /\ d * q \in Int
    BY <1>1, <1>3
  <2> HIDE DEF q, r
  <2>2. r = a - d * q
    BY <1>1, <2>1
  <2> QED
    BY <2>2 DEF q, r
<1>5. \E q \in Int : (a % d) = a - d * q
  <2> DEFINE p == a \div d
  <2>1. p \in Int /\ (a % d) = a - d * p
    BY <1>3, <1>4
  <2> HIDE DEF p
  <2> QED
    BY <2>1
<1>6. PeriodTicks(t, c) \in 0 .. (Cycle(c) - 1)
  BY <1>2, <1>3 DEF d
<1>7. PICK q \in Int : (a % d) = a - d * q
  BY <1>5
<1>8. PeriodTicks(t, c) = Cycle(c) + t.ticks - Offset(c) - Cycle(c) * q
  <2>1. PeriodTicks(t, c) = a - d * q
    BY <1>2, <1>7
  <2> DEFINE w == Cycle(c) * q
  <2>2. w \in Int /\ Cycle(c) \in Nat /\ Offset(c) \in Nat
    <3>1. d * q \in Int
      BY <1>1
    <3> QED
      BY <3>1, PeriodType DEF d
  <2>3. PeriodTicks(t, c) = Cycle(c) + t.ticks - Offset(c) - w
    <3>1. PeriodTicks(t, c) = a - w
      BY <2>1 DEF d
    <3> HIDE DEF w
    <3> QED
      BY <2>2, <3>1 DEF a
  <2> QED
    BY <2>3
<1> QED
  BY <1>6, <1>8

(* A multiple of the cycle is on slot.                                     *)
LEMMA MultipleOnSlot ==
  ASSUME NEW c \in ActionClients, NEW key \in Int, NEW k \in Int,
         key - Offset(c) - ActionTime[c] = Cycle(c) * k
  PROVE  OnSlot(c, key)
<1> DEFINE d == Cycle(c)
<1>1. d \in Nat \ {0}
  BY PeriodType
<1> HIDE DEF d
<1>2. ((0 + d * k) % d) = (0 % d)
  BY <1>1, RemainderAdds
<1>3. (0 % d) = 0
  BY <1>1, SMT
<1>4. 0 + d * k = d * k
  BY <1>1
<1> QED
  BY <1>2, <1>3, <1>4 DEF OnSlot, d

LEMMA OnSlotMultiple ==
  ASSUME NEW c \in ActionClients, NEW key \in Int, OnSlot(c, key)
  PROVE  \E k \in Int : key - Offset(c) - ActionTime[c] = Cycle(c) * k
<1> DEFINE d == Cycle(c)
           a == key - Offset(c) - ActionTime[c]
<1>1. d \in Nat \ {0} /\ a \in Int /\ (a % d) = 0
  BY PeriodType DEF OnSlot
<1> HIDE DEF d, a
<1>2. (a \div d) \in Int /\ a = d * (a \div d) + (a % d)
  BY <1>1, SMT
<1> QED
  BY <1>1, <1>2 DEF a, d

(* An event that is sent some ticks after its key is that late in its      *)
(* cycle, or less.                                                         *)
LEMMA LateInCycle ==
  ASSUME NEW c \in ActionClients, NEW key \in Int, OnSlot(c, key),
         NEW t, t.ticks \in Int, key <= t.ticks
  PROVE  ((PeriodTicks(t, c) - ActionTime[c]) % Cycle(c)) <= t.ticks - key
<1> DEFINE d == Cycle(c)
           x == t.ticks - key
<1>1. PICK q \in Int : PeriodTicks(t, c) = Cycle(c) + t.ticks - Offset(c) - Cycle(c) * q
  BY PeriodTicksIs
<1>2. PICK k \in Int : key - Offset(c) - ActionTime[c] = Cycle(c) * k
  BY OnSlotMultiple
<1>3. d \in Nat \ {0} /\ x \in Nat /\ Offset(c) \in Int /\ ActionTime[c] \in Int
  BY PeriodType
<1> DEFINE e == 1 + k - q
           u == d * k
           v == d * q
<1>4. PeriodTicks(t, c) - ActionTime[c] = x + d * e
  <2>1. d * e = d + u - v /\ u \in Int /\ v \in Int
    <3> HIDE DEF d
    <3> QED
      BY <1>3, SMT
  <2>2. PeriodTicks(t, c) = d + t.ticks - Offset(c) - v
    BY <1>1
  <2>3. key - Offset(c) - ActionTime[c] = u
    BY <1>2
  <2> HIDE DEF d, u, v, e
  <2>4. PeriodTicks(t, c) - ActionTime[c] = x + (d + u - v)
    BY <1>3, <2>1, <2>2, <2>3
  <2> QED
    BY <2>1, <2>4
<1>a. e \in Int /\ x \in Int /\ d \in Nat \ {0}
  BY <1>3
<1> HIDE DEF d, x, e
<1>5. ((x + d * e) % d) = (x % d)
  BY <1>a, RemainderAdds
<1>6. (x % d) <= x
  <2>1. CASE x < d
    BY <1>3, <2>1, SmallRemainder
  <2>2. CASE x >= d
    <3>1. (x % d) \in 0 .. (d - 1)
      BY <1>3, Remainder
    <3> QED
      BY <1>3, <2>2, <3>1
  <2> QED
    BY <1>3, <2>1, <2>2
<1>7. ((PeriodTicks(t, c) - ActionTime[c]) % d) <= x
  BY <1>4, <1>5, <1>6
<1> QED
  BY <1>7 DEF d, x

(* registerEvent() of a cyclic event that is not registered: its key is    *)
(* its next action time, within a cycle.                                   *)
LEMMA RegisterActionWoken ==
  ASSUME NEW t \in TimerState, now \in Nat, Wakeable(t), Residual(t), t.recalcTime = now,
         NEW c \in ActionClients, t.action[c] = None
  PROVE  LET s == RegisterAction(t, c, TRUE) IN
         /\ Residual(s) /\ s.lastRecalc = t.lastRecalc /\ s.recalcTime = now
         /\ s.tick = t.tick /\ s.ticks = t.ticks
         /\ s.timer = t.timer /\ s.inflight = t.inflight
         /\ \E key \in Int : /\ s.action = [t.action EXCEPT ![c] = key]
                             /\ OnSlot(c, key) /\ key <= t.ticks + Cycle(c)
                             /\ \/ Exact(s)
                                \/ /\ Keys(s) # {} /\ Keys(t) # {}
                                   /\ NextAction(s) = NextAction(t) /\ NextAction(s) <= key
                                   /\ s.selfAt = t.selfAt
         /\ Woken(t) => Woken(s)
         /\ Exact(t) => Exact(s)
<1> DEFINE distance == ActionTime[c] - PeriodTicks(t, c)
           key == IF distance < 0 \/ (distance = 0 /\ TRUE)
                  THEN t.ticks + Cycle(c) + distance
                  ELSE t.ticks + distance
           new == [t EXCEPT !.action[c] = key]
           s == RegisterAction(t, c, TRUE)
<1>1. Recalculate(t) = t
  BY RecalculateType
<1>2. t.ticks \in Int /\ t.action \in [ActionClients -> Int]
  BY DEF TimerState
<1>3. /\ PeriodTicks(t, c) \in 0 .. (Cycle(c) - 1)
      /\ \E q \in Int : PeriodTicks(t, c) = Cycle(c) + t.ticks - Offset(c) - Cycle(c) * q
  BY <1>2, PeriodTicksIs
<1>4. /\ Cycle(c) \in Nat \ {0} /\ Offset(c) \in Nat /\ ActionTime[c] \in 0 .. Cycle(c)
  BY PeriodType
<1>5. key \in Int /\ key > t.ticks /\ key <= t.ticks + Cycle(c)
  BY <1>2, <1>3, <1>4
<1>6. OnSlot(c, key)
  <2>1. PICK q \in Int : PeriodTicks(t, c) = Cycle(c) + t.ticks - Offset(c) - Cycle(c) * q
    BY <1>3
  <2>2. /\ Cycle(c) * q \in Int /\ Cycle(c) * (q - 1) = Cycle(c) * q - Cycle(c)
    <3> DEFINE d == Cycle(c)
    <3>1. d \in Int
      BY <1>4
    <3> HIDE DEF d
    <3>2. d * q \in Int /\ d * (q - 1) = d * q - d
      BY <3>1, SMT
    <3> QED
      BY <3>2 DEF d
  <2>3. \/ key - Offset(c) - ActionTime[c] = Cycle(c) * q
        \/ key - Offset(c) - ActionTime[c] = Cycle(c) * (q - 1)
    <3> DEFINE w == Cycle(c) * q
    <3>1. w \in Int /\ PeriodTicks(t, c) = Cycle(c) + t.ticks - Offset(c) - w
      BY <2>1, <2>2
    <3> HIDE DEF w
    <3>2. key - Offset(c) - ActionTime[c] \in {w, w - Cycle(c)}
      BY <1>2, <1>4, <3>1
    <3> QED
      BY <3>2, <2>2 DEF w
  <2>4. q - 1 \in Int /\ key \in Int
    BY <1>5
  <2> HIDE DEF key
  <2> QED
    BY <2>3, <2>4, MultipleOnSlot
<1>7. s = Registered(new, t, key)
  BY <1>1, <1>2, <1>5 DEF RegisterAction
<1> HIDE DEF s, key
<1>8. /\ new \in TimerState /\ new.selfAt = t.selfAt
      /\ new.timer = t.timer
      /\ new.action = [t.action EXCEPT ![c] = key]
      /\ new.ticks = t.ticks /\ new.recalcTime = t.recalcTime
      /\ new.tick = t.tick /\ new.lastRecalc = t.lastRecalc
      /\ new.inflight = t.inflight
  BY <1>5 DEF TimerState
<1> HIDE DEF new
<1>9. Keys(new) \subseteq Keys(t) \union {key} /\ Keys(t) \subseteq Keys(new)
  BY <1>2, <1>8 DEF Keys
<1>a. key >= new.ticks /\ new.recalcTime = now
  BY <1>2, <1>5, <1>8
<1>10. /\ s \in TimerState /\ s.recalcTime = now /\ s.ticks = new.ticks /\ s.inflight = new.inflight
       /\ Keys(s) = Keys(new)
  BY <1>5, <1>7, <1>8, <1>9, <1>a, RegisteredType
<1>11. /\ Residual(s) /\ s.lastRecalc = new.lastRecalc /\ s.tick = new.tick
       /\ s.action = new.action /\ s.timer = new.timer
       /\ \/ Exact(s)
          \/ /\ s = new /\ Keys(t) # {} /\ NextAction(s) = NextAction(t)
             /\ Off(s) = Off(t) /\ key >= NextAction(s)
       /\ Woken(t) => Woken(s)
       /\ Exact(t) => Exact(s)
  BY <1>5, <1>7, <1>8, <1>9, <1>a, RegisteredWoken
<1>12. \/ Exact(s)
       \/ /\ Keys(s) # {} /\ Keys(t) # {}
          /\ NextAction(s) = NextAction(t) /\ NextAction(s) <= key
          /\ s.selfAt = t.selfAt
  <2> SUFFICES ASSUME ~Exact(s)
               PROVE  /\ Keys(s) # {} /\ Keys(t) # {}
                      /\ NextAction(s) = NextAction(t) /\ NextAction(s) <= key
                      /\ s.selfAt = t.selfAt
    OBVIOUS
  <2>1. s = new /\ Keys(t) # {} /\ NextAction(s) = NextAction(t) /\ key >= NextAction(s)
    BY <1>11
  <2>2. NextAction(t) \in Int
    BY <2>1, NextActionIsLeast
  <2> QED
    BY <1>5, <1>8, <1>9, <1>10, <2>1, <2>2
<1> QED
  BY <1>5, <1>6, <1>8, <1>10, <1>11, <1>12 DEF s

(* What sendOutEvents() does to the events: those that are due are sent    *)
(* and no longer registered, the others stay as they are.                  *)
SendsDue(t, s) ==
  /\ t.inflight \subseteq s.inflight
  /\ \A c \in ActionClients : /\ s.action[c] \in {None, t.action[c]}
                              /\ c \notin s.inflight => s.action[c] = t.action[c]
  /\ \A c \in TimerClients : s.timer[c] \in {None, t.timer[c]}
  /\ \A c \in (s.inflight \ t.inflight) \intersect ActionClients :
       t.action[c] # None /\ t.action[c] <= s.ticks /\ s.action[c] = None
  /\ \A c \in (s.inflight \ t.inflight) \intersect TimerClients :
       t.timer[c] # None /\ t.timer[c] <= s.ticks

(* sendOutEvents() schedules the wake-up exactly, and throws only when a   *)
(* timer event is more than a tick late.                                   *)
LEMMA SendOutEventsExact ==
  ASSUME NEW t \in TimerState, now \in Nat, Residual(t), t.error = "none",
         \A c \in TimerClients : t.timer[c] # None => Recalculate(t).ticks - t.timer[c] <= 1
  PROVE  LET s == SendOutEvents(t) IN
         /\ Exact(s) /\ Residual(s) /\ SendsDue(t, s)
         /\ s.error # "misscheduled"
         /\ s.ticks = Recalculate(t).ticks /\ s.recalcTime = now
<1> DEFINE r == Recalculate(t)
           dueA == {c \in ActionClients : IsDue(r.action[c], r)}
           dueT == {c \in TimerClients : IsDue(r.timer[c], r)}
           A == [c \in ActionClients |-> IF c \in dueA THEN None ELSE r.action[c]]
           T == [c \in TimerClients |-> IF c \in dueT THEN None ELSE r.timer[c]]
           F == r.inflight \union dueA \union dueT
           sent == [r EXCEPT !.action = A, !.timer = T, !.inflight = F]
           s == SendOutEvents(t)
<1>1. /\ r \in TimerState /\ r.recalcTime = now /\ r.error = t.error
      /\ SameButClock(r, t)
  BY RecalculateType
<1>2. Residual(r)
  BY RecalculateKeeps
<1>3. ~(\E c \in dueT : r.ticks - r.timer[c] > 1)
  <2> SUFFICES ASSUME NEW c \in dueT, r.ticks - r.timer[c] > 1 PROVE FALSE
    OBVIOUS
  <2>1. t.timer[c] # None /\ r.timer[c] = t.timer[c]
    BY <1>1 DEF IsDue, SameButClock
  <2>2. r.ticks - t.timer[c] <= 1
    BY <2>1
  <2>3. r.ticks \in Int /\ r.timer[c] \in Int
    BY <1>1 DEF TimerState
  <2> HIDE DEF r
  <2> QED
    BY <2>1, <2>2, <2>3
<1>4. s = Reschedule(sent)
  BY <1>3 DEF SendOutEvents
<1> HIDE DEF r, s
<1>5. /\ r.action \in [ActionClients -> Int] /\ r.timer \in [TimerClients -> Int]
      /\ r.inflight \in SUBSET Clients /\ r.ticks \in Int
  BY <1>1 DEF TimerState
<1>6. A \in [ActionClients -> Int] /\ T \in [TimerClients -> Int] /\ F \in SUBSET Clients
  BY <1>5 DEF None, Clients
<1>7. /\ \A c \in ActionClients : /\ A[c] \in {None, r.action[c]}
                                  /\ A[c] # None => A[c] > r.ticks
                                  /\ c \in dueA => A[c] = None
                                  /\ c \notin F => A[c] = r.action[c]
      /\ \A c \in TimerClients : /\ T[c] \in {None, r.timer[c]}
                                 /\ T[c] # None => T[c] > r.ticks
  BY <1>5 DEF IsDue
<1>8. \A c \in F \ r.inflight :
        /\ c \in ActionClients => c \in dueA
        /\ c \in TimerClients => c \in dueT
  BY ClientsAssumption
<1>9. /\ \A c \in dueA : c \in ActionClients /\ r.action[c] # None /\ r.action[c] <= r.ticks
      /\ \A c \in dueT : c \in TimerClients /\ r.timer[c] # None /\ r.timer[c] <= r.ticks
  BY DEF IsDue
<1>10. r.inflight \subseteq F
  OBVIOUS
<1> HIDE DEF A, T, F, dueA, dueT
<1>11. /\ sent \in TimerState /\ sent.action = A /\ sent.timer = T /\ sent.inflight = F
       /\ sent.ticks = r.ticks /\ sent.recalcTime = now /\ sent.lastRecalc = r.lastRecalc
       /\ sent.error = r.error
  BY <1>1, <1>6 DEF TimerState
<1> HIDE DEF sent
<1>12. Residual(sent)
  BY <1>1, <1>2, <1>11 DEF Residual
<1>13. Recalculate(sent) = sent
  BY <1>11, RecalculateType
<1>14. \A key \in Keys(sent) : key >= Recalculate(sent).ticks
  <2>1. \A key \in Keys(sent) : key > r.ticks
    BY <1>7, <1>11 DEF Keys
  <2>2. Keys(sent) \subseteq Int
    BY <1>11, NextActionIsLeast
  <2> QED
    BY <1>5, <1>11, <1>13, <2>1, <2>2
<1>15. Exact(s) /\ Residual(s)
  BY <1>4, <1>11, <1>12, <1>14, RescheduleExact
<1>16. /\ SameButClock(s, sent) /\ s.ticks = sent.ticks /\ s.error = sent.error
       /\ s.recalcTime = now
  BY <1>4, <1>11, <1>13, <1>14, RescheduleType
<1>17. SendsDue(t, s)
  <2>1. t.action = r.action /\ t.timer = r.timer /\ t.inflight = r.inflight
    BY <1>1 DEF SameButClock
  <2>2. s.action = A /\ s.timer = T /\ s.inflight = F /\ s.ticks = r.ticks
    BY <1>11, <1>16 DEF SameButClock
  <2>3. \A c \in (F \ r.inflight) \intersect ActionClients :
          r.action[c] # None /\ r.action[c] <= r.ticks /\ A[c] = None
    BY <1>7, <1>8, <1>9
  <2>4. \A c \in (F \ r.inflight) \intersect TimerClients :
          r.timer[c] # None /\ r.timer[c] <= r.ticks
    BY <1>8, <1>9
  <2> QED
    BY <1>7, <1>10, <2>1, <2>2, <2>3, <2>4 DEF SendsDue
<1> QED
  BY <1>1, <1>11, <1>15, <1>16, <1>17 DEF s, r

(* At the wake-up no event is more than a tick late, and none at all when  *)
(* the tick has always had the same length.                                *)
LEMMA NoneTooLate ==
  ASSUME NEW t \in TimerState, now \in Nat, Residual(t), SlowDrift, Woken(t),
         t.selfAt = now, NEW key \in Keys(t)
  PROVE  Recalculate(t).ticks - key <= Lateness
<1> DEFINE r == Recalculate(t)
           n == NextAction(t)
           d == t.tick
           late == r.ticks - n
<1>1. /\ n \in Int /\ n <= key /\ key \in Int
  BY NextActionIsLeast
<1>2. /\ r \in TimerState /\ r.selfAt = now /\ r.tick = d
      /\ now - r.lastRecalc >= 0 /\ now - r.lastRecalc <= MaxTick - 1
      /\ Off(r) = Off(t) /\ NextAction(r) = n
  BY RecalculateType, RecalculateKeeps DEF SameButClock
<1>3. d \in Nat \ {0} /\ d <= MaxTick /\ d >= PreciseTick - MaxDrift
  BY TickType
<1>4. r.ticks \in Int /\ r.lastRecalc \in Int
  BY <1>2, TickType
<1> HIDE DEF r, n, d
<1>5. Off(r) = now - r.lastRecalc + late * d
  <2>1. (n - r.ticks) * d = n * d - r.ticks * d /\ late * d = r.ticks * d - n * d
        /\ n * d \in Int /\ r.ticks * d \in Int
    BY <1>1, <1>3, <1>4, Product
  <2>2. Off(r) = now - r.lastRecalc - (n - r.ticks) * d
    BY <1>2 DEF Off
  <2> QED
    BY <1>4, <2>1, <2>2
<1> HIDE DEF late
<1>6. late \in Int
  BY <1>1, <1>4 DEF late
<1>7. late * d <= Slip + MaxTick - 1
  <2>1. Off(t) <= Slip + MaxTick - 1
    BY DEF Woken
  <2>2. late * d \in Int
    BY <1>3, <1>6
  <2> QED
    BY <1>2, <1>4, <1>5, <2>1, <2>2, SlipType
<1>8. Slip + MaxTick - 1 <= (Lateness + 1) * d - 1
  <2>1. CASE MaxDrift = 0
    BY <1>3, <2>1, ClockAssumption DEF Slip, MaxTick, Lateness
  <2>2. CASE MaxDrift # 0
    <3>1. Slip + MaxTick <= 2 * (PreciseTick - MaxDrift)
      BY SlipType, ClockAssumption DEF SlowDrift, MaxTick
    <3>2. Lateness = 1 /\ (Lateness + 1) * d = 2 * d
      BY <2>2, <1>3 DEF Lateness
    <3> QED
      BY <1>3, <3>1, <3>2, SlipType, ClockAssumption
  <2> QED
    BY <2>1, <2>2
<1>9. late <= Lateness
  <2> SUFFICES ASSUME late >= Lateness + 1 PROVE FALSE
    BY <1>6 DEF Lateness
  <2>1. (Lateness + 1) * d <= late * d
    BY <1>3, <1>6, ProductGrows DEF Lateness
  <2>2. (Lateness + 1) * d \in Int /\ late * d \in Int
    BY <1>3, <1>6 DEF Lateness
  <2> QED
    BY <1>7, <1>8, <2>1, <2>2, SlipType
<1> QED
  BY <1>1, <1>4, <1>9 DEF late, r, Lateness

(* A correction moves an event by whole cycles, if at all.                 *)
LEMMA NextSlotOnSlot ==
  ASSUME NEW c \in ActionClients, NEW key \in Int, NEW tick \in Int, OnSlot(c, key)
  PROVE  OnSlot(c, NextSlot(c, key, tick))
<1> DEFINE d == Cycle(c)
           m == (tick - key + d - 1) \div d
           next == NextSlot(c, key, tick)
<1>1. PICK k \in Int : key - Offset(c) - ActionTime[c] = d * k
  BY OnSlotMultiple
<1>2. d \in Nat \ {0} /\ Offset(c) \in Int /\ ActionTime[c] \in Int
  BY PeriodType
<1>3. m \in Int
  <2> DEFINE a == tick - key + d - 1
  <2>1. a \in Int
    BY <1>2
  <2> HIDE DEF a, d
  <2> QED
    BY <1>2, <2>1, Division DEF a
<1>4. next = key + d * m
  BY DEF NextSlot
<1> HIDE DEF m, next
<1> DEFINE u == d * k
           v == d * m
<1>5. u \in Int /\ v \in Int /\ d * (k + m) = u + v
  <2> HIDE DEF d
  <2> QED
    BY <1>2, <1>3, SMT
<1>6. key - Offset(c) - ActionTime[c] = u /\ next = key + v
  BY <1>1, <1>4
<1>7. next - Offset(c) - ActionTime[c] = d * (k + m)
  <2> HIDE DEF d, u, v
  <2> QED
    BY <1>2, <1>5, <1>6
<1>8. next \in Int /\ k + m \in Int
  <2> HIDE DEF u, v
  <2> QED
    BY <1>3, <1>5, <1>6
<1> QED
  BY <1>7, <1>8, MultipleOnSlot DEF next

(* An event is sent at its action time, or as late as a jump of the clock  *)
(* and allowedEventDelay permit.                                           *)
SentOnSlot(s, c, jump) ==
  LET late == (PeriodTicks(s, c) - ActionTime[c]) % Cycle(c)
  IN  \/ late <= Lateness
      \/ /\ late <= jump
         /\ AllowedEventDelay < 0 \/ late < AllowedEventDelay

LEMMA SentOnSlotIf ==
  ASSUME NEW c \in ActionClients, NEW key \in Int, OnSlot(c, key),
         NEW s, s.ticks \in Int, key <= s.ticks, NEW jump \in Int,
         \/ s.ticks - key <= Lateness
         \/ /\ s.ticks - key <= jump
            /\ AllowedEventDelay < 0 \/ s.ticks - key < AllowedEventDelay
  PROVE  SentOnSlot(s, c, jump)
<1> DEFINE late == (PeriodTicks(s, c) - ActionTime[c]) % Cycle(c)
<1>1. late <= s.ticks - key
  BY LateInCycle
<1>2. late \in Int
  <2> DEFINE a == PeriodTicks(s, c) - ActionTime[c]
             d == Cycle(c)
  <2>1. a \in Int /\ d \in Nat \ {0}
    BY PeriodTicksIs, PeriodType
  <2> HIDE DEF a, d
  <2>2. a % d \in Int
    BY <2>1, Remainder
  <2> QED
    BY <2>2 DEF a, d
<1> HIDE DEF late
<1>3. \/ late <= Lateness
      \/ late <= jump /\ (AllowedEventDelay < 0 \/ late < AllowedEventDelay)
  BY <1>1, <1>2, ClockAssumption DEF Lateness
<1> QED
  BY <1>3 DEF SentOnSlot, late

(* The cyclic events lie on their action times, and one that waits for its *)
(* handler is not registered.                                              *)
CyclicOnSlot(t) ==
  \A c \in ActionClients :
    /\ t.action[c] # None => OnSlot(c, t.action[c])
    /\ c \in t.inflight => t.action[c] = None

(* clockCorrection() leaves an exact wake-up; no timer event expires in    *)
(* it, and it sends only the time-triggered events that may still be sent. *)
LEMMA ClockCorrectionExact ==
  ASSUME NEW t \in TimerState, now \in Nat, Fresh(t), Residual(t), t.error = "none",
         CyclicOnSlot(t), NEW correction \in Int
  PROVE  LET s == ClockCorrection(t, correction) IN
         /\ Exact(s) /\ Residual(s) /\ CyclicOnSlot(s) /\ s.error # "misscheduled"
         /\ s.ticks = t.ticks + correction /\ s.recalcTime = now
         /\ \A c \in TimerClients : s.timer[c] # None =>
              t.timer[c] # None /\ s.timer[c] = t.timer[c] + correction
         /\ \A c \in (s.inflight \ t.inflight) \intersect TimerClients : FALSE
         /\ \A c \in (s.inflight \ t.inflight) \intersect ActionClients :
              SentOnSlot(s, c, correction)
         /\ t.inflight \subseteq s.inflight
         /\ \A c \in (s.inflight \ t.inflight) \intersect ActionClients :
              t.action[c] # None /\ t.action[c] <= s.ticks
         /\ \A c \in ActionClients \ s.inflight :
              s.action[c] = MovedActions(t, correction)[c] /\ c \notin SentAtOnce(t, correction)
<1> DEFINE sent  == SentAtOnce(t, correction)
           m     == Corrected(t, correction)
           u     == Reschedule(m)
           s     == ClockCorrection(t, correction)
<1>1. /\ m \in TimerState
      /\ m.ticks = t.ticks + correction
      /\ m.timer = ShiftedTimers(t, correction)
      /\ m.action = MovedActions(t, correction)
      /\ m.inflight = t.inflight \union sent
      /\ m.recalcTime = now /\ m.lastRecalc = t.lastRecalc
      /\ m.error = "none"
      /\ \A key \in Keys(m) : key >= m.ticks
  BY CorrectedType
<1>2. s = SendOutEvents(u)
  BY DEF ClockCorrection, Corrected
<1> HIDE DEF m
<1>3. Residual(m) /\ Recalculate(m) = m
  BY <1>1, RecalculateType DEF Residual, Fresh
<1>4. /\ u \in TimerState /\ u.recalcTime = now /\ u.ticks = m.ticks
      /\ u.action = m.action /\ u.timer = m.timer /\ u.inflight = m.inflight
      /\ u.error = "none"
  BY <1>1, <1>3, RescheduleType DEF SameButClock
<1>5. Residual(u)
  BY <1>1, <1>3, RescheduleExact
<1> HIDE DEF u, s
<1>6. Recalculate(u) = u
  BY <1>4, RecalculateType
<1>7. t.ticks \in Int /\ m.ticks \in Int /\ m.timer \in [TimerClients -> Int]
      /\ m.action \in [ActionClients -> Int] /\ t.action \in [ActionClients -> Int]
      /\ t.timer \in [TimerClients -> Int]
  BY <1>1 DEF TimerState
<1>8. \A c \in TimerClients : m.timer[c] # None =>
        /\ t.timer[c] # None /\ m.timer[c] = t.timer[c] + correction
        /\ m.timer[c] > m.ticks
  <2> SUFFICES ASSUME NEW c \in TimerClients, m.timer[c] # None
               PROVE  /\ t.timer[c] # None /\ m.timer[c] = t.timer[c] + correction
                      /\ m.timer[c] > m.ticks
    OBVIOUS
  <2>1. t.timer[c] # None /\ m.timer[c] = t.timer[c] + correction
    BY <1>1 DEF ShiftedTimers
  <2>2. t.timer[c] > t.ticks
    BY <2>1 DEF Fresh, Ahead, Keys
  <2> QED
    BY <1>1, <1>7, <2>1, <2>2
<1>9. \A c \in TimerClients : u.timer[c] # None => Recalculate(u).ticks - u.timer[c] <= 1
  BY <1>4, <1>6, <1>7, <1>8
<1>10. /\ Exact(s) /\ Residual(s) /\ SendsDue(u, s) /\ s.error # "misscheduled"
       /\ s.ticks = m.ticks /\ s.recalcTime = now
  BY <1>2, <1>4, <1>5, <1>6, <1>9, SendOutEventsExact
<1>11. \A c \in TimerClients : s.timer[c] # None =>
         t.timer[c] # None /\ s.timer[c] = t.timer[c] + correction
  BY <1>4, <1>8, <1>10 DEF SendsDue
<1>12. \A c \in (s.inflight \ t.inflight) \intersect TimerClients : FALSE
  <2> SUFFICES ASSUME NEW c \in TimerClients, c \in s.inflight, c \notin t.inflight PROVE FALSE
    OBVIOUS
  <2>1. c \notin sent
    BY ClientsAssumption DEF SentAtOnce, JumpedOver
  <2>2. u.timer[c] # None /\ u.timer[c] <= s.ticks
    BY <1>1, <1>4, <1>10, <2>1 DEF SendsDue
  <2> QED
    BY <1>4, <1>7, <1>8, <1>10, <2>2
<1>13. \A c \in ActionClients : m.action[c] # None =>
         OnSlot(c, m.action[c]) /\ t.action[c] # None /\ m.action[c] >= m.ticks
  <2> SUFFICES ASSUME NEW c \in ActionClients, m.action[c] # None
               PROVE  OnSlot(c, m.action[c]) /\ t.action[c] # None /\ m.action[c] >= m.ticks
    OBVIOUS
  <2>1. m.action[c] >= m.ticks
    BY <1>1 DEF Keys
  <2>2. CASE c \in JumpedOver(t, correction)
    <3>1. m.action[c] = NextSlot(c, t.action[c], t.ticks + correction) /\ t.action[c] # None
      BY <1>1, <2>2 DEF MovedActions, JumpedOver
    <3>2. t.action[c] \in Int /\ t.ticks + correction \in Int /\ OnSlot(c, t.action[c])
      BY <1>7, <3>1 DEF CyclicOnSlot
    <3> QED
      BY <2>1, <3>1, <3>2, NextSlotOnSlot
  <2>3. CASE c \notin JumpedOver(t, correction)
    <3>1. m.action[c] = t.action[c]
      BY <1>1, <2>3 DEF MovedActions, SentAtOnce
    <3> QED
      BY <2>1, <3>1 DEF CyclicOnSlot
  <2> QED
    BY <2>2, <2>3
<1>14. \A c \in sent : /\ c \in ActionClients /\ m.action[c] = None
                       /\ t.action[c] # None /\ t.action[c] < m.ticks
                       /\ \/ AllowedEventDelay < 0
                          \/ m.ticks - t.action[c] < AllowedEventDelay
  <2> SUFFICES ASSUME NEW c \in sent
               PROVE  /\ c \in ActionClients /\ m.action[c] = None
                      /\ t.action[c] # None /\ t.action[c] < m.ticks
                      /\ \/ AllowedEventDelay < 0
                         \/ m.ticks - t.action[c] < AllowedEventDelay
    OBVIOUS
  <2>1. /\ c \in JumpedOver(t, correction)
        /\ \/ AllowedEventDelay < 0
           \/ t.ticks + correction - t.action[c] < AllowedEventDelay
    BY DEF SentAtOnce
  <2>2. c \in ActionClients /\ t.action[c] # None /\ t.action[c] < t.ticks + correction
    BY <2>1 DEF JumpedOver
  <2>3. m.action[c] = None
    <3>1. MovedActions(t, correction)[c] = None
      BY <2>2 DEF MovedActions
    <3> QED
      BY <1>1, <3>1
  <2> QED
    BY <1>1, <1>7, <2>1, <2>2, <2>3
<1>15. \A c \in ActionClients : c \in t.inflight => m.action[c] = None
  <2> SUFFICES ASSUME NEW c \in ActionClients, c \in t.inflight, m.action[c] # None PROVE FALSE
    OBVIOUS
  <2> QED
    BY <1>13 DEF CyclicOnSlot
<1>16. CyclicOnSlot(s)
  <2>1. \A c \in ActionClients : s.action[c] \in {None, m.action[c]}
    BY <1>4, <1>10 DEF SendsDue
  <2>2. \A c \in ActionClients : c \in s.inflight => s.action[c] = None
    <3> SUFFICES ASSUME NEW c \in ActionClients, c \in s.inflight PROVE s.action[c] = None
      OBVIOUS
    <3>1. CASE c \in u.inflight
      BY <1>1, <1>4, <1>14, <1>15, <2>1, <3>1
    <3>2. CASE c \notin u.inflight
      BY <1>10, <3>2 DEF SendsDue
    <3> QED
      BY <3>1, <3>2
  <2> QED
    BY <1>13, <2>1, <2>2 DEF CyclicOnSlot
<1>17. \A c \in (s.inflight \ t.inflight) \intersect ActionClients : SentOnSlot(s, c, correction)
  <2> SUFFICES ASSUME NEW c \in ActionClients, c \in s.inflight, c \notin t.inflight
               PROVE  SentOnSlot(s, c, correction)
    OBVIOUS
  <2>1. CASE c \in sent
    <3>1. /\ t.action[c] \in Int /\ OnSlot(c, t.action[c])
          /\ t.action[c] > t.ticks
      BY <1>7, <1>14, <2>1 DEF CyclicOnSlot, Fresh, Ahead, Keys
    <3>2. /\ s.ticks \in Int /\ t.action[c] <= s.ticks /\ s.ticks - t.action[c] <= correction
          /\ AllowedEventDelay < 0 \/ s.ticks - t.action[c] < AllowedEventDelay
      BY <1>1, <1>7, <1>10, <1>14, <2>1, <3>1
    <3> QED
      BY <3>1, <3>2, SentOnSlotIf
  <2>2. CASE c \notin sent
    <3>1. m.action[c] # None /\ m.action[c] <= s.ticks
      BY <1>1, <1>4, <1>10, <2>2 DEF SendsDue
    <3>2. m.action[c] \in Int /\ OnSlot(c, m.action[c]) /\ m.action[c] >= m.ticks
      BY <1>7, <1>13, <3>1
    <3>3. s.ticks \in Int /\ s.ticks - m.action[c] <= Lateness
      BY <1>7, <1>10, <3>1, <3>2 DEF Lateness
    <3> QED
      BY <3>1, <3>2, <3>3, SentOnSlotIf
  <2> QED
    BY <2>1, <2>2
<1>18. \A c \in (s.inflight \ t.inflight) \intersect ActionClients :
         t.action[c] # None /\ t.action[c] <= s.ticks
  <2> SUFFICES ASSUME NEW c \in ActionClients, c \in s.inflight, c \notin t.inflight
               PROVE  t.action[c] # None /\ t.action[c] <= s.ticks
    OBVIOUS
  <2>1. CASE c \in sent
    BY <1>7, <1>10, <1>14, <2>1
  <2>2. CASE c \notin sent
    <3>1. m.action[c] # None /\ m.action[c] <= s.ticks
      BY <1>1, <1>4, <1>10, <2>2 DEF SendsDue
    <3>2. CASE c \notin JumpedOver(t, correction)
      <4>1. m.action[c] = t.action[c]
        BY <1>1, <3>2 DEF MovedActions, SentAtOnce
      <4> QED
        BY <3>1, <4>1
    <3>3. CASE c \in JumpedOver(t, correction)
      BY <1>1, <1>7, <1>10, <3>3 DEF JumpedOver
    <3> QED
      BY <3>2, <3>3
  <2> QED
    BY <2>1, <2>2
<1>19. t.inflight \subseteq s.inflight
  BY <1>1, <1>4, <1>10 DEF SendsDue
<1>20. \A c \in ActionClients \ s.inflight :
         s.action[c] = MovedActions(t, correction)[c] /\ c \notin sent
  BY <1>1, <1>4, <1>10 DEF SendsDue
<1> QED
  BY <1>1, <1>10, <1>11, <1>12, <1>16, <1>17, <1>18, <1>19, <1>20 DEF s

-----------------------------------------------------------------------------
(***************************************************************************)
(* The inductive invariant of the wake-up: it is never off by more than    *)
(* the drift of a cycle, and exact while the oscillator is about to change *)
(* the length of the tick; the timer events keep their distance to the     *)
(* uncorrected clock and the cyclic events their action times.             *)
(***************************************************************************)
Timed ==
  /\ IInv
  /\ Residual(tm)
  /\ tm.error # "misscheduled"
  /\ tm.error = "none" => /\ Woken(tm)
                          /\ Osc \in tm.inflight => Exact(tm)
  /\ \A c \in TimerClients : tm.timer[c] # None => tm.timer[c] - corrected = due[c]
  /\ CyclicOnSlot(tm)

(* What a step does to the events that it sends.                           *)
TimersSent ==
  \A c \in tm'.inflight \ tm.inflight : c \in TimerClients =>
    tm'.ticks - corrected' - due'[c] \in 0 .. Lateness

ActionsSent ==
  \A c \in tm'.inflight \ tm.inflight : c \in ActionClients =>
    SentOnSlot(tm', c, corrected' - corrected)

(* Nothing is sent.                                                        *)
LEMMA NoneSent ==
  ASSUME tm'.inflight \subseteq tm.inflight
  PROVE  TimersSent /\ ActionsSent
  BY DEF TimersSent, ActionsSent

(* The keys of the first events are on their slots.                        *)
LEMMA FirstKeyOnSlot ==
  ASSUME NEW c \in ActionClients
  PROVE  FirstKey(c) \in Int /\ OnSlot(c, FirstKey(c))
<1> DEFINE d == Cycle(c)
           a == d - Offset(c)
           q == a \div d
           r == a % d
           distance == ActionTime[c] - r
<1>1. d \in Nat \ {0} /\ Offset(c) \in Nat /\ ActionTime[c] \in Nat /\ a \in Int
  BY PeriodType
<1>2. r \in Int /\ q \in Int /\ a = d * q + r
  <2> HIDE DEF a, d
  <2> QED
    BY <1>1, QuotientAndRemainder
<1>3. FirstKey(c) = IF distance < 0 \/ (distance = 0 /\ c \in Periods \union {Osc})
                    THEN d + distance ELSE distance
  BY DEF FirstKey
<1> HIDE DEF q, r
<1> DEFINE w == d * q
<1>4. w \in Int /\ d * (q - 1) = w - d
  <2> HIDE DEF d
  <2> QED
    BY <1>1, <1>2, SMT
<1>5. a = w + r
  BY <1>2
<1>6. /\ distance - Offset(c) - ActionTime[c] = d * (q - 1)
      /\ (d + distance) - Offset(c) - ActionTime[c] = d * q
      /\ d * q = w
  <2>1. d * q = w
    OBVIOUS
  <2> HIDE DEF w
  <2> QED
    BY <1>1, <1>2, <1>4, <1>5, <2>1
<1>7. distance \in Int /\ d + distance \in Int /\ q - 1 \in Int
  BY <1>1, <1>2
<1> HIDE DEF w, distance
<1>8. OnSlot(c, distance)
  BY <1>2, <1>6, <1>7, MultipleOnSlot
<1>9. OnSlot(c, d + distance)
  BY <1>2, <1>6, <1>7, MultipleOnSlot
<1> QED
  BY <1>3, <1>7, <1>8, <1>9

LEMMA InitTimed == Init => Timed
<1> SUFFICES ASSUME Init PROVE Timed
  OBVIOUS
<1> DEFINE t == InitialTimer
<1>1. IInv
  BY InitIInv
<1>2. tm \in TimerState /\ now = 0
  BY <1>1 DEF IInv, TypeOK, Init
<1>3. /\ tm.action = t.action /\ tm.timer = t.timer /\ tm.inflight = t.inflight
      /\ tm.ticks = 0 /\ tm.lastRecalc = 0 /\ tm.recalcTime = 0 /\ tm.error = "none"
      /\ tm.tick = PreciseTick
      /\ Keys(t) # {} => tm.selfAt = NextAction(t) * PreciseTick
  BY DEF Init, InitialTimer
<1>4. Keys(tm) = Keys(t) /\ NextAction(tm) = NextAction(t)
  BY <1>3 DEF Keys, NextAction
<1>5. CyclicOnSlot(tm)
  <2>1. \A c \in ActionClients : tm.action[c] = IF FirstKey(c) = 0 THEN None ELSE FirstKey(c)
    BY <1>3 DEF InitialTimer
  <2>2. \A c \in ActionClients : c \in tm.inflight => FirstKey(c) = 0
    BY <1>3 DEF InitialTimer
  <2> QED
    BY <2>1, <2>2, FirstKeyOnSlot DEF CyclicOnSlot
<1>6. \A c \in TimerClients : tm.timer[c] = None
  BY <1>3 DEF InitialTimer
<1>7. Residual(tm)
  BY <1>2, <1>3, SlipType, ClockAssumption DEF Residual, MaxTick
<1>8. Exact(tm)
  <2> SUFFICES ASSUME Keys(tm) # {} PROVE tm.selfAt >= now /\ Off(tm) = now - tm.lastRecalc
    BY DEF Exact
  <2> DEFINE n == NextAction(tm)
  <2>1. n \in Keys(tm) /\ n \in Int
    BY <1>2, NextActionIsLeast
  <2>2. \A key \in Keys(tm) : key >= 0
    <3>1. \A c \in ActionClients : tm.action[c] # None => tm.action[c] >= 0
      <4> SUFFICES ASSUME NEW c \in ActionClients, tm.action[c] # None PROVE tm.action[c] >= 0
        OBVIOUS
      <4>1. tm.action[c] = FirstKey(c)
        BY <1>3 DEF InitialTimer
      <4> DEFINE a == Cycle(c) - Offset(c)
                 d == Cycle(c)
      <4>2. a \in Int /\ d \in Nat \ {0}
        BY PeriodType
      <4>3. a % d \in 0 .. (d - 1)
        <5> HIDE DEF a, d
        <5> QED
          BY <4>2, Remainder
      <4> QED
        BY <4>1, <4>3, PeriodType DEF FirstKey
    <3> QED
      BY <1>6, <3>1 DEF Keys
  <2>3. n >= 0
    BY <2>1, <2>2
  <2>4. tm.selfAt = n * PreciseTick /\ Off(tm) = tm.selfAt - 0 - (n - 0) * PreciseTick
    BY <1>3, <1>4 DEF Off
  <2> HIDE DEF n
  <2>5. n * PreciseTick \in Nat /\ n - 0 = n
    BY <2>1, <2>3, ClockAssumption
  <2> QED
    BY <1>2, <1>3, <2>4, <2>5
<1>9. Woken(tm)
  BY <1>2, <1>3, <1>7, <1>8, ExactIsWoken
<1> QED
  BY <1>1, <1>3, <1>5, <1>6, <1>7, <1>8, <1>9 DEF Timed

(* The invariant of a clock in an instant.                                 *)
TimedClock(t) ==
  /\ Residual(t)
  /\ t.error # "misscheduled"
  /\ t.error = "none" => /\ Woken(t)
                         /\ Osc \in t.inflight => Exact(t)
  /\ CyclicOnSlot(t)

TimersDue == \A c \in TimerClients : tm.timer[c] # None => tm.timer[c] - corrected = due[c]

LEMMA TimedAfter ==
  ASSUME NEW s, tm' = s, now' = now, TimedClock(s), IInv', TimersDue'
  PROVE  Timed'
<1>1. Residual(tm)'
  BY DEF TimedClock, Residual
<1>2. Woken(s) => Woken(tm)'
  BY DEF Woken, Off, Keys, NextAction
<1>3. Exact(s) => Exact(tm)'
  BY DEF Exact, Off, Keys, NextAction
<1>4. (tm.error = "none" => Woken(tm) /\ (Osc \in tm.inflight => Exact(tm)))'
  BY <1>2, <1>3 DEF TimedClock
<1>5. (tm.error # "misscheduled")' /\ CyclicOnSlot(tm)'
  BY DEF TimedClock, CyclicOnSlot, OnSlot
<1> QED
  BY <1>1, <1>4, <1>5 DEF Timed, TimersDue

(* A clock with an event taken out is as good as before.                   *)
LEMMA TakenTimed ==
  ASSUME Timed, NEW c \in Clients, CanHandle(c)
  PROVE  LET t == Taken(c) IN
         /\ t \in TimerState /\ now \in Nat /\ t.error = "none" /\ Wakeable(t)
         /\ t.inflight = tm.inflight \ {c} /\ t.action = tm.action /\ t.timer = tm.timer
         /\ t.ticks = tm.ticks /\ t.tick = tm.tick
         /\ TimedClock(t) /\ (Osc \in tm.inflight => Exact(t))
         /\ c \in ActionClients => /\ Fresh(t) /\ t.action[c] = None
<1> DEFINE t == Taken(c)
<1>1. /\ t \in TimerState /\ now \in Nat /\ t.error = "none" /\ Wakeable(t)
      /\ tm.inflight \intersect ActionClients # {} => Fresh(t)
  BY TakenType DEF Timed
<1>2. tm \in TimerState /\ c \in tm.inflight /\ tm.error = "none"
  BY DEF Timed, IInv, TypeOK, CanHandle
<1>3. /\ t.inflight = tm.inflight \ {c} /\ t.action = tm.action /\ t.timer = tm.timer
      /\ t.ticks = tm.ticks /\ t.tick = tm.tick /\ t.selfAt = tm.selfAt
      /\ t.lastRecalc = tm.lastRecalc /\ t.recalcTime = tm.recalcTime
  BY <1>2 DEF Taken, TimerState
<1> HIDE DEF t
<1>4. Keys(t) = Keys(tm) /\ NextAction(t) = NextAction(tm)
  BY <1>3 DEF Keys, NextAction
<1>5. Off(t) = Off(tm)
  BY <1>3, <1>4 DEF Off
<1>6. Residual(t) /\ Woken(t) /\ (Osc \in tm.inflight => Exact(t))
  BY <1>2, <1>3, <1>4, <1>5 DEF Timed, Residual, Woken, Exact
<1>7. CyclicOnSlot(t)
  BY <1>3 DEF Timed, CyclicOnSlot
<1>8. c \in ActionClients => Fresh(t) /\ t.action[c] = None
  BY <1>1, <1>2, <1>3 DEF Timed, CyclicOnSlot
<1>9. TimedClock(t)
  BY <1>1, <1>3, <1>6, <1>7 DEF TimedClock
<1> QED
  BY <1>1, <1>3, <1>6, <1>8, <1>9 DEF t

(* Registering the next event of a client keeps the clock as good.         *)
LEMMA ReregisteredTimed ==
  ASSUME Timed, NEW c \in ActionClients, CanHandle(c)
  PROVE  LET s == RegisterAction(Taken(c), c, TRUE) IN
         /\ s \in TimerState /\ now \in Nat /\ s.error = "none" /\ Fresh(s)
         /\ TimedClock(s)
         /\ s.timer = tm.timer /\ s.inflight = tm.inflight \ {c}
<1> DEFINE t == Taken(c)
           s == RegisterAction(t, c, TRUE)
<1>1. /\ t \in TimerState /\ now \in Nat /\ t.error = "none" /\ Wakeable(t)
      /\ t.inflight = tm.inflight \ {c} /\ t.timer = tm.timer
      /\ TimedClock(t) /\ (Osc \in tm.inflight => Exact(t))
      /\ Fresh(t) /\ t.action[c] = None
  BY TakenTimed DEF Clients
<1> HIDE DEF t
<1>2. /\ s \in TimerState /\ s.error = "none" /\ Fresh(s) /\ s.inflight = t.inflight
  BY <1>1, RegisterActionType
<1>3. /\ Residual(t) /\ Woken(t) /\ t.recalcTime = now
  BY <1>1 DEF TimedClock, Fresh
<1>4. /\ Residual(s) /\ s.timer = t.timer
      /\ \E key \in Int : s.action = [t.action EXCEPT ![c] = key] /\ OnSlot(c, key)
      /\ Woken(t) => Woken(s)
      /\ Exact(t) => Exact(s)
  BY <1>1, <1>3, RegisterActionWoken
<1> HIDE DEF s
<1>5. CyclicOnSlot(s)
  <2>1. PICK key \in Int : s.action = [t.action EXCEPT ![c] = key] /\ OnSlot(c, key)
    BY <1>4
  <2>2. t.action \in [ActionClients -> Int] /\ CyclicOnSlot(t) /\ c \notin s.inflight
    BY <1>1, <1>2 DEF TimerState, TimedClock
  <2> QED
    BY <1>2, <2>1, <2>2 DEF CyclicOnSlot
<1>6. Osc \in s.inflight => Exact(s)
  BY <1>1, <1>2, <1>4
<1>7. TimedClock(s)
  BY <1>2, <1>3, <1>4, <1>5, <1>6 DEF TimedClock
<1> QED
  BY <1>1, <1>2, <1>4, <1>7 DEF s, t

(* The oscillator changes the length of the tick: the wake-up, exact until *)
(* now, is off by the change of a tick in every tick that is left.         *)
LEMMA DriftTimed ==
  ASSUME Timed, CanHandle(Osc), NEW length \in TickLengths,
         length - tm.tick \in (-DriftStep) .. DriftStep
  PROVE  LET s == RegisterAction([Taken(Osc) EXCEPT !.tick = length], Osc, TRUE) IN
         TimedClock(s) /\ s.timer = tm.timer /\ s.inflight = tm.inflight \ {Osc}
<1> DEFINE t == Taken(Osc)
           u == [t EXCEPT !.tick = length]
           s == RegisterAction(u, Osc, TRUE)
<1>0. Osc \in ActionClients /\ Osc \in Clients /\ Osc \in tm.inflight
  BY DEF ActionClients, Clients, CanHandle
<1>1. /\ t \in TimerState /\ now \in Nat /\ t.error = "none" /\ Wakeable(t)
      /\ t.inflight = tm.inflight \ {Osc} /\ t.timer = tm.timer /\ t.tick = tm.tick
      /\ TimedClock(t) /\ Exact(t) /\ Fresh(t) /\ t.action[Osc] = None
  BY <1>0, TakenTimed
<1> HIDE DEF t
<1>2. /\ u \in TimerState /\ u.error = "none" /\ u.selfAt = t.selfAt /\ u.tick = length
      /\ u.action = t.action /\ u.timer = t.timer /\ u.inflight = t.inflight
      /\ u.ticks = t.ticks /\ u.recalcTime = t.recalcTime /\ u.lastRecalc = t.lastRecalc
  BY <1>1 DEF TimerState
<1> HIDE DEF u
<1>3. Keys(u) = Keys(t) /\ NextAction(u) = NextAction(t)
  BY <1>2 DEF Keys, NextAction
<1>4. Wakeable(u) /\ Residual(u) /\ Fresh(u) /\ u.recalcTime = now
  BY <1>1, <1>2, <1>3 DEF Wakeable, TimedClock, Residual, Fresh, Ahead
<1>5. s \in TimerState /\ s.error = "none" /\ s.inflight = u.inflight
  BY <1>0, <1>1, <1>2, <1>4, RegisterActionType
<1>6. /\ Residual(s) /\ s.lastRecalc = u.lastRecalc /\ s.recalcTime = now
      /\ s.tick = u.tick /\ s.ticks = u.ticks /\ s.timer = u.timer
      /\ \E key \in Int : /\ s.action = [u.action EXCEPT ![Osc] = key]
                          /\ OnSlot(Osc, key) /\ key <= u.ticks + Cycle(Osc)
                          /\ \/ Exact(s)
                             \/ /\ Keys(s) # {} /\ Keys(u) # {}
                                /\ NextAction(s) = NextAction(u) /\ NextAction(s) <= key
                                /\ s.selfAt = u.selfAt
  BY <1>0, <1>1, <1>2, <1>4, RegisterActionWoken
<1> HIDE DEF s
<1>7. PICK key \in Int : /\ s.action = [u.action EXCEPT ![Osc] = key]
                         /\ OnSlot(Osc, key) /\ key <= u.ticks + Cycle(Osc)
                         /\ \/ Exact(s)
                            \/ /\ Keys(s) # {} /\ Keys(u) # {}
                               /\ NextAction(s) = NextAction(u) /\ NextAction(s) <= key
                               /\ s.selfAt = u.selfAt
  BY <1>6
<1>8. CyclicOnSlot(s)
  <2>1. u.action \in [ActionClients -> Int] /\ CyclicOnSlot(t) /\ Osc \notin s.inflight
    BY <1>1, <1>2, <1>5 DEF TimerState, TimedClock
  <2> QED
    BY <1>2, <1>5, <1>7, <2>1 DEF CyclicOnSlot
<1>9. Exact(s) => Woken(s)
  BY <1>1, <1>5, <1>6, ExactIsWoken
<1>10. ~Exact(s) => Woken(s)
  <2> SUFFICES ASSUME ~Exact(s) PROVE Woken(s)
    OBVIOUS
  <2> DEFINE n == NextAction(t)
             left == n - t.ticks
             change == t.tick - length
             passed == now - t.lastRecalc
  <2>1. /\ Keys(s) # {} /\ Keys(t) # {} /\ NextAction(s) = n /\ n <= key /\ s.selfAt = t.selfAt
    BY <1>2, <1>3, <1>7
  <2>2. n \in Int /\ n > t.ticks
    BY <1>1, <2>1, NextActionIsLeast DEF Fresh, Ahead
  <2>3. /\ t.ticks \in Int /\ t.tick \in Nat /\ length \in Nat /\ t.selfAt \in Int
        /\ t.lastRecalc \in Int /\ Cycle(Osc) \in Nat /\ MaxTick \in Nat /\ Slip \in Nat
    BY <1>0, <1>1, <1>2, TickType, SlipType, PeriodType
  <2>4. left \in Nat /\ left <= Cycle(Osc) /\ change \in Int
    BY <1>2, <1>7, <2>1, <2>2, <2>3
  <2>5. passed \in Int /\ passed >= 0 /\ passed <= MaxTick - 1
    <3>1. Residual(t) /\ t.recalcTime = now
      BY <1>1 DEF TimedClock, Fresh
    <3> QED
      BY <1>1, <2>3, <3>1 DEF Residual
  <2>6. t.selfAt >= now /\ t.selfAt - t.lastRecalc - left * t.tick = passed
    BY <1>1, <2>1 DEF Exact, Off
  <2>7. Off(s) = s.selfAt - t.lastRecalc - left * length
    BY <1>2, <1>6, <2>1 DEF Off
  <2> HIDE DEF n, left, passed
  <2>8. left * change = left * t.tick - left * length /\ left * t.tick \in Int /\ left * length \in Int
    BY <2>3, <2>4, SMT
  <2>9. Off(s) = passed + left * change /\ left * change \in Int
    BY <2>1, <2>3, <2>4, <2>5, <2>6, <2>7, <2>8
  <2>10. left * change <= Slip /\ left * change >= -Slip
    <3>1. CASE MaxDrift = 0
      <4>1. change = 0
        BY <1>1, <3>1, ClockAssumption DEF TimerState, TickLengths
      <4> HIDE DEF change
      <4>2. left * change = 0
        BY <2>4, <4>1
      <4> QED
        BY <2>3, <4>2
    <3>2. CASE MaxDrift # 0
      <4>1. change <= DriftStep /\ -change <= DriftStep /\ DriftStep \in Nat /\ -change \in Int
        BY <1>1, <2>3, ClockAssumption
      <4> HIDE DEF change
      <4>2. change * left <= DriftStep * left /\ (-change) * left <= DriftStep * left
        BY <2>4, <4>1, ProductGrows
      <4>3. left * DriftStep <= Cycle(Osc) * DriftStep
        BY <2>3, <2>4, <4>1, ProductGrows
      <4>4. /\ change * left = left * change /\ (-change) * left = -(left * change)
            /\ DriftStep * left = left * DriftStep
            /\ left * change \in Int /\ left * DriftStep \in Int
        BY <2>4, <4>1, SMT
      <4>5. Slip = Cycle(Osc) * DriftStep
        BY <3>2 DEF Slip
      <4> QED
        BY <2>3, <4>2, <4>3, <4>4, <4>5
    <3> QED
      BY <3>1, <3>2
  <2>11. Off(s) >= -Slip /\ Off(s) <= Slip + MaxTick - 1
    BY <2>3, <2>5, <2>9, <2>10
  <2> QED
    BY <2>1, <2>6, <2>11 DEF Woken
<1>11. s.timer = tm.timer /\ s.inflight = tm.inflight \ {Osc}
  BY <1>1, <1>2, <1>5, <1>6
<1>12. TimedClock(s)
  BY <1>5, <1>6, <1>8, <1>9, <1>10, <1>11 DEF TimedClock
<1> QED
  BY <1>11, <1>12 DEF s, u, t

(* The wake-up sends what is due, at most a tick late.                     *)
LEMMA FireTimed ==
  ASSUME SlowDrift, Timed, Fire, IInv'
  PROVE  Timed' /\ TimersSent /\ ActionsSent
<1> DEFINE t == [tm EXCEPT !.selfAt = None]
           s == SendOutEvents(t)
<1>1. /\ tm \in TimerState /\ now \in Nat /\ tm.error = "none" /\ tm.selfAt = now
      /\ Residual(tm) /\ Woken(tm) /\ CyclicOnSlot(tm) /\ TimersDue
      /\ due \in [TimerClients -> Int] /\ corrected \in Int
  BY DEF Timed, Fire, IInv, TypeOK, TimersDue
<1>2. /\ tm' = s /\ now' = now /\ corrected' = corrected /\ due' = due
  BY DEF Fire
<1>3. /\ t \in TimerState /\ t.error = "none"
      /\ t.action = tm.action /\ t.timer = tm.timer /\ t.inflight = tm.inflight
      /\ t.tick = tm.tick /\ t.ticks = tm.ticks
      /\ t.lastRecalc = tm.lastRecalc /\ t.recalcTime = tm.recalcTime
  BY <1>1 DEF TimerState, None
<1>4. Recalculate(t).ticks = Recalculate(tm).ticks
  BY <1>1, <1>3 DEF Recalculate, TimerState
<1> HIDE DEF t
<1>5. Residual(t)
  BY <1>1, <1>3 DEF Residual
<1> DEFINE clock == Recalculate(tm).ticks
<1>6. clock \in Int
  BY <1>1, RecalculateType DEF TimerState
<1>7. \A key \in Keys(tm) : clock - key <= Lateness
  BY <1>1, NoneTooLate
<1>8. Lateness \in 0 .. 1
  BY DEF Lateness
<1>9. /\ tm.action \in [ActionClients -> Int] /\ tm.timer \in [TimerClients -> Int]
  BY <1>1 DEF TimerState
<1>10. /\ \A c \in ActionClients : tm.action[c] # None => clock - tm.action[c] <= Lateness
       /\ \A c \in TimerClients : tm.timer[c] # None => clock - tm.timer[c] <= Lateness
  BY <1>7 DEF Keys
<1> HIDE DEF clock
<1>11. \A c \in TimerClients : t.timer[c] # None => Recalculate(t).ticks - t.timer[c] <= 1
  BY <1>3, <1>4, <1>6, <1>8, <1>9, <1>10 DEF clock
<1>12. /\ Exact(s) /\ Residual(s) /\ SendsDue(t, s)
       /\ s.error # "misscheduled"
       /\ s.ticks = clock /\ s.recalcTime = now
  BY <1>1, <1>3, <1>4, <1>5, <1>11, SendOutEventsExact DEF clock
<1>13. s \in TimerState
  BY <1>1, <1>3, SendOutEventsType
<1> HIDE DEF s
<1>14. Woken(s)
  BY <1>1, <1>12, <1>13, ExactIsWoken
<1>15. CyclicOnSlot(s)
  <2>1. \A c \in ActionClients : s.action[c] \in {None, tm.action[c]}
    BY <1>3, <1>12 DEF SendsDue
  <2>2. \A c \in ActionClients : c \in s.inflight => s.action[c] = None
    <3> SUFFICES ASSUME NEW c \in ActionClients, c \in s.inflight PROVE s.action[c] = None
      OBVIOUS
    <3>1. CASE c \in tm.inflight
      BY <1>1, <2>1, <3>1 DEF CyclicOnSlot
    <3>2. CASE c \notin tm.inflight
      BY <1>3, <1>12, <3>2 DEF SendsDue
    <3> QED
      BY <3>1, <3>2
  <2> QED
    BY <1>1, <2>1, <2>2 DEF CyclicOnSlot
<1>16. TimedClock(s)
  BY <1>12, <1>14, <1>15 DEF TimedClock
<1>17. TimersDue'
  <2>1. \A c \in TimerClients : s.timer[c] # None => s.timer[c] = tm.timer[c]
    BY <1>3, <1>12 DEF SendsDue
  <2> QED
    BY <1>1, <1>2, <2>1 DEF TimersDue
<1>18. Timed'
  BY <1>2, <1>16, <1>17, TimedAfter
<1>19. TimersSent
  <2> SUFFICES ASSUME NEW c \in TimerClients, c \in s.inflight, c \notin tm.inflight
               PROVE  s.ticks - corrected - due[c] \in 0 .. Lateness
    BY <1>2 DEF TimersSent
  <2>1. tm.timer[c] # None /\ tm.timer[c] <= clock
    BY <1>3, <1>12 DEF SendsDue
  <2>2. due[c] = tm.timer[c] - corrected /\ clock - tm.timer[c] <= Lateness
    BY <1>1, <1>10, <2>1 DEF TimersDue
  <2>3. tm.timer[c] \in Int
    BY <1>9
  <2> QED
    BY <1>1, <1>6, <1>8, <1>12, <2>1, <2>2, <2>3
<1>20. ActionsSent
  <2> SUFFICES ASSUME NEW c \in ActionClients, c \in s.inflight, c \notin tm.inflight
               PROVE  SentOnSlot(s, c, corrected - corrected)
    BY <1>2 DEF ActionsSent
  <2>1. tm.action[c] # None /\ tm.action[c] <= clock
    BY <1>3, <1>12 DEF SendsDue
  <2>2. /\ tm.action[c] \in Int /\ OnSlot(c, tm.action[c])
        /\ s.ticks \in Int /\ s.ticks - tm.action[c] <= Lateness /\ tm.action[c] <= s.ticks
    BY <1>1, <1>6, <1>9, <1>10, <1>12, <2>1 DEF CyclicOnSlot
  <2>3. corrected - corrected \in Int
    BY <1>1
  <2> QED
    BY <2>2, <2>3, SentOnSlotIf
<1> QED
  BY <1>18, <1>19, <1>20

(* The handlers of the cyclic events register the next one.                *)
LEMMA ReregisterTimed ==
  ASSUME Timed, NEW c \in ActionClients, CanHandle(c), IInv',
         tm' = RegisterAction(Taken(c), c, TRUE), UNCHANGED <<now, corrected, due>>
  PROVE  Timed' /\ TimersSent /\ ActionsSent
<1> DEFINE s == RegisterAction(Taken(c), c, TRUE)
<1>1. TimedClock(s) /\ s.timer = tm.timer /\ s.inflight = tm.inflight \ {c} /\ tm' = s
  BY ReregisteredTimed
<1> HIDE DEF s
<1>2. TimersDue'
  BY <1>1 DEF Timed, TimersDue
<1>3. Timed'
  BY <1>1, <1>2, TimedAfter
<1>4. tm'.inflight \subseteq tm.inflight
  BY <1>1
<1> QED
  BY <1>3, <1>4, NoneSent

LEMMA ChangeDriftTimed ==
  ASSUME Timed, NEW length \in TickLengths, ChangeDrift(length), IInv'
  PROVE  Timed' /\ TimersSent /\ ActionsSent
<1> DEFINE s == RegisterAction([Taken(Osc) EXCEPT !.tick = length], Osc, TRUE)
<1>1. /\ CanHandle(Osc) /\ length - tm.tick \in (-DriftStep) .. DriftStep
      /\ tm' = s /\ now' = now /\ corrected' = corrected /\ due' = due
  BY DEF ChangeDrift
<1>2. TimedClock(s) /\ s.timer = tm.timer /\ s.inflight = tm.inflight \ {Osc}
  BY <1>1, DriftTimed
<1> HIDE DEF s
<1>3. TimersDue'
  BY <1>1, <1>2 DEF Timed, TimersDue
<1>4. Timed'
  BY <1>1, <1>2, <1>3, TimedAfter
<1>5. tm'.inflight \subseteq tm.inflight
  BY <1>1, <1>2
<1> QED
  BY <1>4, <1>5, NoneSent

LEMMA DeviationType ==
  ASSUME now \in Nat
  PROVE  Deviation \in Int
<1> DEFINE a == (now \div PreciseTick) - ActionTime[Sync]
           d == Cycle(Sync)
<1>1. now \div PreciseTick \in Int
  BY ClockAssumption, Division
<1>2. a \in Int /\ d \in Nat \ {0}
  BY <1>1, PeriodType DEF ActionClients
<1>3. a % d \in Int
  <2> HIDE DEF a, d
  <2> QED
    BY <1>2, Remainder
<1> QED
  BY <1>2, <1>3 DEF Deviation

(* A correction moves the timer events with the clock and sends only the   *)
(* time-triggered events that it jumps over.                               *)
LEMMA SynchroniseTimed ==
  ASSUME Timed, NEW noise \in (-Precision) .. Precision, Synchronise(noise), IInv'
  PROVE  Timed' /\ TimersSent /\ ActionsSent
<1> DEFINE again == RegisterAction(Taken(Sync), Sync, TRUE)
           correction == Deviation + noise
           s == ClockCorrection(again, correction)
<1>0. Sync \in ActionClients /\ CanHandle(Sync) /\ now' = now /\ due' = due
  BY DEF Synchronise, ActionClients
<1>1. /\ again \in TimerState /\ now \in Nat /\ again.error = "none" /\ Fresh(again)
      /\ TimedClock(again)
      /\ again.timer = tm.timer /\ again.inflight = tm.inflight \ {Sync}
  BY <1>0, ReregisteredTimed
<1>2. CASE ~(cycles[PeriodOf[Sync]] > 0)
  <2>1. tm' = again /\ corrected' = corrected
    BY <1>2 DEF Synchronise
  <2> QED
    BY <1>0, <2>1, ReregisterTimed
<1>3. CASE cycles[PeriodOf[Sync]] > 0
  <2>1. tm' = s /\ corrected' = corrected + Deviation + noise
    BY <1>3 DEF Synchronise
  <2>2. correction \in Int /\ corrected \in Int /\ corrected' = corrected + correction
    BY <1>1, <2>1, DeviationType, ClockAssumption DEF Timed, IInv, TypeOK
  <2> HIDE DEF again, correction
  <2>3. Residual(again) /\ CyclicOnSlot(again)
    BY <1>1 DEF TimedClock
  <2>4. /\ Exact(s) /\ Residual(s) /\ CyclicOnSlot(s) /\ s.error # "misscheduled"
        /\ s.recalcTime = now
        /\ \A c \in TimerClients : s.timer[c] # None =>
             again.timer[c] # None /\ s.timer[c] = again.timer[c] + correction
        /\ \A c \in (s.inflight \ again.inflight) \intersect TimerClients : FALSE
        /\ \A c \in (s.inflight \ again.inflight) \intersect ActionClients :
             SentOnSlot(s, c, correction)
    BY <1>1, <2>2, <2>3, ClockCorrectionExact
  <2>5. s \in TimerState
    BY <1>1, <2>2, ClockCorrectionType
  <2> HIDE DEF s
  <2>6. Woken(s)
    BY <1>1, <2>4, <2>5, ExactIsWoken
  <2>7. TimedClock(s)
    BY <2>4, <2>6 DEF TimedClock
  <2>8. TimersDue'
    <3> SUFFICES ASSUME NEW c \in TimerClients, s.timer[c] # None
                 PROVE  s.timer[c] - (corrected + correction) = due[c]
      BY <1>0, <2>1, <2>2 DEF TimersDue
    <3>1. tm.timer[c] # None /\ s.timer[c] = tm.timer[c] + correction
      BY <1>1, <2>4
    <3>2. tm.timer[c] - corrected = due[c] /\ tm.timer[c] \in Int
      BY <3>1 DEF Timed, IInv, TypeOK, TimerState
    <3> QED
      BY <2>2, <3>1, <3>2
  <2>9. Timed'
    BY <1>0, <2>1, <2>7, <2>8, TimedAfter
  <2>10. TimersSent
    BY <1>1, <2>1, <2>4 DEF TimersSent
  <2>11. corrected' - corrected = correction
    BY <2>2
  <2>12. ActionsSent
    <3> SUFFICES ASSUME NEW c \in ActionClients, c \in s.inflight, c \notin tm.inflight
                 PROVE  SentOnSlot(s, c, correction)
      BY <2>1, <2>11 DEF ActionsSent
    <3> QED
      BY <1>1, <2>4
  <2> QED
    BY <2>9, <2>10, <2>12
<1> QED
  BY <1>2, <1>3

(* A timer is registered for the tick that is asked for; one that asks for *)
(* none is sent at once.                                                   *)
LEMMA StartTimerTimed ==
  ASSUME Timed, NEW c \in TimerClients, NEW delay \in Delays, StartTimer(c, delay), IInv'
  PROVE  Timed' /\ TimersSent /\ ActionsSent
<1> DEFINE s == RegisterTimer(tm, c, delay)
           clock == Recalculate(tm).ticks
           key == clock + delay
<1>1. /\ tm \in TimerState /\ now \in Nat /\ tm.error = "none" /\ Wakeable(tm)
      /\ Residual(tm) /\ Woken(tm) /\ (Osc \in tm.inflight => Exact(tm))
      /\ CyclicOnSlot(tm) /\ TimersDue
      /\ due \in [TimerClients -> Int] /\ corrected \in Int
  BY DEF Timed, StartTimer, IInv, TypeOK, TimersDue
<1>2. /\ tm' = s /\ now' = now /\ corrected' = corrected
      /\ due' = [due EXCEPT ![c] = clock - corrected + delay]
      /\ tm.timer[c] = None
  BY DEF StartTimer
<1>3. delay \in Nat /\ clock \in Int /\ tm.timer \in [TimerClients -> Int] /\ Lateness \in 0 .. 1
  BY <1>1, ScheduleAssumption, RecalculateType DEF TimerState, Lateness
<1>4. key \in Int /\ key - corrected = clock - corrected + delay
  BY <1>1, <1>3
<1>5. due' = [due EXCEPT ![c] = key - corrected]
  BY <1>2, <1>4
<1>6. /\ Residual(s) /\ s.action = tm.action
      /\ \/ /\ delay = 0 /\ s.timer = tm.timer
            /\ s.inflight = tm.inflight \union {c} /\ s.ticks = key
         \/ /\ s.timer = [tm.timer EXCEPT ![c] = key]
            /\ s.inflight = tm.inflight
      /\ Woken(s)
      /\ tm.recalcTime = now /\ Exact(tm) => Exact(s)
  BY <1>1, <1>2, <1>3, RegisterTimerWoken
<1>7. s.error = "none" /\ s.inflight \subseteq tm.inflight \union {c}
  BY <1>1, <1>3, RegisterTimerType
<1> HIDE DEF s, clock, key
<1>8. c \notin ActionClients /\ Osc \in ActionClients
  BY ClientsAssumption DEF ActionClients
<1>9. Osc \in s.inflight => Exact(s)
  <2>1. Osc \in tm.inflight => tm.recalcTime = now
    BY <1>1, <1>8 DEF Timed, IInv, HandlersSeeFreshClock
  <2> QED
    BY <1>1, <1>6, <1>7, <1>8, <2>1
<1>10. CyclicOnSlot(s)
  BY <1>1, <1>6, <1>7, <1>8 DEF CyclicOnSlot
<1>11. TimedClock(s)
  BY <1>6, <1>7, <1>9, <1>10 DEF TimedClock
<1>12. TimersDue'
  <2> SUFFICES ASSUME NEW d \in TimerClients, s.timer[d] # None
               PROVE  s.timer[d] - corrected = due'[d]
    BY <1>2 DEF TimersDue
  <2>1. CASE d = c
    <3>1. s.timer[c] = key
      BY <1>2, <1>3, <1>6, <2>1
    <3> QED
      BY <1>1, <1>5, <2>1, <3>1
  <2>2. CASE d # c
    <3>1. s.timer[d] = tm.timer[d] /\ due'[d] = due[d]
      BY <1>1, <1>3, <1>5, <1>6, <2>2
    <3> QED
      BY <1>1, <3>1 DEF TimersDue
  <2> QED
    BY <2>1, <2>2
<1>13. Timed'
  BY <1>2, <1>11, <1>12, TimedAfter
<1>14. TimersSent
  <2> SUFFICES ASSUME c \in s.inflight, c \notin tm.inflight
               PROVE  s.ticks - corrected - due'[c] \in 0 .. Lateness
    BY <1>2, <1>7 DEF TimersSent
  <2>1. s.ticks = key
    BY <1>6
  <2>2. due'[c] = key - corrected
    BY <1>1, <1>5
  <2> QED
    BY <1>1, <1>3, <1>4, <2>1, <2>2
<1>15. ActionsSent
  BY <1>2, <1>7, <1>8 DEF ActionsSent
<1> QED
  BY <1>13, <1>14, <1>15

LEMMA ExpireTimed ==
  ASSUME Timed, NEW c \in TimerClients, Expire(c), IInv'
  PROVE  Timed' /\ TimersSent /\ ActionsSent
<1> DEFINE s == Taken(c)
<1>1. c \in Clients /\ CanHandle(c) /\ tm' = s /\ UNCHANGED <<now, corrected, due>>
  BY DEF Expire, Clients
<1>2. TimedClock(s) /\ s.timer = tm.timer /\ s.inflight = tm.inflight \ {c}
  BY <1>1, TakenTimed
<1> HIDE DEF s
<1>3. TimersDue'
  BY <1>1, <1>2 DEF Timed, TimersDue
<1>4. Timed'
  BY <1>1, <1>2, <1>3, TimedAfter
<1>5. tm'.inflight \subseteq tm.inflight
  BY <1>1, <1>2
<1> QED
  BY <1>4, <1>5, NoneSent

(* Time stops at the wake-up.                                              *)
LEMMA AdvanceTimed ==
  ASSUME Timed, NEW time \in now .. MaxTime, Advance(time), IInv'
  PROVE  Timed' /\ TimersSent /\ ActionsSent
<1>1. /\ tm' = tm /\ now' = time /\ corrected' = corrected /\ due' = due
      /\ tm.inflight = {} /\ tm.error = "none" /\ time > now
      /\ tm.selfAt # None => time <= tm.selfAt
  BY DEF Advance
<1>2. /\ tm \in TimerState /\ now \in Nat /\ time \in Nat /\ Wakeable(tm)
      /\ Residual(tm) /\ Woken(tm) /\ CyclicOnSlot(tm)
  BY <1>1, ClockAssumption DEF Timed, IInv, TypeOK
<1>3. Residual(tm)'
  <2>1. tm.recalcTime \in Int
    BY <1>2, TickType
  <2> QED
    BY <1>1, <1>2, <2>1 DEF Residual
<1>4. Woken(tm)'
  <2> SUFFICES ASSUME Keys(tm) # {}
               PROVE  tm.selfAt >= time /\ Off(tm) >= -Slip /\ Off(tm) <= Slip + MaxTick - 1
    BY <1>1 DEF Woken, Off, Keys, NextAction
  <2>1. tm.selfAt # None /\ tm.selfAt \in Int
    BY <1>2, TickType DEF Wakeable
  <2> QED
    BY <1>1, <1>2, <2>1 DEF Woken
<1>5. Timed'
  BY <1>1, <1>3, <1>4 DEF Timed, CyclicOnSlot, OnSlot
<1>6. tm'.inflight \subseteq tm.inflight
  BY <1>1
<1> QED
  BY <1>5, <1>6, NoneSent

(* Every step keeps the invariant and sends its events in time.            *)
LEMMA NextTimed ==
  ASSUME SlowDrift
  PROVE  Timed /\ [Next]_vars => Timed' /\ TimersSent /\ ActionsSent
<1> SUFFICES ASSUME Timed, [Next]_vars PROVE Timed' /\ TimersSent /\ ActionsSent
  OBVIOUS
<1>0. IInv'
  BY NextIInv DEF Timed
<1>1. CASE Fire
  BY <1>0, <1>1, FireTimed
<1>2. ASSUME NEW p \in Periods, NewCycle(p) PROVE Timed' /\ TimersSent /\ ActionsSent
  BY <1>0, <1>2, ReregisterTimed DEF NewCycle, ActionClients
<1>3. ASSUME NEW c \in TTClients, SendWindow(c) PROVE Timed' /\ TimersSent /\ ActionsSent
  BY <1>0, <1>3, ReregisterTimed DEF SendWindow, ActionClients
<1>4. ASSUME NEW length \in TickLengths, ChangeDrift(length)
      PROVE  Timed' /\ TimersSent /\ ActionsSent
  BY <1>0, <1>4, ChangeDriftTimed
<1>5. ASSUME NEW noise \in (-Precision) .. Precision, Synchronise(noise)
      PROVE  Timed' /\ TimersSent /\ ActionsSent
  BY <1>0, <1>5, SynchroniseTimed
<1>6. ASSUME NEW c \in TimerClients, NEW delay \in Delays, StartTimer(c, delay)
      PROVE  Timed' /\ TimersSent /\ ActionsSent
  BY <1>0, <1>6, StartTimerTimed
<1>7. ASSUME NEW c \in TimerClients, Expire(c) PROVE Timed' /\ TimersSent /\ ActionsSent
  BY <1>0, <1>7, ExpireTimed
<1>8. ASSUME NEW time \in now .. MaxTime, Advance(time)
      PROVE  Timed' /\ TimersSent /\ ActionsSent
  BY <1>0, <1>8, AdvanceTimed
<1>9. CASE UNCHANGED vars
  <2>1. /\ tm' = tm /\ now' = now /\ corrected' = corrected /\ due' = due
        /\ TimedClock(tm) /\ TimersDue
    BY <1>9 DEF vars, Timed, TimedClock, TimersDue
  <2>2. Timed'
    <3>1. TimersDue'
      BY <2>1 DEF TimersDue
    <3> QED
      BY <1>0, <2>1, <3>1, TimedAfter
  <2>3. tm'.inflight \subseteq tm.inflight
    BY <2>1
  <2> QED
    BY <2>2, <2>3, NoneSent
<1> QED
  BY <1>1, <1>2, <1>3, <1>4, <1>5, <1>6, <1>7, <1>8, <1>9 DEF Next

(* The wake-up is off by less than a tick.                                 *)
LEMMA TimedWakes ==
  ASSUME SlowDrift, Timed
  PROVE  WakesForNext
<1>1. /\ tm \in TimerState /\ now \in Nat /\ tm.error # "misscheduled"
      /\ tm.error = "none" => Woken(tm)
      /\ Residual(tm)
  BY DEF Timed, IInv, TypeOK
<1> SUFFICES ASSUME tm.error = "none", Keys(tm) # {}
             PROVE  /\ tm.selfAt >= now
                    /\ LET wake == tm.ticks + (tm.selfAt - tm.lastRecalc) \div tm.tick
                       IN  wake - NextAction(tm) \in (-Lateness) .. Lateness
  BY <1>1 DEF WakesForNext
<1> DEFINE d == tm.tick
           n == NextAction(tm)
           x == tm.selfAt - tm.lastRecalc
           w == n - tm.ticks
           q == x \div d
<1>2. /\ d \in Nat \ {0} /\ d <= MaxTick /\ d >= PreciseTick - MaxDrift
      /\ n \in Int /\ x \in Int /\ w \in Int /\ tm.ticks \in Int
  BY <1>1, TickType, NextActionIsLeast
<1>3. /\ tm.selfAt >= now /\ Off(tm) = x - w * d
      /\ Off(tm) >= -Slip /\ Off(tm) <= Slip + MaxTick - 1
  BY <1>1 DEF Woken, Off
<1>4. (tm.ticks + (tm.selfAt - tm.lastRecalc) \div tm.tick) - n = q - w
  <2>1. q \in Int
    <3> HIDE DEF x, d
    <3> QED
      BY <1>2, Division
  <2>2. (tm.selfAt - tm.lastRecalc) \div tm.tick = q
    OBVIOUS
  <2> HIDE DEF q
  <2> QED
    BY <1>2, <2>1, <2>2
<1> HIDE DEF d, x, w, n
<1>5. q \in Int /\ d * q <= x /\ x < d * q + d
  BY <1>2, Division
<1> HIDE DEF q
<1> DEFINE late == q - w
           p == late * d
<1>6. p \in Int /\ p = q * d - w * d /\ q * d \in Int /\ w * d \in Int /\ d * q = q * d
  BY <1>2, <1>5, Product
<1>7. late \in Int
  BY <1>2, <1>5
<1>8. p <= Off(tm) /\ Off(tm) < p + d /\ Off(tm) \in Int
  <2> HIDE DEF p
  <2> QED
    BY <1>2, <1>3, <1>5, <1>6
<1>9. /\ Slip \in Nat /\ MaxTick \in Nat /\ PreciseTick \in Nat /\ MaxDrift \in Nat
      /\ MaxTick = PreciseTick + MaxDrift /\ Slip + 3 * MaxDrift <= PreciseTick
      /\ MaxDrift = 0 => Slip = 0
  BY SlipType, ClockAssumption DEF SlowDrift, MaxTick, Slip
<1>10. late <= Lateness
  <2> SUFFICES ASSUME late >= Lateness + 1 PROVE FALSE
    BY <1>7 DEF Lateness
  <2>1. CASE MaxDrift = 0
    <3>1. 1 <= late
      BY <2>1 DEF Lateness
    <3> HIDE DEF late
    <3>2. 1 * d <= late * d
      BY <1>2, <1>7, <3>1, ProductGrows
    <3> HIDE DEF p
    <3> QED
      BY <1>2, <1>3, <1>6, <1>8, <1>9, <2>1, <3>2 DEF p
  <2>2. CASE MaxDrift # 0
    <3>1. 2 <= late
      BY <2>2 DEF Lateness
    <3> HIDE DEF late
    <3>2. 2 * d <= late * d
      BY <1>2, <1>7, <3>1, ProductGrows
    <3> QED
      BY <1>2, <1>3, <1>6, <1>8, <1>9, <3>2
  <2> QED
    BY <2>1, <2>2
<1>11. late >= -Lateness
  <2> SUFFICES ASSUME late <= -Lateness - 1 PROVE FALSE
    BY <1>7 DEF Lateness
  <2>1. CASE MaxDrift = 0
    <3>1. late <= -1
      BY <2>1 DEF Lateness
    <3> HIDE DEF late
    <3>2. late * d <= (-1) * d
      BY <1>2, <1>7, <3>1, ProductGrows
    <3> QED
      BY <1>2, <1>3, <1>6, <1>8, <1>9, <2>1, <3>2
  <2>2. CASE MaxDrift # 0
    <3>1. late <= -2
      BY <2>2 DEF Lateness
    <3> HIDE DEF late
    <3>2. late * d <= (-2) * d
      BY <1>2, <1>7, <3>1, ProductGrows
    <3> QED
      BY <1>2, <1>3, <1>6, <1>8, <1>9, <3>2
  <2> QED
    BY <2>1, <2>2
<1>12. late \in (-Lateness) .. Lateness
  BY <1>7, <1>10, <1>11 DEF Lateness
<1> QED
  BY <1>3, <1>4, <1>12 DEF n

(* As long as the drift is slow the one wake-up stays right for all the    *)
(* events, and "THIS SHOULD NOT HAPPEN!" is not thrown: for all schedules, *)
(* timers, corrections and tick lengths.                                   *)
THEOREM AlwaysWakesForNext ==
  ASSUME SlowDrift
  PROVE  Spec => []WakesForNext
<1>1. Timed => WakesForNext
  BY TimedWakes
<1>2. Timed /\ [Next]_vars => Timed'
  BY NextTimed
<1> QED
  BY <1>1, <1>2, InitTimed, PTL DEF Spec

(* Timer events are sent when their ticks have elapsed on the clock as it  *)
(* would be without corrections, at most a tick late.                      *)
THEOREM TimersAreOnTime ==
  ASSUME SlowDrift
  PROVE  Spec => TimerOnTime
<1>1. Timed /\ [Next]_vars => Timed'
  BY NextTimed
<1>2. Timed /\ [Next]_vars =>
        [\A c \in tm'.inflight \ tm.inflight : c \in TimerClients =>
           tm'.ticks - corrected' - due'[c] \in 0 .. Lateness]_vars
  BY NextTimed DEF TimersSent
<1> QED
  BY <1>1, <1>2, InitTimed, PTL DEF Spec, TimerOnTime

(* Time-triggered events are sent at their action time, or as late as the  *)
(* correction that jumps over them makes them.                             *)
THEOREM ActionsAreOnSlot ==
  ASSUME SlowDrift
  PROVE  Spec => ActionOnSlot
<1>1. Timed /\ [Next]_vars => Timed'
  BY NextTimed
<1>2. Timed /\ [Next]_vars =>
        [\A c \in tm'.inflight \ tm.inflight : c \in ActionClients =>
           LET late == (PeriodTicks(tm', c) - ActionTime[c]) % Cycle(c)
               jump == corrected' - corrected
           IN  \/ late <= Lateness
               \/ /\ late <= jump
                  /\ AllowedEventDelay < 0 \/ late < AllowedEventDelay]_vars
  BY NextTimed DEF ActionsSent, SentOnSlot
<1> QED
  BY <1>1, <1>2, InitTimed, PTL DEF Spec, ActionOnSlot

-----------------------------------------------------------------------------
(***************************************************************************)
(* The cyclic events.  A correction sets the clock back by MaxSetBack at   *)
(* most, and before the next one the clock has passed the tick that it was *)
(* set back from: the next event of Sync is registered before the clock is *)
(* corrected.  So the distances that corrections add to an event do not    *)
(* sum up: no event is farther than a cycle from the clock, or farther     *)
(* than a cycle from the next correction.  The first correction comes when *)
(* a cycle has begun, and the clock must not be set back before the start  *)
(* of the simulation then, as Timer.ticks is unsigned: RoomForSetBack.     *)
(***************************************************************************)

(* The tick at which the period of the correction begins its first cycle.  *)
FirstCycle == FirstKey(PeriodOf[Sync])

RoomForSetBack == MaxSetBack <= FirstCycle

(* When c is handled the first cycle has begun.                            *)
AfterFirst(t, c) ==
  IF c \in t.inflight THEN t.ticks >= FirstCycle ELSE t.action[c] >= FirstCycle

(* The event of c is registered, no farther than a correction can put it   *)
(* from the clock, and within a cycle of the clock or the next correction. *)
Registers(t, c) ==
  /\ t.action[c] # None
  /\ t.action[c] <= t.ticks + Cycle(c) + MaxSetBack
  /\ \/ t.action[c] <= t.ticks + Cycle(c)
     \/ Sync \notin t.inflight /\ t.action[c] <= t.action[Sync] + Cycle(c)

Kept(t, begun) ==
  /\ t.ticks >= 0
  /\ AfterFirst(t, IF begun THEN Sync ELSE PeriodOf[Sync])
  /\ \A c \in ActionClients \ t.inflight : Registers(t, c)

Begun == cycles[PeriodOf[Sync]] # 0

(* The inductive invariant.                                                *)
KeptTimed == Timed /\ tm.error = "none" /\ Kept(tm, Begun)

LEMMA SetBackType ==
  /\ FirstCycle \in Int /\ MaxSetBack \in Nat /\ Cycle(Sync) \div 2 \in Nat
  /\ Sync \in ActionClients /\ PeriodOf[Sync] \in ActionClients /\ PeriodOf[Sync] \in Periods
  /\ 2 * (Cycle(Sync) \div 2) <= Cycle(Sync) /\ Cycle(Sync) <= 2 * (Cycle(Sync) \div 2) + 1
<1>1. Sync \in ActionClients /\ PeriodOf[Sync] \in Periods /\ PeriodOf[Sync] \in ActionClients
  BY ClientsAssumption DEF ActionClients
<1>2. FirstCycle \in Int
  BY <1>1, FirstKeyOnSlot DEF FirstCycle
<1>3. Cycle(Sync) \in Nat
  BY <1>1, PeriodType
<1> DEFINE d == Cycle(Sync)
<1>4. /\ d \div 2 \in Nat /\ 2 * (d \div 2) <= d /\ d <= 2 * (d \div 2) + 1
  <2> HIDE DEF d
  <2>1. d \in Nat
    BY <1>3 DEF d
  <2> QED
    BY <2>1
<1>5. MaxSetBack \in Nat
  BY <1>4, ClockAssumption DEF MaxSetBack
<1> QED
  BY <1>1, <1>2, <1>4, <1>5

(* How late the next action may be found.                                  *)
LEMMA NotLate ==
  ASSUME SlowDrift, Timed, tm.error = "none", NEW c \in ActionClients, tm.action[c] # None
  PROVE  tm.action[c] - tm.ticks >= -Lateness
<1> DEFINE span == (tm.selfAt - tm.lastRecalc) \div tm.tick
<1>1. tm \in TimerState /\ now \in Nat /\ Residual(tm)
  BY DEF Timed, IInv, TypeOK
<1>2. tm.action[c] \in Keys(tm)
  BY DEF Keys
<1>3. /\ tm.selfAt >= now
      /\ (tm.ticks + span) - NextAction(tm) \in (-Lateness) .. Lateness
  <2>1. WakesForNext
    BY TimedWakes
  <2> QED
    BY <1>2, <2>1 DEF WakesForNext
<1>4. span \in Nat
  <2> DEFINE x == tm.selfAt - tm.lastRecalc
             d == tm.tick
  <2>1. d \in Nat \ {0} /\ x \in Nat
    BY <1>1, <1>3, TickType DEF Residual
  <2> HIDE DEF d, x
  <2>2. x \div d \in Nat
    BY <2>1, Division, Product, SMT
  <2> QED
    BY <2>2 DEF d, x
<1>5. /\ NextAction(tm) \in Int /\ NextAction(tm) <= tm.action[c]
      /\ tm.action[c] \in Int /\ tm.ticks \in Int
  BY <1>1, <1>2, NextActionIsLeast, TickType
<1> HIDE DEF span
<1> QED
  BY <1>3, <1>4, <1>5 DEF Lateness

LEMMA KeptWithinReach ==
  ASSUME SlowDrift, KeptTimed
  PROVE  CyclicEventsKept
<1> SUFFICES ASSUME NEW c \in ActionClients
             PROVE  IF c \in tm.inflight THEN tm.action[c] = None
                    ELSE tm.action[c] - tm.ticks \in (-Lateness) .. (Cycle(c) + MaxSetBack)
  BY DEF CyclicEventsKept
<1>1. CASE c \in tm.inflight
  BY <1>1 DEF KeptTimed, Timed, CyclicOnSlot
<1>2. CASE c \notin tm.inflight
  <2>1. tm.action[c] # None /\ tm.action[c] <= tm.ticks + Cycle(c) + MaxSetBack
    BY <1>2 DEF KeptTimed, Kept, Registers
  <2>2. tm.action[c] - tm.ticks >= -Lateness
    BY <2>1, NotLate DEF KeptTimed
  <2>3. tm.action[c] \in Int /\ tm.ticks \in Int
    BY DEF KeptTimed, Timed, IInv, TypeOK, TimerState
  <2>4. Cycle(c) \in Nat /\ MaxSetBack \in Nat
    BY PeriodType, SetBackType
  <2> QED
    BY <1>2, <2>1, <2>2, <2>3, <2>4 DEF Lateness
<1> QED
  BY <1>1, <1>2

(* Time passes, and due events are sent: what is kept stays kept.          *)
LEMMA KeptWhenSent ==
  ASSUME NEW t \in TimerState, NEW s \in TimerState, NEW begun \in BOOLEAN,
         Kept(t, begun), s.ticks >= t.ticks, t.inflight \subseteq s.inflight,
         \A c \in ActionClients \ s.inflight : s.action[c] = t.action[c],
         \A c \in (s.inflight \ t.inflight) \intersect ActionClients :
           t.action[c] # None /\ t.action[c] <= s.ticks
  PROVE  Kept(s, begun)
<1>1. /\ t.ticks \in Int /\ s.ticks \in Int
      /\ \A c \in ActionClients : t.action[c] \in Int /\ s.action[c] \in Int
  BY DEF TimerState
<1>2. s.ticks >= 0
  BY <1>1 DEF Kept
<1>3. ASSUME NEW c \in ActionClients, AfterFirst(t, c) PROVE AfterFirst(s, c)
  <2>1. CASE c \in t.inflight
    BY <1>1, <1>3, <2>1, SetBackType DEF AfterFirst
  <2>2. CASE c \notin t.inflight /\ c \in s.inflight
    BY <1>1, <1>3, <2>2, SetBackType DEF AfterFirst
  <2>3. CASE c \notin s.inflight
    BY <1>3, <2>3 DEF AfterFirst
  <2> QED
    BY <2>1, <2>2, <2>3
<1>4. ASSUME NEW c \in ActionClients, c \notin s.inflight PROVE Registers(s, c)
  <2>1. /\ c \notin t.inflight /\ s.action[c] = t.action[c] /\ Registers(t, c)
        /\ Cycle(c) \in Nat /\ MaxSetBack \in Nat /\ Sync \in ActionClients
    BY <1>4, PeriodType, SetBackType DEF Kept
  <2>2. CASE t.action[c] <= t.ticks + Cycle(c)
    BY <1>1, <2>1, <2>2 DEF Registers
  <2>3. CASE Sync \notin t.inflight /\ t.action[c] <= t.action[Sync] + Cycle(c)
    <3>1. CASE Sync \in s.inflight
      <4>1. t.action[Sync] <= s.ticks
        BY <2>1, <2>3, <3>1
      <4> QED
        BY <1>1, <2>1, <2>3, <4>1 DEF Registers
    <3>2. CASE Sync \notin s.inflight
      <4>1. s.action[Sync] = t.action[Sync]
        BY <2>1, <3>2
      <4> QED
        BY <1>1, <2>1, <2>3, <3>2, <4>1 DEF Registers
    <3> QED
      BY <3>1, <3>2
  <2> QED
    BY <2>1, <2>2, <2>3 DEF Registers
<1> QED
  BY <1>2, <1>3, <1>4, SetBackType DEF Kept

(* The recalculated clock does not go back.                                *)
LEMMA RecalculateForward ==
  ASSUME NEW t \in TimerState, now \in Nat, Residual(t)
  PROVE  Recalculate(t).ticks >= t.ticks
<1> DEFINE x == now - t.lastRecalc
           d == t.tick
<1>1. d \in Nat \ {0} /\ t.ticks \in Int /\ x \in Nat
  BY TickType DEF Residual
<1>2. CASE now = t.recalcTime
  BY <1>1, <1>2 DEF Recalculate
<1>3. CASE now # t.recalcTime
  <2>1. Recalculate(t).ticks = t.ticks + x \div d
    BY <1>3 DEF Recalculate, TimerState
  <2> HIDE DEF x, d
  <2>2. x \div d \in Nat
    BY <1>1, Division, Product, SMT
  <2> QED
    BY <1>1, <2>1, <2>2
<1> QED
  BY <1>2, <1>3

(* What a handler does: it takes its event and registers the next one.     *)
Reregistered(t, s, c) ==
  /\ c \in t.inflight /\ s.inflight = t.inflight \ {c}
  /\ s.ticks = t.ticks
  /\ \E key \in Int : /\ s.action = [t.action EXCEPT ![c] = key]
                      /\ key > s.ticks /\ key <= s.ticks + Cycle(c)

(* The events are kept; it may be the first cycle that begins.             *)
LEMMA KeptWhenRegistered ==
  ASSUME NEW t \in TimerState, NEW s \in TimerState, NEW c \in ActionClients,
         NEW begun \in BOOLEAN, NEW begins \in BOOLEAN, Kept(t, begun), Ahead(t),
         Reregistered(t, s, c), begun => begins, begins => begun \/ c = PeriodOf[Sync]
  PROVE  /\ Kept(s, begins)
         /\ c = Sync => \A e \in ActionClients \ s.inflight : s.action[e] <= s.ticks + Cycle(e)
<1>0. PICK key \in Int : /\ s.action = [t.action EXCEPT ![c] = key]
                         /\ key > s.ticks /\ key <= s.ticks + Cycle(c)
  BY DEF Reregistered
<1>1. /\ t.ticks \in Int /\ s.ticks = t.ticks /\ t.ticks >= 0 /\ key > t.ticks
      /\ \A e \in ActionClients : t.action[e] \in Int
      /\ s.action[c] = key /\ \A e \in ActionClients \ {c} : s.action[e] = t.action[e]
      /\ c \in t.inflight /\ s.inflight = t.inflight \ {c}
  BY <1>0 DEF TimerState, Kept, Reregistered
<1>2. /\ Sync \in ActionClients /\ PeriodOf[Sync] \in ActionClients /\ Sync # PeriodOf[Sync]
      /\ FirstCycle \in Int /\ MaxSetBack \in Nat
  BY SetBackType, ClientsAssumption
<1>3. ASSUME NEW e \in ActionClients, AfterFirst(t, e) PROVE AfterFirst(s, e)
  BY <1>1, <1>2, <1>3 DEF AfterFirst
<1>4. AfterFirst(s, IF begins THEN Sync ELSE PeriodOf[Sync])
  <2>1. CASE begins /\ begun
    BY <1>2, <1>3, <2>1 DEF Kept
  <2>2. CASE ~begins
    BY <1>2, <1>3, <2>2 DEF Kept
  <2>3. CASE begins /\ ~begun /\ c = PeriodOf[Sync]
    <3>1. t.ticks >= FirstCycle
      <4>1. AfterFirst(t, c)
        BY <2>3 DEF Kept
      <4> QED
        BY <1>1, <4>1 DEF AfterFirst
    <3>2. Sync \notin t.inflight => t.action[Sync] > t.ticks
      BY <1>2 DEF Kept, Registers, Ahead, Keys
    <3> QED
      BY <1>1, <1>2, <2>3, <3>1, <3>2 DEF AfterFirst
  <2> QED
    BY <2>1, <2>2, <2>3
<1>5. ASSUME NEW e \in ActionClients, e \notin s.inflight
      PROVE  Registers(s, e) /\ (c = Sync => s.action[e] <= s.ticks + Cycle(e))
  <2>1. Cycle(e) \in Nat
    BY PeriodType
  <2>2. CASE e = c
    BY <1>0, <1>1, <1>2, <2>1, <2>2 DEF Registers, None
  <2>3. CASE e # c
    <3>1. Registers(t, e) /\ s.action[e] = t.action[e]
      BY <1>1, <1>5, <2>3 DEF Kept
    <3>2. CASE c = Sync
      BY <1>1, <1>2, <2>1, <3>1, <3>2 DEF Registers
    <3>3. CASE c # Sync
      BY <1>1, <1>2, <2>1, <3>1, <3>3 DEF Registers
    <3> QED
      BY <3>2, <3>3
  <2> QED
    BY <2>2, <2>3
<1> QED
  BY <1>1, <1>4, <1>5 DEF Kept

(* Deviation is the shorter way round the cycle.                           *)
LEMMA DeviationAtLeast ==
  ASSUME now \in Nat
  PROVE  Deviation \in Int /\ Deviation >= -(Cycle(Sync) \div 2)
<1> DEFINE a == (now \div PreciseTick) - ActionTime[Sync]
           d == Cycle(Sync)
           half == d \div 2
           ahead == a % d
<1>1. now \div PreciseTick \in Int
  BY ClockAssumption, Division
<1>2. a \in Int /\ d \in Nat \ {0}
  BY <1>1, PeriodType, SetBackType
<1>3. ahead \in 0 .. (d - 1)
  <2> HIDE DEF a, d
  <2> QED
    BY <1>2, Remainder
<1>4. half \in Nat /\ d <= 2 * half + 1
  BY SetBackType
<1>5. Deviation = IF ahead > half THEN ahead - d ELSE ahead
  BY DEF Deviation
<1> HIDE DEF ahead, half, d, a
<1>6. Deviation \in Int /\ Deviation >= -half
  BY <1>2, <1>3, <1>4, <1>5
<1> QED
  BY <1>6 DEF half, d

(* The next slot of an event that the clock jumps over is not before the   *)
(* clock and less than a cycle after it.                                   *)
LEMMA NextSlotWithinCycle ==
  ASSUME NEW c \in ActionClients, NEW key \in Int, NEW tick \in Int
  PROVE  /\ NextSlot(c, key, tick) \in Int
         /\ NextSlot(c, key, tick) >= tick /\ NextSlot(c, key, tick) < tick + Cycle(c)
<1> DEFINE d == Cycle(c)
           a == tick - key + d - 1
           m == a \div d
           span == d * m
<1>1. d \in Nat \ {0} /\ a \in Int
  BY PeriodType
<1>2. span <= a
  <2> HIDE DEF a, d
  <2> QED
    BY <1>1, QuotientAndRemainder, Remainder, Division, SMT
<1>3. span \in Int
  <2> HIDE DEF a, d
  <2> QED
    BY <1>1, Division, SMT
<1>4. NextSlot(c, key, tick) = key + span
  BY DEF NextSlot
<1>5. NextSlot(c, key, tick) \in Int /\ NextSlot(c, key, tick) >= tick
  BY NextSlotAhead
<1> HIDE DEF span, m
<1> QED
  BY <1>1, <1>2, <1>3, <1>4, <1>5

(* A correction when no event is farther than a cycle from the clock, in   *)
(* the instant in which the next event of Sync is registered.              *)
LEMMA KeptWhenCorrected ==
  ASSUME RoomForSetBack, NEW t \in TimerState, now \in Nat, Fresh(t), Residual(t),
         t.error = "none", CyclicOnSlot(t), Kept(t, TRUE), Sync \notin t.inflight,
         \A c \in ActionClients \ t.inflight : t.action[c] <= t.ticks + Cycle(c),
         t.ticks >= FirstCycle, NEW correction \in Int, correction >= -MaxSetBack
  PROVE  Kept(ClockCorrection(t, correction), TRUE)
<1> DEFINE s == ClockCorrection(t, correction)
<1>1. /\ s \in TimerState /\ s.ticks = t.ticks + correction
      /\ t.inflight \subseteq s.inflight
      /\ \A c \in (s.inflight \ t.inflight) \intersect ActionClients :
           t.action[c] # None /\ t.action[c] <= s.ticks
      /\ \A c \in ActionClients \ s.inflight :
           s.action[c] = MovedActions(t, correction)[c] /\ c \notin SentAtOnce(t, correction)
  BY ClockCorrectionExact, ClockCorrectionType
<1> HIDE DEF s
<1>2. /\ t.ticks \in Int /\ s.ticks \in Int
      /\ \A c \in ActionClients : t.action[c] \in Int /\ s.action[c] \in Int
  BY <1>1 DEF TimerState
<1>3. FirstCycle \in Int /\ MaxSetBack \in Nat /\ Sync \in ActionClients
  BY SetBackType
<1>4. s.ticks >= 0
  BY <1>1, <1>2, <1>3 DEF RoomForSetBack
<1>5. t.action[Sync] > t.ticks
  BY <1>3 DEF Kept, Registers, Fresh, Ahead, Keys
(* An event that stays registered stays where it is or waits for its next  *)
(* slot.                                                                   *)
<1>6. ASSUME NEW c \in ActionClients, c \notin s.inflight
      PROVE  \/ s.action[c] = t.action[c]
             \/ /\ s.action[c] >= s.ticks /\ s.action[c] <= s.ticks + Cycle(c)
                /\ t.action[c] < s.ticks
  <2>1. CASE c \in JumpedOver(t, correction)
    <3>1. s.action[c] = NextSlot(c, t.action[c], t.ticks + correction)
      BY <1>1, <1>6, <2>1 DEF MovedActions
    <3>2. t.action[c] < t.ticks + correction
      BY <2>1 DEF JumpedOver
    <3>3. Cycle(c) \in Nat
      BY PeriodType
    <3> QED
      BY <1>1, <1>2, <3>1, <3>2, <3>3, NextSlotWithinCycle
  <2>2. CASE c \notin JumpedOver(t, correction)
    BY <1>1, <1>6, <2>2 DEF MovedActions, SentAtOnce
  <2> QED
    BY <2>1, <2>2
<1>7. /\ Sync \in s.inflight => s.ticks >= t.action[Sync]
      /\ Sync \notin s.inflight => s.action[Sync] >= t.action[Sync]
  BY <1>1, <1>2, <1>3, <1>6
<1>8. AfterFirst(s, Sync)
  BY <1>2, <1>3, <1>5, <1>7 DEF AfterFirst
<1>9. ASSUME NEW c \in ActionClients, c \notin s.inflight PROVE Registers(s, c)
  <2>1. Cycle(c) \in Nat /\ c \notin t.inflight
    BY <1>1, <1>9, PeriodType
  <2>2. t.action[c] <= t.ticks + Cycle(c) /\ t.action[c] # None
    BY <2>1 DEF Kept, Registers
  <2>3. s.action[c] # None
    BY <1>2, <1>4, <1>6, <1>9, <2>2 DEF None
  <2>4. s.action[c] <= s.ticks + Cycle(c) + MaxSetBack
    BY <1>1, <1>2, <1>3, <1>6, <1>9, <2>1, <2>2
  <2>5. CASE Sync \in s.inflight
    BY <1>2, <1>3, <1>5, <1>6, <1>7, <1>9, <2>1, <2>2, <2>3, <2>4, <2>5 DEF Registers
  <2>6. CASE Sync \notin s.inflight
    BY <1>2, <1>3, <1>5, <1>6, <1>7, <1>9, <2>1, <2>2, <2>3, <2>4, <2>6 DEF Registers
  <2> QED
    BY <2>5, <2>6
<1> QED
  BY <1>4, <1>8, <1>9 DEF Kept, s

LEMMA InitKept == Init => KeptTimed
<1> SUFFICES ASSUME Init PROVE KeptTimed
  OBVIOUS
<1>1. Timed
  BY InitTimed
<1>2. /\ tm.error = "none" /\ tm.ticks = 0
      /\ tm.action = [c \in ActionClients |-> IF FirstKey(c) = 0 THEN None ELSE FirstKey(c)]
      /\ tm.inflight = {c \in ActionClients : FirstKey(c) = 0}
  BY DEF Init, InitialTimer
<1>3. ~Begun
  BY SetBackType DEF Init, Begun
<1>4. ASSUME NEW c \in ActionClients PROVE FirstKey(c) \in 0 .. Cycle(c)
  <2> DEFINE a == Cycle(c) - Offset(c)
             d == Cycle(c)
  <2>1. a \in Int /\ d \in Nat \ {0}
    BY PeriodType
  <2>2. a % d \in 0 .. (d - 1)
    <3> HIDE DEF a, d
    <3> QED
      BY <2>1, Remainder
  <2> QED
    BY <2>2, PeriodType DEF FirstKey
<1>5. AfterFirst(tm, PeriodOf[Sync])
  BY <1>2, SetBackType DEF AfterFirst, FirstCycle
<1>6. ASSUME NEW c \in ActionClients, c \notin tm.inflight PROVE Registers(tm, c)
  <2>1. tm.action[c] = FirstKey(c) /\ FirstKey(c) # 0
    BY <1>2, <1>6
  <2> QED
    BY <1>2, <1>4, <2>1, SetBackType, PeriodType DEF Registers, None
<1> QED
  BY <1>1, <1>2, <1>3, <1>5, <1>6 DEF KeptTimed, Kept

(* The handlers of cyclic events other than Sync.                          *)
LEMMA HandlerKept ==
  ASSUME KeptTimed, NEW c \in ActionClients, CanHandle(c), NEW t \in TimerState,
         t.error = "none", t.inflight = tm.inflight \ {c}, t.action = tm.action,
         t.ticks = tm.ticks, Wakeable(t), Fresh(t), NEW begins \in BOOLEAN,
         Begun => begins, begins => Begun \/ c = PeriodOf[Sync]
  PROVE  LET s == RegisterAction(t, c, TRUE) IN
         /\ s.error = "none" /\ s.ticks = tm.ticks /\ Kept(s, begins)
         /\ c = Sync => \A e \in ActionClients \ s.inflight : s.action[e] <= s.ticks + Cycle(e)
<1> DEFINE s == RegisterAction(t, c, TRUE)
<1>1. tm \in TimerState /\ now \in Nat /\ c \in tm.inflight
  BY DEF KeptTimed, Timed, IInv, TypeOK, CanHandle
<1>2. Recalculate(t) = t
  BY <1>1, RecalculateType DEF Fresh
<1>3. /\ s \in TimerState /\ s.error = "none" /\ s.inflight = tm.inflight \ {c}
      /\ s.ticks = tm.ticks
      /\ \E key \in Int : /\ s.action = [tm.action EXCEPT ![c] = key]
                          /\ key > s.ticks /\ key <= s.ticks + Cycle(c)
  BY <1>1, <1>2, RegisterActionType
<1> HIDE DEF s
<1>4. Reregistered(tm, s, c)
  BY <1>1, <1>3 DEF Reregistered
<1>5. Ahead(tm)
  BY <1>1 DEF KeptTimed, Timed, IInv, HandlersSeeFreshClock, Ahead
<1>6. Kept(tm, Begun) /\ Begun \in BOOLEAN
  BY DEF KeptTimed, Begun
<1>7. /\ Kept(s, begins)
      /\ c = Sync => \A e \in ActionClients \ s.inflight : s.action[e] <= s.ticks + Cycle(e)
  BY <1>1, <1>3, <1>4, <1>5, <1>6, KeptWhenRegistered
<1> QED
  BY <1>3, <1>7 DEF s

LEMMA KeptAfter ==
  ASSUME NEW s, tm' = s, s.error = "none", Kept(s, Begun'), Timed'
  PROVE  KeptTimed'
  BY DEF KeptTimed, Kept, AfterFirst, Registers

LEMMA StillKept ==
  ASSUME NEW s, tm' = s, cycles' = cycles, s.error = "none", Kept(s, Begun), Timed'
  PROVE  KeptTimed'
<1>1. Begun' = Begun
  BY DEF Begun
<1>2. Kept(s, Begun')
  BY <1>1 DEF Kept, AfterFirst
<1> QED
  BY <1>2, KeptAfter

(* Every step of the scheduler keeps the cyclic events.                    *)
LEMMA FireKept ==
  ASSUME SlowDrift, KeptTimed, Fire, Timed'
  PROVE  KeptTimed'
<1> DEFINE t == [tm EXCEPT !.selfAt = None]
           s == SendOutEvents(t)
<1>1. /\ tm \in TimerState /\ now \in Nat /\ tm.error = "none" /\ tm.selfAt = now
      /\ Residual(tm) /\ Woken(tm)
  BY DEF KeptTimed, Timed, Fire, IInv, TypeOK
<1>2. tm' = s /\ cycles' = cycles
  BY DEF Fire
<1>3. /\ t \in TimerState /\ t.error = "none"
      /\ t.action = tm.action /\ t.timer = tm.timer /\ t.inflight = tm.inflight
      /\ t.ticks = tm.ticks /\ t.tick = tm.tick
      /\ t.lastRecalc = tm.lastRecalc /\ t.recalcTime = tm.recalcTime
  BY <1>1 DEF TimerState, None
<1>4. Recalculate(t).ticks = Recalculate(tm).ticks
  BY <1>1, <1>3 DEF Recalculate, TimerState
<1> HIDE DEF t
<1>5. \A c \in TimerClients : t.timer[c] # None => Recalculate(t).ticks - t.timer[c] <= 1
  <2> SUFFICES ASSUME NEW c \in TimerClients, tm.timer[c] # None
               PROVE  Recalculate(tm).ticks - tm.timer[c] <= 1
    BY <1>3, <1>4
  <2>1. tm.timer[c] \in Keys(tm)
    BY DEF Keys
  <2>2. Recalculate(tm).ticks - tm.timer[c] <= Lateness
    BY <1>1, <2>1, NoneTooLate
  <2>3. Recalculate(tm).ticks \in Int /\ tm.timer[c] \in Int
    BY <1>1, RecalculateType DEF TimerState
  <2> QED
    BY <2>2, <2>3 DEF Lateness
<1>6. /\ s \in TimerState /\ s.error = "none"
      /\ SendsDue(t, s) /\ s.ticks = Recalculate(t).ticks
  <2>1. Residual(t)
    BY <1>1, <1>3 DEF Residual
  <2>2. /\ SendsDue(t, s) /\ s.ticks = Recalculate(t).ticks
        /\ s.error # "misscheduled" /\ s.error # "overflow" /\ s \in TimerState
    BY <1>1, <1>3, <1>5, <2>1, SendOutEventsType, SendOutEventsExact
  <2> HIDE DEF s
  <2> QED
    BY <2>2 DEF TimerState
<1>7. Recalculate(tm).ticks >= tm.ticks
  BY <1>1, RecalculateForward
<1> HIDE DEF s
<1>8. /\ s.ticks >= tm.ticks /\ tm.inflight \subseteq s.inflight
      /\ \A c \in ActionClients \ s.inflight : s.action[c] = tm.action[c]
      /\ \A c \in (s.inflight \ tm.inflight) \intersect ActionClients :
           tm.action[c] # None /\ tm.action[c] <= s.ticks
  BY <1>3, <1>4, <1>6, <1>7 DEF SendsDue
<1>9. Kept(tm, Begun) /\ Begun \in BOOLEAN
  BY <1>2 DEF KeptTimed, Begun
<1>10. Kept(s, Begun)
  BY <1>1, <1>6, <1>8, <1>9, KeptWhenSent
<1> QED
  BY <1>2, <1>6, <1>10, StillKept

LEMMA ReregisterKept ==
  ASSUME KeptTimed, NEW c \in ActionClients, CanHandle(c), Timed', NEW t \in TimerState,
         t.error = "none", t.inflight = tm.inflight \ {c}, t.action = tm.action,
         t.ticks = tm.ticks, Wakeable(t), Fresh(t), tm' = RegisterAction(t, c, TRUE),
         Begun => Begun', Begun' => Begun \/ c = PeriodOf[Sync]
  PROVE  KeptTimed'
<1> DEFINE s == RegisterAction(t, c, TRUE)
<1>1. Begun' \in BOOLEAN
  BY DEF Begun
<1>2. s.error = "none" /\ Kept(s, Begun')
  BY <1>1, HandlerKept
<1> HIDE DEF s
<1>3. tm' = s
  BY DEF s
<1> QED
  BY <1>2, <1>3, KeptAfter

LEMMA NewCycleKept ==
  ASSUME KeptTimed, NEW p \in Periods, NewCycle(p), Timed'
  PROVE  KeptTimed'
<1>1. /\ CanHandle(p) /\ p \in ActionClients /\ p \in Clients
      /\ tm' = RegisterAction(Taken(p), p, TRUE) /\ cycles' = [cycles EXCEPT ![p] = @ + 1]
  BY DEF NewCycle, ActionClients, Clients
<1>2. /\ Taken(p) \in TimerState /\ Taken(p).error = "none" /\ Wakeable(Taken(p))
      /\ Taken(p).inflight = tm.inflight \ {p} /\ Taken(p).action = tm.action
      /\ Taken(p).ticks = tm.ticks /\ Fresh(Taken(p))
  BY <1>1, TakenTimed DEF KeptTimed
<1>3. (Begun => Begun') /\ (Begun' => Begun \/ p = PeriodOf[Sync])
  <2>1. cycles \in [Periods -> Nat]
    BY DEF KeptTimed, Timed, IInv, TypeOK
  <2>2. CASE p = PeriodOf[Sync]
    BY <1>1, <2>1, <2>2, SetBackType DEF Begun
  <2>3. CASE p # PeriodOf[Sync]
    BY <1>1, <2>1, <2>3, SetBackType DEF Begun
  <2> QED
    BY <2>2, <2>3
<1> QED
  BY <1>1, <1>2, <1>3, ReregisterKept

LEMMA SendWindowKept ==
  ASSUME KeptTimed, NEW c \in TTClients, SendWindow(c), Timed'
  PROVE  KeptTimed'
<1>1. /\ CanHandle(c) /\ c \in ActionClients /\ c \in Clients
      /\ tm' = RegisterAction(Taken(c), c, TRUE) /\ cycles' = cycles
  BY DEF SendWindow, ActionClients, Clients
<1>2. /\ Taken(c) \in TimerState /\ Taken(c).error = "none" /\ Wakeable(Taken(c))
      /\ Taken(c).inflight = tm.inflight \ {c} /\ Taken(c).action = tm.action
      /\ Taken(c).ticks = tm.ticks /\ Fresh(Taken(c))
  BY <1>1, TakenTimed DEF KeptTimed
<1>3. Begun' = Begun
  BY <1>1 DEF Begun
<1> QED
  BY <1>1, <1>2, <1>3, ReregisterKept

LEMMA ChangeDriftKept ==
  ASSUME KeptTimed, NEW length \in TickLengths, ChangeDrift(length), Timed'
  PROVE  KeptTimed'
<1> DEFINE u == Taken(Osc)
           t == [u EXCEPT !.tick = length]
<1>1. /\ CanHandle(Osc) /\ Osc \in ActionClients /\ Osc \in Clients
      /\ tm' = RegisterAction(t, Osc, TRUE) /\ cycles' = cycles
  BY DEF ChangeDrift, ActionClients, Clients
<1>2. /\ u \in TimerState /\ u.error = "none" /\ Wakeable(u)
      /\ u.inflight = tm.inflight \ {Osc} /\ u.action = tm.action
      /\ u.ticks = tm.ticks /\ Fresh(u)
  BY <1>1, TakenTimed DEF KeptTimed
<1> HIDE DEF u
<1>3. /\ t \in TimerState /\ t.error = u.error /\ t.inflight = u.inflight
      /\ t.action = u.action /\ t.timer = u.timer /\ t.ticks = u.ticks
      /\ t.recalcTime = u.recalcTime /\ t.selfAt = u.selfAt
  BY <1>2 DEF TimerState
<1> HIDE DEF t
<1>4. Wakeable(t) /\ Fresh(t)
  BY <1>2, <1>3 DEF Wakeable, Fresh, Ahead, Keys
<1>5. Begun' = Begun
  BY <1>1 DEF Begun
<1> QED
  BY <1>1, <1>2, <1>3, <1>4, <1>5, ReregisterKept

LEMMA SynchroniseKept ==
  ASSUME RoomForSetBack, KeptTimed, NEW noise \in (-Precision) .. Precision,
         Synchronise(noise), Timed'
  PROVE  KeptTimed'
<1> DEFINE again == RegisterAction(Taken(Sync), Sync, TRUE)
           correction == Deviation + noise
           s == ClockCorrection(again, correction)
<1>1. CanHandle(Sync) /\ Sync \in ActionClients /\ Sync \in Clients /\ cycles' = cycles
  BY SetBackType DEF Synchronise, Clients
<1>2. /\ Taken(Sync) \in TimerState /\ Taken(Sync).error = "none" /\ Wakeable(Taken(Sync))
      /\ Taken(Sync).inflight = tm.inflight \ {Sync} /\ Taken(Sync).action = tm.action
      /\ Taken(Sync).ticks = tm.ticks /\ Fresh(Taken(Sync))
  BY <1>1, TakenTimed DEF KeptTimed
<1>4. CASE ~(cycles[PeriodOf[Sync]] > 0)
  <2>1. tm' = again
    BY <1>4 DEF Synchronise
  <2>2. Begun' = Begun
    BY <1>1 DEF Begun
  <2> QED
    BY <1>1, <1>2, <2>1, <2>2, ReregisterKept
<1>5. CASE cycles[PeriodOf[Sync]] > 0
  <2>1. tm' = s
    BY <1>5 DEF Synchronise
  <2>2. Begun
    <3>1. cycles[PeriodOf[Sync]] \in Nat
      BY SetBackType DEF KeptTimed, Timed, IInv, TypeOK
    <3> QED
      BY <1>5, <3>1 DEF Begun
  <2>3. /\ again \in TimerState /\ now \in Nat /\ again.error = "none" /\ Fresh(again)
        /\ Residual(again) /\ CyclicOnSlot(again) /\ again.inflight = tm.inflight \ {Sync}
    BY <1>1, ReregisteredTimed DEF KeptTimed, TimedClock
  <2>4. /\ again.ticks = tm.ticks /\ Kept(again, TRUE)
        /\ \A e \in ActionClients \ again.inflight : again.action[e] <= again.ticks + Cycle(e)
    BY <1>1, <1>2, <2>2, HandlerKept
  <2>5. correction \in Int /\ correction >= -MaxSetBack
    <3>1. Deviation \in Int /\ Deviation >= -(Cycle(Sync) \div 2)
      BY <2>3, DeviationAtLeast
    <3>2. Cycle(Sync) \div 2 \in Nat /\ Precision \in Nat
      BY SetBackType, ClockAssumption
    <3> QED
      BY <3>1, <3>2 DEF MaxSetBack
  <2>6. again.ticks >= FirstCycle
    <3>1. Sync \in tm.inflight
      BY <1>1 DEF CanHandle
    <3> QED
      BY <2>2, <2>4, <3>1 DEF KeptTimed, Kept, AfterFirst
  <2> HIDE DEF again, correction
  <2>7. Kept(s, TRUE)
    BY <2>3, <2>4, <2>5, <2>6, KeptWhenCorrected
  <2>8. s \in TimerState /\ s.error # "overflow" /\ s.error # "misscheduled"
    BY <2>3, <2>5, ClockCorrectionType, ClockCorrectionExact
  <2>9. s.error = "none"
    BY <2>8 DEF TimerState
  <2> HIDE DEF s
  <2>10. Kept(s, Begun)
    BY <2>2, <2>7 DEF Kept
  <2> QED
    BY <1>1, <2>1, <2>9, <2>10, StillKept
<1> QED
  BY <1>4, <1>5

LEMMA StartTimerKept ==
  ASSUME KeptTimed, NEW c \in TimerClients, NEW delay \in Delays, StartTimer(c, delay), Timed'
  PROVE  KeptTimed'
<1> DEFINE s == RegisterTimer(tm, c, delay)
<1>1. /\ tm \in TimerState /\ now \in Nat /\ tm.error = "none" /\ Wakeable(tm) /\ Residual(tm)
      /\ delay \in Nat /\ c \notin ActionClients
  BY ClientsAssumption, ScheduleAssumption DEF KeptTimed, Timed, IInv, TypeOK
<1>2. tm' = s /\ cycles' = cycles
  BY DEF StartTimer
<1>3. /\ s \in TimerState /\ s.error = "none"
      /\ s.inflight \subseteq tm.inflight \union {c} /\ tm.inflight \subseteq s.inflight
      /\ s.action = tm.action /\ s.ticks = Recalculate(tm).ticks
  BY <1>1, RegisterTimerType
<1>4. s.ticks >= tm.ticks
  BY <1>1, <1>3, RecalculateForward
<1> HIDE DEF s
<1>5. Kept(tm, Begun) /\ Begun \in BOOLEAN
  BY <1>2 DEF KeptTimed, Begun
<1>6. Kept(s, Begun)
  BY <1>1, <1>3, <1>4, <1>5, KeptWhenSent
<1> QED
  BY <1>2, <1>3, <1>6, StillKept

(* A timer event is handled, or time passes.                               *)
LEMMA OthersKept ==
  ASSUME KeptTimed, cycles' = cycles, Timed',
         tm' = tm \/ \E c \in TimerClients : CanHandle(c) /\ tm' = Taken(c)
  PROVE  KeptTimed'
<1>1. Kept(tm, Begun) /\ Begun \in BOOLEAN /\ tm.error = "none"
      /\ tm \in TimerState
  BY DEF KeptTimed, Begun, Timed, IInv, TypeOK
<1>2. CASE tm' = tm
  BY <1>1, <1>2, StillKept
<1>3. ASSUME NEW c \in TimerClients, CanHandle(c), tm' = Taken(c) PROVE KeptTimed'
  <2> DEFINE s == Taken(c)
  <2>1. /\ s \in TimerState /\ s.error = "none" /\ s.inflight = tm.inflight \ {c}
        /\ s.action = tm.action /\ s.ticks = tm.ticks /\ c \notin ActionClients
    BY <1>3, TakenTimed, ClientsAssumption DEF KeptTimed, Clients
  <2> HIDE DEF s
  <2>2. Kept(s, Begun)
    <3>1. \A e \in ActionClients : e \in s.inflight <=> e \in tm.inflight
      BY <2>1
    <3> QED
      BY <1>1, <2>1, <3>1, SetBackType DEF Kept, AfterFirst, Registers
  <2>3. tm' = s
    BY <1>3 DEF s
  <2> QED
    BY <2>1, <2>2, <2>3, StillKept
<1> QED
  BY <1>2, <1>3

LEMMA NextKept ==
  ASSUME SlowDrift, RoomForSetBack
  PROVE  KeptTimed /\ [Next]_vars => KeptTimed'
<1> SUFFICES ASSUME KeptTimed, [Next]_vars PROVE KeptTimed'
  OBVIOUS
<1>0. Timed'
  BY NextTimed DEF KeptTimed
<1>1. CASE Fire
  BY <1>0, <1>1, FireKept
<1>2. ASSUME NEW p \in Periods, NewCycle(p) PROVE KeptTimed'
  BY <1>0, <1>2, NewCycleKept
<1>3. ASSUME NEW c \in TTClients, SendWindow(c) PROVE KeptTimed'
  BY <1>0, <1>3, SendWindowKept
<1>4. ASSUME NEW length \in TickLengths, ChangeDrift(length) PROVE KeptTimed'
  BY <1>0, <1>4, ChangeDriftKept
<1>5. ASSUME NEW noise \in (-Precision) .. Precision, Synchronise(noise) PROVE KeptTimed'
  BY <1>0, <1>5, SynchroniseKept
<1>6. ASSUME NEW c \in TimerClients, NEW delay \in Delays, StartTimer(c, delay)
      PROVE  KeptTimed'
  BY <1>0, <1>6, StartTimerKept
<1>7. ASSUME NEW c \in TimerClients, Expire(c) PROVE KeptTimed'
  BY <1>0, <1>7, OthersKept DEF Expire
<1>8. ASSUME NEW time \in now .. MaxTime, Advance(time) PROVE KeptTimed'
  BY <1>0, <1>8, OthersKept DEF Advance
<1>9. CASE UNCHANGED vars
  BY <1>0, <1>9, OthersKept DEF vars
<1> QED
  BY <1>1, <1>2, <1>3, <1>4, <1>5, <1>6, <1>7, <1>8, <1>9 DEF Next

(* No cyclic event is lost or registered twice, and none is farther from   *)
(* the clock than its cycle and one correction, however many corrections   *)
(* there are: for all schedules, drifts and errors of the correction with  *)
(* room for the first one.                                                 *)
THEOREM EventsAreKept ==
  ASSUME SlowDrift, RoomForSetBack
  PROVE  Spec => []CyclicEventsKept
<1>1. KeptTimed => CyclicEventsKept
  BY KeptWithinReach
<1>2. KeptTimed /\ [Next]_vars => KeptTimed'
  BY NextKept
<1> QED
  BY <1>1, <1>2, InitKept, PTL DEF Spec
=============================================================================
