--------------------------- MODULE SyncMaster_proofs ---------------------------
(***************************************************************************)
(* Proofs about SyncMaster, along the lines of those about SyncClient.  The *)
(* invariant tells where in the cycle a synchronised master is: the set of *)
(* cyclic events that were handled since the last async_eval fixes when    *)
(* each is due again, whether the correction may be registered and what    *)
(* the master remembers of the frames it saw.  First the operations of the *)
(* scheduler, then the readings of a cycle, the order of a cycle, and each *)
(* handler.                                                                *)
(***************************************************************************)
EXTENDS SyncMaster, IntegerLemmas, TLAPS

HalfWindow == AcceptanceWindow \div 2

FieldNames == {"st", "clk", "pend", "icyc", "sync", "asyncR", "asyncF", "counter", "stack", "timer",
           "floodReceive", "closedWindow", "gone", "out", "fault"}
Device(d) == DOMAIN d = FieldNames /\ d = [x \in DOMAIN d |-> d[x]]

Alarms == DOMAIN SlotOf \union {"ASYNCHRON"}
Alarm  == [ev : Alarms, left : Nat]
Kinds  == {"CS", "CA", "IN_FRAME"}
Frames == [ev : Kinds, left : Nat, listed : BOOLEAN, key : Int, port : Ports,
           icyc : 0 .. MaxIcys - 1, members : Memberships \union {{}}]
Readings == [port : Ports, count : 0 .. MaxMembership, pit : ReceivePit - HalfWindow .. ReceivePit + HalfWindow]

PendOK(d) == d.pend \subseteq Frames \union Alarm

LargestSync(m) == MaxMembership + 2^m

Basic(m, d) ==
  /\ Device(d) /\ PendOK(d)
  /\ d.st \in States
  /\ d.clk \in 0 .. Cycle - 1
  /\ d.icyc \in 0 .. MaxIcys
  /\ d.sync \in 0 .. LargestSync(m)
  /\ d.asyncR \subseteq UNION Memberships /\ d.asyncF \subseteq UNION Memberships
  /\ d.timer \in Nat
  /\ d.floodReceive \in BOOLEAN /\ d.closedWindow \in BOOLEAN
  /\ d.closedWindow => d.floodReceive
  /\ d.stack \subseteq Readings
  /\ \A s, t \in d.stack : s.port = t.port => s = t

(* The event x is registered once, left ticks ahead; or it is not registered. *)
Only(d, x, left) == Named(d, {x}) = {[ev |-> x, left |-> left]}
None(d, x) == Named(d, {x}) = {}
Once(d, x) == \E left \in Nat : Only(d, x, left)

(* The cyclic events that were handled since the last async_eval was due.      *)
Early      == {"async_eval", "inc"}
Evaluation == {"async_eval", "inc", "sync_eval"}
Phases == {{}, {"async_eval"}, Early, Evaluation, Cyclic}
Ahead(d, x, done) == SlotOf[x] - d.clk + (IF x \in done THEN Cycle ELSE 0)

CyclicOnTime(d, done) ==
  \A x \in Cyclic : Ahead(d, x, done) \in Nat /\ Only(d, x, Ahead(d, x, done))

Correcting(d, done) ==
  /\ done = Evaluation
  /\ SlotOf["clock_corr"] - d.clk \in Nat
  /\ Only(d, "clock_corr", SlotOf["clock_corr"] - d.clk)

OnTime(d, done) ==
  /\ CyclicOnTime(d, done)
  /\ None(d, "clock_corr") \/ Correcting(d, done)

Threshold(st) ==
  CASE st = "STABLE" -> StableThresholdSync
    [] st = "SYNC"   -> SyncThresholdSync
    [] OTHER         -> TentativeThresholdSync

Remembers(d, done, h) ==
  /\ h.unheard \subseteq AsyncMembers(d)
  /\ done # {} /\ done # Cyclic => h.unheard \subseteq d.asyncR /\ h.unheard \subseteq d.asyncF
  /\ None(d, "clock_corr") => h.heard \/ \A s \in d.stack : s.count < Threshold(d.st)

(* No reading is left when a cycle begins, or after the correction; but a      *)
(* master that just joined may have missed its first correction.               *)
Swept(d, done) ==
  /\ done = {} => d.stack = {}
  /\ done = Cyclic \/ (done = Evaluation /\ None(d, "clock_corr")) =>
       d.stack = {} /\ d.clk > ReceivePit + HalfWindow

Counts(d, h) ==
  IF d.st = "STABLE" THEN d.counter \in 0 .. NumUnstable - 1 /\ h.silence <= d.counter
                     ELSE d.counter \in 0 .. NumStable /\ h.silence = 0

InPhase(d, done, h) ==
  /\ OnTime(d, done)
  /\ Remembers(d, done, h)
  /\ d.st # "TENTATIVE_SYNC" => Swept(d, done)

Following(d, h) ==
  /\ d.st \in Synced
  /\ \E done \in Phases : InPhase(d, done, h)
  /\ Counts(d, h)
  /\ d.st # "TENTATIVE_SYNC" => d.sync <= MaxMembership

Resting(d, h) ==
  /\ d.st \notin Synced \union {"PSEUDOSYNC"}
  /\ d.counter = 0 /\ d.stack = {} /\ d.icyc < MaxIcys
  /\ \A x \in DOMAIN SlotOf : None(d, x)
  /\ d.st \in Waiting => d.fault \/ Once(d, "ASYNCHRON")
  /\ h = Blank

Replaying(d, h) ==
  d.st = "PSEUDOSYNC" /\ d.counter = 0 /\ Once(d, "inc") /\ Once(d, "clock_corr") /\ h = Blank

Histories == [unheard : SUBSET UNION Memberships, heard : BOOLEAN, silence : Nat]

Sound(m, d, h) ==
  /\ Basic(m, d)
  /\ h \in Histories
  /\ Replaying(d, h) \/ Resting(d, h) \/ Following(d, h)

IInv ==
  /\ DOMAIN sm = Masters /\ DOMAIN seen = Masters
  /\ sm = [m \in DOMAIN sm |-> sm[m]] /\ seen = [m \in DOMAIN seen |-> seen[m]]
  /\ \A m \in Masters : Sound(m, sm[m], seen[m])
------------------------------------------------------------------------------
(* What the operations of the scheduler do to a device.                        *)

(* n is d but for the named fields.                                            *)
Changes(d, n, names) == Device(n) /\ \A x \in FieldNames \ names : n[x] = d[x]

(* The events of n are well-formed, those named x the ones of d.               *)
Same(d, n, names) == \A x \in names : Named(n, {x}) = Named(d, {x})

(* The names of the events with an action time, and their slots.              *)
LEMMA SlotNames ==
  /\ DOMAIN SlotOf = {"async_eval", "sync_eval", "clock_corr", "inc", "async_up"}
  /\ DOMAIN SlotOf = Cyclic \union {"clock_corr"}
  /\ \A x \in DOMAIN SlotOf : SlotOf[x] \in Int
BY SlotsInOrder DEF SlotOf, Cyclic

(* A registered event is a frame or an alarm.                                 *)
LEMMA EventTypes ==
  ASSUME NEW e \in Frames \union Alarm
  PROVE  /\ e.left \in Nat
         /\ e.ev \in Alarms \union Kinds
         /\ e.ev \in Kinds => e \in Frames
         /\ e.ev \in Alarms => e \in Alarm /\ e = [ev |-> e.ev, left |-> e.left]
BY SlotNames DEF Frames, Alarm, Alarms, Kinds

(* The way to a slot is never negative.                                       *)
LEMMA DistanceType ==
  ASSUME NEW clk \in Int, NEW ev \in DOMAIN SlotOf, NEW next \in BOOLEAN
  PROVE  Distance(clk, ev, next) \in Nat
<1>1. SlotOf[ev] - clk \in Int /\ Cycle \in Nat \ {0}
  BY SlotNames, SlotsInOrder
<1>2. (SlotOf[ev] - clk) % Cycle \in 0 .. Cycle - 1
  BY <1>1, Remainder
<1> QED
  BY <1>1, <1>2 DEF Distance

(* registerEvent() adds the event at its distance and changes no other.       *)
LEMMA RegisterActionEffect ==
  ASSUME NEW d, NEW ev \in DOMAIN SlotOf, NEW next \in BOOLEAN, Device(d), PendOK(d), d.clk \in Int
  PROVE  LET n == RegisterAction(d, ev, next) IN
         /\ Changes(d, n, {"pend", "fault"})
         /\ PendOK(n)
         /\ None(d, ev) => Only(n, ev, Distance(d.clk, ev, next))
         /\ Same(d, n, Alarms \ {ev})
<1> DEFINE new == [ev |-> ev, left |-> Distance(d.clk, ev, next)]
           n == RegisterAction(d, ev, next)
<1>1. Device(n)
  BY DEF RegisterAction, Device, FieldNames
<1>2. \A x \in FieldNames \ {"pend", "fault"} : n[x] = d[x]
  BY DEF RegisterAction, Device, FieldNames
<1>3. n.pend = d.pend \union {new}
  BY DEF RegisterAction, Device, FieldNames
<1>4. new \in Alarm
  BY DistanceType DEF Alarm, Alarms
<1>5. new.ev = ev
  OBVIOUS
<1> HIDE DEF new, n
<1>6. PendOK(n)
  BY <1>3, <1>4 DEF PendOK
<1>7. None(d, ev) => Named(n, {ev}) = {new}
  BY <1>3, <1>5 DEF None, Named
<1>8. Same(d, n, Alarms \ {ev})
  BY <1>3, <1>5 DEF Same, Named
<1> QED
  BY <1>1, <1>2, <1>6, <1>7, <1>8 DEF Changes, Only, new, n

(* Several events at once.                                                    *)
LEMMA RegisterAllEffect ==
  ASSUME NEW d, NEW evs \in SUBSET DOMAIN SlotOf, Device(d), PendOK(d), d.clk \in Int
  PROVE  LET n == RegisterAll(d, evs) IN
         /\ Changes(d, n, {"pend", "fault"})
         /\ PendOK(n)
         /\ \A x \in evs : None(d, x) => Only(n, x, Distance(d.clk, x, FALSE))
         /\ Same(d, n, Alarms \ evs)
<1> DEFINE new(e) == [ev |-> e, left |-> Distance(d.clk, e, FALSE)]
           n == RegisterAll(d, evs)
<1>1. Device(n)
  BY DEF RegisterAll, Device, FieldNames
<1>2. \A x \in FieldNames \ {"pend", "fault"} : n[x] = d[x]
  BY DEF RegisterAll, Device, FieldNames
<1>3. n.pend = d.pend \union {new(e) : e \in evs}
  BY DEF RegisterAll, Device, FieldNames
<1>4. \A e \in evs : new(e) \in Alarm
  BY DistanceType DEF Alarm, Alarms
<1>5. \A e \in evs : new(e).ev = e
  OBVIOUS
<1> HIDE DEF new, n
<1>6. PendOK(n)
  BY <1>3, <1>4 DEF PendOK
<1>7. \A x \in evs : None(d, x) => Named(n, {x}) = {new(x)}
  BY <1>3, <1>5 DEF None, Named
<1>8. Same(d, n, Alarms \ evs)
  BY <1>3, <1>5 DEF Same, Named
<1> QED
  BY <1>1, <1>2, <1>6, <1>7, <1>8 DEF Changes, Only, new, n

(* The timer of a device.                                                     *)
LEMMA StartTimerEffect ==
  ASSUME NEW d, NEW left \in Nat, Device(d), PendOK(d)
  PROVE  LET n == StartTimer(d, left) IN
         /\ Changes(d, n, {"pend", "fault"})
         /\ PendOK(n)
         /\ None(d, "ASYNCHRON") => Only(n, "ASYNCHRON", left)
         /\ Same(d, n, DOMAIN SlotOf)
<1> DEFINE new == [ev |-> "ASYNCHRON", left |-> left]
           n == StartTimer(d, left)
<1>1. Device(n)
  BY DEF StartTimer, RegisterTimer, Device, FieldNames
<1>2. \A x \in FieldNames \ {"pend", "fault"} : n[x] = d[x]
  BY DEF StartTimer, RegisterTimer, Device, FieldNames
<1>3. n.pend = d.pend \union {new}
  BY DEF StartTimer, RegisterTimer, Device, FieldNames
<1>4. new \in Alarm
  BY DEF Alarm, Alarms
<1>5. new.ev = "ASYNCHRON"
  OBVIOUS
<1> HIDE DEF new, n
<1>6. PendOK(n)
  BY <1>3, <1>4 DEF PendOK
<1>7. None(d, "ASYNCHRON") => Named(n, {"ASYNCHRON"}) = {new}
  BY <1>3, <1>5 DEF None, Named
<1>8. Same(d, n, DOMAIN SlotOf)
  BY <1>3, <1>5, SlotNames DEF Same, Named
<1> QED
  BY <1>1, <1>2, <1>6, <1>7, <1>8 DEF Changes, Only, new, n

(* A frame is an event of its own and no alarm.                               *)
LEMMA RegisterTimerEffect ==
  ASSUME NEW d, NEW f \in Frames, Device(d), PendOK(d)
  PROVE  LET n == RegisterTimer(d, f) IN
         /\ Changes(d, n, {"pend"})
         /\ PendOK(n)
         /\ Same(d, n, Alarms)
<1> DEFINE n == RegisterTimer(d, f)
<1>1. Device(n) /\ \A x \in FieldNames \ {"pend"} : n[x] = d[x]
  BY DEF RegisterTimer, Device, FieldNames
<1>2. n.pend = d.pend \union {f}
  BY DEF RegisterTimer, Device, FieldNames
<1>3. f.ev \in Kinds
  BY DEF Frames
<1>4. Kinds \intersect Alarms = {}
  BY SlotNames DEF Alarms, Kinds
<1> HIDE DEF n
<1> QED
  BY <1>1, <1>2, <1>3, <1>4 DEF Changes, Same, Named, PendOK, n

(* unregisterEvent() takes the named events and no other.                     *)
LEMMA UnregisterEffect ==
  ASSUME NEW d, NEW names \in SUBSET Alarms, Device(d), PendOK(d)
  PROVE  LET n == Unregister(d, names) IN
         /\ Changes(d, n, {"pend"})
         /\ PendOK(n)
         /\ \A x \in names : None(n, x)
         /\ Same(d, n, Alarms \ names)
<1> DEFINE n == Unregister(d, names)
<1>1. Device(n) /\ \A x \in FieldNames \ {"pend"} : n[x] = d[x]
  BY DEF Unregister, Device, FieldNames
<1>2. n.pend = {e \in d.pend : e.ev \notin names}
  BY DEF Unregister, Device, FieldNames
<1> HIDE DEF n
<1> QED
  BY <1>1, <1>2 DEF Changes, Same, Named, None, PendOK, n

(* The event that is handled goes; it was the only one of its name.           *)
LEMMA TakenEffect ==
  ASSUME NEW d, NEW e \in d.pend, Device(d), PendOK(d)
  PROVE  LET n == Taken(d, e) IN
         /\ Changes(d, n, {"pend"})
         /\ PendOK(n)
         /\ Same(d, n, Alarms \ {e.ev})
         /\ \A left : Only(d, e.ev, left) => None(n, e.ev) /\ e = [ev |-> e.ev, left |-> left]
<1> DEFINE n == Taken(d, e)
<1>1. Device(n) /\ \A x \in FieldNames \ {"pend"} : n[x] = d[x]
  BY DEF Taken, Device, FieldNames
<1>2. n.pend = d.pend \ {e}
  BY DEF Taken, Device, FieldNames
<1> HIDE DEF n
<1>3. PendOK(n)
  BY <1>2 DEF PendOK
<1>4. Same(d, n, Alarms \ {e.ev})
  BY <1>2 DEF Same, Named
<1>5. ASSUME NEW left, Only(d, e.ev, left) PROVE None(n, e.ev) /\ e = [ev |-> e.ev, left |-> left]
  <2>1. e \in Named(d, {e.ev})
    BY DEF Named
  <2>2. e = [ev |-> e.ev, left |-> left] /\ Named(d, {e.ev}) = {e}
    BY <1>5, <2>1 DEF Only
  <2> QED
    BY <1>2, <2>2 DEF None, Named
<1> QED
  BY <1>1, <1>3, <1>4, <1>5 DEF Changes, n

(* What a function on events does to a set of events, named by name.           *)
Moved(e, c)  == IF e.ev \in DOMAIN SlotOf THEN [e EXCEPT !.left = Larger(0, @ + c)] ELSE e
Nearer(e)    == [e EXCEPT !.left = @ - 1]

LEMMA KeyMovedType ==
  ASSUME NEW e \in Frames \union Alarm, NEW c \in Int
  PROVE  /\ KeyMoved(e, c) \in Frames \union Alarm
         /\ KeyMoved(e, c).ev = e.ev
         /\ e.ev \in Alarms => KeyMoved(e, c) = e
<1>1. CASE e \in Frames
  BY <1>1, SlotNames DEF KeyMoved, Frames, Alarms, Kinds
<1>2. CASE e \in Alarm
  BY <1>2, SlotNames DEF KeyMoved, Alarms, Alarm, Kinds
<1> QED
  BY <1>1, <1>2

LEMMA MovedType ==
  ASSUME NEW e \in Frames \union Alarm, NEW c \in Int
  PROVE  /\ Moved(e, c) \in Frames \union Alarm
         /\ Moved(e, c).ev = e.ev
         /\ e.ev \in DOMAIN SlotOf => Moved(e, c) = [ev |-> e.ev, left |-> Larger(0, e.left + c)]
         /\ e.ev = "ASYNCHRON" => Moved(e, c) = e
<1>1. CASE e \in Frames
  BY <1>1, SlotNames DEF Moved, Frames, Kinds
<1>2. CASE e \in Alarm
  <2>1. Larger(0, e.left + c) \in Nat
    BY <1>2 DEF Larger, Alarm
  <2> QED
    BY <1>2, <2>1, SlotNames DEF Moved, Alarm, Alarms
<1> QED
  BY <1>1, <1>2

LEMMA NearerType ==
  ASSUME NEW e \in Frames \union Alarm, e.left > 0
  PROVE  /\ Nearer(e) \in Frames \union Alarm
         /\ Nearer(e).ev = e.ev
         /\ e.ev \in Alarms => Nearer(e) = [ev |-> e.ev, left |-> e.left - 1]
<1>1. CASE e \in Frames
  <2>1. e.left - 1 \in Nat
    BY <1>1 DEF Frames
  <2> QED
    BY <1>1, <2>1, SlotNames DEF Nearer, Frames, Alarms, Kinds
<1>2. CASE e \in Alarm
  <2>1. e.left - 1 \in Nat
    BY <1>2 DEF Alarm
  <2> QED
    BY <1>2, <2>1, SlotNames DEF Nearer, Alarm, Alarms
<1> QED
  BY <1>1, <1>2

EventMap(d, n, g) ==
  /\ \A e \in n.pend : \E o \in d.pend : e = g[o]
  /\ \A o \in d.pend : g[o] \in n.pend /\ g[o] \in Frames \union Alarm /\ g[o].ev = o.ev

Fixed(d, g, x) == \A o \in d.pend : o.ev = x => g[o] = o

(* The events of a name after such a change.                                   *)
LEMMA MappedEvents ==
  ASSUME NEW d, NEW n, NEW g, EventMap(d, n, g)
  PROVE  /\ PendOK(n)
         /\ \A x : None(d, x) => None(n, x)
         /\ \A x, left : Only(d, x, left) => /\ [ev |-> x, left |-> left] \in d.pend
                                            /\ Named(n, {x}) = {g[[ev |-> x, left |-> left]]}
         /\ \A x : Fixed(d, g, x) => Named(n, {x}) = Named(d, {x})
<1> USE DEF EventMap
<1>1. PendOK(n)
  BY DEF PendOK
<1>2. \A x : None(d, x) => None(n, x)
  BY DEF None, Named
<1>3. ASSUME NEW x, NEW left, Only(d, x, left)
      PROVE  [ev |-> x, left |-> left] \in d.pend /\ Named(n, {x}) = {g[[ev |-> x, left |-> left]]}
  <2> DEFINE old == [ev |-> x, left |-> left]
  <2>1. old \in d.pend /\ old.ev = x /\ \A o \in d.pend : o.ev = x => o = old
    BY <1>3 DEF Only, Named
  <2> HIDE DEF old
  <2>2. Named(n, {x}) = {g[old]}
    BY <2>1 DEF Named
  <2> QED
    BY <2>1, <2>2 DEF old
<1>4. ASSUME NEW x, Fixed(d, g, x) PROVE Named(n, {x}) = Named(d, {x})
  BY <1>4 DEF Named, Fixed
<1> QED
  BY <1>1, <1>2, <1>3, <1>4

(* clockCorrection() moves the clock and the events that have a slot.         *)
LEMMA ClockCorrectionEffect ==
  ASSUME NEW d, NEW c \in Int, Device(d), PendOK(d)
  PROVE  LET n == ClockCorrection(d, c) IN
         /\ Changes(d, n, {"clk", "pend", "gone"})
         /\ n.clk = (d.clk - c) % Cycle
         /\ PendOK(n)
         /\ Same(d, n, {"ASYNCHRON"})
         /\ \A x \in DOMAIN SlotOf : None(d, x) => None(n, x)
         /\ \A x \in DOMAIN SlotOf : \A left : Only(d, x, left) => Only(n, x, Larger(0, left + c))
<1> DEFINE m == Correct(d, c)
           n == ClockCorrection(d, c)
           g == [o \in d.pend |-> KeyMoved(Moved(o, c), c)]
<1>1. Device(m) /\ m.clk = (d.clk - c) % Cycle /\ m.pend = {Moved(e, c) : e \in d.pend}
      /\ \A x \in FieldNames \ {"clk", "pend"} : m[x] = d[x]
  BY DEF Correct, Device, FieldNames, Moved
<1>2. n = [[m EXCEPT !.pend = {KeyMoved(e, c) : e \in @}] EXCEPT !.gone = {[h EXCEPT !.key = @ + c] : h \in @}]
  BY DEF ClockCorrection
<1> HIDE DEF m, n
<1>3. /\ Device(n) /\ n.pend = {KeyMoved(e, c) : e \in m.pend}
      /\ \A x \in FieldNames \ {"pend", "gone"} : n[x] = m[x]
  BY <1>1, <1>2 DEF Device, FieldNames
<1>4. Changes(d, n, {"clk", "pend", "gone"}) /\ n.clk = (d.clk - c) % Cycle
  BY <1>1, <1>3 DEF Changes, FieldNames
<1>5. /\ \A e \in n.pend : \E o \in d.pend : e = g[o]
      /\ \A o \in d.pend : g[o] \in n.pend
  <2>1. \A o \in d.pend : g[o] = KeyMoved(Moved(o, c), c)
    OBVIOUS
  <2> HIDE DEF g
  <2> QED
    BY <1>1, <1>3, <2>1
<1>6. ASSUME NEW o \in d.pend
      PROVE  /\ g[o] \in Frames \union Alarm
             /\ g[o].ev = o.ev
             /\ o.ev = "ASYNCHRON" => g[o] = o
             /\ o.ev \in DOMAIN SlotOf => g[o] = [ev |-> o.ev, left |-> Larger(0, o.left + c)]
  <2> DEFINE e == Moved(o, c)
  <2>1. o \in Frames \union Alarm /\ g[o] = KeyMoved(e, c)
    BY DEF PendOK
  <2>2. /\ e \in Frames \union Alarm /\ e.ev = o.ev
        /\ o.ev \in DOMAIN SlotOf => e = [ev |-> o.ev, left |-> Larger(0, o.left + c)]
        /\ o.ev = "ASYNCHRON" => e = o
    BY <2>1, MovedType
  <2> HIDE DEF e, g
  <2>3. KeyMoved(e, c) \in Frames \union Alarm /\ KeyMoved(e, c).ev = e.ev
        /\ (e.ev \in Alarms => KeyMoved(e, c) = e)
    BY <2>2, KeyMovedType
  <2> QED
    BY <2>1, <2>2, <2>3 DEF Alarms
<1> HIDE DEF g
<1>map. EventMap(d, n, g)
  BY <1>5, <1>6 DEF EventMap
<1>7. PendOK(n) /\ \A x : None(d, x) => None(n, x)
  BY <1>map, MappedEvents
<1>8. Same(d, n, {"ASYNCHRON"})
  <2>1. Fixed(d, g, "ASYNCHRON")
    BY <1>6 DEF Fixed
  <2> QED
    BY <1>map, <2>1, MappedEvents DEF Same
<1>9. ASSUME NEW x \in DOMAIN SlotOf, NEW left, Only(d, x, left) PROVE Only(n, x, Larger(0, left + c))
  <2> DEFINE old == [ev |-> x, left |-> left]
  <2>1. old \in d.pend /\ Named(n, {x}) = {g[old]}
    BY <1>map, <1>9, MappedEvents
  <2>2. old.ev = x /\ old.left = left
    OBVIOUS
  <2> HIDE DEF old
  <2> QED
    BY <1>6, <2>1, <2>2 DEF Only
<1> QED
  BY <1>4, <1>7, <1>8, <1>9 DEF n

(* A tick brings every event nearer by one.                                   *)
LEMMA TimePassesEffect ==
  ASSUME NEW d, Device(d), PendOK(d), NothingDue(d)
  PROVE  LET n == TimePasses(d) IN
         /\ Changes(d, n, {"clk", "pend", "gone"})
         /\ n.clk = (d.clk + 1) % Cycle
         /\ PendOK(n)
         /\ \A x \in Alarms : None(d, x) => None(n, x)
         /\ \A x \in Alarms : \A left : Only(d, x, left) => left \in Nat \ {0} /\ Only(n, x, left - 1)
<1> DEFINE m == Ticked(d)
           n == TimePasses(d)
           g == [o \in d.pend |-> KeyMoved(Nearer(o), -1)]
<1>1. Device(m) /\ m.clk = (d.clk + 1) % Cycle /\ m.pend = {Nearer(e) : e \in d.pend}
      /\ \A x \in FieldNames \ {"clk", "pend"} : m[x] = d[x]
  BY DEF Ticked, Device, FieldNames, Nearer
<1>2. n = [[m EXCEPT !.pend = {KeyMoved(e, -1) : e \in @}]
             EXCEPT !.gone = {h \in {[o EXCEPT !.key = @ - 1] : o \in @} : h.key >= -GoneHorizon}]
  BY DEF TimePasses
<1> HIDE DEF m, n
<1>3. /\ Device(n) /\ n.pend = {KeyMoved(e, -1) : e \in m.pend}
      /\ \A x \in FieldNames \ {"pend", "gone"} : n[x] = m[x]
  BY <1>1, <1>2 DEF Device, FieldNames
<1>4. Changes(d, n, {"clk", "pend", "gone"}) /\ n.clk = (d.clk + 1) % Cycle
  BY <1>1, <1>3 DEF Changes, FieldNames
<1>5. /\ \A e \in n.pend : \E o \in d.pend : e = g[o]
      /\ \A o \in d.pend : g[o] \in n.pend
  <2>1. \A o \in d.pend : g[o] = KeyMoved(Nearer(o), -1)
    OBVIOUS
  <2> HIDE DEF g
  <2> QED
    BY <1>1, <1>3, <2>1
<1>6. ASSUME NEW o \in d.pend
      PROVE  /\ o.left \in Nat \ {0}
             /\ g[o] \in Frames \union Alarm
             /\ g[o].ev = o.ev
             /\ o.ev \in Alarms => g[o] = [ev |-> o.ev, left |-> o.left - 1]
  <2> DEFINE e == Nearer(o)
  <2>1. o \in Frames \union Alarm /\ g[o] = KeyMoved(e, -1)
    BY DEF PendOK
  <2>2. o.left \in Nat \ {0}
    BY <2>1, EventTypes DEF NothingDue
  <2>3. /\ e \in Frames \union Alarm /\ e.ev = o.ev
        /\ o.ev \in Alarms => e = [ev |-> o.ev, left |-> o.left - 1]
    BY <2>1, <2>2, NearerType
  <2> HIDE DEF e, g
  <2>4. KeyMoved(e, -1) \in Frames \union Alarm /\ KeyMoved(e, -1).ev = e.ev
        /\ (e.ev \in Alarms => KeyMoved(e, -1) = e)
    BY <2>3, KeyMovedType
  <2> QED
    BY <2>1, <2>2, <2>3, <2>4
<1> HIDE DEF g
<1>map. EventMap(d, n, g)
  BY <1>5, <1>6 DEF EventMap
<1>7. PendOK(n) /\ \A x : None(d, x) => None(n, x)
  BY <1>map, MappedEvents
<1>8. ASSUME NEW x \in Alarms, NEW left, Only(d, x, left) PROVE left \in Nat \ {0} /\ Only(n, x, left - 1)
  <2> DEFINE old == [ev |-> x, left |-> left]
  <2>1. old \in d.pend /\ Named(n, {x}) = {g[old]}
    BY <1>map, <1>8, MappedEvents
  <2>2. old.ev = x /\ old.left = left
    OBVIOUS
  <2> HIDE DEF old
  <2> QED
    BY <1>6, <2>1, <2>2 DEF Only
<1> QED
  BY <1>4, <1>7, <1>8 DEF n

(* The container and the frames leave the other events alone.                  *)
LEMMA ErasedEffect ==
  ASSUME NEW d, NEW key, Device(d), PendOK(d)
  PROVE  LET n == Erased(d, key) IN
         /\ Changes(d, n, {"pend", "gone"})
         /\ PendOK(n)
         /\ Same(d, n, Alarms)
<1> DEFINE Un(e) == [e EXCEPT !.listed = FALSE]
           Off(e) == [Un(e) EXCEPT !.key = 0]
           n == Erased(d, key)
<1>1. n = [[d EXCEPT !.pend = (@ \ Filed(d, key)) \union {Off(e) : e \in Filed(d, key)}]
             EXCEPT !.gone = {g \in @ : g.key # key}]
  BY DEF Erased
<1> HIDE DEF n
<1>2. Device(n) /\ \A x \in FieldNames \ {"pend", "gone"} : n[x] = d[x]
  <2> HIDE DEF Off
  <2> QED
    BY <1>1 DEF Device, FieldNames
<1>3. n.pend = (d.pend \ Filed(d, key)) \union {Off(e) : e \in Filed(d, key)}
  <2> HIDE DEF Off
  <2> QED
    BY <1>1 DEF Device, FieldNames
<1>4. ASSUME NEW e \in Filed(d, key)
      PROVE  e \in d.pend /\ e.ev \in Kinds /\ Off(e) \in Frames /\ Off(e).ev \in Kinds
  <2>1. e \in d.pend /\ e.ev \in Kinds
    BY DEF Filed, Named, Kinds
  <2>2. e \in Frames
    BY <2>1, EventTypes DEF PendOK
  <2>3. Un(e) \in Frames
    BY <2>2 DEF Frames
  <2> HIDE DEF Un
  <2>5. Off(e) \in Frames
    BY <2>3 DEF Frames
  <2>6. Off(e).ev \in Kinds
    BY <2>5 DEF Frames
  <2> QED
    BY <2>1, <2>5, <2>6
<1>5. Kinds \intersect Alarms = {}
  BY SlotNames DEF Alarms, Kinds
<1> HIDE DEF Off
<1>6. PendOK(n)
  BY <1>3, <1>4 DEF PendOK
<1>7. ASSUME NEW x \in Alarms PROVE Named(n, {x}) = Named(d, {x})
  <2>1. \A e \in Filed(d, key) : e.ev # x /\ Off(e).ev # x
    BY <1>4, <1>5
  <2> QED
    BY <1>3, <2>1 DEF Named
<1> QED
  BY <1>2, <1>6, <1>7 DEF Changes, Same, n

LEMMA DeletedEffect ==
  ASSUME NEW d, NEW f, Device(d), PendOK(d)
  PROVE  LET n == Deleted(d, f) IN
         /\ Changes(d, n, {"gone"})
         /\ PendOK(n)
         /\ Same(d, n, Alarms)
<1> DEFINE n == Deleted(d, f)
<1>1. Device(n) /\ \A x \in FieldNames \ {"gone"} : n[x] = d[x]
  BY DEF Deleted, Device, FieldNames
<1> HIDE DEF n
<1>2. n.pend = d.pend
  BY <1>1 DEF FieldNames
<1> QED
  BY <1>1, <1>2 DEF Changes, Same, Named, PendOK, n

(* What a received frame may change.                                           *)
Filing(d, n) ==
  /\ Changes(d, n, {"pend", "gone", "fault"})
  /\ PendOK(n)
  /\ Same(d, n, Alarms)

(* Every outcome of filing a frame before synchronisation is such a change.             *)
LEMMA FileBestEffect ==
  ASSUME NEW d, NEW f \in Frames, Device(d), PendOK(d), NEW n \in FileBest(d, f)
  PROVE  Filing(d, n)
<1>1. ASSUME NEW b, Filing(d, b) PROVE Filing(d, RegisterTimer(Erased(b, f.key), f))
  <2> DEFINE m == Erased(b, f.key)
             r == RegisterTimer(m, f)
  <2>1. Changes(b, m, {"pend", "gone"}) /\ PendOK(m) /\ Same(b, m, Alarms)
    BY <1>1, ErasedEffect DEF Filing, Changes
  <2> HIDE DEF m
  <2>2. Changes(m, r, {"pend"}) /\ PendOK(r) /\ Same(m, r, Alarms)
    BY <2>1, RegisterTimerEffect DEF Changes
  <2> HIDE DEF r
  <2>3. Filing(d, r)
    BY <1>1, <2>1, <2>2 DEF Filing, Changes, Same
  <2> QED
    BY <2>3 DEF m, r
<1>2. Filing(d, d)
  BY DEF Filing, Changes, Same
<1>3. ASSUME NEW g \in d.pend, g.ev \in Kinds PROVE Filing(d, [d EXCEPT !.pend = @ \ {g}])
  <2> DEFINE r == [d EXCEPT !.pend = @ \ {g}]
  <2>1. Device(r) /\ r.pend = d.pend \ {g} /\ \A x \in FieldNames \ {"pend", "gone", "fault"} : r[x] = d[x]
    BY DEF Device, FieldNames
  <2>2. Kinds \intersect Alarms = {}
    BY SlotNames DEF Alarms, Kinds
  <2> HIDE DEF r
  <2>3. Filing(d, r)
    BY <1>3, <2>1, <2>2 DEF Filing, Changes, Same, Named, PendOK
  <2> QED
    BY <2>3 DEF r
<1>4. Filing(d, [d EXCEPT !.fault = TRUE])
  <2> DEFINE r == [d EXCEPT !.fault = TRUE]
  <2>1. Device(r) /\ r.pend = d.pend /\ \A x \in FieldNames \ {"pend", "gone", "fault"} : r[x] = d[x]
    BY DEF Device, FieldNames
  <2> HIDE DEF r
  <2>2. Filing(d, r)
    BY <2>1 DEF Filing, Changes, Same, Named, PendOK
  <2> QED
    BY <2>2 DEF r
<1>5. Filing(d, RegisterTimer(d, f))
  BY RegisterTimerEffect DEF Filing, Changes
<1>6. Filing(d, RegisterTimer(Erased(d, f.key), f))
  BY <1>1, <1>2
<1>7. ASSUME NEW g \in Filed(d, f.key)
      PROVE  Filing(d, RegisterTimer(Erased([d EXCEPT !.pend = @ \ {g}], f.key), f))
  BY <1>1, <1>3 DEF Filed, Named, Kinds
<1> DEFINE pending == Filed(d, f.key)
           past    == {g \in d.gone : g.key = f.key}
           ByPending(g) == IF Better(f, g) THEN RegisterTimer(Erased([d EXCEPT !.pend = @ \ {g}], f.key), f) ELSE d
           ByPast(g) == CASE g.freed                  -> [d EXCEPT !.fault = TRUE]
                          [] ~g.freed /\ Better(f, g) -> RegisterTimer(Erased(d, f.key), f)
                          [] OTHER                    -> d
<1>8. \/ n = RegisterTimer(d, f)
      \/ \E g \in pending : n = ByPending(g)
      \/ \E g \in past : n = ByPast(g)
  BY Zenon DEF FileBest
<1>9. ASSUME NEW g \in pending PROVE Filing(d, ByPending(g))
  BY <1>2, <1>7
<1>10. ASSUME NEW g \in past PROVE Filing(d, ByPast(g))
  BY <1>2, <1>4, <1>6
<1> HIDE DEF pending, past, ByPending, ByPast
<1> QED
  BY <1>5, <1>8, <1>9, <1>10
------------------------------------------------------------------------------
(* The readings of a cycle.                                                    *)

(* Half the acceptance window is at most the precision.                        *)
LEMMA WindowType ==
  /\ HalfWindow \in Nat \ {0} /\ HalfWindow <= Precision
  /\ ReceivePit \in Nat /\ Precision \in Nat /\ Cycle \in Nat
BY SlotsInOrder DEF HalfWindow

(* The evaluation counts the members of a reading, or none.                   *)
LEMMA SyncMembersType ==
  ASSUME NEW stack \in SUBSET Readings
  PROVE  /\ SyncMembers(stack) \in 0 .. MaxMembership
         /\ \A t \in Nat \ {0} : (\A s \in stack : s.count < t) => SyncMembers(stack) < t
<1>1. CASE stack = {}
  BY <1>1, MasterAssumption DEF SyncMembers
<1>2. CASE stack # {}
  <2> DEFINE S == {s.count : s \in stack}
  <2>1. S \in SUBSET (0 .. MaxMembership) /\ S # {}
    BY <1>2 DEF Readings
  <2>2. SyncMembers(stack) = Max(S)
    BY <1>2 DEF SyncMembers
  <2>3. \A k \in S : \E s \in stack : k = s.count
    OBVIOUS
  <2> HIDE DEF S
  <2>4. \E g \in S : \A k \in S : g >= k
    BY <2>1, MasterAssumption, GreatestInteger
  <2>5. Max(S) \in S
    BY <2>4 DEF Max
  <2> QED
    BY <2>1, <2>2, <2>3, <2>5
<1> QED
  BY <1>1, <1>2

(* A reading lies in the window around the receive pit, the sum of the         *)
(* deviations of n readings therefore within n times half the window, and     *)
(* their average within half the window.                                       *)
LEMMA DeviationWithinWindow ==
  ASSUME NEW stack \in SUBSET Readings, IsFiniteSet(stack), stack # {}
  PROVE  Deviation(stack) \in -HalfWindow .. HalfWindow
<1> DEFINE w == [s \in stack |-> s.pit - ReceivePit]
           Folds(f) == f = [s \in SUBSET stack |->
                              IF s = {} THEN 0
                              ELSE LET x == CHOOSE x \in s : TRUE IN f[s \ {x}] + x.pit - ReceivePit]
           F == CHOOSE f : Folds(f)
           sum == FoldSet(LAMBDA s, n : n + s.pit - ReceivePit, 0, stack)
<1>1. sum = F[stack]
  BY DEF FoldSet, MapThenFoldSet
<1>2. \A s \in stack : s.pit \in Int /\ w[s] \in -HalfWindow .. HalfWindow /\ w[s] = s.pit - ReceivePit
  BY WindowType DEF Readings
<1>3. \E f : Folds(f)
  <2>1. PICK f \in [SUBSET stack -> Int] : Sums(w, stack, f)
    <3>1. \A s \in stack : w[s] \in Int
      BY <1>2, WindowType
    <3> HIDE DEF w
    <3> QED
      BY <3>1, SumsExist
  <2>2. ASSUME NEW s \in SUBSET stack
        PROVE  f[s] = IF s = {} THEN 0
                      ELSE LET x == CHOOSE x \in s : TRUE IN f[s \ {x}] + x.pit - ReceivePit
    <3> DEFINE x == CHOOSE x \in s : TRUE
    <3>1. f[s] = IF s = {} THEN 0 ELSE w[x] + f[s \ {x}]
      BY <2>1 DEF Sums, Chosen
    <3>2. s # {} => x \in s
      OBVIOUS
    <3> HIDE DEF x
    <3>3. s # {} => w[x] = x.pit - ReceivePit /\ x.pit \in Int /\ f[s \ {x}] \in Int
      BY <1>2, <2>1, <3>2
    <3>4. s # {} => w[x] + f[s \ {x}] = f[s \ {x}] + x.pit - ReceivePit
      BY <3>3, WindowType
    <3>5. f[s] = IF s = {} THEN 0 ELSE f[s \ {x}] + x.pit - ReceivePit
      BY <3>1, <3>4
    <3> QED
      BY <3>5 DEF x
  <2>3. Folds(f)
    BY <2>1, <2>2
  <2> QED
    BY <2>3
<1>4. Folds(F)
  BY <1>3
<1> HIDE DEF F
<1>5. \A s \in SUBSET stack :
         F[s] = IF s = {} THEN 0 ELSE LET x == CHOOSE x \in s : TRUE IN F[s \ {x}] + x.pit - ReceivePit
  BY <1>4
<1> HIDE DEF Folds
<1> DEFINE P == {s \in SUBSET stack : /\ F[s] \in Int
                                      /\ F[s] <= HalfWindow * Cardinality(s)
                                      /\ -F[s] <= HalfWindow * Cardinality(s)}
<1>6. ASSUME NEW s \in SUBSET stack, \A x \in s : s \ {x} \in P PROVE s \in P
  <2>1. CASE s = {}
    <3>1. F[s] = 0
      BY <1>5, <2>1
    <3>2. Cardinality(s) = 0
      BY <2>1, FS_EmptySet
    <3> QED
      BY <3>1, <3>2, WindowType
  <2>2. CASE s # {}
    <3> DEFINE x == CHOOSE x \in s : TRUE
               n == Cardinality(s \ {x})
    <3>1. x \in s /\ F[s] = F[s \ {x}] + x.pit - ReceivePit
      BY <1>5, <2>2
    <3>2. IsFiniteSet(s)
      BY FS_Subset
    <3>3. n \in Nat /\ Cardinality(s) = n + 1
      <4> HIDE DEF x
      <4>1. IsFiniteSet(s \ {x}) /\ Cardinality(s \ {x}) = Cardinality(s) - 1
        BY <3>1, <3>2, FS_RemoveElement
      <4>2. Cardinality(s) \in Nat /\ Cardinality(s \ {x}) \in Nat
        BY <3>2, <4>1, FS_CardinalityType
      <4> QED
        BY <4>1, <4>2
    <3>4. s \ {x} \in P
      BY <1>6, <3>1
    <3> HIDE DEF x
    <3>5. F[s \ {x}] \in Int /\ F[s \ {x}] <= HalfWindow * n /\ -F[s \ {x}] <= HalfWindow * n
      BY <3>4
    <3>6. x.pit \in Int /\ x.pit - ReceivePit <= HalfWindow /\ -(x.pit - ReceivePit) <= HalfWindow
      BY <1>2, <3>1, WindowType
    <3> HIDE DEF n
    <3>7. HalfWindow * (n + 1) = HalfWindow * n + HalfWindow /\ HalfWindow * n \in Int
      BY <3>3, WindowType
    <3>8. F[s] \in Int /\ F[s] <= HalfWindow * (n + 1) /\ -F[s] <= HalfWindow * (n + 1)
      BY <3>1, <3>5, <3>6, <3>7, WindowType
    <3> QED
      BY <3>3, <3>8
  <2> QED
    BY <2>1, <2>2
<1>7. stack \in P
  <2> HIDE DEF P
  <2> QED
    BY <1>6, InductionOnSubsets
<1> DEFINE b == Cardinality(stack)
<1>8. b \in Nat \ {0} /\ sum \in Int /\ sum <= HalfWindow * b /\ -sum <= HalfWindow * b
  BY <1>1, <1>7, FS_CardinalityType, FS_EmptySet
<1>9. Deviation(stack) = Truncated(sum, b)
  BY DEF Deviation
<1> HIDE DEF sum, b
<1>10. CASE sum >= 0
  <2>1. sum \div b \in 0 .. HalfWindow
    BY <1>8, <1>10, WindowType, QuotientBound
  <2> QED
    BY <1>9, <1>10, <2>1, WindowType DEF Truncated
<1>11. CASE sum < 0
  <2>1. (-sum) \div b \in 0 .. HalfWindow
    BY <1>8, <1>11, WindowType, QuotientBound
  <2> QED
    BY <1>8, <1>9, <1>11, <2>1, WindowType DEF Truncated
<1> QED
  BY <1>8, <1>10, <1>11
------------------------------------------------------------------------------
(* The operations again, on a device whose fields have their types.            *)

Data(d, n) ==
  /\ n.st = d.st /\ n.icyc = d.icyc /\ n.sync = d.sync
  /\ n.asyncR = d.asyncR /\ n.asyncF = d.asyncF
  /\ n.counter = d.counter /\ n.stack = d.stack /\ n.timer = d.timer
  /\ n.floodReceive = d.floodReceive /\ n.closedWindow = d.closedWindow

Timing == {"clk", "pend", "gone", "fault", "out"}

(* An operation that changes only what belongs to the timing keeps the types. *)
LEMMA BasicKept ==
  ASSUME NEW m, NEW d, NEW n, Basic(m, d), NEW names \in SUBSET Timing, Changes(d, n, names),
         PendOK(n), n.clk \in 0 .. Cycle - 1
  PROVE  Basic(m, n) /\ Data(d, n)
<1>1. Data(d, n)
  BY DEF Changes, FieldNames, Timing, Data
<1> QED
  BY <1>1 DEF Basic, Data, Changes

(* ... and the clock, when that is not among it.                              *)
LEMMA ClockKept ==
  ASSUME NEW d, NEW n, NEW names \in SUBSET Timing, "clk" \notin names, Changes(d, n, names)
  PROVE  n.clk = d.clk
BY DEF Changes, FieldNames

(* The same events, by whatever name.                                         *)
LEMMA PendKept ==
  ASSUME NEW d, NEW n, n.pend = d.pend, PendOK(d)
  PROVE  PendOK(n) /\ \A names : Same(d, n, names)
BY DEF PendOK, Same, Named

(* Devices with the same events of a name agree on all that is said of it.    *)
LEMMA SameAlarm ==
  ASSUME NEW d, NEW n, NEW names, Same(d, n, names), NEW x \in names
  PROVE  /\ None(d, x) <=> None(n, x)
         /\ \A left : Only(d, x, left) <=> Only(n, x, left)
         /\ Once(d, x) <=> Once(n, x)
BY DEF Same, None, Only, Once

(* registerEvent(), of one event and of several.                              *)
LEMMA Registers ==
  ASSUME NEW m, NEW d, Basic(m, d), NEW ev \in DOMAIN SlotOf, NEW next \in BOOLEAN
  PROVE  LET n == RegisterAction(d, ev, next) IN
         /\ Basic(m, n) /\ Data(d, n) /\ n.clk = d.clk
         /\ None(d, ev) => Only(n, ev, Distance(d.clk, ev, next))
         /\ Same(d, n, Alarms \ {ev})
<1> DEFINE n == RegisterAction(d, ev, next)
<1>1. Device(d) /\ PendOK(d) /\ d.clk \in 0 .. Cycle - 1 /\ d.clk \in Int
  BY SlotsInOrder DEF Basic
<1>2. /\ Changes(d, n, {"pend", "fault"})
      /\ PendOK(n)
      /\ None(d, ev) => Only(n, ev, Distance(d.clk, ev, next))
      /\ Same(d, n, Alarms \ {ev})
  BY <1>1, RegisterActionEffect
<1> HIDE DEF n
<1>3. n.clk = d.clk
  BY <1>2, ClockKept DEF Timing
<1>4. Basic(m, n) /\ Data(d, n)
  BY <1>1, <1>2, <1>3, BasicKept DEF Timing
<1> QED
  BY <1>2, <1>3, <1>4 DEF n

LEMMA RegistersAll ==
  ASSUME NEW m, NEW d, Basic(m, d), NEW evs \in SUBSET DOMAIN SlotOf
  PROVE  LET n == RegisterAll(d, evs) IN
         /\ Basic(m, n) /\ Data(d, n) /\ n.clk = d.clk
         /\ \A x \in evs : None(d, x) => Only(n, x, Distance(d.clk, x, FALSE))
         /\ Same(d, n, Alarms \ evs)
<1> DEFINE n == RegisterAll(d, evs)
<1>1. Device(d) /\ PendOK(d) /\ d.clk \in 0 .. Cycle - 1 /\ d.clk \in Int
  BY SlotsInOrder DEF Basic
<1>2. /\ Changes(d, n, {"pend", "fault"})
      /\ PendOK(n)
      /\ \A x \in evs : None(d, x) => Only(n, x, Distance(d.clk, x, FALSE))
      /\ Same(d, n, Alarms \ evs)
  BY <1>1, RegisterAllEffect
<1> HIDE DEF n
<1>3. n.clk = d.clk
  BY <1>2, ClockKept DEF Timing
<1>4. Basic(m, n) /\ Data(d, n)
  BY <1>1, <1>2, <1>3, BasicKept DEF Timing
<1> QED
  BY <1>2, <1>3, <1>4 DEF n

(* The timer starts.                                                          *)
LEMMA StartsTimer ==
  ASSUME NEW m, NEW d, Basic(m, d), NEW left \in Nat
  PROVE  LET n == StartTimer(d, left) IN
         /\ Basic(m, n) /\ Data(d, n) /\ n.clk = d.clk
         /\ None(d, "ASYNCHRON") => Only(n, "ASYNCHRON", left)
         /\ Same(d, n, DOMAIN SlotOf)
<1> DEFINE n == StartTimer(d, left)
<1>1. Device(d) /\ PendOK(d) /\ d.clk \in 0 .. Cycle - 1
  BY DEF Basic
<1>2. /\ Changes(d, n, {"pend", "fault"})
      /\ PendOK(n)
      /\ None(d, "ASYNCHRON") => Only(n, "ASYNCHRON", left)
      /\ Same(d, n, DOMAIN SlotOf)
  BY <1>1, StartTimerEffect
<1> HIDE DEF n
<1>3. n.clk = d.clk
  BY <1>2, ClockKept DEF Timing
<1>4. Basic(m, n) /\ Data(d, n)
  BY <1>1, <1>2, <1>3, BasicKept DEF Timing
<1> QED
  BY <1>2, <1>3, <1>4 DEF n

(* unregisterEvent().                                                         *)
LEMMA Unregisters ==
  ASSUME NEW m, NEW d, Basic(m, d), NEW names \in SUBSET Alarms
  PROVE  LET n == Unregister(d, names) IN
         /\ Basic(m, n) /\ Data(d, n) /\ n.clk = d.clk
         /\ \A x \in names : None(n, x)
         /\ Same(d, n, Alarms \ names)
<1> DEFINE n == Unregister(d, names)
<1>1. Device(d) /\ PendOK(d) /\ d.clk \in 0 .. Cycle - 1
  BY DEF Basic
<1>2. /\ Changes(d, n, {"pend"})
      /\ PendOK(n)
      /\ \A x \in names : None(n, x)
      /\ Same(d, n, Alarms \ names)
  BY <1>1, UnregisterEffect
<1> HIDE DEF n
<1>3. n.clk = d.clk
  BY <1>2, ClockKept DEF Timing
<1>4. Basic(m, n) /\ Data(d, n)
  BY <1>1, <1>2, <1>3, BasicKept DEF Timing
<1> QED
  BY <1>2, <1>3, <1>4 DEF n

(* clockCorrection().                                                         *)
LEMMA Corrects ==
  ASSUME NEW m, NEW d, Basic(m, d), NEW c \in Int
  PROVE  LET n == ClockCorrection(d, c) IN
         /\ Basic(m, n) /\ Data(d, n) /\ n.clk = (d.clk - c) % Cycle
         /\ Same(d, n, {"ASYNCHRON"})
         /\ \A x \in DOMAIN SlotOf : None(d, x) => None(n, x)
         /\ \A x \in DOMAIN SlotOf : \A left : Only(d, x, left) => Only(n, x, Larger(0, left + c))
<1> DEFINE n == ClockCorrection(d, c)
<1>1. Device(d) /\ PendOK(d) /\ d.clk - c \in Int /\ Cycle \in Nat \ {0}
  BY SlotsInOrder DEF Basic
<1>2. /\ Changes(d, n, {"clk", "pend", "gone"})
      /\ n.clk = (d.clk - c) % Cycle
      /\ PendOK(n)
      /\ Same(d, n, {"ASYNCHRON"})
      /\ \A x \in DOMAIN SlotOf : None(d, x) => None(n, x)
      /\ \A x \in DOMAIN SlotOf : \A left : Only(d, x, left) => Only(n, x, Larger(0, left + c))
  BY <1>1, ClockCorrectionEffect
<1> HIDE DEF n
<1>3. n.clk \in 0 .. Cycle - 1
  BY <1>1, <1>2, Remainder
<1>4. Basic(m, n) /\ Data(d, n)
  BY <1>1, <1>2, <1>3, BasicKept DEF Timing
<1> QED
  BY <1>2, <1>4 DEF n

(* The handled event is due: its own name is not registered any more.          *)
LEMMA Takes ==
  ASSUME NEW m, NEW d, Basic(m, d), NEW e \in Due(d)
  PROVE  LET n == [Taken(d, e) EXCEPT !.out = {}] IN
         /\ Basic(m, n) /\ Data(d, n) /\ n.clk = d.clk
         /\ Same(d, n, Alarms \ {e.ev})
         /\ \A left : Only(d, e.ev, left) => None(n, e.ev) /\ left = 0
         /\ e.ev \in Kinds => e \in Frames
<1> DEFINE b == Taken(d, e)
           n == [b EXCEPT !.out = {}]
<1>1. Device(d) /\ PendOK(d) /\ d.clk \in 0 .. Cycle - 1
  BY DEF Basic
<1>2. e \in d.pend /\ e.left = 0
  BY DEF Due
<1>3. e \in Frames \union Alarm
  BY <1>1, <1>2 DEF PendOK
<1>8. /\ Changes(d, b, {"pend"})
      /\ PendOK(b)
      /\ Same(d, b, Alarms \ {e.ev})
      /\ \A left : Only(d, e.ev, left) => None(b, e.ev) /\ e = [ev |-> e.ev, left |-> left]
  BY <1>1, <1>2, TakenEffect
<1> HIDE DEF b
<1>9. Device(n) /\ n.pend = b.pend /\ \A x \in FieldNames \ {"out"} : n[x] = b[x]
  BY <1>8 DEF Changes, Device, FieldNames
<1> HIDE DEF n
<1>4. /\ Changes(d, n, {"pend", "out"})
      /\ PendOK(n)
      /\ Same(d, n, Alarms \ {e.ev})
      /\ \A left : Only(d, e.ev, left) => None(n, e.ev) /\ e = [ev |-> e.ev, left |-> left]
  BY <1>8, <1>9 DEF Changes, PendOK, Same, None, Named
<1>5. n.clk = d.clk
  BY <1>4, ClockKept DEF Timing
<1>6. Basic(m, n) /\ Data(d, n)
  BY <1>1, <1>4, <1>5, BasicKept DEF Timing
<1>7. ASSUME NEW left, Only(d, e.ev, left) PROVE None(n, e.ev) /\ left = 0
  <2>1. e = [ev |-> e.ev, left |-> left]
    BY <1>4, <1>7
  <2>2. e.left = left
    BY <2>1
  <2> QED
    BY <1>2, <1>4, <1>7, <2>2
<1> QED
  BY <1>3, <1>4, <1>5, <1>6, <1>7, EventTypes DEF n, b

(* Note that a frame was handled or filed.                                     *)
LEMMA Deletes ==
  ASSUME NEW m, NEW d, Basic(m, d), NEW f, NEW key
  PROVE  LET n == Erased(Deleted(d, f), key) IN
         Basic(m, n) /\ Data(d, n) /\ n.clk = d.clk /\ Same(d, n, Alarms)
<1> DEFINE b == Deleted(d, f)
           n == Erased(b, key)
<1>1. Device(d) /\ PendOK(d) /\ d.clk \in 0 .. Cycle - 1
  BY DEF Basic
<1>2. Changes(d, b, {"gone"}) /\ PendOK(b) /\ Same(d, b, Alarms)
  BY <1>1, DeletedEffect
<1> HIDE DEF b
<1>3. Changes(b, n, {"pend", "gone"}) /\ PendOK(n) /\ Same(b, n, Alarms)
  BY <1>2, ErasedEffect DEF Changes
<1> HIDE DEF n
<1>4. Changes(d, n, {"pend", "gone"}) /\ Same(d, n, Alarms)
  BY <1>2, <1>3 DEF Changes, Same
<1>5. n.clk = d.clk
  BY <1>4, ClockKept DEF Timing
<1>6. Basic(m, n) /\ Data(d, n)
  BY <1>1, <1>3, <1>4, <1>5, BasicKept DEF Timing
<1> QED
  BY <1>4, <1>5, <1>6 DEF b, n
------------------------------------------------------------------------------
(* On the way to a state that waits: each operation on the way leaves the types *)
(* alone, adds no event of the cycle, and neither counts nor reads.            *)

Calms(m, d, n) ==
  /\ Basic(m, n)
  /\ n.st = d.st
  /\ n.counter \in {0, d.counter}
  /\ n.stack \in {{}, d.stack}
  /\ n.icyc \in {0, d.icyc}
  /\ n.floodReceive = d.floodReceive /\ n.closedWindow = d.closedWindow
  /\ \A x \in DOMAIN SlotOf : None(d, x) => None(n, x)

(* What is left to do before a device waits.                                   *)
Idle(m, d) ==
  /\ Basic(m, d)
  /\ d.counter = 0 /\ d.stack = {} /\ d.icyc < MaxIcys
  /\ \A x \in DOMAIN SlotOf : None(d, x)

LEMMA CalmsTwice ==
  ASSUME NEW m, NEW a, NEW b, NEW c, Calms(m, a, b), Calms(m, b, c)
  PROVE  Calms(m, a, c)
BY DEF Calms

LEMMA StaysIdle ==
  ASSUME NEW m, NEW d, NEW n, Idle(m, d), Calms(m, d, n)
  PROVE  Idle(m, n)
BY MasterAssumption DEF Calms, Idle

(* Fields that the scheduler does not use.                                     *)
LEMMA OtherFields ==
  ASSUME NEW m, NEW d, NEW n, NEW names, Basic(m, d), Changes(d, n, names), "pend" \notin names
  PROVE  /\ Device(n) /\ PendOK(n) /\ \A x : None(d, x) => None(n, x)
         /\ \A all : Same(d, n, all)
<1>1. n.pend = d.pend
  BY DEF Changes, FieldNames
<1> QED
  BY <1>1 DEF Changes, Basic, PendOK, None, Named, Same

LEMMA SetsTimer ==
  ASSUME NEW m, NEW d, NEW t \in Nat, Basic(m, d)
  PROVE  LET n == SetTimer(d, t) IN
         /\ Calms(m, d, n) /\ n.clk = d.clk /\ n.fault = d.fault /\ n.sync = d.sync
         /\ n.counter = d.counter /\ n.stack = d.stack /\ n.icyc = d.icyc
         /\ \A all : Same(d, n, all)
<1> DEFINE n == SetTimer(d, t)
<1>1. Changes(d, n, {"timer"}) /\ n.timer = t
  BY DEF SetTimer, Basic, Device, FieldNames, Changes
<1> HIDE DEF n
<1>2. Device(n) /\ PendOK(n) /\ (\A x : None(d, x) => None(n, x)) /\ \A all : Same(d, n, all)
  BY <1>1, OtherFields
<1>3. /\ n.clk = d.clk /\ n.fault = d.fault /\ n.sync = d.sync /\ n.st = d.st /\ n.icyc = d.icyc
      /\ n.asyncR = d.asyncR /\ n.asyncF = d.asyncF /\ n.counter = d.counter /\ n.stack = d.stack
      /\ n.floodReceive = d.floodReceive /\ n.closedWindow = d.closedWindow
  BY <1>1 DEF Changes, FieldNames
<1>4. Basic(m, n)
  BY <1>1, <1>2, <1>3 DEF Basic
<1> QED
  BY <1>2, <1>3, <1>4 DEF Calms, n

(* The frame that is sent.                                                     *)
LEMMA Sends ==
  ASSUME NEW m, NEW d, NEW kind, NEW icyc, Basic(m, d)
  PROVE  LET n == Send(d, kind, icyc) IN
         /\ Calms(m, d, n) /\ Data(d, n) /\ n.clk = d.clk /\ n.fault = d.fault
         /\ \A all : Same(d, n, all)
<1> DEFINE n == Send(d, kind, icyc)
<1>1. Changes(d, n, {"out"})
  BY DEF Send, Basic, Device, FieldNames, Changes
<1> HIDE DEF n
<1>2. Device(n) /\ PendOK(n) /\ (\A x : None(d, x) => None(n, x)) /\ \A all : Same(d, n, all)
  BY <1>1, OtherFields
<1>3. n.clk = d.clk /\ n.fault = d.fault
  BY <1>1 DEF Changes, FieldNames
<1>4. Basic(m, n) /\ Data(d, n)
  BY <1>1, <1>2, <1>3, BasicKept DEF Basic, Timing
<1> QED
  BY <1>2, <1>3, <1>4 DEF Calms, Data, n

LEMMA ClearsAsync ==
  ASSUME NEW m, NEW d, Basic(m, d)
  PROVE  LET n == NoAsync(d) IN
         /\ Calms(m, d, n) /\ n.clk = d.clk /\ n.sync = d.sync /\ n.timer = d.timer /\ n.fault = d.fault
         /\ n.counter = d.counter /\ n.stack = d.stack /\ n.icyc = d.icyc
         /\ \A all : Same(d, n, all)
<1> DEFINE n == NoAsync(d)
<1>1. Changes(d, n, {"asyncR", "asyncF"}) /\ n.asyncR = {} /\ n.asyncF = {}
  BY DEF NoAsync, Basic, Device, FieldNames, Changes
<1> HIDE DEF n
<1>2. Device(n) /\ PendOK(n) /\ (\A x : None(d, x) => None(n, x)) /\ \A all : Same(d, n, all)
  BY <1>1, OtherFields
<1>3. /\ n.clk = d.clk /\ n.fault = d.fault /\ n.sync = d.sync /\ n.st = d.st /\ n.icyc = d.icyc
      /\ n.timer = d.timer /\ n.counter = d.counter /\ n.stack = d.stack
      /\ n.floodReceive = d.floodReceive /\ n.closedWindow = d.closedWindow
  BY <1>1 DEF Changes, FieldNames
<1>4. Basic(m, n)
  BY <1>1, <1>2, <1>3 DEF Basic
<1> QED
  BY <1>2, <1>3, <1>4 DEF Calms, n

(* A membership is a count or a mask with the master's bit.                    *)
LEMMA SyncRange ==
  ASSUME NEW m \in Masters
  PROVE  /\ LargestSync(m) \in Nat /\ MaxIcys \in Nat /\ MaxMembership \in Nat
         /\ 0 \in 0 .. MaxIcys /\ 0 \in 0 .. LargestSync(m)
         /\ 0 .. MaxMembership \subseteq 0 .. LargestSync(m)
         /\ \A n \in 0 .. MaxMembership : WithBit(n, m) \in 0 .. LargestSync(m)
         /\ WithBit(0, m) \in 0 .. LargestSync(m)
<1> DEFINE k == 2^m
<1>1. k \in Nat /\ MaxIcys \in Nat /\ MaxMembership \in Nat /\ LargestSync(m) = MaxMembership + k
  BY MasterAssumption DEF LargestSync
<1>2. \A n : WithBit(n, m) \in {n, n + k}
  BY DEF WithBit
<1> HIDE DEF k
<1>3. \A n \in 0 .. MaxMembership : n \in 0 .. LargestSync(m) /\ n + k \in 0 .. LargestSync(m)
  BY <1>1
<1>4. 0 \in 0 .. MaxMembership /\ 0 \in 0 .. MaxIcys
  BY <1>1
<1>5. \A n \in 0 .. MaxMembership : WithBit(n, m) \in 0 .. LargestSync(m)
  BY <1>2, <1>3
<1> QED
  BY <1>1, <1>3, <1>4, <1>5

(* The membership and the integration cycle.                                   *)
LEMMA SetsIcycAndSync ==
  ASSUME NEW m, NEW d, NEW n, Basic(m, d), Changes(d, n, {"icyc", "sync"}),
         n.icyc \in 0 .. MaxIcys, n.sync \in 0 .. LargestSync(m)
  PROVE  /\ Basic(m, n) /\ n.clk = d.clk /\ n.timer = d.timer /\ n.st = d.st
         /\ n.counter = d.counter /\ n.stack = d.stack
         /\ n.asyncR = d.asyncR /\ n.asyncF = d.asyncF
         /\ n.floodReceive = d.floodReceive /\ n.closedWindow = d.closedWindow
         /\ \A all : Same(d, n, all)
<1>2. Device(n) /\ PendOK(n) /\ \A all : Same(d, n, all)
  BY OtherFields
<1>3. /\ n.clk = d.clk /\ n.st = d.st /\ n.timer = d.timer
      /\ n.asyncR = d.asyncR /\ n.asyncF = d.asyncF /\ n.counter = d.counter /\ n.stack = d.stack
      /\ n.floodReceive = d.floodReceive /\ n.closedWindow = d.closedWindow
  BY DEF Changes, FieldNames
<1>4. Basic(m, n)
  BY <1>2, <1>3 DEF Basic
<1> QED
  BY <1>2, <1>3, <1>4

(* ... as a step to a state that waits.                                        *)
LEMMA CalmIcycAndSync ==
  ASSUME NEW m, NEW d, NEW n, Basic(m, d), Changes(d, n, {"icyc", "sync"}),
         n.icyc \in {0, d.icyc}, n.sync \in 0 .. LargestSync(m)
  PROVE  Calms(m, d, n) /\ n.clk = d.clk /\ n.timer = d.timer
<1>1. n.icyc \in 0 .. MaxIcys
  BY MasterAssumption DEF Basic
<1>2. /\ Basic(m, n) /\ n.clk = d.clk /\ n.timer = d.timer /\ n.st = d.st
      /\ n.counter = d.counter /\ n.stack = d.stack
      /\ n.floodReceive = d.floodReceive /\ n.closedWindow = d.closedWindow
      /\ \A all : Same(d, n, all)
  BY <1>1, SetsIcycAndSync
<1> QED
  BY <1>2 DEF Calms, Same, None

(* The clock goes back to zero.                                                *)
LEMMA ZeroesClock ==
  ASSUME NEW m, NEW d, Basic(m, d)
  PROVE  LET n == ClockZero(d) IN
         /\ Calms(m, d, n) /\ Data(d, n) /\ n.clk = 0
         /\ Same(d, n, {"ASYNCHRON"})
         /\ \A x \in DOMAIN SlotOf : \A left : Only(d, x, left) => Only(n, x, Larger(0, left + d.clk))
<1> DEFINE n == ClockZero(d)
<1>1. d.clk \in Int /\ d.clk - d.clk = 0 /\ Cycle \in Nat \ {0}
  BY SlotsInOrder DEF Basic
<1>2. /\ Basic(m, n) /\ Data(d, n) /\ n.clk = (d.clk - d.clk) % Cycle
      /\ Same(d, n, {"ASYNCHRON"})
      /\ \A x \in DOMAIN SlotOf : None(d, x) => None(n, x)
      /\ \A x \in DOMAIN SlotOf : \A left : Only(d, x, left) => Only(n, x, Larger(0, left + d.clk))
  BY <1>1, Corrects DEF ClockZero
<1>3. n.clk = 0
  BY <1>1, <1>2, SmallRemainder
<1> HIDE DEF n
<1> QED
  BY <1>2, <1>3 DEF Calms, Data, n

LEMMA ZeroesSync ==
  ASSUME NEW m \in Masters, NEW d, Basic(m, d)
  PROVE  LET n == ZeroSync(d) IN Calms(m, d, n) /\ n.clk = 0 /\ n.icyc = 0 /\ n.timer = d.timer
<1> DEFINE b == ClockZero(d)
           n == [b EXCEPT !.icyc = 0, !.sync = 0]
<1>1. Calms(m, d, b) /\ Data(d, b) /\ b.clk = 0
  BY ZeroesClock
<1> HIDE DEF b
<1>2. Changes(b, n, {"icyc", "sync"}) /\ n.icyc = 0 /\ n.sync = 0
  BY <1>1 DEF Calms, Basic, Device, FieldNames, Changes
<1>3. n = ZeroSync(d)
  BY DEF n, b, ZeroSync
<1> HIDE DEF n
<1>4. Calms(m, b, n) /\ n.clk = b.clk /\ n.timer = b.timer
  <2>1. n.icyc \in {0, b.icyc} /\ n.sync \in 0 .. LargestSync(m)
    BY <1>2, SyncRange
  <2>2. Basic(m, b)
    BY <1>1 DEF Calms
  <2> QED
    BY <1>2, <2>1, <2>2, CalmIcycAndSync
<1> QED
  BY <1>1, <1>2, <1>3, <1>4, CalmsTwice DEF Data

LEMMA Zeroes ==
  ASSUME NEW m \in Masters, NEW d, Basic(m, d)
  PROVE  LET n == Zero(d) IN Calms(m, d, n) /\ n.clk = 0 /\ n.icyc = 0 /\ n.timer = d.timer
<1> DEFINE b == ZeroSync(d)
           n == NoAsync(b)
<1>1. Calms(m, d, b) /\ b.clk = 0 /\ b.icyc = 0 /\ b.timer = d.timer
  BY ZeroesSync
<1> HIDE DEF b
<1>2. Calms(m, b, n) /\ n.clk = b.clk /\ n.icyc = b.icyc /\ n.timer = b.timer
  BY <1>1, ClearsAsync DEF Calms
<1>3. n = Zero(d)
  BY DEF n, b, Zero
<1> HIDE DEF n
<1> QED
  BY <1>1, <1>2, <1>3, CalmsTwice

(* The timer stops.                                                            *)
LEMMA StopsTimer ==
  ASSUME NEW m, NEW d, Basic(m, d)
  PROVE  LET n == StopTimer(d) IN
         Calms(m, d, n) /\ Data(d, n) /\ n.clk = d.clk /\ None(n, "ASYNCHRON") /\ Same(d, n, DOMAIN SlotOf)
<1> DEFINE n == StopTimer(d)
<1>1. {"ASYNCHRON"} \in SUBSET Alarms /\ DOMAIN SlotOf \subseteq Alarms \ {"ASYNCHRON"}
  BY SlotNames DEF Alarms
<1>2. /\ Basic(m, n) /\ Data(d, n) /\ n.clk = d.clk /\ None(n, "ASYNCHRON")
      /\ Same(d, n, Alarms \ {"ASYNCHRON"})
  BY <1>1, Unregisters DEF StopTimer
<1> HIDE DEF n
<1>3. Same(d, n, DOMAIN SlotOf) /\ \A x \in DOMAIN SlotOf : None(d, x) => None(n, x)
  BY <1>1, <1>2 DEF Same, None
<1> QED
  BY <1>2, <1>3 DEF Calms, Data, n

(* The cyclic events stop and the count starts anew.                           *)
LEMMA Halts ==
  ASSUME NEW m, NEW d, Basic(m, d), NEW names \in SUBSET DOMAIN SlotOf
  PROVE  LET n == Halt(d, names) IN
         /\ Calms(m, d, n) /\ n.counter = 0 /\ n.icyc = d.icyc /\ n.stack = d.stack
         /\ \A x \in names : None(n, x)
<1> DEFINE b == Unregister(d, names)
           n == [b EXCEPT !.counter = 0]
<1>1. names \in SUBSET Alarms
  BY DEF Alarms
<1>2. /\ Basic(m, b) /\ Data(d, b) /\ (\A x \in names : None(b, x))
      /\ Same(d, b, Alarms \ names)
  BY <1>1, Unregisters
<1>3. n = Halt(d, names)
  BY DEF Halt
<1> HIDE DEF b
<1>4. \A x \in DOMAIN SlotOf : None(d, x) => None(b, x)
  BY <1>2 DEF Same, None, Alarms
<1>5. Changes(b, n, {"counter"}) /\ n.counter = 0
  BY <1>2 DEF Basic, Device, FieldNames, Changes
<1> HIDE DEF n
<1>6. Device(n) /\ PendOK(n) /\ \A x : None(b, x) => None(n, x)
  BY <1>2, <1>5, OtherFields
<1>7. /\ n.clk = b.clk /\ n.st = b.st /\ n.icyc = b.icyc /\ n.timer = b.timer /\ n.sync = b.sync
      /\ n.asyncR = b.asyncR /\ n.asyncF = b.asyncF /\ n.stack = b.stack
      /\ n.floodReceive = b.floodReceive /\ n.closedWindow = b.closedWindow
  BY <1>5 DEF Changes, FieldNames
<1>8. Basic(m, n)
  BY <1>2, <1>6, <1>7 DEF Basic
<1>9. (\A x \in DOMAIN SlotOf : None(d, x) => None(n, x)) /\ \A x \in names : None(n, x)
  BY <1>2, <1>4, <1>6
<1>10. n.st = d.st /\ n.icyc = d.icyc /\ n.stack = d.stack
       /\ n.floodReceive = d.floodReceive /\ n.closedWindow = d.closedWindow
  BY <1>2, <1>7 DEF Data
<1> QED
  BY <1>3, <1>5, <1>8, <1>9, <1>10 DEF Calms

LEMMA ClearsReadings ==
  ASSUME NEW m, NEW d, Basic(m, d)
  PROVE  LET n == NoReadings(d) IN
         /\ Calms(m, d, n) /\ n.stack = {} /\ n.icyc = d.icyc /\ n.counter = d.counter
<1> DEFINE n == NoReadings(d)
<1>1. Changes(d, n, {"stack"}) /\ n.stack = {}
  BY DEF NoReadings, Basic, Device, FieldNames, Changes
<1> HIDE DEF n
<1>2. Device(n) /\ PendOK(n) /\ \A x : None(d, x) => None(n, x)
  BY <1>1, OtherFields
<1>3. /\ n.clk = d.clk /\ n.st = d.st /\ n.icyc = d.icyc /\ n.timer = d.timer /\ n.sync = d.sync
      /\ n.asyncR = d.asyncR /\ n.asyncF = d.asyncF /\ n.counter = d.counter
      /\ n.floodReceive = d.floodReceive /\ n.closedWindow = d.closedWindow
  BY <1>1 DEF Changes, FieldNames
<1>4. Basic(m, n)
  BY <1>1, <1>2, <1>3 DEF Basic
<1> QED
  BY <1>1, <1>2, <1>3, <1>4 DEF Calms, n

(* The phases of FLOOD.                                                        *)
LEMMA SetsPhase ==
  ASSUME NEW m, NEW d, Idle(m, d), NEW n, NEW names \in SUBSET {"floodReceive", "closedWindow"},
         Changes(d, n, names), n.floodReceive \in BOOLEAN, n.closedWindow \in BOOLEAN,
         n.closedWindow => n.floodReceive
  PROVE  Idle(m, n)
<1>1. Basic(m, d) /\ "pend" \notin names
  BY DEF Idle
<1>2. Device(n) /\ PendOK(n) /\ \A x : None(d, x) => None(n, x)
  BY <1>1, OtherFields
<1>3. /\ n.clk = d.clk /\ n.st = d.st /\ n.icyc = d.icyc /\ n.timer = d.timer /\ n.sync = d.sync
      /\ n.asyncR = d.asyncR /\ n.asyncF = d.asyncF /\ n.counter = d.counter /\ n.stack = d.stack
  BY DEF Changes, FieldNames
<1>4. Basic(m, n)
  BY <1>1, <1>2, <1>3 DEF Basic
<1> QED
  BY <1>2, <1>3, <1>4 DEF Idle

WaitStates == {"INTEGRATE", "UNSYNC", "FLOOD", "WAIT_4_CYCLE_START_CS", "WAIT_4_CYCLE_START"}

(* The constructors of the states that wait.                                   *)
LEMMA Awaits ==
  ASSUME NEW m, NEW d, Idle(m, d), NEW st \in WaitStates
  PROVE  LET n == Await(d, st) IN Basic(m, n) /\ n.st = st /\ Resting(n, Blank)
<1> DEFINE b == [d EXCEPT !.st = st]
           n == StartTimer(b, d.timer)
<1>1. Changes(d, b, {"st"}) /\ b.st = st
  BY DEF Idle, Basic, Device, FieldNames, Changes
<1>2. Await(d, st) = n
  BY DEF Await
<1>3. n.fault = (b.fault \/ Named(b, {"ASYNCHRON"}) # {})
  <2> HIDE DEF b
  <2> QED
    BY <1>1 DEF StartTimer, RegisterTimer, Changes, Device, FieldNames
<1> HIDE DEF b
<1>4. Device(b) /\ PendOK(b) /\ \A x : None(d, x) => None(b, x)
  BY <1>1, OtherFields DEF Idle
<1>5. /\ b.clk = d.clk /\ b.icyc = d.icyc /\ b.timer = d.timer /\ b.sync = d.sync
      /\ b.asyncR = d.asyncR /\ b.asyncF = d.asyncF /\ b.counter = d.counter /\ b.stack = d.stack
      /\ b.floodReceive = d.floodReceive /\ b.closedWindow = d.closedWindow
  BY <1>1 DEF Changes, FieldNames
<1>6. Basic(m, d) /\ d.timer \in Nat /\ st \in States
  BY DEF Idle, Basic, WaitStates, States, Waiting
<1>7. Basic(m, b)
  BY <1>1, <1>4, <1>5, <1>6 DEF Basic
<1>8. /\ Basic(m, n) /\ Data(b, n)
      /\ None(b, "ASYNCHRON") => Only(n, "ASYNCHRON", d.timer)
      /\ Same(b, n, DOMAIN SlotOf)
  BY <1>6, <1>7, StartsTimer
<1> HIDE DEF n
<1>9. n.counter = 0 /\ n.stack = {} /\ n.icyc < MaxIcys /\ n.st = st
  BY <1>1, <1>5, <1>8 DEF Data, Idle
<1>10. \A x \in DOMAIN SlotOf : None(n, x)
  BY <1>4, <1>8 DEF Idle, Same, None
<1>11. n.fault \/ Once(n, "ASYNCHRON")
  BY <1>3, <1>6, <1>8 DEF None, Once
<1>12. n.st \notin Synced \union {"PSEUDOSYNC"}
  BY <1>9 DEF WaitStates, Synced
<1> QED
  BY <1>2, <1>8, <1>9, <1>10, <1>11, <1>12 DEF Resting

(* A master that waits.                                                        *)
Waits(m, n) == Basic(m, n) /\ Resting(n, Blank)

LEMMA WaitStatesWait ==
  ASSUME NEW m, NEW d, Idle(m, d)
  PROVE  /\ Waits(m, Integrate(d)) /\ Waits(m, Flood(d)) /\ Waits(m, WaitCs(d)) /\ Waits(m, WaitCycle(d))
         /\ Waits(m, Unsync(d))
<1>1. \A st \in WaitStates : Waits(m, Await(d, st))
  BY Awaits DEF Waits
<1>2. Waits(m, Integrate(d)) /\ Waits(m, Flood(d)) /\ Waits(m, WaitCs(d)) /\ Waits(m, WaitCycle(d))
  BY <1>1 DEF WaitStates, Integrate, Flood, WaitCs, WaitCycle
<1>3. Waits(m, Unsync(d))
  <2> DEFINE b == Send(d, "CS", d.icyc)
  <2>1. Idle(m, b)
    <3>1. Basic(m, d)
      BY DEF Idle
    <3>2. Calms(m, d, b)
      BY <3>1, Sends
    <3> HIDE DEF b
    <3> QED
      BY <3>2, StaysIdle
  <2>2. Unsync(d) = Await(b, "UNSYNC")
    BY DEF Unsync
  <2> HIDE DEF b
  <2> QED
    BY <2>1, <2>2, Awaits DEF WaitStates, Waits
<1> QED
  BY <1>2, <1>3

LEMMA IdleOperations ==
  ASSUME NEW m \in Masters, NEW d, Idle(m, d)
  PROVE  /\ \A t \in Nat : Idle(m, SetTimer(d, t))
         /\ Idle(m, Zero(d)) /\ Idle(m, ZeroSync(d)) /\ Idle(m, StopTimer(d)) /\ Idle(m, NoAsync(d))
         /\ \A kind, icyc : Idle(m, Send(d, kind, icyc))
<1>1. Basic(m, d)
  BY DEF Idle
<1>2. \A t \in Nat : Idle(m, SetTimer(d, t))
  BY <1>1, SetsTimer, StaysIdle
<1>3. Idle(m, Zero(d)) /\ Idle(m, ZeroSync(d))
  BY <1>1, Zeroes, ZeroesSync, StaysIdle
<1>4. Idle(m, StopTimer(d)) /\ Idle(m, NoAsync(d))
  BY <1>1, StopsTimer, ClearsAsync, StaysIdle
<1>5. \A kind, icyc : Idle(m, Send(d, kind, icyc))
  BY <1>1, Sends, StaysIdle
<1> QED
  BY <1>2, <1>3, <1>4, <1>5

(* The membership of a device on the way to a state that waits.                *)
LEMMA IdleSync ==
  ASSUME NEW m \in Masters, NEW d, NEW n, Idle(m, d), Changes(d, n, {"sync"}), n.sync \in 0 .. LargestSync(m)
  PROVE  Idle(m, n)
<1>1. Basic(m, d)
  BY DEF Idle
<1>2. Changes(d, n, {"icyc", "sync"}) /\ n.icyc \in {0, d.icyc}
  BY DEF Changes, FieldNames
<1> QED
  BY <1>1, <1>2, CalmIcycAndSync, StaysIdle

LEMMA Timeouts ==
  {ListenTimeout, ColdstartTimeout, RestartTimeout, RestartSync, RestartAsync,
   CsOffset, CaOffset, CaRoundTrip, CaWindow, Cycle + AcceptanceWindow \div 2} \subseteq Nat
<1>1. Cycle + AcceptanceWindow \div 2 \in Nat
  BY SlotsInOrder
<1>2. {ListenTimeout, ColdstartTimeout, RestartTimeout, RestartSync, RestartAsync,
       CsOffset, CaOffset, CaRoundTrip, CaWindow} \subseteq Nat
  BY MasterAssumption
<1> QED
  BY <1>1, <1>2

(* A device that is idle and in a state of its own accord.                     *)
LEMMA IdleWaits ==
  ASSUME NEW m, NEW d, Idle(m, d), d.st \in WaitStates, d.st \in Waiting => d.fault \/ Once(d, "ASYNCHRON")
  PROVE  Waits(m, d)
BY DEF Idle, Waits, Resting, WaitStates, Synced

(* The event that a device that waits handles is no event of the cycle.        *)
LEMMA IdleTaken ==
  ASSUME NEW m, NEW d, Basic(m, d), NEW h, Resting(d, h), ~d.fault, NEW e \in Due(d)
  PROVE  LET n == [Taken(d, e) EXCEPT !.out = {}] IN
         /\ Idle(m, n) /\ n.st = d.st /\ n.clk = d.clk /\ n.sync = d.sync
         /\ n.st \in Waiting /\ e.ev # "ASYNCHRON" => Once(n, "ASYNCHRON")
         /\ e.ev \in Kinds => e \in Frames
<1> DEFINE n == [Taken(d, e) EXCEPT !.out = {}]
<1>1. /\ Basic(m, n) /\ Data(d, n) /\ n.clk = d.clk
      /\ Same(d, n, Alarms \ {e.ev})
      /\ e.ev \in Kinds => e \in Frames
  BY Takes
<1> HIDE DEF n
<1>2. e \in Named(d, {e.ev})
  BY DEF Due, Named
<1>3. ASSUME NEW x \in DOMAIN SlotOf PROVE None(n, x)
  <2>1. None(d, x)
    BY DEF Resting
  <2>2. x # e.ev
    BY <1>2, <2>1 DEF None
  <2>3. x \in Alarms \ {e.ev}
    BY <2>2 DEF Alarms
  <2> QED
    BY <1>1, <2>1, <2>3 DEF Same, None
<1>4. ASSUME n.st \in Waiting, e.ev # "ASYNCHRON" PROVE Once(n, "ASYNCHRON")
  <2>1. Once(d, "ASYNCHRON")
    BY <1>1, <1>4 DEF Resting, Data
  <2>2. "ASYNCHRON" \in Alarms \ {e.ev}
    BY <1>4 DEF Alarms
  <2> QED
    BY <1>1, <2>1, <2>2 DEF Same, Once, Only
<1> QED
  BY <1>1, <1>3, <1>4 DEF Data, Resting, Idle, n
------------------------------------------------------------------------------
(* The handlers of the states that wait, other than of IN frames.              *)

LEMMA IntegrateTimeoutWaits ==
  ASSUME NEW m \in Masters, NEW d, NEW e, Idle(m, d)
  PROVE  Waits(m, IntegrateTimeout(d, e))
BY IdleOperations, WaitStatesWait, Timeouts DEF IntegrateTimeout

LEMMA UnsyncTimeoutWaits ==
  ASSUME NEW m \in Masters, NEW d, NEW e, Idle(m, d)
  PROVE  Waits(m, UnsyncTimeout(d, e))
BY IdleOperations, WaitStatesWait DEF UnsyncTimeout

LEMMA AcknowledgedWaits ==
  ASSUME NEW m \in Masters, NEW d, Idle(m, d)
  PROVE  Waits(m, Acknowledged(d, m))
<1> DEFINE b == Zero(SetTimer(StopTimer(d), CaOffset))
           n == [b EXCEPT !.sync = WithBit(0, m)]
<1>1. Idle(m, b)
  BY IdleOperations, Timeouts
<1>2. Acknowledged(d, m) = WaitCs(n)
  BY DEF Acknowledged
<1> HIDE DEF b
<1>3. Changes(b, n, {"sync"}) /\ n.sync = WithBit(0, m)
  BY <1>1 DEF Idle, Basic, Device, FieldNames, Changes
<1> HIDE DEF n
<1>4. Idle(m, n)
  BY <1>1, <1>3, SyncRange, IdleSync
<1> QED
  BY <1>2, <1>4, WaitStatesWait

(* FLOOD begins anew.                                                          *)
LEMMA FloodsAgain ==
  ASSUME NEW m \in Masters, NEW d, Idle(m, d)
  PROVE  Idle(m, [d EXCEPT !.floodReceive = FALSE, !.closedWindow = FALSE])
<1> DEFINE n == [d EXCEPT !.floodReceive = FALSE, !.closedWindow = FALSE]
<1>1. /\ Changes(d, n, {"floodReceive", "closedWindow"})
      /\ n.floodReceive = FALSE /\ n.closedWindow = FALSE
  BY DEF Idle, Basic, Device, FieldNames, Changes
<1> HIDE DEF n
<1>2. Idle(m, n)
  BY <1>1, SetsPhase
<1> QED
  BY <1>2 DEF n

LEMMA UnsyncCsWaits ==
  ASSUME NEW m \in Masters, NEW d, NEW f, Idle(m, d), d.st = "UNSYNC"
  PROVE  Waits(m, UnsyncCs(d, f, m))
<1> DEFINE b == Zero(SetTimer(StopTimer(d), CsOffset))
           n == [b EXCEPT !.floodReceive = FALSE, !.closedWindow = FALSE]
<1>1. Idle(m, b)
  BY IdleOperations, Timeouts
<1>2. UnsyncCs(d, f, m) = Flood(n) \/ UnsyncCs(d, f, m) = d
  BY DEF UnsyncCs
<1> HIDE DEF b
<1>3. Idle(m, n)
  BY <1>1, FloodsAgain
<1> HIDE DEF n
<1>4. Waits(m, Flood(n))
  BY <1>3, WaitStatesWait
<1>5. Waits(m, d)
  BY IdleWaits DEF WaitStates, Waiting
<1> QED
  BY <1>2, <1>4, <1>5

LEMMA FloodTimeoutWaits ==
  ASSUME NEW m \in Masters, NEW d, NEW e, Idle(m, d)
  PROVE  Waits(m, FloodTimeout(d, e))
<1> DEFINE zero == Zero(StopTimer(d))
           b1 == SetTimer(Send(zero, "CA", 64), CaRoundTrip)
           n1 == [b1 EXCEPT !.floodReceive = TRUE]
           b2 == SetTimer(zero, CaWindow)
           n2 == [b2 EXCEPT !.closedWindow = TRUE]
           b3 == SetTimer(zero, ColdstartTimeout)
           n3 == [b3 EXCEPT !.floodReceive = FALSE, !.closedWindow = FALSE]
<1>1. Basic(m, d) /\ d.floodReceive \in BOOLEAN /\ d.closedWindow \in BOOLEAN
      /\ (d.closedWindow => d.floodReceive)
  BY DEF Idle, Basic
<1>2. \/ ~d.floodReceive /\ ~d.closedWindow /\ FloodTimeout(d, e) = Flood(n1)
      \/ d.floodReceive /\ ~d.closedWindow /\ FloodTimeout(d, e) = Flood(n2)
      \/ d.floodReceive /\ d.closedWindow /\ FloodTimeout(d, e) = Unsync(n3)
  <2> HIDE DEF n1, n2, n3
  <2>1. CASE ~d.floodReceive
    BY <1>1, <2>1 DEF FloodTimeout, n1, n2, n3
  <2>2. CASE d.floodReceive /\ ~d.closedWindow
    BY <1>1, <2>2 DEF FloodTimeout, n1, n2, n3
  <2>3. CASE d.floodReceive /\ d.closedWindow
    BY <1>1, <2>3 DEF FloodTimeout, n1, n2, n3
  <2> QED
    BY <2>1, <2>2, <2>3
<1>3. Idle(m, zero)
  BY IdleOperations
<1>4. zero.floodReceive = d.floodReceive /\ zero.closedWindow = d.closedWindow
  BY <1>1, StopsTimer, Zeroes DEF Calms
<1> HIDE DEF zero
<1>5. Idle(m, b1) /\ Idle(m, b2) /\ Idle(m, b3)
  BY <1>3, IdleOperations, Timeouts
<1>6. b1.closedWindow = d.closedWindow /\ b2.floodReceive = d.floodReceive
  <2>1. CaRoundTrip \in Nat /\ CaWindow \in Nat
    BY Timeouts
  <2>2. Basic(m, zero)
    BY <1>3 DEF Idle
  <2> DEFINE sent == Send(zero, "CA", 64)
  <2>3. Calms(m, zero, sent)
    BY <2>2, Sends
  <2>4. Calms(m, sent, b1)
    <3> HIDE DEF sent
    <3>1. Basic(m, sent)
      BY <2>3 DEF Calms
    <3>2. b1 = SetTimer(sent, CaRoundTrip)
      BY DEF b1, sent
    <3> QED
      BY <2>1, <3>1, <3>2, SetsTimer
  <2>5. Calms(m, zero, b2)
    BY <2>1, <2>2, SetsTimer
  <2> HIDE DEF b1, b2, sent
  <2> QED
    BY <1>4, <2>3, <2>4, <2>5 DEF Calms
<1> HIDE DEF b1, b2, b3
<1>7. ~d.floodReceive /\ ~d.closedWindow => Idle(m, n1)
  <2>1. Changes(b1, n1, {"floodReceive"}) /\ n1.floodReceive = TRUE /\ n1.closedWindow = b1.closedWindow
    BY <1>5 DEF Idle, Basic, Device, FieldNames, Changes
  <2> HIDE DEF n1
  <2> QED
    BY <1>1, <1>5, <1>6, <2>1, SetsPhase
<1>8. d.floodReceive => Idle(m, n2)
  <2>1. Changes(b2, n2, {"closedWindow"}) /\ n2.closedWindow = TRUE /\ n2.floodReceive = b2.floodReceive
    BY <1>5 DEF Idle, Basic, Device, FieldNames, Changes
  <2> HIDE DEF n2
  <2> QED
    BY <1>1, <1>5, <1>6, <2>1, SetsPhase
<1>9. Idle(m, n3)
  BY <1>5, FloodsAgain
<1> HIDE DEF n1, n2, n3
<1> QED
  BY <1>2, <1>7, <1>8, <1>9, WaitStatesWait

LEMMA ReopenedIdle ==
  ASSUME NEW m \in Masters, NEW d, Idle(m, d)
  PROVE  Idle(m, Reopened(d))
<1> DEFINE b == Zero(StopTimer(d))
<1>1. Idle(m, b)
  BY IdleOperations
<1>2. Reopened(d) = [b EXCEPT !.floodReceive = FALSE, !.closedWindow = FALSE]
  BY DEF Reopened
<1> HIDE DEF b
<1> QED
  BY <1>1, <1>2, FloodsAgain

LEMMA FloodCsWaits ==
  ASSUME NEW m \in Masters, NEW d, NEW f, Idle(m, d)
  PROVE  Waits(m, FloodCs(d, f))
BY ReopenedIdle, IdleOperations, WaitStatesWait, Timeouts DEF FloodCs

LEMMA FloodCaWaits ==
  ASSUME NEW m \in Masters, NEW d, NEW f, Idle(m, d), d.st = "FLOOD", Once(d, "ASYNCHRON")
  PROVE  Waits(m, FloodCa(d, f))
<1>1. Waits(m, WaitCs(SetTimer(Reopened(d), CaOffset)))
  BY ReopenedIdle, IdleOperations, WaitStatesWait, Timeouts
<1>2. Waits(m, d)
  BY IdleWaits DEF WaitStates
<1> QED
  BY <1>1, <1>2 DEF FloodCa

LEMMA WaitCsCsWaits ==
  ASSUME NEW m \in Masters, NEW d, NEW f, Idle(m, d)
  PROVE  Waits(m, WaitCsCs(d, f))
BY IdleOperations, WaitStatesWait, Timeouts DEF WaitCsCs

(* A frame that was handled leaves the device as it is.                        *)
LEMMA DropsIdle ==
  ASSUME NEW m, NEW d, NEW f, NEW key, Idle(m, d)
  PROVE  LET n == Erased(Deleted(d, f), key) IN
         Idle(m, n) /\ Data(d, n) /\ n.clk = d.clk /\ (Once(d, "ASYNCHRON") => Once(n, "ASYNCHRON"))
<1> DEFINE n == Erased(Deleted(d, f), key)
<1>1. Basic(m, n) /\ Data(d, n) /\ n.clk = d.clk /\ Same(d, n, Alarms)
  BY Deletes DEF Idle
<1> HIDE DEF n
<1>2. \A x \in Alarms : (None(d, x) => None(n, x)) /\ (Once(d, x) => Once(n, x))
  BY <1>1 DEF Same, None, Once, Only
<1> QED
  BY <1>1, <1>2 DEF Idle, Data, Alarms, n

LEMMA DropInFrameWaits ==
  ASSUME NEW m, NEW d, NEW f, Idle(m, d), d.st \in WaitStates, Once(d, "ASYNCHRON")
  PROVE  Waits(m, DropInFrame(d, f))
<1> DEFINE n == DropInFrame(d, f)
<1>1. Idle(m, n) /\ Data(d, n) /\ Once(n, "ASYNCHRON")
  BY DropsIdle DEF DropInFrame
<1> HIDE DEF n
<1>2. Waits(m, n)
  BY <1>1, IdleWaits DEF Data
<1> QED
  BY <1>2 DEF n

LEMMA IgnoreWaits ==
  ASSUME NEW m, NEW d, NEW e, Idle(m, d), d.st = "WAIT_4_CYCLE_START"
  PROVE  Waits(m, Ignore(d, e))
BY IdleWaits DEF Ignore, WaitStates, Waiting
------------------------------------------------------------------------------
(* The order of a cycle.                                                       *)

(* The slots.                                                                 *)
LEMMA SlotValues ==
  /\ SlotOf["async_eval"] = 0
  /\ SlotOf["inc"] = ReceivePit - Precision
  /\ SlotOf["sync_eval"] = ReceivePit + Precision
  /\ SlotOf["clock_corr"] = ReceivePit + 2 * Precision + 1
  /\ SlotOf["async_up"] = Cycle - AcceptanceWindow
BY DEF SlotOf

(* The lengths they are made of.                                              *)
LEMMA SlotTimes ==
  /\ HalfWindow \in Nat \ {0} /\ HalfWindow <= Precision
  /\ Precision \in Int /\ Precision > 0 /\ AcceptanceWindow \in Int /\ AcceptanceWindow > 0
  /\ ReceivePit \in Int /\ Cycle \in Nat \ {0} /\ Precision < ReceivePit
  /\ ReceivePit + 2 * Precision + HalfWindow + 1 <= Cycle - AcceptanceWindow
  /\ ReceivePit + 2 * Precision + 1 < Cycle - AcceptanceWindow
<1>1. AcceptanceWindow \in Nat /\ AcceptanceWindow \div 2 \in 1 .. Precision
  BY SlotsInOrder
<1>2. AcceptanceWindow > 0
  <2> SUFFICES ASSUME AcceptanceWindow = 0 PROVE FALSE
    BY <1>1
  <2>1. 0 \div 2 = 0
    OBVIOUS
  <2> QED
    BY <1>1, <2>1
<1> QED
  BY <1>1, <1>2, SlotsInOrder DEF HalfWindow

(* What is due tells where in the cycle the master is.                         *)
LEMMA PhaseOf ==
  ASSUME NEW m, NEW d, Basic(m, d), NEW done \in Phases, CyclicOnTime(d, done),
         NEW x \in Cyclic, Ahead(d, x, done) = 0
  PROVE  /\ x \notin done /\ d.clk = SlotOf[x] /\ done \union {x} \in Phases
         /\ x = "async_eval" => done = {}
         /\ x = "inc" => done = {"async_eval"}
         /\ x = "sync_eval" => done = {"async_eval", "inc"}
         /\ x = "async_up" => done = {"async_eval", "inc", "sync_eval"}
<1>1. /\ d.clk \in Int /\ 0 <= d.clk /\ d.clk < Cycle
      /\ Precision \in Int /\ Precision > 0 /\ AcceptanceWindow \in Int /\ AcceptanceWindow > 0
      /\ ReceivePit \in Int /\ Cycle \in Int /\ Precision < ReceivePit
      /\ ReceivePit + 2 * Precision + 1 < Cycle - AcceptanceWindow
  BY SlotTimes DEF Basic
<1>2. /\ -d.clk + (IF "async_eval" \in done THEN Cycle ELSE 0) >= 0
      /\ ReceivePit - Precision - d.clk + (IF "inc" \in done THEN Cycle ELSE 0) >= 0
      /\ ReceivePit + Precision - d.clk + (IF "sync_eval" \in done THEN Cycle ELSE 0) >= 0
      /\ Cycle - AcceptanceWindow - d.clk + (IF "async_up" \in done THEN Cycle ELSE 0) >= 0
  <2>1. \A y \in Cyclic : Ahead(d, y, done) >= 0
    BY DEF CyclicOnTime
  <2>2. Ahead(d, "async_eval", done) >= 0 /\ Ahead(d, "inc", done) >= 0
        /\ Ahead(d, "sync_eval", done) >= 0 /\ Ahead(d, "async_up", done) >= 0
    BY <2>1 DEF Cyclic
  <2> QED
    BY <1>1, <2>2, SlotValues DEF Ahead
<1>3. CASE x = "async_eval"
  <2>0. Ahead(d, "async_eval", done) = 0
    BY <1>3
  <2>1. 0 - d.clk + (IF "async_eval" \in done THEN Cycle ELSE 0) = 0
    BY <1>1, <2>0, SlotValues DEF Ahead
  <2>2. "async_eval" \notin done
    <3> SUFFICES ASSUME "async_eval" \in done PROVE FALSE
      OBVIOUS
    <3>1. 0 - d.clk + Cycle = 0
      BY <2>1
    <3> QED
      BY <1>1, <3>1
  <2>3. d.clk = 0
    <3>1. 0 - d.clk + 0 = 0
      BY <2>1, <2>2
    <3> QED
      BY SMTT(30), <1>1, <3>1
  <2> QED
    BY <1>3, <2>2, <2>3, SlotValues DEF Phases, Cyclic, Early, Evaluation
<1>4. CASE x = "inc"
  <2>1. ReceivePit - Precision - d.clk + (IF "inc" \in done THEN Cycle ELSE 0) = 0
    BY <1>1, <1>4, SlotValues DEF Ahead
  <2>2. d.clk = ReceivePit - Precision /\ "inc" \notin done /\ "async_eval" \in done
    BY <1>1, <1>2, <2>1
  <2> QED
    BY <1>4, <2>2, SlotValues DEF Phases, Cyclic, Early, Evaluation
<1>5. CASE x = "sync_eval"
  <2>1. ReceivePit + Precision - d.clk + (IF "sync_eval" \in done THEN Cycle ELSE 0) = 0
    BY <1>1, <1>5, SlotValues DEF Ahead
  <2>2. d.clk = ReceivePit + Precision /\ "sync_eval" \notin done /\ "inc" \in done
    BY <1>1, <1>2, <2>1
  <2> QED
    BY <1>5, <2>2, SlotValues DEF Phases, Cyclic, Early, Evaluation
<1>6. CASE x = "async_up"
  <2>1. Cycle - AcceptanceWindow - d.clk + (IF "async_up" \in done THEN Cycle ELSE 0) = 0
    BY <1>1, <1>6, SlotValues DEF Ahead
  <2>2. d.clk = Cycle - AcceptanceWindow /\ "async_up" \notin done /\ "sync_eval" \in done
    BY <1>1, <1>2, <2>1
  <2> QED
    BY <1>6, <2>2, SlotValues DEF Phases, Cyclic, Early, Evaluation
<1> QED
  BY <1>3, <1>4, <1>5, <1>6 DEF Cyclic

(* An event that acts in its slot and is registered for the next cycle.        *)
LEMMA ReRegistered ==
  ASSUME NEW m, NEW d, Basic(m, d), NEW done \in Phases, CyclicOnTime(d, done),
         NEW x \in Cyclic, Ahead(d, x, done) = 0,
         NEW t, Basic(m, t), t.clk = d.clk, Same(d, t, Cyclic \ {x}), None(t, x)
  PROVE  LET n == RegisterNext(t, x) IN
         /\ Basic(m, n) /\ Data(t, n) /\ n.clk = d.clk
         /\ CyclicOnTime(n, done \union {x})
         /\ Same(t, n, Alarms \ {x})
<1> DEFINE n == RegisterNext(t, x)
           next == done \union {x}
<1>1. x \notin done /\ d.clk = SlotOf[x]
  BY PhaseOf
<1>2. /\ Basic(m, n) /\ Data(t, n) /\ n.clk = d.clk
      /\ Only(n, x, Distance(t.clk, x, TRUE))
      /\ Same(t, n, Alarms \ {x})
  <2>1. x \in DOMAIN SlotOf /\ TRUE \in BOOLEAN
    BY SlotNames
  <2> DEFINE r == RegisterAction(t, x, TRUE)
  <2>2. /\ Basic(m, r) /\ Data(t, r) /\ r.clk = t.clk
        /\ None(t, x) => Only(r, x, Distance(t.clk, x, TRUE))
        /\ Same(t, r, Alarms \ {x})
    BY <2>1, Registers
  <2>3. n = r
    BY DEF RegisterNext
  <2> HIDE DEF n, r
  <2> QED
    BY <2>2, <2>3
<1>3. SlotOf[x] \in Int /\ Cycle \in Nat \ {0}
  <2>1. x \in DOMAIN SlotOf
    BY SlotNames
  <2> QED
    BY <2>1, SlotNames, SlotsInOrder
<1>4. Distance(t.clk, x, TRUE) = Cycle
  <2>1. SlotOf[x] - t.clk = 0
    BY <1>1, <1>3
  <2>2. 0 % Cycle = 0
    BY <1>3, SmallRemainder
  <2> QED
    BY <2>1, <2>2 DEF Distance
<1> HIDE DEF n
<1>5. Ahead(n, x, next) = Cycle
  BY <1>1, <1>2, <1>3 DEF Ahead
<1>6. ASSUME NEW y \in Cyclic, y # x
      PROVE  Ahead(n, y, next) = Ahead(d, y, done) /\ Only(n, y, Ahead(d, y, done))
  <2>1. Ahead(n, y, next) = Ahead(d, y, done)
    BY <1>2, <1>6 DEF Ahead
  <2>2. Only(d, y, Ahead(d, y, done))
    BY DEF CyclicOnTime
  <2>3. Only(t, y, Ahead(d, y, done))
    BY <1>6, <2>2, SameAlarm
  <2>4. y \in Alarms \ {x}
    BY <1>6, SlotNames DEF Alarms
  <2> QED
    BY <1>2, <2>1, <2>3, <2>4, SameAlarm
<1>7. CyclicOnTime(n, next)
  BY <1>2, <1>3, <1>4, <1>5, <1>6 DEF CyclicOnTime
<1> QED
  BY <1>2, <1>7 DEF n

(* What changes neither the clock nor the alarms keeps them on time.          *)
LEMMA OnTimeKept ==
  ASSUME NEW d, NEW n, NEW done, n.clk = d.clk, Same(d, n, DOMAIN SlotOf), OnTime(d, done)
  PROVE  OnTime(n, done)
<1>1. Cyclic \subseteq DOMAIN SlotOf /\ "clock_corr" \in DOMAIN SlotOf
  BY SlotNames
<1>2. \A x : Ahead(n, x, done) = Ahead(d, x, done)
  BY DEF Ahead
<1>3. CyclicOnTime(n, done)
  <2>1. ASSUME NEW x \in Cyclic PROVE Ahead(n, x, done) \in Nat /\ Only(n, x, Ahead(n, x, done))
    BY <1>1, <1>2, SameAlarm DEF OnTime, CyclicOnTime
  <2> QED
    BY <2>1 DEF CyclicOnTime
<1>4. None(d, "clock_corr") => None(n, "clock_corr")
  BY <1>1, SameAlarm
<1>5. Correcting(d, done) => Correcting(n, done)
  BY <1>1, SameAlarm DEF Correcting
<1> QED
  BY <1>3, <1>4, <1>5 DEF OnTime

(* The tick of time.                                                           *)
LEMMA TickOnTime ==
  ASSUME NEW m, NEW d, Basic(m, d), NothingDue(d), NEW done \in Phases, OnTime(d, done)
  PROVE  LET n == TimePasses(d)
             next == IF n.clk = 0 THEN {} ELSE done
         IN /\ Basic(m, n) /\ Data(d, n) /\ n.clk = (d.clk + 1) % Cycle
            /\ next \in Phases /\ OnTime(n, next)
            /\ done # {} /\ (n.clk = 0 => done = Cyclic) /\ (n.clk = 0 \/ n.clk = d.clk + 1)
            /\ None(n, "clock_corr") => None(d, "clock_corr")
<1> DEFINE n == TimePasses(d)
           next == IF n.clk = 0 THEN {} ELSE done
<1>1. /\ Device(d) /\ PendOK(d) /\ d.clk \in Int /\ 0 <= d.clk /\ d.clk < Cycle
      /\ Precision \in Int /\ Precision > 0 /\ AcceptanceWindow \in Int /\ AcceptanceWindow > 0
      /\ ReceivePit \in Int /\ Cycle \in Int /\ Precision < ReceivePit
      /\ ReceivePit + 2 * Precision + 1 < Cycle - AcceptanceWindow
  BY SlotTimes DEF Basic
<1>2. /\ Changes(d, n, {"clk", "pend", "gone"})
      /\ n.clk = (d.clk + 1) % Cycle
      /\ PendOK(n)
      /\ \A x \in Alarms : None(d, x) => None(n, x)
      /\ \A x \in Alarms : \A left : Only(d, x, left) => left \in Nat \ {0} /\ Only(n, x, left - 1)
  BY <1>1, TimePassesEffect
<1> HIDE DEF n
<1>3. n.clk = IF d.clk = Cycle - 1 THEN 0 ELSE d.clk + 1
  <2>1. CASE d.clk = Cycle - 1
    BY <1>1, <1>2, <2>1
  <2>2. CASE d.clk # Cycle - 1
    <3>1. d.clk + 1 \in 0 .. Cycle - 1 /\ Cycle \in Nat \ {0}
      BY <1>1, <2>2
    <3> QED
      BY <1>2, <2>2, <3>1, SmallRemainder
  <2> QED
    BY <2>1, <2>2
<1>4. Basic(m, n) /\ Data(d, n)
  <2>1. n.clk \in 0 .. Cycle - 1
    BY <1>1, <1>3
  <2> QED
    BY <1>2, <2>1, BasicKept DEF Timing
<1>5. Cyclic \subseteq Alarms /\ "clock_corr" \in Alarms /\ "ASYNCHRON" \in Alarms
      /\ \A x \in Cyclic : SlotOf[x] \in Int
  BY SlotNames DEF Alarms
<1>6. ASSUME NEW x \in Cyclic
      PROVE  Ahead(d, x, done) \in Nat \ {0} /\ Only(n, x, Ahead(d, x, done) - 1)
  BY <1>2, <1>5 DEF OnTime, CyclicOnTime
<1>7. done # {} /\ (n.clk = 0 => done = Cyclic)
  <2>1. Ahead(d, "async_eval", done) > 0 /\ Ahead(d, "inc", done) > 0
        /\ Ahead(d, "sync_eval", done) > 0 /\ Ahead(d, "async_up", done) > 0
    BY <1>6 DEF Cyclic
  <2>2. /\ -d.clk + (IF "async_eval" \in done THEN Cycle ELSE 0) > 0
        /\ ReceivePit - Precision - d.clk + (IF "inc" \in done THEN Cycle ELSE 0) > 0
        /\ ReceivePit + Precision - d.clk + (IF "sync_eval" \in done THEN Cycle ELSE 0) > 0
        /\ Cycle - AcceptanceWindow - d.clk + (IF "async_up" \in done THEN Cycle ELSE 0) > 0
    BY <1>1, <2>1, SlotValues DEF Ahead
  <2>3. "async_eval" \in done
    BY <1>1, <2>2
  <2>4. n.clk = 0 => "async_up" \in done
    BY <1>1, <1>3, <2>2
  <2> QED
    BY <2>3, <2>4 DEF Phases, Cyclic, Early, Evaluation
<1>8. ASSUME NEW x \in Cyclic PROVE Ahead(n, x, next) = Ahead(d, x, done) - 1
  <2>1. CASE n.clk = 0
    <3>1. d.clk = Cycle - 1 /\ x \in done /\ x \notin next
      BY <1>1, <1>3, <1>7, <2>1
    <3> QED
      BY <1>1, <1>5, <2>1, <3>1 DEF Ahead
  <2>2. CASE n.clk # 0
    BY <1>1, <1>3, <1>5, <2>2 DEF Ahead
  <2> QED
    BY <2>1, <2>2
<1>9. next \in Phases
  BY DEF Phases
<1>10. CyclicOnTime(n, next)
  BY <1>6, <1>8 DEF CyclicOnTime
<1>11. ASSUME Correcting(d, done) PROVE Correcting(n, next) /\ ~None(n, "clock_corr")
  <2> DEFINE left == SlotOf["clock_corr"] - d.clk
  <2>1. left \in Nat \ {0} /\ Only(n, "clock_corr", left - 1)
    BY <1>2, <1>5, <1>11 DEF Correcting
  <2>2. n.clk = d.clk + 1 /\ n.clk # 0
    BY <1>1, <1>3, <2>1, SlotValues
  <2>3. SlotOf["clock_corr"] - n.clk = left - 1
    BY <1>1, <2>2, SlotValues
  <2>4. Correcting(n, next)
    BY <1>11, <2>1, <2>2, <2>3 DEF Correcting
  <2>5. ~None(n, "clock_corr")
    BY <2>1 DEF None, Only
  <2> QED
    BY <2>4, <2>5
<1>12. OnTime(n, next) /\ (None(n, "clock_corr") => None(d, "clock_corr"))
  <2>1. None(d, "clock_corr") => None(n, "clock_corr")
    BY <1>2, <1>5
  <2>2. None(d, "clock_corr") \/ Correcting(d, done)
    BY DEF OnTime
  <2> HIDE DEF next
  <2> QED
    BY <2>1, <2>2, <1>10, <1>11 DEF OnTime
<1>13. n.clk = 0 \/ n.clk = d.clk + 1
  BY <1>3
<1> QED
  BY <1>2, <1>4, <1>7, <1>9, <1>12, <1>13 DEF n

LEMMA TickSwept ==
  ASSUME NEW m, NEW d, Basic(m, d), NothingDue(d), NEW done \in Phases, OnTime(d, done), Swept(d, done)
  PROVE  LET n == TimePasses(d)
             next == IF n.clk = 0 THEN {} ELSE done
         IN Swept(n, next)
<1> DEFINE n == TimePasses(d)
           next == IF n.clk = 0 THEN {} ELSE done
<1>1. /\ Data(d, n) /\ Basic(m, n)
      /\ done # {} /\ (n.clk = 0 => done = Cyclic) /\ (n.clk = 0 \/ n.clk = d.clk + 1)
      /\ None(n, "clock_corr") => None(d, "clock_corr")
  BY TickOnTime
<1>2. d.clk \in Int /\ ReceivePit + HalfWindow \in Int
  BY SlotTimes DEF Basic
<1> HIDE DEF n
<1>3. n.stack = d.stack
  BY <1>1 DEF Data
<1>4. ASSUME n.clk = 0 PROVE Swept(n, next)
  <2>1. n.stack = {} /\ next = {}
    BY <1>1, <1>3, <1>4 DEF Swept
  <2>2. {} # Cyclic /\ {} # Evaluation
    BY DEF Cyclic, Evaluation
  <2> HIDE DEF next
  <2> QED
    BY <2>1, <2>2 DEF Swept
<1>5. ASSUME n.clk # 0 PROVE Swept(n, next)
  <2>1. n.clk = d.clk + 1 /\ next = done
    BY <1>1, <1>5
  <2>2. ASSUME done = Cyclic \/ (done = Evaluation /\ None(n, "clock_corr"))
        PROVE  n.stack = {} /\ n.clk > ReceivePit + HalfWindow
    <3>1. d.stack = {} /\ d.clk > ReceivePit + HalfWindow
      BY <1>1, <2>2 DEF Swept
    <3> QED
      BY <1>2, <1>3, <2>1, <3>1
  <2>3. done # {}
    BY <1>1
  <2> HIDE DEF next
  <2> QED
    BY <2>1, <2>2, <2>3 DEF Swept
<1> QED
  BY <1>4, <1>5 DEF n
------------------------------------------------------------------------------
(* The handlers of a master that is synchronised.                              *)

(* The device as a handler finds it.                                           *)
Handled(d, e) == [Taken(d, e) EXCEPT !.out = {}]

(* How far the clock may move in one step.                                     *)
Small(before, after) ==
  LET ahead == (after - before) % Cycle IN ahead <= HalfWindow \/ Cycle - ahead <= HalfWindow

(* A synchronised master either waits in the end or goes on with history h.    *)
Proceeds(m, d, n, h) == Waits(m, n) \/ (Basic(m, n) /\ Following(n, h) /\ Small(d.clk, n.clk))

(* A correction within the window is such a move.                              *)
LEMMA SmallMove ==
  ASSUME NEW a \in Int, NEW c \in -HalfWindow .. HalfWindow
  PROVE  Small(a, a - c)
<1>0. /\ Cycle \in Int /\ HalfWindow \in Int /\ HalfWindow > 0 /\ Cycle > HalfWindow
      /\ c \in Int /\ -HalfWindow <= c /\ c <= HalfWindow
  BY SlotTimes
<1>1. a - c - a = -c
  BY <1>0
<1>2. CASE c <= 0
  <2>1. -c \in 0 .. Cycle - 1 /\ Cycle \in Nat \ {0}
    BY <1>0, <1>2
  <2>2. (-c) % Cycle = -c
    BY <2>1, SmallRemainder
  <2> QED
    BY <1>0, <1>1, <2>2 DEF Small
<1>3. CASE c > 0
  <2>1. (-c) % Cycle = Cycle - c
    BY <1>0, <1>3
  <2> QED
    BY <1>0, <1>1, <2>1 DEF Small
<1> QED
  BY <1>0, <1>2, <1>3

LEMMA SmallStay ==
  ASSUME NEW a \in Int
  PROVE  Small(a, a)
<1>1. 0 \in -HalfWindow .. HalfWindow /\ a - 0 = a
  BY SlotTimes
<1> QED
  BY <1>1, SmallMove

LEMMA HandledEffect ==
  ASSUME NEW m, NEW d, Basic(m, d), NEW e \in Due(d)
  PROVE  LET n == Handled(d, e) IN
         /\ Basic(m, n) /\ Data(d, n) /\ n.clk = d.clk
         /\ Same(d, n, Alarms \ {e.ev})
         /\ \A left : Only(d, e.ev, left) => None(n, e.ev) /\ left = 0
         /\ e.ev \in Kinds => e \in Frames
BY Takes DEF Handled

(* A cyclic event that is handled is not registered any more.                  *)
LEMMA CyclicTaken ==
  ASSUME NEW m, NEW d, Basic(m, d), NEW done \in Phases, OnTime(d, done), NEW e \in Due(d), e.ev \in Cyclic
  PROVE  LET n == Handled(d, e) IN
         /\ Ahead(d, e.ev, done) = 0
         /\ None(d, "clock_corr")
         /\ Basic(m, n) /\ Data(d, n) /\ n.clk = d.clk
         /\ None(n, e.ev)
         /\ Same(d, n, Alarms \ {e.ev})
<1> DEFINE n == Handled(d, e)
<1>1. /\ Basic(m, n) /\ Data(d, n) /\ n.clk = d.clk
      /\ Same(d, n, Alarms \ {e.ev})
      /\ \A left : Only(d, e.ev, left) => None(n, e.ev) /\ left = 0
  <2>1. /\ Basic(m, n) /\ Data(d, n) /\ n.clk = d.clk
        /\ Same(d, n, Alarms \ {e.ev})
        /\ \A left : Only(d, e.ev, left) => None(n, e.ev) /\ left = 0
        /\ e.ev \in Kinds => e \in Frames
    BY ONLY Basic(m, d), e \in Due(d), HandledEffect, Zenon
  <2> QED
    BY ONLY <2>1
<1> HIDE DEF n
<1>2. Only(d, e.ev, Ahead(d, e.ev, done))
  BY DEF OnTime, CyclicOnTime
<1>3. Ahead(d, e.ev, done) = 0 /\ None(n, e.ev)
  BY <1>1, <1>2
<1>4. None(d, "clock_corr")
  <2> SUFFICES ASSUME Correcting(d, done) PROVE FALSE
    BY DEF OnTime
  <2>1. done = {"async_eval", "inc", "sync_eval"} /\ SlotOf["clock_corr"] - d.clk \in Nat
    BY DEF Correcting, Evaluation
  <2>2. e.ev \notin done /\ d.clk = SlotOf[e.ev]
    BY <1>3, PhaseOf DEF OnTime
  <2>3. e.ev = "async_up"
    BY <2>1, <2>2 DEF Cyclic
  <2>4. SlotOf["clock_corr"] - SlotOf["async_up"] \in Nat
    BY <2>1, <2>2, <2>3
  <2>5. ReceivePit + 2 * Precision + 1 - (Cycle - AcceptanceWindow) < 0
    BY SlotTimes
  <2>6. SlotOf["clock_corr"] - SlotOf["async_up"] = ReceivePit + 2 * Precision + 1 - (Cycle - AcceptanceWindow)
    BY SlotValues, SlotTimes
  <2> QED
    BY <2>4, <2>5, <2>6
<1> QED
  BY <1>1, <1>3, <1>4 DEF n

(* ... and a handler that only changes data registers it for the next cycle.   *)
LEMMA CyclicNext ==
  ASSUME NEW m, NEW d, Basic(m, d), NEW done \in Phases, OnTime(d, done),
         NEW x \in Cyclic, Ahead(d, x, done) = 0, None(d, "clock_corr"),
         NEW t, Basic(m, t), None(t, x), Same(d, t, Alarms \ {x}),
         NEW r, Basic(m, r), r.clk = d.clk, r.pend = t.pend
  PROVE  LET n == RegisterNext(r, x) IN
         /\ Basic(m, n) /\ Data(r, n) /\ n.clk = d.clk
         /\ OnTime(n, done \union {x})
         /\ None(n, "clock_corr")
<1> DEFINE n == RegisterNext(r, x)
<1>2. Same(t, r, Alarms)
  BY PendKept DEF Basic
<1>3. x \in Alarms /\ Cyclic \subseteq Alarms /\ "clock_corr" \in Alarms \ {x}
  BY SlotNames DEF Alarms, Cyclic
<1>4. Same(d, r, Alarms \ {x}) /\ None(r, x)
  BY <1>2, <1>3, SameAlarm DEF Same
<1>5. Same(d, r, Cyclic \ {x})
  BY <1>3, <1>4 DEF Same
<1>6. /\ Basic(m, n) /\ Data(r, n) /\ n.clk = d.clk
      /\ CyclicOnTime(n, done \union {x})
      /\ Same(r, n, Alarms \ {x})
  <2>1. CyclicOnTime(d, done)
    BY DEF OnTime
  <2>2. None(r, x) /\ Ahead(d, x, done) = 0
    BY <1>4
  <2> QED
    BY <2>1, <2>2, <1>5, ReRegistered
<1> HIDE DEF n
<1>7. None(n, "clock_corr")
  <2>1. None(r, "clock_corr")
    BY <1>3, <1>4, SameAlarm
  <2> QED
    BY <1>3, <1>6, <2>1, SameAlarm
<1> QED
  BY <1>6, <1>7 DEF OnTime, n

(* The members seen out of schedule can be counted.                           *)
LEMMA FiniteMembers ==
  ASSUME NEW m, NEW d, Basic(m, d), NEW u, u \subseteq AsyncMembers(d)
  PROVE  Cardinality(u) \in Nat /\ Cardinality(AsyncMembers(d)) \in Nat
         /\ Cardinality(u) <= Cardinality(AsyncMembers(d))
<1>1. AsyncMembers(d) \subseteq UNION Memberships
  BY DEF AsyncMembers, Basic
<1>2. IsFiniteSet(AsyncMembers(d))
  BY <1>1, MasterAssumption, FS_Subset
<1>3. IsFiniteSet(u)
  BY <1>2, FS_Subset
<1> QED
  BY <1>2, <1>3, FS_Subset, FS_CardinalityType

(* A restart takes the events of the cycle that are left.                      *)
LEMMA HaltsIdle ==
  ASSUME NEW m, NEW b, Basic(m, b), b.icyc < MaxIcys, NEW names \in SUBSET DOMAIN SlotOf,
         \A x \in DOMAIN SlotOf \ names : None(b, x)
  PROVE  /\ b.stack = {} => Idle(m, Halt(b, names))
         /\ Idle(m, NoReadings(Halt(b, names)))
<1> DEFINE q == Halt(b, names)
           n == NoReadings(q)
<1>1. /\ Calms(m, b, q) /\ q.counter = 0 /\ q.icyc = b.icyc /\ q.stack = b.stack
      /\ \A x \in names : None(q, x)
  BY Halts
<1> HIDE DEF q
<1>2. \A x \in DOMAIN SlotOf : None(q, x)
  BY <1>1 DEF Calms
<1>3. Calms(m, q, n) /\ n.stack = {} /\ n.icyc = q.icyc /\ n.counter = q.counter
  BY <1>1, ClearsReadings DEF Calms
<1> HIDE DEF n
<1>4. Idle(m, n)
  BY <1>1, <1>2, <1>3 DEF Idle, Calms
<1>5. b.stack = {} => Idle(m, q)
  BY <1>1, <1>2 DEF Idle, Calms
<1> QED
  BY <1>4, <1>5 DEF n, q

(* The ends of a clique detection.                                             *)
LEMMA LeavesClique ==
  ASSUME NEW m \in Masters, NEW t, Basic(m, t), None(t, "async_eval"), None(t, "clock_corr")
  PROVE  /\ t.stack = {} => Waits(m, Integrate(Halt(Zero(SetTimer(t, RestartTimeout)), Evaluations)))
         /\ Waits(m, Unsync(NoReadings(Halt(ZeroSync(SetTimer(t, RestartAsync)), Evaluations))))
         /\ Waits(m, Unsync(NoReadings(Halt(Zero(SetTimer(t, RestartAsync)), Evaluations))))
<1>1. Evaluations \in SUBSET DOMAIN SlotOf /\ DOMAIN SlotOf \ Evaluations = {"async_eval", "clock_corr"}
  BY SlotNames DEF Evaluations
<1>2. RestartTimeout \in Nat /\ RestartAsync \in Nat /\ 0 < MaxIcys
  BY MasterAssumption
<1>3. "async_eval" \in DOMAIN SlotOf /\ "clock_corr" \in DOMAIN SlotOf
  BY SlotNames
<1>4. ASSUME NEW b, Calms(m, t, b), b.icyc = 0
      PROVE  /\ b.stack = {} => Idle(m, Halt(b, Evaluations))
             /\ Idle(m, NoReadings(Halt(b, Evaluations)))
  <2>1. Basic(m, b) /\ b.icyc < MaxIcys
    BY <1>2, <1>4 DEF Calms
  <2>2. None(b, "async_eval") /\ None(b, "clock_corr")
    BY <1>3, <1>4 DEF Calms
  <2>3. \A x \in DOMAIN SlotOf \ Evaluations : None(b, x)
    BY <1>1, <2>2
  <2> QED
    BY <1>1, <2>1, <2>3, HaltsIdle
<1>5. ASSUME NEW timeout \in Nat
      PROVE  /\ Calms(m, t, Zero(SetTimer(t, timeout))) /\ Zero(SetTimer(t, timeout)).icyc = 0
             /\ Calms(m, t, ZeroSync(SetTimer(t, timeout))) /\ ZeroSync(SetTimer(t, timeout)).icyc = 0
  <2> DEFINE s == SetTimer(t, timeout)
             z == Zero(s)
             y == ZeroSync(s)
  <2>1. Calms(m, t, s)
    BY SetsTimer
  <2> HIDE DEF s
  <2>2. Basic(m, s)
    BY <2>1 DEF Calms
  <2>3. Calms(m, s, z) /\ z.icyc = 0
    BY <2>2, Zeroes
  <2>4. Calms(m, s, y) /\ y.icyc = 0
    BY <2>2, ZeroesSync
  <2> HIDE DEF z, y
  <2>5. Calms(m, t, z) /\ z.icyc = 0 /\ Calms(m, t, y) /\ y.icyc = 0
    BY <2>1, <2>3, <2>4, CalmsTwice
  <2> QED
    BY <2>5 DEF s, z, y
<1>6. t.stack = {} => Waits(m, Integrate(Halt(Zero(SetTimer(t, RestartTimeout)), Evaluations)))
  <2> DEFINE b == Zero(SetTimer(t, RestartTimeout))
  <2>1. Calms(m, t, b) /\ b.icyc = 0
    BY <1>2, <1>5
  <2> HIDE DEF b
  <2>2. t.stack = {} => b.stack = {}
    BY <2>1 DEF Calms
  <2>3. t.stack = {} => Idle(m, Halt(b, Evaluations))
    BY <1>4, <2>1, <2>2
  <2> QED
    BY <2>3, WaitStatesWait DEF b
<1>7. Waits(m, Unsync(NoReadings(Halt(ZeroSync(SetTimer(t, RestartAsync)), Evaluations))))
  <2> DEFINE b == ZeroSync(SetTimer(t, RestartAsync))
  <2>1. Calms(m, t, b) /\ b.icyc = 0
    BY <1>2, <1>5
  <2> HIDE DEF b
  <2>2. Idle(m, NoReadings(Halt(b, Evaluations)))
    BY <1>4, <2>1
  <2> QED
    BY <2>2, WaitStatesWait DEF b
<1>8. Waits(m, Unsync(NoReadings(Halt(Zero(SetTimer(t, RestartAsync)), Evaluations))))
  <2> DEFINE b == Zero(SetTimer(t, RestartAsync))
  <2>1. Calms(m, t, b) /\ b.icyc = 0
    BY <1>2, <1>5
  <2> HIDE DEF b
  <2>2. Idle(m, NoReadings(Halt(b, Evaluations)))
    BY <1>4, <2>1
  <2> QED
    BY <2>2, WaitStatesWait DEF b
<1> QED
  BY <1>6, <1>7, <1>8

(* async_eval: the clique detection; h2 is the history when it is over.        *)
LEMMA AsyncEvaluated ==
  ASSUME NEW m, NEW d, Basic(m, d), NEW h, Following(d, h), NEW e \in Due(d), e.ev = "async_eval",
         NEW h2, h2.unheard = {}, h2.heard = h.heard, h2.silence = h.silence
  PROVE  LET t == Handled(d, e)
             k == SendIn(t)
         IN /\ Basic(m, t) /\ None(t, "async_eval") /\ None(t, "clock_corr")
            /\ d.st # "TENTATIVE_SYNC" => t.stack = {}
            /\ Basic(m, k) /\ Following(k, h2) /\ Small(d.clk, k.clk)
            /\ Cardinality(h.unheard) \in Nat /\ Cardinality(AsyncMembers(t)) \in Nat
            /\ Cardinality(h.unheard) <= Cardinality(AsyncMembers(t))
<1> DEFINE t == Handled(d, e)
           r == Send(t, "IN", t.icyc + 1)
           k == RegisterNext(r, "async_eval")
<1>1. PICK done \in Phases : InPhase(d, done, h)
  BY DEF Following
<1>2. "async_eval" \in Cyclic /\ "clock_corr" \in Alarms \ {"async_eval"}
  BY SlotNames DEF Cyclic, Alarms
<1>3. /\ Ahead(d, "async_eval", done) = 0 /\ None(d, "clock_corr")
      /\ Basic(m, t) /\ Data(d, t) /\ t.clk = d.clk
      /\ None(t, "async_eval") /\ Same(d, t, Alarms \ {"async_eval"})
  BY <1>1, <1>2, CyclicTaken DEF InPhase
<1>4. done = {}
  BY <1>1, <1>2, <1>3, PhaseOf DEF OnTime, InPhase
<1>5. None(t, "clock_corr")
  BY <1>2, <1>3, SameAlarm
<1>6. d.st # "TENTATIVE_SYNC" => t.stack = {}
  BY <1>1, <1>3, <1>4 DEF InPhase, Swept, Data
<1> HIDE DEF t
<1>7. Basic(m, r) /\ Data(t, r) /\ r.clk = t.clk /\ r.pend = t.pend
  <2>1. Calms(m, t, r) /\ Data(t, r) /\ r.clk = t.clk
    BY <1>3, Sends
  <2>2. r.pend = t.pend
    BY <1>3 DEF Send, Basic, Device, FieldNames
  <2> HIDE DEF r
  <2> QED
    BY <2>1, <2>2 DEF Calms
<1> HIDE DEF r
<1>8. Basic(m, k) /\ Data(r, k) /\ k.clk = d.clk /\ OnTime(k, {"async_eval"})
  <2>1. r.clk = d.clk
    BY <1>3, <1>7
  <2>2. OnTime(d, done)
    BY <1>1 DEF InPhase
  <2>3. /\ Basic(m, k) /\ Data(r, k) /\ k.clk = d.clk
        /\ OnTime(k, done \union {"async_eval"})
    BY ONLY Basic(m, d), done \in Phases, <2>1, <2>2, <1>2, <1>3, <1>7, CyclicNext
  <2>4. done \union {"async_eval"} = {"async_eval"}
    BY <1>4
  <2> QED
    BY <2>3, <2>4
<1> HIDE DEF k
<1>9. AsyncMembers(t) = AsyncMembers(d)
  BY <1>3 DEF AsyncMembers, Data
<1>10. h.unheard \subseteq AsyncMembers(t)
  BY <1>1, <1>9 DEF Remembers, InPhase
<1>11. Following(k, h2)
  <2>1. k.st = d.st /\ k.counter = d.counter /\ k.stack = d.stack /\ k.sync = d.sync
    BY <1>3, <1>7, <1>8 DEF Data
  <2>2. Remembers(k, {"async_eval"}, h2)
    BY <1>1, <1>3, <2>1 DEF Remembers, InPhase
  <2>3. Swept(k, {"async_eval"})
    BY DEF Swept, Cyclic, Evaluation
  <2>4. {"async_eval"} \in Phases
    BY DEF Phases
  <2>5. Counts(k, h2)
    BY <2>1 DEF Following, Counts
  <2> QED
    BY <1>8, <2>1, <2>2, <2>3, <2>4, <2>5 DEF Following, InPhase
<1>12. Small(d.clk, k.clk)
  <2>1. d.clk \in Int
    BY SlotTimes DEF Basic
  <2> QED
    BY <1>8, <2>1, SmallStay
<1>13. k = SendIn(t)
  BY DEF k, r, SendIn
<1> QED
  BY <1>3, <1>5, <1>6, <1>8, <1>10, <1>11, <1>12, <1>13, FiniteMembers DEF t

(* Each state judges by its own threshold and restarts in its own way.         *)
LEMMA AsyncEvalProceeds ==
  ASSUME NEW m \in Masters, NEW d, Basic(m, d), NEW h, Following(d, h), NEW e \in Due(d), e.ev = "async_eval",
         NEW h2, h2.unheard = {}, h2.heard = h.heard, h2.silence = h.silence
  PROVE  LET t == Handled(d, e) IN
         /\ d.st = "STABLE" => /\ Proceeds(m, d, StableAsyncEval(t, e), h2)
                               /\ Cardinality(h.unheard) >= StableThresholdAsync => Waits(m, StableAsyncEval(t, e))
         /\ d.st = "SYNC" => /\ Proceeds(m, d, SyncAsyncEval(t, e), h2)
                             /\ Cardinality(h.unheard) >= SyncThresholdAsync => Waits(m, SyncAsyncEval(t, e))
         /\ d.st = "TENTATIVE_SYNC" =>
              /\ Proceeds(m, d, TentativeAsyncEval(t, e), h2)
              /\ Cardinality(h.unheard) >= TentativeThresholdAsync => Waits(m, TentativeAsyncEval(t, e))
<1> DEFINE t == Handled(d, e)
           k == SendIn(t)
<1>1. /\ Basic(m, t) /\ None(t, "async_eval") /\ None(t, "clock_corr")
      /\ d.st # "TENTATIVE_SYNC" => t.stack = {}
      /\ Basic(m, k) /\ Following(k, h2) /\ Small(d.clk, k.clk)
      /\ Cardinality(h.unheard) \in Nat /\ Cardinality(AsyncMembers(t)) \in Nat
      /\ Cardinality(h.unheard) <= Cardinality(AsyncMembers(t))
  BY AsyncEvaluated
<1> HIDE DEF t
<1>2. Proceeds(m, d, SendIn(t), h2)
  BY <1>1 DEF Proceeds
<1>3. TentativeThresholdAsync \in Int /\ SyncThresholdAsync \in Int /\ StableThresholdAsync \in Int
  BY MasterAssumption
<1>4. \A threshold \in Int : Cardinality(h.unheard) >= threshold => AsyncClique(t, threshold)
  BY <1>1 DEF AsyncClique
<1>5. ASSUME d.st = "STABLE"
      PROVE  /\ Proceeds(m, d, StableAsyncEval(t, e), h2)
             /\ Cardinality(h.unheard) >= StableThresholdAsync => Waits(m, StableAsyncEval(t, e))
  <2> DEFINE n == Integrate(Halt(Zero(SetTimer(t, RestartTimeout)), Evaluations))
  <2>1. Waits(m, n)
    BY <1>1, <1>5, LeavesClique
  <2>2. StableAsyncEval(t, e) = IF AsyncClique(t, StableThresholdAsync) THEN n ELSE SendIn(t)
    BY DEF StableAsyncEval
  <2> HIDE DEF n, k
  <2> QED
    BY <1>2, <1>3, <1>4, <2>1, <2>2 DEF Proceeds
<1>6. ASSUME d.st = "SYNC"
      PROVE  /\ Proceeds(m, d, SyncAsyncEval(t, e), h2)
             /\ Cardinality(h.unheard) >= SyncThresholdAsync => Waits(m, SyncAsyncEval(t, e))
  <2> DEFINE n == Unsync(NoReadings(Halt(ZeroSync(SetTimer(t, RestartAsync)), Evaluations)))
  <2>1. Waits(m, n)
    BY <1>1, LeavesClique
  <2>2. SyncAsyncEval(t, e) = IF AsyncClique(t, SyncThresholdAsync) THEN n ELSE SendIn(t)
    BY DEF SyncAsyncEval
  <2> HIDE DEF n, k
  <2> QED
    BY <1>2, <1>3, <1>4, <2>1, <2>2 DEF Proceeds
<1>7. ASSUME d.st = "TENTATIVE_SYNC"
      PROVE  /\ Proceeds(m, d, TentativeAsyncEval(t, e), h2)
             /\ Cardinality(h.unheard) >= TentativeThresholdAsync => Waits(m, TentativeAsyncEval(t, e))
  <2> DEFINE n == Unsync(NoReadings(Halt(Zero(SetTimer(t, RestartAsync)), Evaluations)))
  <2>1. Waits(m, n)
    BY <1>1, LeavesClique
  <2>2. TentativeAsyncEval(t, e) = IF AsyncClique(t, TentativeThresholdAsync) THEN n ELSE SendIn(t)
    BY DEF TentativeAsyncEval
  <2> HIDE DEF n, k
  <2> QED
    BY <1>2, <1>3, <1>4, <2>1, <2>2 DEF Proceeds
<1> QED
  BY <1>5, <1>6, <1>7 DEF t

(* inc, and async_up, which clears the half that is not evaluated next.        *)
LEMMA IncProceeds ==
  ASSUME NEW m, NEW d, Basic(m, d), NEW h, Following(d, h), NEW e \in Due(d), e.ev = "inc"
  PROVE  Proceeds(m, d, Inc(Handled(d, e), e), h)
<1> DEFINE t == Handled(d, e)
           r == [t EXCEPT !.icyc = (@ + 1) % MaxIcys]
           n == RegisterNext(r, "inc")
<1>1. PICK done \in Phases : InPhase(d, done, h)
  BY DEF Following
<1>2. "inc" \in Cyclic
  BY DEF Cyclic
<1>3. /\ Ahead(d, "inc", done) = 0 /\ None(d, "clock_corr")
      /\ Basic(m, t) /\ Data(d, t) /\ t.clk = d.clk
      /\ None(t, "inc") /\ Same(d, t, Alarms \ {"inc"})
  BY <1>1, <1>2, CyclicTaken DEF InPhase
<1>4. done = {"async_eval"}
  BY <1>1, <1>2, <1>3, PhaseOf DEF OnTime, InPhase
<1>5. n = Inc(t, e)
  BY DEF Inc
<1> HIDE DEF t
<1>6. /\ Basic(m, r) /\ r.clk = t.clk /\ r.pend = t.pend /\ r.st = t.st /\ r.stack = t.stack /\ r.sync = t.sync
      /\ r.counter = t.counter /\ r.asyncR = t.asyncR /\ r.asyncF = t.asyncF
  <2>1. Changes(t, r, {"icyc", "sync"}) /\ r.icyc = (t.icyc + 1) % MaxIcys /\ r.sync = t.sync /\ r.pend = t.pend
    BY <1>3 DEF Basic, Device, FieldNames, Changes
  <2> HIDE DEF r
  <2>2. r.icyc \in 0 .. MaxIcys
    <3>1. t.icyc + 1 \in Int
      BY <1>3, MasterAssumption DEF Basic
    <3>2. r.icyc \in 0 .. MaxIcys - 1
      BY <2>1, <3>1, Remainder, MasterAssumption
    <3> QED
      BY <3>2, MasterAssumption
  <2>3. r.sync \in 0 .. LargestSync(m)
    BY <1>3, <2>1 DEF Basic
  <2>4. Basic(m, t)
    BY <1>3
  <2> QED
    <3>1. Basic(m, r)
      BY ONLY <2>1, <2>2, <2>3, <2>4, SetsIcycAndSync
    <3>2. /\ r.clk = t.clk /\ r.st = t.st /\ r.stack = t.stack
          /\ r.counter = t.counter /\ r.asyncR = t.asyncR /\ r.asyncF = t.asyncF
      BY ONLY <2>1 DEF Changes, FieldNames
    <3> QED
      BY ONLY <2>1, <3>1, <3>2
<1> HIDE DEF r
<1>7. Basic(m, n) /\ Data(r, n) /\ n.clk = d.clk /\ OnTime(n, Early)
  <2>1. r.clk = d.clk
    BY <1>3, <1>6
  <2>2. OnTime(d, done)
    BY <1>1 DEF InPhase
  <2>3. /\ Basic(m, n) /\ Data(r, n) /\ n.clk = d.clk
        /\ OnTime(n, done \union {"inc"})
    <3>1. Basic(m, r) /\ r.pend = t.pend
      BY <1>6
    <3>2. /\ Ahead(d, "inc", done) = 0 /\ None(d, "clock_corr")
          /\ Basic(m, t) /\ None(t, "inc") /\ Same(d, t, Alarms \ {"inc"})
      BY <1>3
    <3>3. Basic(m, n) /\ Data(r, n) /\ n.clk = d.clk
      <4>1. "inc" \in DOMAIN SlotOf
        BY SlotNames
      <4> QED
        BY ONLY <2>1, <3>1, <4>1, Registers DEF RegisterNext
    <3>4. OnTime(n, done \union {"inc"})
      BY ONLY Basic(m, d), done \in Phases, <2>1, <2>2, <1>2, <3>1, <3>2, CyclicNext
    <3> QED
      BY <3>3, <3>4
  <2>4. done \union {"inc"} = Early
    BY <1>4 DEF Early
  <2> QED
    BY <2>3, <2>4
<1> HIDE DEF n
<1>8. Following(n, h)
  <2>1. /\ n.st = d.st /\ n.counter = d.counter /\ n.stack = d.stack /\ n.sync = d.sync
        /\ n.asyncR = d.asyncR /\ n.asyncF = d.asyncF
    BY <1>3, <1>6, <1>7 DEF Data
  <2>2. /\ h.unheard \subseteq d.asyncR /\ h.unheard \subseteq d.asyncF
        /\ h.heard \/ \A x \in d.stack : x.count < Threshold(d.st)
    BY <1>1, <1>3, <1>4 DEF Remembers, Cyclic, InPhase
  <2>3. Remembers(n, Early, h)
    BY <2>1, <2>2 DEF Remembers, AsyncMembers
  <2>4. Early \in Phases /\ Swept(n, Early)
    BY DEF Phases, Early, Swept, Cyclic, Evaluation
  <2>5. Counts(n, h)
    BY <2>1 DEF Following, Counts
  <2> QED
    BY <1>7, <2>1, <2>3, <2>4, <2>5 DEF Following, InPhase
<1>9. Small(d.clk, n.clk)
  <2>1. d.clk \in Int
    BY SlotTimes DEF Basic
  <2> QED
    BY <1>7, <2>1, SmallStay
<1> QED
  BY <1>5, <1>7, <1>8, <1>9 DEF t, Proceeds

(* async_up clears the half-window that is not evaluated next.                *)
LEMMA AsyncUpProceeds ==
  ASSUME NEW m, NEW d, Basic(m, d), NEW h, Following(d, h), NEW e \in Due(d), e.ev = "async_up"
  PROVE  Proceeds(m, d, AsyncUp(Handled(d, e), e), h)
<1> DEFINE t == Handled(d, e)
           r == IF t.icyc % 2 = 0 THEN [t EXCEPT !.asyncF = {}] ELSE [t EXCEPT !.asyncR = {}]
           n == RegisterNext(r, "async_up")
<1>1. PICK done \in Phases : InPhase(d, done, h)
  BY DEF Following
<1>2. "async_up" \in Cyclic
  BY DEF Cyclic
<1>3. /\ Ahead(d, "async_up", done) = 0 /\ None(d, "clock_corr")
      /\ Basic(m, t) /\ Data(d, t) /\ t.clk = d.clk
      /\ None(t, "async_up") /\ Same(d, t, Alarms \ {"async_up"})
  BY <1>1, <1>2, CyclicTaken DEF InPhase
<1>4. done = Evaluation
  BY <1>1, <1>2, <1>3, PhaseOf DEF OnTime, InPhase, Evaluation
<1>5. n = AsyncUp(t, e)
  BY DEF AsyncUp
<1> HIDE DEF t
<1>6. /\ Basic(m, r) /\ r.clk = t.clk /\ r.pend = t.pend /\ r.st = t.st /\ r.stack = t.stack /\ r.sync = t.sync
      /\ r.counter = t.counter /\ AsyncMembers(r) = AsyncMembers(t)
  <2>1. /\ Changes(t, r, {"asyncR", "asyncF"})
        /\ r.asyncR = IF t.icyc % 2 = 0 THEN t.asyncR ELSE {}
        /\ r.asyncF = IF t.icyc % 2 = 0 THEN {} ELSE t.asyncF
    <3>0. Basic(m, t)
      BY <1>3
    <3>1. CASE t.icyc % 2 = 0
      <4>1. r = [t EXCEPT !.asyncF = {}]
        BY <3>1
      <4> HIDE DEF r
      <4> QED
        BY ONLY <3>0, <3>1, <4>1 DEF Basic, Device, FieldNames, Changes
    <3>2. CASE t.icyc % 2 # 0
      <4>1. r = [t EXCEPT !.asyncR = {}]
        BY <3>2
      <4> HIDE DEF r
      <4> QED
        BY ONLY <3>0, <3>2, <4>1 DEF Basic, Device, FieldNames, Changes
    <3> QED
      BY <3>1, <3>2
  <2> HIDE DEF r
  <2>2. /\ r.st = t.st /\ r.clk = t.clk /\ r.pend = t.pend /\ r.timer = t.timer /\ r.sync = t.sync
        /\ r.icyc = t.icyc /\ r.counter = t.counter /\ r.stack = t.stack
        /\ r.floodReceive = t.floodReceive /\ r.closedWindow = t.closedWindow
    BY <2>1 DEF FieldNames, Changes
  <2>3. Device(r) /\ PendOK(r)
    BY <1>3, <2>1, OtherFields
  <2>4. Basic(m, r)
    BY <1>3, <2>1, <2>2, <2>3 DEF Basic
  <2> QED
    BY <2>1, <2>2, <2>4 DEF AsyncMembers
<1> HIDE DEF r
<1>7. Basic(m, n) /\ Data(r, n) /\ n.clk = d.clk /\ OnTime(n, Cyclic)
  <2>1. r.clk = d.clk
    BY <1>3, <1>6
  <2>2. OnTime(d, done)
    BY <1>1 DEF InPhase
  <2>3. /\ Basic(m, n) /\ Data(r, n) /\ n.clk = d.clk
        /\ OnTime(n, done \union {"async_up"})
    <3>1. Basic(m, r) /\ r.pend = t.pend
      BY <1>6
    <3>2. /\ Ahead(d, "async_up", done) = 0 /\ None(d, "clock_corr")
          /\ Basic(m, t) /\ None(t, "async_up") /\ Same(d, t, Alarms \ {"async_up"})
      BY <1>3
    <3>3. Basic(m, n) /\ Data(r, n) /\ n.clk = d.clk
      <4>1. "async_up" \in DOMAIN SlotOf
        BY SlotNames
      <4> QED
        BY ONLY <2>1, <3>1, <4>1, Registers DEF RegisterNext
    <3>4. OnTime(n, done \union {"async_up"})
      BY ONLY Basic(m, d), done \in Phases, <2>1, <2>2, <1>2, <3>1, <3>2, CyclicNext
    <3> QED
      BY <3>3, <3>4
  <2>4. done \union {"async_up"} = Cyclic
    BY <1>4 DEF Cyclic, Evaluation
  <2> QED
    BY <2>3, <2>4
<1> HIDE DEF n
<1>8. Following(n, h)
  <2>1. /\ n.st = d.st /\ n.counter = d.counter /\ n.stack = d.stack /\ n.sync = d.sync
        /\ AsyncMembers(n) = AsyncMembers(d)
    BY <1>3, <1>6, <1>7 DEF Data, AsyncMembers
  <2>2. h.unheard \subseteq AsyncMembers(d) /\ (h.heard \/ \A x \in d.stack : x.count < Threshold(d.st))
    BY <1>1, <1>3 DEF Remembers, InPhase
  <2>3. Remembers(n, Cyclic, h)
    BY <2>1, <2>2 DEF Remembers
  <2>4. Cyclic \in Phases
    BY DEF Phases
  <2>5. Counts(n, h)
    BY <2>1 DEF Following, Counts
  <2>6. d.st # "TENTATIVE_SYNC" => d.stack = {} /\ d.clk > ReceivePit + HalfWindow
    BY <1>1, <1>3, <1>4 DEF InPhase, Swept
  <2>7. d.st # "TENTATIVE_SYNC" => Swept(n, Cyclic)
    BY <1>7, <2>1, <2>6 DEF Swept
  <2> QED
    BY <1>7, <2>1, <2>3, <2>4, <2>5, <2>7 DEF Following, InPhase
<1>9. Small(d.clk, n.clk)
  <2>1. d.clk \in Int
    BY SlotTimes DEF Basic
  <2> QED
    BY <1>7, <2>1, SmallStay
<1> QED
  BY <1>5, <1>7, <1>8, <1>9 DEF t, Proceeds

(* sync_eval: the members of the readings, and the correction of this cycle,   *)
(* registered before or after the next evaluation.                             *)
LEMMA SyncEvaluated ==
  ASSUME NEW m \in Masters, NEW d, Basic(m, d), NEW h, Following(d, h), NEW e \in Due(d), e.ev = "sync_eval"
  PROVE  LET v == Evaluated(Handled(d, e)) IN
         /\ Basic(m, v) /\ v.clk = d.clk /\ v.st = d.st /\ v.counter = d.counter
         /\ v.asyncR = d.asyncR /\ v.asyncF = d.asyncF
         /\ None(v, "sync_eval") /\ None(v, "clock_corr")
         /\ v.sync \in 0 .. MaxMembership
         /\ h.heard \/ v.sync < Threshold(d.st)
         /\ h.unheard \subseteq d.asyncR /\ h.unheard \subseteq d.asyncF
         /\ d.clk = ReceivePit + Precision
         /\ CyclicOnTime(d, Early) /\ Same(d, v, Alarms \ {"sync_eval"})
<1> DEFINE t == Handled(d, e)
           v == [t EXCEPT !.sync = SyncMembers(t.stack)]
<1>1. PICK done \in Phases : InPhase(d, done, h)
  BY DEF Following
<1>2. "sync_eval" \in Cyclic /\ "clock_corr" \in Alarms \ {"sync_eval"} /\ "sync_eval" \in Alarms
  BY SlotNames DEF Cyclic, Alarms
<1>3. /\ Ahead(d, "sync_eval", done) = 0 /\ None(d, "clock_corr")
      /\ Basic(m, t) /\ Data(d, t) /\ t.clk = d.clk
      /\ None(t, "sync_eval")
      /\ Same(d, t, Alarms \ {"sync_eval"})
  BY <1>1, <1>2, CyclicTaken DEF InPhase
<1>4. done = Early /\ d.clk = ReceivePit + Precision
  <2>1. done = Early /\ d.clk = SlotOf["sync_eval"]
    BY <1>1, <1>2, <1>3, PhaseOf DEF OnTime, InPhase, Early
  <2> QED
    BY <2>1, SlotValues
<1>5. v = Evaluated(t)
  BY DEF Evaluated
<1> HIDE DEF t
<1>6. Changes(t, v, {"icyc", "sync"}) /\ v.icyc = t.icyc /\ v.sync = SyncMembers(t.stack)
  BY <1>3 DEF Basic, Device, FieldNames, Changes
<1> HIDE DEF v
<1>7. v.sync \in 0 .. MaxMembership /\ (h.heard \/ v.sync < Threshold(d.st))
  <2>1. Threshold(d.st) \in Nat \ {0}
    BY MasterAssumption DEF Threshold
  <2>2. t.stack \in SUBSET Readings /\ t.stack = d.stack
    BY <1>3 DEF Basic, Data
  <2>3. h.heard \/ \A s \in d.stack : s.count < Threshold(d.st)
    BY <1>1, <1>3 DEF InPhase, Remembers
  <2>4. PICK t0 \in Nat \ {0} : t0 = Threshold(d.st)
    BY <2>1
  <2>5. PICK stack \in SUBSET Readings : stack = t.stack
    BY <2>2
  <2>6. /\ SyncMembers(stack) \in 0 .. MaxMembership
        /\ (\A s \in stack : s.count < t0) => SyncMembers(stack) < t0
    BY ONLY t0 \in Nat \ {0}, stack \in SUBSET Readings, SyncMembersType
  <2>7. h.heard \/ \A s \in stack : s.count < t0
    BY <2>2, <2>3, <2>4, <2>5
  <2>8. v.sync = SyncMembers(stack)
    BY <1>6, <2>5
  <2> QED
    BY ONLY <2>4, <2>6, <2>7, <2>8
<1>8. /\ Basic(m, v) /\ v.clk = t.clk /\ v.st = t.st
      /\ v.counter = t.counter /\ v.asyncR = t.asyncR /\ v.asyncF = t.asyncF
      /\ \A all : Same(t, v, all)
  <2>1. 0 .. MaxMembership \subseteq 0 .. LargestSync(m)
    BY SyncRange
  <2>2. v.sync \in 0 .. LargestSync(m) /\ v.icyc \in 0 .. MaxIcys
    <3>1. v.sync \in 0 .. LargestSync(m)
      BY ONLY <1>7, <2>1
    <3>2. v.icyc \in 0 .. MaxIcys
      BY <1>3, <1>6 DEF Basic
    <3> QED
      BY <3>1, <3>2
  <2>3. Basic(m, t)
    BY <1>3
  <2>4. Basic(m, v) /\ \A all : Same(t, v, all)
    BY ONLY <1>6, <2>2, <2>3, SetsIcycAndSync
  <2>5. /\ v.clk = t.clk /\ v.st = t.st
        /\ v.counter = t.counter /\ v.asyncR = t.asyncR /\ v.asyncF = t.asyncF
    BY ONLY <1>6, <2>2, <2>3, SetsIcycAndSync
  <2> QED
    BY ONLY <2>4, <2>5
<1>9. None(v, "sync_eval") /\ None(v, "clock_corr") /\ Same(d, v, Alarms \ {"sync_eval"})
  <2>1. None(t, "clock_corr")
    BY <1>2, <1>3, SameAlarm
  <2>2. Same(t, v, Alarms)
    BY <1>8
  <2>3. None(v, "sync_eval") /\ None(v, "clock_corr")
    BY <1>2, <1>3, <2>1, <2>2, SameAlarm
  <2>4. Same(d, v, Alarms \ {"sync_eval"})
    BY <1>3, <2>2 DEF Same
  <2> QED
    BY <2>3, <2>4
<1>10. h.unheard \subseteq d.asyncR /\ h.unheard \subseteq d.asyncF
  BY <1>1, <1>4 DEF Remembers, Cyclic, InPhase, Early
<1>11. v.st = d.st /\ v.counter = d.counter /\ v.asyncR = d.asyncR /\ v.asyncF = d.asyncF /\ v.clk = d.clk
  BY <1>3, <1>8 DEF Data
<1>12. CyclicOnTime(d, Early)
  BY <1>1, <1>4 DEF InPhase, OnTime
<1> QED
  BY <1>4, <1>5, <1>7, <1>8, <1>9, <1>10, <1>11, <1>12 DEF t

(* Where a master is that goes on: the correction is ahead.                    *)
Corrected(m, d, v, n) ==
  Basic(m, n) /\ Data(v, n) /\ n.clk = d.clk /\ OnTime(n, Evaluation) /\ ~None(n, "clock_corr")

LEMMA CorrectionAhead ==
  ASSUME NEW m, NEW d, Basic(m, d), d.clk = ReceivePit + Precision, CyclicOnTime(d, Early),
         NEW v, Basic(m, v), v.clk = d.clk, None(v, "sync_eval"), None(v, "clock_corr"),
         Same(d, v, Alarms \ {"sync_eval"})
  PROVE  /\ Corrected(m, d, v, Register(RegisterNext(v, "sync_eval"), "clock_corr"))
         /\ Corrected(m, d, v, RegisterNext(Register(v, "clock_corr"), "sync_eval"))
         /\ Basic(m, Register(v, "clock_corr")) /\ None(Register(v, "clock_corr"), "sync_eval")
<1>1. /\ "sync_eval" \in Cyclic /\ "clock_corr" \in DOMAIN SlotOf /\ Cyclic \subseteq Alarms \ {"clock_corr"}
      /\ "clock_corr" \in Alarms \ {"sync_eval"} /\ "sync_eval" \in Alarms \ {"clock_corr"}
      /\ "clock_corr" \notin Cyclic
  BY SlotNames DEF Cyclic, Alarms
<1>2. Early \in Phases /\ Early \union {"sync_eval"} = Evaluation
  BY DEF Phases, Early, Evaluation
<1>3. Ahead(d, "sync_eval", Early) = 0
  <2>1. "sync_eval" \notin Early
    BY DEF Early
  <2> QED
    BY <2>1, SlotValues, SlotTimes DEF Ahead
<1>4. Precision + 1 \in Nat /\ SlotOf["clock_corr"] - d.clk = Precision + 1
  BY SlotTimes, SlotValues
<1>5. ASSUME NEW b, Basic(m, b), b.clk = d.clk, None(b, "clock_corr")
      PROVE  LET r == Register(b, "clock_corr") IN
             /\ Basic(m, r) /\ Data(b, r) /\ r.clk = d.clk
             /\ Same(b, r, Alarms \ {"clock_corr"})
             /\ Only(r, "clock_corr", Precision + 1)
  <2> DEFINE x == RegisterAction(b, "clock_corr", FALSE)
  <2>1. /\ Basic(m, x) /\ Data(b, x) /\ x.clk = b.clk
        /\ None(b, "clock_corr") => Only(x, "clock_corr", Distance(b.clk, "clock_corr", FALSE))
        /\ Same(b, x, Alarms \ {"clock_corr"})
    BY <1>1, <1>5, Registers
  <2> HIDE DEF x
  <2>2. Distance(b.clk, "clock_corr", FALSE) = Precision + 1
    <3>1. SlotOf["clock_corr"] - b.clk = Precision + 1
      BY <1>4, <1>5
    <3>2. Precision + 1 \in 0 .. Cycle - 1 /\ Cycle \in Nat \ {0}
      BY SlotTimes
    <3>3. (Precision + 1) % Cycle = Precision + 1
      BY <3>2, SmallRemainder
    <3> QED
      BY <3>1, <3>3 DEF Distance
  <2> QED
    BY <1>5, <2>1, <2>2 DEF Register, x
<1>6. ASSUME NEW n, CyclicOnTime(n, Evaluation), Only(n, "clock_corr", Precision + 1), n.clk = d.clk
      PROVE  OnTime(n, Evaluation) /\ ~None(n, "clock_corr")
  <2>1. Correcting(n, Evaluation)
    BY <1>4, <1>6 DEF Correcting
  <2> QED
    BY <1>6, <2>1 DEF OnTime, Only, None
<1>7. Corrected(m, d, v, Register(RegisterNext(v, "sync_eval"), "clock_corr"))
  <2> DEFINE b == RegisterNext(v, "sync_eval")
             n == Register(b, "clock_corr")
  <2>1. /\ Basic(m, b) /\ Data(v, b) /\ b.clk = d.clk
        /\ CyclicOnTime(b, Early \union {"sync_eval"})
        /\ Same(v, b, Alarms \ {"sync_eval"})
    <3>1. Same(d, v, Cyclic \ {"sync_eval"})
      BY <1>1 DEF Same
    <3> QED
      BY <1>1, <1>2, <1>3, <3>1, ReRegistered
  <2> HIDE DEF b
  <2>2. None(b, "clock_corr")
    BY <1>1, <2>1, SameAlarm
  <2>3. /\ Basic(m, n) /\ Data(b, n) /\ n.clk = d.clk
        /\ Same(b, n, Alarms \ {"clock_corr"})
        /\ Only(n, "clock_corr", Precision + 1)
    BY <1>5, <2>1, <2>2
  <2> HIDE DEF n
  <2>4. CyclicOnTime(n, Evaluation)
    <3>1. ASSUME NEW x \in Cyclic PROVE Ahead(n, x, Evaluation) \in Nat /\ Only(n, x, Ahead(n, x, Evaluation))
      <4>1. Ahead(n, x, Evaluation) = Ahead(b, x, Evaluation)
        BY <2>1, <2>3 DEF Ahead
      <4>2. Ahead(b, x, Evaluation) \in Nat /\ Only(b, x, Ahead(b, x, Evaluation))
        BY <1>2, <2>1 DEF CyclicOnTime
      <4> QED
        BY <1>1, <2>3, <4>1, <4>2, SameAlarm
    <3> QED
      BY <3>1 DEF CyclicOnTime
  <2>5. Data(v, n)
    BY <2>1, <2>3 DEF Data
  <2> QED
    BY <1>6, <2>3, <2>4, <2>5 DEF Corrected, b, n
<1>8. /\ Corrected(m, d, v, RegisterNext(Register(v, "clock_corr"), "sync_eval"))
      /\ Basic(m, Register(v, "clock_corr")) /\ None(Register(v, "clock_corr"), "sync_eval")
  <2> DEFINE b == Register(v, "clock_corr")
             n == RegisterNext(b, "sync_eval")
  <2>1. /\ Basic(m, b) /\ Data(v, b) /\ b.clk = d.clk
        /\ Same(v, b, Alarms \ {"clock_corr"})
        /\ Only(b, "clock_corr", Precision + 1)
    BY <1>5
  <2> HIDE DEF b
  <2>2. None(b, "sync_eval")
    BY <1>1, <2>1, SameAlarm
  <2>3. /\ Basic(m, n) /\ Data(b, n) /\ n.clk = d.clk
        /\ CyclicOnTime(n, Evaluation)
        /\ Same(b, n, Alarms \ {"sync_eval"})
    <3>1. Same(d, b, Cyclic \ {"sync_eval"})
      BY <1>1, <2>1 DEF Same
    <3> QED
      BY <1>1, <1>2, <1>3, <2>1, <2>2, <3>1, ReRegistered
  <2> HIDE DEF n
  <2>4. Only(n, "clock_corr", Precision + 1)
    BY <1>1, <2>1, <2>3, SameAlarm
  <2>5. Data(v, n)
    BY <2>1, <2>3 DEF Data
  <2> QED
    BY <1>6, <2>1, <2>2, <2>3, <2>4, <2>5 DEF Corrected, b, n
<1> QED
  BY <1>7, <1>8

(* The evaluated cycle is noted in the counter, and the state may change.      *)
LEMMA SetsCounter ==
  ASSUME NEW m, NEW d, Basic(m, d), NEW n, Changes(d, n, {"counter", "st"}), n.st \in States
  PROVE  /\ Basic(m, n) /\ n.clk = d.clk /\ n.sync = d.sync /\ n.icyc = d.icyc
         /\ n.asyncR = d.asyncR /\ n.asyncF = d.asyncF /\ n.stack = d.stack
         /\ \A all : Same(d, n, all)
<1>1. Device(n) /\ PendOK(n) /\ \A all : Same(d, n, all)
  BY OtherFields
<1>2. /\ n.clk = d.clk /\ n.icyc = d.icyc /\ n.timer = d.timer /\ n.sync = d.sync
      /\ n.asyncR = d.asyncR /\ n.asyncF = d.asyncF /\ n.stack = d.stack
      /\ n.floodReceive = d.floodReceive /\ n.closedWindow = d.closedWindow
  BY DEF Changes, FieldNames
<1> QED
  BY <1>1, <1>2 DEF Basic

LEMMA GoesOn ==
  ASSUME NEW m, NEW d, Basic(m, d), NEW v, v.asyncR = d.asyncR, v.asyncF = d.asyncF,
         v.sync \in 0 .. MaxMembership, NEW b, Corrected(m, d, v, b),
         NEW n, Changes(b, n, {"counter", "st"}), n.st \in Synced,
         NEW h2, h2.unheard \subseteq d.asyncR, h2.unheard \subseteq d.asyncF, Counts(n, h2)
  PROVE  Proceeds(m, d, n, h2)
<1>1. /\ Basic(m, n) /\ n.clk = d.clk /\ n.sync = v.sync
      /\ n.asyncR = d.asyncR /\ n.asyncF = d.asyncF
      /\ Same(b, n, DOMAIN SlotOf)
  <2>1. Basic(m, b) /\ n.st \in States
    BY DEF Corrected, States
  <2>2. /\ Basic(m, n) /\ n.clk = b.clk /\ n.sync = b.sync
        /\ n.asyncR = b.asyncR /\ n.asyncF = b.asyncF
        /\ \A all : Same(b, n, all)
    BY <2>1, SetsCounter
  <2> QED
    BY <2>2 DEF Corrected, Data
<1>2. OnTime(n, Evaluation) /\ ~None(n, "clock_corr")
  <2>1. OnTime(b, Evaluation) /\ ~None(b, "clock_corr") /\ n.clk = b.clk
    BY <1>1 DEF Corrected
  <2>2. "clock_corr" \in DOMAIN SlotOf
    BY SlotNames
  <2> QED
    BY <1>1, <2>1, <2>2, OnTimeKept, SameAlarm
<1>3. Remembers(n, Evaluation, h2)
  BY <1>1, <1>2 DEF Remembers, AsyncMembers
<1>4. Evaluation \in Phases /\ Swept(n, Evaluation)
  BY <1>2 DEF Phases, Swept, Cyclic, Evaluation
<1>5. n.sync <= MaxMembership
  BY <1>1, MasterAssumption
<1>6. Following(n, h2)
  BY <1>2, <1>3, <1>4, <1>5 DEF Following, InPhase
<1>7. Small(d.clk, n.clk)
  <2>1. d.clk \in Int
    BY SlotTimes DEF Basic
  <2> QED
    BY <1>1, <2>1, SmallStay
<1> QED
  BY <1>1, <1>6, <1>7 DEF Proceeds

(* The ends of an evaluation.                                                  *)
LEMMA LeavesCycle ==
  ASSUME NEW m \in Masters, NEW b, Basic(m, b), NEW names \in SUBSET DOMAIN SlotOf,
         \A x \in DOMAIN SlotOf \ names : None(b, x)
  PROVE  /\ Idle(m, NoReadings(Halt(Zero(b), names)))
         /\ Idle(m, NoReadings(Halt(ZeroSync(SetTimer(b, RestartSync)), names)))
         /\ Idle(m, NoReadings(Halt(Zero(SetTimer(b, RestartAsync)), names)))
<1>1. RestartSync \in Nat /\ RestartAsync \in Nat /\ 0 < MaxIcys
  BY MasterAssumption
<1>2. ASSUME NEW y, Calms(m, b, y), y.icyc = 0 PROVE Idle(m, NoReadings(Halt(y, names)))
  <2>1. Basic(m, y) /\ y.icyc < MaxIcys
    BY <1>1, <1>2 DEF Calms
  <2>2. \A x \in DOMAIN SlotOf \ names : None(y, x)
    BY <1>2 DEF Calms
  <2> QED
    BY <2>1, <2>2, HaltsIdle
<1>3. Idle(m, NoReadings(Halt(Zero(b), names)))
  <2> DEFINE y == Zero(b)
  <2>1. Calms(m, b, y) /\ y.icyc = 0
    BY Zeroes
  <2> HIDE DEF y
  <2> QED
    BY <1>2, <2>1 DEF y
<1>4. Idle(m, NoReadings(Halt(ZeroSync(SetTimer(b, RestartSync)), names)))
  <2> DEFINE s == SetTimer(b, RestartSync)
             y == ZeroSync(s)
  <2>1. Calms(m, b, s)
    BY <1>1, SetsTimer
  <2> HIDE DEF s
  <2>2. Basic(m, s)
    BY <2>1 DEF Calms
  <2>3. Calms(m, s, y) /\ y.icyc = 0
    BY <2>2, ZeroesSync
  <2> HIDE DEF y
  <2>4. Calms(m, b, y)
    BY <2>1, <2>3, CalmsTwice
  <2> QED
    BY <1>2, <2>3, <2>4 DEF s, y
<1>5. Idle(m, NoReadings(Halt(Zero(SetTimer(b, RestartAsync)), names)))
  <2> DEFINE s == SetTimer(b, RestartAsync)
             y == Zero(s)
  <2>1. Calms(m, b, s)
    BY <1>1, SetsTimer
  <2> HIDE DEF s
  <2>2. Basic(m, s)
    BY <2>1 DEF Calms
  <2>3. Calms(m, s, y) /\ y.icyc = 0
    BY <2>2, Zeroes
  <2> HIDE DEF y
  <2>4. Calms(m, b, y)
    BY <2>1, <2>3, CalmsTwice
  <2> QED
    BY <1>2, <2>3, <2>4 DEF s, y
<1> QED
  BY <1>3, <1>4, <1>5

(* STABLE counts the cycles without enough members; the last one ends it.      *)
LEMMA StableSyncEvalProceeds ==
  ASSUME NEW m \in Masters, NEW d, Basic(m, d), NEW h \in Histories, Following(d, h), d.st = "STABLE",
         NEW e \in Due(d), e.ev = "sync_eval", NEW h2, h2.unheard = h.unheard,
         h2.silence = IF h.heard THEN 0 ELSE h.silence + 1
  PROVE  Proceeds(m, d, StableSyncEval(Handled(d, e), e), h2)
<1> DEFINE v      == Evaluated(Handled(d, e))
           k      == Register(RegisterNext(v, "sync_eval"), "clock_corr")
           missed == IF k.counter < NumUnstable THEN [k EXCEPT !.counter = @ + 1] ELSE k
           clear  == [k EXCEPT !.counter = 0]
           lost   == Integrate(NoReadings(Halt(Zero(missed), DOMAIN SlotOf)))
           n      == StableSyncEval(Handled(d, e), e)
<1>1. /\ Basic(m, v) /\ v.clk = d.clk /\ v.st = d.st /\ v.counter = d.counter
      /\ v.asyncR = d.asyncR /\ v.asyncF = d.asyncF
      /\ None(v, "sync_eval") /\ None(v, "clock_corr")
      /\ v.sync \in 0 .. MaxMembership
      /\ h.heard \/ v.sync < Threshold(d.st)
      /\ h.unheard \subseteq d.asyncR /\ h.unheard \subseteq d.asyncF
      /\ d.clk = ReceivePit + Precision
      /\ CyclicOnTime(d, Early) /\ Same(d, v, Alarms \ {"sync_eval"})
  BY SyncEvaluated
<1>2. n = CASE k.sync >= StableThresholdSync -> clear
            [] k.sync < StableThresholdSync /\ missed.counter < NumUnstable -> missed
            [] OTHER -> lost
  BY DEF StableSyncEval
<1> HIDE DEF v
<1>3. Corrected(m, d, v, k)
  BY <1>1, CorrectionAhead
<1> HIDE DEF k
<1>4. Basic(m, k) /\ k.counter = d.counter /\ k.st = "STABLE" /\ k.sync = v.sync
  BY <1>1, <1>3 DEF Corrected, Data
<1>5. /\ d.counter \in 0 .. NumUnstable - 1 /\ h.silence <= d.counter /\ h.silence \in Nat
      /\ NumUnstable \in Nat \ {0} /\ StableThresholdSync \in Nat
  BY MasterAssumption DEF Following, Counts, Histories
<1>6. missed = [k EXCEPT !.counter = d.counter + 1]
  BY <1>4, <1>5
<1>7. /\ Changes(k, missed, {"counter", "st"}) /\ missed.counter = d.counter + 1 /\ missed.st = "STABLE"
      /\ Changes(k, clear, {"counter", "st"}) /\ clear.counter = 0 /\ clear.st = "STABLE"
  <2> HIDE DEF missed
  <2> QED
    BY <1>4, <1>6 DEF Basic, Device, FieldNames, Changes
<1> HIDE DEF missed, clear
<1>8. "STABLE" \in Synced /\ "STABLE" \in States
  BY DEF Synced, States
<1>9. ASSUME k.sync >= StableThresholdSync PROVE Proceeds(m, d, clear, h2)
  <2>1. h.heard = TRUE
    <3>1. Threshold(d.st) = StableThresholdSync
      BY DEF Threshold
    <3> QED
      BY <1>1, <1>4, <1>5, <1>9, <3>1, MasterAssumption DEF Histories
  <2>2. Counts(clear, h2)
    BY <1>5, <1>7, <2>1 DEF Counts
  <2>3. clear.st \in Synced
    BY <1>7, <1>8
  <2> QED
    BY <1>1, <1>3, <1>7, <2>2, <2>3, GoesOn
<1>10. ASSUME missed.counter < NumUnstable PROVE Proceeds(m, d, missed, h2)
  <2>1. Counts(missed, h2)
    BY <1>5, <1>7, <1>10 DEF Counts
  <2>2. missed.st \in Synced
    BY <1>7, <1>8
  <2> QED
    BY <1>1, <1>3, <1>7, <2>1, <2>2, GoesOn
<1>11. Proceeds(m, d, lost, h2)
  <2>1. Basic(m, missed)
    BY <1>4, <1>7, <1>8, SetsCounter
  <2>2. \A x \in DOMAIN SlotOf \ DOMAIN SlotOf : None(missed, x)
    OBVIOUS
  <2>3. Idle(m, NoReadings(Halt(Zero(missed), DOMAIN SlotOf)))
    BY <2>1, <2>2, LeavesCycle
  <2> QED
    BY <2>3, WaitStatesWait DEF Proceeds
<1> HIDE DEF lost, n
<1>12. Proceeds(m, d, n, h2)
  BY <1>2, <1>9, <1>10, <1>11
<1> QED
  BY <1>12 DEF n

(* SYNC ends with the first such cycle, and leads to STABLE after enough.      *)
LEMMA SyncSyncEvalProceeds ==
  ASSUME NEW m \in Masters, NEW d, Basic(m, d), NEW h \in Histories, Following(d, h), d.st = "SYNC",
         NEW e \in Due(d), e.ev = "sync_eval", NEW h2, h2.unheard = h.unheard,
         h2.silence = IF h.heard THEN 0 ELSE h.silence + 1
  PROVE  Proceeds(m, d, SyncSyncEval(Handled(d, e), e), h2)
<1> DEFINE v      == Evaluated(Handled(d, e))
           j      == Register(v, "clock_corr")
           k      == RegisterNext(j, "sync_eval")
           more   == Counted(k)
           up     == [k EXCEPT !.counter = 0, !.st = "STABLE"]
           idle   == NoReadings(Halt(ZeroSync(SetTimer(j, RestartSync)), DOMAIN SlotOf \ {"sync_eval"}))
           n      == SyncSyncEval(Handled(d, e), e)
<1>1. /\ Basic(m, v) /\ v.clk = d.clk /\ v.st = d.st /\ v.counter = d.counter
      /\ v.asyncR = d.asyncR /\ v.asyncF = d.asyncF
      /\ None(v, "sync_eval") /\ None(v, "clock_corr")
      /\ v.sync \in 0 .. MaxMembership
      /\ h.heard \/ v.sync < Threshold(d.st)
      /\ h.unheard \subseteq d.asyncR /\ h.unheard \subseteq d.asyncF
      /\ d.clk = ReceivePit + Precision
      /\ CyclicOnTime(d, Early) /\ Same(d, v, Alarms \ {"sync_eval"})
  BY SyncEvaluated
<1>2. n = CASE j.sync < SyncThresholdSync /\ j.sync > 0 -> Unsync(idle)
            [] j.sync < SyncThresholdSync /\ j.sync = 0 -> Integrate(idle)
            [] j.sync >= SyncThresholdSync /\ (~ToStableEnabled \/ j.counter < NumStable) -> more
            [] OTHER -> up
  BY DEF SyncSyncEval
<1> HIDE DEF v
<1>3. Corrected(m, d, v, k) /\ Basic(m, j) /\ None(j, "sync_eval")
  BY <1>1, CorrectionAhead
<1>4. j.sync = v.sync
  <2>1. "clock_corr" \in DOMAIN SlotOf
    BY SlotNames
  <2>2. Data(v, RegisterAction(v, "clock_corr", FALSE))
    BY <1>1, <2>1, Registers
  <2> QED
    BY <2>2 DEF Register, Data
<1> HIDE DEF j
<1> HIDE DEF k
<1>5. Basic(m, k) /\ k.counter = d.counter /\ k.st = "SYNC"
  BY <1>1, <1>3 DEF Corrected, Data
<1>6. /\ d.counter \in 0 .. NumStable /\ h.silence = 0
      /\ NumUnstable \in Nat \ {0} /\ NumStable \in Nat /\ SyncThresholdSync \in Nat \ {0}
  BY MasterAssumption DEF Following, Counts, Histories
<1>7. /\ Changes(k, more, {"counter", "st"}) /\ more.st = "SYNC"
      /\ more.counter = IF k.counter < NumStable THEN k.counter + 1 ELSE k.counter
  BY <1>5 DEF Counted, Basic, Device, FieldNames, Changes
<1>8. Changes(k, up, {"counter", "st"}) /\ up.counter = 0 /\ up.st = "STABLE"
  BY <1>5 DEF Basic, Device, FieldNames, Changes
<1> HIDE DEF more, up
<1>9. ASSUME j.sync >= SyncThresholdSync PROVE Proceeds(m, d, more, h2) /\ Proceeds(m, d, up, h2)
  <2>1. h.heard = TRUE
    <3>1. Threshold(d.st) = SyncThresholdSync
      BY DEF Threshold
    <3> QED
      BY <1>1, <1>4, <1>6, <1>9, <3>1, MasterAssumption DEF Histories
  <2>2. h2.silence = 0
    BY <2>1
  <2>3. more.counter \in 0 .. NumStable /\ up.counter \in 0 .. NumUnstable - 1 /\ h2.silence <= up.counter
    BY <1>5, <1>6, <1>7, <1>8, <2>2
  <2>4. Counts(more, h2) /\ Counts(up, h2)
    BY <1>7, <1>8, <2>2, <2>3 DEF Counts
  <2>5. more.st \in Synced /\ up.st \in Synced
    BY <1>7, <1>8 DEF Synced
  <2>6. Proceeds(m, d, more, h2)
    BY <1>1, <1>3, <1>7, <2>4, <2>5, GoesOn
  <2>7. Proceeds(m, d, up, h2)
    BY <1>1, <1>3, <1>8, <2>4, <2>5, GoesOn
  <2> QED
    BY <2>6, <2>7
<1>10. Waits(m, Unsync(idle)) /\ Waits(m, Integrate(idle))
  <2>1. \A x \in DOMAIN SlotOf \ (DOMAIN SlotOf \ {"sync_eval"}) : None(j, x)
    BY <1>3
  <2>2. Idle(m, idle)
    BY <1>3, <2>1, LeavesCycle
  <2> HIDE DEF idle
  <2> QED
    BY <2>2, WaitStatesWait
<1> HIDE DEF idle, n
<1>11. j.sync \in Nat /\ SyncThresholdSync \in Int
  BY <1>1, <1>4, <1>6, MasterAssumption
<1>12. Proceeds(m, d, n, h2)
  <2>1. CASE j.sync < SyncThresholdSync /\ j.sync > 0
    <3>1. n = Unsync(idle)
      BY <1>2, <1>11, <2>1
    <3> QED
      BY <1>10, <3>1 DEF Proceeds
  <2>2. CASE j.sync < SyncThresholdSync /\ j.sync = 0
    <3>1. n = Integrate(idle)
      BY <1>2, <1>11, <2>2
    <3> QED
      BY <1>10, <3>1 DEF Proceeds
  <2>3. CASE j.sync >= SyncThresholdSync
    <3>1. ~(j.sync < SyncThresholdSync)
      BY <1>11, <2>3
    <3>2. n = more \/ n = up
      BY <1>2, <2>3, <3>1
    <3> QED
      BY <1>9, <2>3, <3>2
  <2> QED
    BY <1>11, <2>1, <2>2, <2>3
<1> QED
  BY <1>12 DEF n

(* TENTATIVE_SYNC ends with the first such cycle, and leads to SYNC.           *)
LEMMA TentativeSyncEvalProceeds ==
  ASSUME NEW m \in Masters, NEW d, Basic(m, d), NEW h \in Histories, Following(d, h), d.st = "TENTATIVE_SYNC",
         NEW e \in Due(d), e.ev = "sync_eval", NEW h2, h2.unheard = h.unheard,
         h2.silence = IF h.heard THEN 0 ELSE h.silence + 1
  PROVE  Proceeds(m, d, TentativeSyncEval(Handled(d, e), e), h2)
<1> DEFINE v      == Evaluated(Handled(d, e))
           k      == Register(RegisterNext(v, "sync_eval"), "clock_corr")
           more   == Counted(k)
           up     == [k EXCEPT !.counter = 0, !.st = "SYNC"]
           names  == {"async_eval", "inc", "async_up"}
           idle   == NoReadings(Halt(Zero(SetTimer(v, RestartAsync)), names))
           n      == TentativeSyncEval(Handled(d, e), e)
<1>1. /\ Basic(m, v) /\ v.clk = d.clk /\ v.st = d.st /\ v.counter = d.counter
      /\ v.asyncR = d.asyncR /\ v.asyncF = d.asyncF
      /\ None(v, "sync_eval") /\ None(v, "clock_corr")
      /\ v.sync \in 0 .. MaxMembership
      /\ h.heard \/ v.sync < Threshold(d.st)
      /\ h.unheard \subseteq d.asyncR /\ h.unheard \subseteq d.asyncF
      /\ d.clk = ReceivePit + Precision
      /\ CyclicOnTime(d, Early) /\ Same(d, v, Alarms \ {"sync_eval"})
  BY SyncEvaluated
<1>2. n = CASE v.sync < TentativeThresholdSync -> Unsync(idle)
            [] v.sync >= TentativeThresholdSync /\ v.sync < TentativeToSync -> more
            [] OTHER -> up
  BY DEF TentativeSyncEval
<1> HIDE DEF v
<1>3. Corrected(m, d, v, k)
  BY <1>1, CorrectionAhead
<1> HIDE DEF k
<1>5. Basic(m, k) /\ k.counter = d.counter /\ k.st = "TENTATIVE_SYNC"
  BY <1>1, <1>3 DEF Corrected, Data
<1>6. /\ d.counter \in 0 .. NumStable /\ h.silence = 0
      /\ NumStable \in Nat /\ TentativeThresholdSync \in Nat \ {0} /\ TentativeToSync \in Int
  BY MasterAssumption DEF Following, Counts, Histories
<1>7. /\ Changes(k, more, {"counter", "st"}) /\ more.st = "TENTATIVE_SYNC"
      /\ more.counter = IF k.counter < NumStable THEN k.counter + 1 ELSE k.counter
  BY <1>5 DEF Counted, Basic, Device, FieldNames, Changes
<1>8. Changes(k, up, {"counter", "st"}) /\ up.counter = 0 /\ up.st = "SYNC"
  BY <1>5 DEF Basic, Device, FieldNames, Changes
<1> HIDE DEF more, up
<1>9. ASSUME v.sync >= TentativeThresholdSync PROVE Proceeds(m, d, more, h2) /\ Proceeds(m, d, up, h2)
  <2>1. h.heard = TRUE
    <3>1. Threshold(d.st) = TentativeThresholdSync
      BY DEF Threshold
    <3> QED
      BY <1>1, <1>6, <1>9, <3>1, MasterAssumption DEF Histories
  <2>2. h2.silence = 0
    BY <2>1
  <2>3. more.counter \in 0 .. NumStable /\ up.counter \in 0 .. NumStable
    BY <1>5, <1>6, <1>7, <1>8
  <2>4. Counts(more, h2) /\ Counts(up, h2)
    BY <1>7, <1>8, <2>2, <2>3 DEF Counts
  <2>5. more.st \in Synced /\ up.st \in Synced
    BY <1>7, <1>8 DEF Synced
  <2>6. Proceeds(m, d, more, h2)
    BY <1>1, <1>3, <1>7, <2>4, <2>5, GoesOn
  <2>7. Proceeds(m, d, up, h2)
    BY <1>1, <1>3, <1>8, <2>4, <2>5, GoesOn
  <2> QED
    BY <2>6, <2>7
<1>10. Waits(m, Unsync(idle))
  <2>1. names \in SUBSET DOMAIN SlotOf /\ DOMAIN SlotOf \ names = {"sync_eval", "clock_corr"}
    BY SlotNames
  <2>2. \A x \in DOMAIN SlotOf \ names : None(v, x)
    BY <1>1, <2>1
  <2> HIDE DEF names
  <2>3. Idle(m, idle)
    BY <1>1, <2>1, <2>2, LeavesCycle
  <2> HIDE DEF idle
  <2> QED
    BY <2>3, WaitStatesWait
<1> HIDE DEF names, idle, n
<1>11. v.sync \in Int
  BY <1>1, MasterAssumption
<1>12. Proceeds(m, d, n, h2)
  BY <1>2, <1>6, <1>9, <1>10, <1>11 DEF Proceeds
<1> QED
  BY <1>12 DEF n

(* A port has one reading at most, so there are finitely many.                 *)
LEMMA FiniteStack ==
  ASSUME NEW m, NEW d, Basic(m, d)
  PROVE  IsFiniteSet(d.stack)
<1> DEFINE f == [x \in d.stack |-> x.port]
<1>1. f \in Injection(d.stack, Ports)
  BY DEF Basic, Readings, Injection, IsInjective
<1> HIDE DEF f
<1> QED
  BY <1>1, MasterAssumption, FS_Injection

(* clock_corr: the clock moves by the deviation of this cycle's readings.      *)
LEMMA ClockCorrProceeds ==
  ASSUME NEW m, NEW d, Basic(m, d), NEW h, Following(d, h), NEW e \in Due(d), e.ev = "clock_corr"
  PROVE  Proceeds(m, d, ClockCorr(Handled(d, e), e), h)
<1> DEFINE t == Handled(d, e)
           c == Deviation(t.stack)
           x == ClockCorrection(t, c)
           z == [x EXCEPT !.stack = {}]
           n == ClockCorr(t, e)
<1>0. n = IF t.stack = {} THEN t ELSE z
  BY DEF ClockCorr
<1>1. PICK done \in Phases : InPhase(d, done, h)
  BY DEF Following
<1>2. /\ HalfWindow \in Int /\ HalfWindow > 0 /\ HalfWindow <= Precision
      /\ Precision \in Int /\ Precision > 0 /\ AcceptanceWindow \in Int /\ AcceptanceWindow > 0
      /\ ReceivePit \in Int /\ Cycle \in Int /\ Precision < ReceivePit
      /\ ReceivePit + 2 * Precision + HalfWindow + 1 <= Cycle - AcceptanceWindow
  BY SlotTimes
<1>3. /\ Basic(m, t) /\ Data(d, t) /\ t.clk = d.clk
      /\ Same(d, t, Alarms \ {"clock_corr"})
      /\ \A left : Only(d, "clock_corr", left) => None(t, "clock_corr") /\ left = 0
  BY HandledEffect
<1>4. Correcting(d, done)
  <2>1. ~None(d, "clock_corr")
    BY DEF Due, None, Named
  <2> QED
    BY <1>1, <2>1 DEF OnTime, InPhase
<1>5. done = Evaluation /\ None(t, "clock_corr") /\ d.clk = ReceivePit + 2 * Precision + 1
  <2>1. done = Evaluation /\ None(t, "clock_corr") /\ SlotOf["clock_corr"] - d.clk = 0
    BY <1>3, <1>4 DEF Correcting
  <2>2. d.clk \in Int
    BY <1>2 DEF Basic
  <2> QED
    BY <1>2, <2>1, <2>2, SlotValues
<1> HIDE DEF t
<1>6. /\ Cyclic \subseteq Alarms \ {"clock_corr"}
      /\ "clock_corr" \in DOMAIN SlotOf /\ Cyclic \subseteq DOMAIN SlotOf
  BY SlotNames DEF Alarms, Cyclic
<1>7. ASSUME NEW y \in Cyclic PROVE Ahead(t, y, done) \in Nat /\ Only(t, y, Ahead(t, y, done))
  <2>1. y \in Alarms \ {"clock_corr"} /\ Ahead(t, y, done) = Ahead(d, y, done)
    BY <1>3, <1>6 DEF Ahead
  <2>2. Ahead(d, y, done) \in Nat /\ Only(d, y, Ahead(d, y, done))
    BY <1>1 DEF OnTime, CyclicOnTime, InPhase
  <2> QED
    BY <1>3, <2>1, <2>2, SameAlarm
<1>8. h.unheard \subseteq d.asyncR /\ h.unheard \subseteq d.asyncF
  BY <1>1, <1>5 DEF Remembers, Evaluation, Cyclic, InPhase
<1>9. ASSUME NEW y, Basic(m, y), None(y, "clock_corr"), CyclicOnTime(y, Evaluation),
             y.asyncR = d.asyncR, y.asyncF = d.asyncF, y.stack = {}, y.st = d.st, y.counter = d.counter,
             y.sync = d.sync, y.clk > ReceivePit + HalfWindow
      PROVE  Following(y, h)
  <2>1. OnTime(y, Evaluation)
    BY <1>9 DEF OnTime
  <2>2. Remembers(y, Evaluation, h)
    BY <1>8, <1>9 DEF Remembers, AsyncMembers
  <2>3. Evaluation \in Phases /\ Swept(y, Evaluation)
    BY <1>9 DEF Evaluation, Phases, Swept
  <2>4. Counts(y, h)
    BY <1>9 DEF Following, Counts
  <2> QED
    BY <1>9, <2>1, <2>2, <2>3, <2>4 DEF Following, InPhase
<1>10. CASE t.stack = {}
  <2>1. t.clk > ReceivePit + HalfWindow
    BY <1>2, <1>3, <1>5
  <2>2. Following(t, h)
    BY <1>3, <1>5, <1>7, <1>9, <1>10, <2>1 DEF Data, CyclicOnTime
  <2>3. Small(d.clk, t.clk)
    <3>1. d.clk \in Int
      BY <1>2, <1>5
    <3> QED
      BY <1>3, <3>1, SmallStay
  <2>4. n = t
    BY <1>0, <1>10
  <2> HIDE DEF n
  <2> QED
    BY <1>3, <2>2, <2>3, <2>4 DEF Proceeds, t, n
<1>11. CASE t.stack # {}
  <2>1. c \in -HalfWindow .. HalfWindow
    <3>1. t.stack \in SUBSET Readings /\ IsFiniteSet(t.stack)
      BY <1>3, FiniteStack DEF Basic
    <3> QED
      BY <1>11, <3>1, DeviationWithinWindow
  <2> HIDE DEF c
  <2>2. c \in Int /\ -HalfWindow <= c /\ c <= HalfWindow
    BY <1>2, <2>1
  <2>3. /\ Basic(m, x) /\ Data(t, x) /\ x.clk = (t.clk - c) % Cycle
        /\ \A y \in DOMAIN SlotOf : None(t, y) => None(x, y)
        /\ \A y \in DOMAIN SlotOf : \A left : Only(t, y, left) => Only(x, y, Larger(0, left + c))
    BY <1>3, <2>2, Corrects
  <2>4. x.clk = d.clk - c
    <3>1. d.clk - c \in 0 .. Cycle - 1 /\ Cycle \in Nat \ {0}
      BY <1>2, <1>5, <2>2
    <3> QED
      BY <1>3, <2>3, <3>1, SmallRemainder
  <2> HIDE DEF x
  <2>5. Small(d.clk, x.clk)
    <3>1. d.clk \in Int
      BY <1>2, <1>5
    <3>2. Small(d.clk, d.clk - c)
      BY <2>1, <3>1, SmallMove
    <3> QED
      BY <2>4, <3>2
  <2>6. ASSUME NEW y \in Cyclic
        PROVE  Ahead(x, y, done) \in Nat /\ Only(x, y, Ahead(x, y, done))
    <3> DEFINE left == Ahead(t, y, done)
    <3>1. left \in Nat /\ Only(t, y, left)
      BY <1>7
    <3>2. left >= HalfWindow
      <4>1. y = "async_up" \/ (y \in done /\ SlotOf[y] \in Int /\ SlotOf[y] >= 0)
        BY <1>2, <1>5, SlotValues DEF Evaluation, Cyclic
      <4>2. CASE y = "async_up"
        <5>1. y \notin done
          BY <1>5, <4>2 DEF Evaluation
        <5> QED
          BY <1>2, <1>3, <1>5, <4>2, <5>1, SlotValues DEF Ahead
      <4>3. CASE y \in done /\ SlotOf[y] \in Int /\ SlotOf[y] >= 0
        BY <1>2, <1>3, <1>5, <4>3 DEF Ahead
      <4> QED
        BY <4>1, <4>2, <4>3
    <3>3. Ahead(x, y, done) = left + c
      <4>1. SlotOf[y] \in Int
        BY <1>6, SlotNames
      <4> QED
        BY <1>2, <1>3, <1>5, <2>2, <2>4, <4>1 DEF Ahead
    <3> HIDE DEF left
    <3>4. left + c \in Nat /\ Larger(0, left + c) = left + c
      BY <1>2, <2>2, <3>1, <3>2 DEF Larger
    <3>5. y \in DOMAIN SlotOf
      BY <1>6
    <3> QED
      BY <2>3, <3>1, <3>3, <3>4, <3>5
  <2>7. CyclicOnTime(x, Evaluation) /\ None(x, "clock_corr")
    <3>1. None(x, "clock_corr")
      BY <1>5, <1>6, <2>3
    <3> QED
      BY <1>5, <2>6, <3>1 DEF CyclicOnTime
  <2>8. Changes(x, z, {"stack"}) /\ z.stack = {}
    <3>1. Basic(m, x)
      BY <2>3
    <3> QED
      BY ONLY <3>1 DEF Basic, Device, FieldNames, Changes
  <2> HIDE DEF z
  <2>9. /\ z.st = x.st /\ z.clk = x.clk /\ z.pend = x.pend /\ z.icyc = x.icyc /\ z.sync = x.sync
        /\ z.asyncR = x.asyncR /\ z.asyncF = x.asyncF /\ z.counter = x.counter /\ z.timer = x.timer
        /\ z.floodReceive = x.floodReceive /\ z.closedWindow = x.closedWindow
    BY <2>8 DEF Changes, FieldNames
  <2>10. Device(z) /\ PendOK(z) /\ \A all : Same(x, z, all)
    BY <2>3, <2>8, OtherFields
  <2>11. Basic(m, z)
    BY <2>3, <2>8, <2>9, <2>10 DEF Basic
  <2>12. CyclicOnTime(z, Evaluation) /\ None(z, "clock_corr")
    BY <2>7, <2>9 DEF CyclicOnTime, Ahead, Only, None, Named
  <2>13. z.clk > ReceivePit + HalfWindow
    BY <1>2, <1>5, <2>2, <2>4, <2>9
  <2>14. Following(z, h)
    BY <1>3, <1>9, <2>3, <2>8, <2>9, <2>11, <2>12, <2>13 DEF Data
  <2>15. n = z
    BY <1>0, <1>11
  <2> HIDE DEF n
  <2> QED
    BY <2>5, <2>9, <2>11, <2>14, <2>15 DEF Proceeds, t, n
<1> QED
  BY <1>10, <1>11

(* What changes neither the data nor the events of the cycle keeps it.         *)
LEMMA FollowingKept ==
  ASSUME NEW d, NEW n, NEW h, n.clk = d.clk, Data(d, n), Same(d, n, DOMAIN SlotOf), Following(d, h)
  PROVE  Following(n, h)
<1>1. PICK done \in Phases : InPhase(d, done, h)
  BY DEF Following
<1>2. OnTime(n, done)
  BY <1>1, OnTimeKept DEF InPhase
<1>3. None(n, "clock_corr") <=> None(d, "clock_corr")
  <2>1. "clock_corr" \in DOMAIN SlotOf
    BY SlotNames
  <2> QED
    BY <2>1, SameAlarm
<1>4. Remembers(n, done, h)
  BY <1>1, <1>3 DEF Remembers, Data, AsyncMembers, InPhase
<1>5. n.st # "TENTATIVE_SYNC" => Swept(n, done)
  BY <1>1, <1>3 DEF Swept, Data, InPhase
<1>6. n.st \in Synced /\ Counts(n, h) /\ (n.st # "TENTATIVE_SYNC" => n.sync <= MaxMembership)
  BY DEF Following, Counts, Data
<1> QED
  BY <1>1, <1>2, <1>4, <1>5, <1>6 DEF Following, InPhase

(* A frame, or the timer, is none of the events of the cycle.                  *)
LEMMA HandledFollows ==
  ASSUME NEW m, NEW d, Basic(m, d), NEW h, Following(d, h), NEW e \in Due(d), e.ev \in Kinds \union {"ASYNCHRON"}
  PROVE  LET n == Handled(d, e) IN
         /\ Basic(m, n) /\ Data(d, n) /\ n.clk = d.clk /\ Following(n, h) /\ Proceeds(m, d, n, h)
         /\ Same(d, n, DOMAIN SlotOf)
<1> DEFINE n == Handled(d, e)
<1>1. /\ Basic(m, n) /\ Data(d, n) /\ n.clk = d.clk
      /\ Same(d, n, Alarms \ {e.ev})
  BY HandledEffect
<1>2. DOMAIN SlotOf \subseteq Alarms \ {e.ev}
  BY SlotNames DEF Alarms, Kinds
<1> HIDE DEF n
<1>3. Same(d, n, DOMAIN SlotOf)
  BY <1>1, <1>2 DEF Same
<1>4. Following(n, h)
  BY <1>1, <1>3, FollowingKept
<1>5. Small(d.clk, n.clk)
  <2>1. d.clk \in Int
    BY SlotTimes DEF Basic
  <2> QED
    BY <1>1, <2>1, SmallStay
<1> QED
  BY <1>1, <1>3, <1>4, <1>5 DEF n, Proceeds

(* A CA frame: the master waits for the start of the cycle.                    *)
LEMMA FollowCaWaits ==
  ASSUME NEW m \in Masters, NEW d, Basic(m, d), NEW mask \in 0 .. LargestSync(m)
  PROVE  Waits(m, FollowCa(d, mask))
<1> DEFINE z == ClockZero(d)
           s == SetTimer(z, CaOffset)
           q == Halt(s, DOMAIN SlotOf)
           r == NoReadings(q)
           n == [r EXCEPT !.icyc = 0, !.sync = mask]
<1>0. FollowCa(d, mask) = WaitCs(n)
  BY DEF FollowCa
<1>1. Basic(m, z)
  BY ZeroesClock DEF Calms
<1> HIDE DEF z
<1>2. Basic(m, s)
  BY <1>1, Timeouts, SetsTimer DEF Calms
<1> HIDE DEF s
<1>3. Basic(m, q) /\ q.counter = 0 /\ \A x \in DOMAIN SlotOf : None(q, x)
  BY <1>2, Halts DEF Calms
<1> HIDE DEF q
<1>4. Basic(m, r) /\ r.counter = 0 /\ r.stack = {} /\ \A x \in DOMAIN SlotOf : None(r, x)
  <2>1. Calms(m, q, r) /\ r.stack = {} /\ r.counter = q.counter
    BY <1>3, ClearsReadings
  <2> QED
    BY <1>3, <2>1 DEF Calms
<1> HIDE DEF r
<1>5. Changes(r, n, {"icyc", "sync"}) /\ n.icyc = 0 /\ n.sync = mask
  BY <1>4 DEF Basic, Device, FieldNames, Changes
<1> HIDE DEF n
<1>6. Idle(m, n)
  <2>1. Calms(m, r, n)
    BY <1>4, <1>5, CalmIcycAndSync
  <2>2. 0 < MaxIcys
    BY MasterAssumption
  <2> QED
    BY <1>4, <1>5, <2>1, <2>2 DEF Calms, Idle
<1> QED
  BY <1>0, <1>6, WaitStatesWait

LEMMA CaProceeds ==
  ASSUME NEW m \in Masters, NEW d, Basic(m, d), NEW h, Following(d, h), NEW e \in Due(d), e.ev = "CA"
  PROVE  LET t == Handled(d, e) IN
         /\ d.st = "SYNC" => Proceeds(m, d, SyncCa(t, m), h)
         /\ d.st = "STABLE" => Proceeds(m, d, StableCa(t, m), h)
         /\ d.st = "TENTATIVE_SYNC" => Proceeds(m, d, TentativeCa(t, m), h)
<1> DEFINE t == Handled(d, e)
           w == NoAsync(t)
<1>1. Basic(m, t) /\ t.sync = d.sync /\ Proceeds(m, d, t, h)
  <2>1. e.ev \in Kinds \union {"ASYNCHRON"}
    BY DEF Kinds
  <2> QED
    BY <2>1, HandledFollows DEF Data
<1> HIDE DEF t
<1>2. Basic(m, w)
  BY <1>1, ClearsAsync DEF Calms
<1>3. d.st # "TENTATIVE_SYNC" => WithBit(t.sync, m) \in 0 .. LargestSync(m)
  <2> SUFFICES ASSUME d.st # "TENTATIVE_SYNC" PROVE WithBit(t.sync, m) \in 0 .. LargestSync(m)
    OBVIOUS
  <2>1. d.sync <= MaxMembership /\ d.sync \in 0 .. LargestSync(m)
    BY DEF Following, Basic
  <2>2. t.sync \in 0 .. MaxMembership
    BY <1>1, <2>1, SyncRange
  <2> QED
    BY <2>2, SyncRange
<1>4. d.st = "SYNC" => Proceeds(m, d, SyncCa(t, m), h)
  BY <1>1, <1>3, FollowCaWaits DEF SyncCa, Proceeds
<1>5. d.st = "STABLE" => Proceeds(m, d, StableCa(t, m), h)
  <2> SUFFICES ASSUME d.st = "STABLE" PROVE Proceeds(m, d, StableCa(t, m), h)
    OBVIOUS
  <2>1. StableCa(t, m) = IF StableCaEnabled THEN FollowCa(w, WithBit(t.sync, m)) ELSE t
    BY DEF StableCa
  <2> HIDE DEF w
  <2>2. Waits(m, FollowCa(w, WithBit(t.sync, m)))
    BY <1>2, <1>3, FollowCaWaits
  <2> QED
    BY <1>1, <2>1, <2>2 DEF Proceeds
<1>6. d.st = "TENTATIVE_SYNC" => Proceeds(m, d, TentativeCa(t, m), h)
  <2>1. TentativeCa(t, m) = FollowCa(w, WithBit(0, m))
    BY DEF TentativeCa
  <2> HIDE DEF w
  <2> QED
    BY <1>2, <2>1, SyncRange, FollowCaWaits DEF Proceeds
<1> QED
  BY <1>4, <1>5, <1>6 DEF t

LEMMA IgnoreProceeds ==
  ASSUME NEW m, NEW d, Basic(m, d), NEW h, Following(d, h), NEW e \in Due(d), e.ev \in {"CS", "ASYNCHRON"}
  PROVE  Proceeds(m, d, Ignore(Handled(d, e), e), h)
<1>1. e.ev \in Kinds \union {"ASYNCHRON"}
  BY DEF Kinds
<1> QED
  BY <1>1, HandledFollows DEF Ignore
------------------------------------------------------------------------------
(* Frames.                                                                     *)

(* A port keeps one reading.                                                   *)
LEMMA KeptReadings ==
  ASSUME NEW stack \in SUBSET Readings, \A x, y \in stack : x.port = y.port => x = y, NEW r \in Readings
  PROVE  /\ Kept(stack, r) \subseteq Readings
         /\ \A x, y \in Kept(stack, r) : x.port = y.port => x = y
         /\ Kept(stack, r) \subseteq stack \union {r}
<1> DEFINE old == {o \in stack : o.port = r.port}
<1>1. Kept(stack, r) = stack \/ Kept(stack, r) = (stack \ old) \union {r}
  BY DEF Kept
<1>2. \A x \in stack \ old : x.port # r.port
  OBVIOUS
<1> HIDE DEF old
<1> QED
  BY <1>1, <1>2

(* The members of a frame can be counted.                                     *)
LEMMA FrameTypes ==
  ASSUME NEW f \in Frames
  PROVE  /\ f.port \in Ports /\ f.icyc \in 0 .. MaxIcys - 1 /\ f.members \subseteq UNION Memberships
         /\ Cardinality(f.members) \in 0 .. MaxMembership
<1>1. f.port \in Ports /\ f.icyc \in 0 .. MaxIcys - 1 /\ f.members \in Memberships \union {{}}
  BY DEF Frames
<1>2. f.members \subseteq UNION Memberships
  BY <1>1
<1>3. IsFiniteSet(f.members)
  BY <1>2, MasterAssumption, FS_Subset
<1>4. Cardinality(f.members) \in Nat /\ Cardinality(f.members) <= MaxMembership
  <2>1. CASE f.members \in Memberships
    BY <1>3, <2>1, MasterAssumption, FS_CardinalityType
  <2>2. CASE f.members = {}
    <3>1. Cardinality(f.members) = 0
      BY <2>2, FS_EmptySet
    <3> QED
      BY <3>1, MasterAssumption
  <2> QED
    BY <1>1, <2>1, <2>2
<1> QED
  BY <1>1, <1>2, <1>4, MasterAssumption

(* The frame that is handled and noted leaves the alarms alone.                *)
LEMMA FrameTaken ==
  ASSUME NEW m, NEW d, Basic(m, d), NEW f \in Due(d), f.ev = "IN_FRAME"
  PROVE  LET t     == Handled(d, f)
             noted == Erased(Deleted(t, f), 0)
         IN /\ f \in Frames /\ Basic(m, t) /\ Data(d, t) /\ t.clk = d.clk
            /\ Basic(m, noted) /\ Data(d, noted) /\ noted.clk = d.clk /\ Same(d, noted, DOMAIN SlotOf)
<1> DEFINE t     == Handled(d, f)
           noted == Erased(Deleted(t, f), 0)
<1>1. /\ Basic(m, t) /\ Data(d, t) /\ t.clk = d.clk
      /\ Same(d, t, Alarms \ {"IN_FRAME"})
      /\ f \in Frames
  BY HandledEffect DEF Kinds
<1>2. DOMAIN SlotOf \subseteq Alarms \ {"IN_FRAME"} /\ DOMAIN SlotOf \subseteq Alarms
  BY SlotNames DEF Alarms
<1> HIDE DEF t
<1>3. Basic(m, noted) /\ Data(t, noted) /\ noted.clk = t.clk /\ Same(t, noted, Alarms)
  BY <1>1, Deletes
<1> HIDE DEF noted
<1> QED
  BY <1>1, <1>2, <1>3 DEF Data, Same, noted, t

(* A frame on schedule comes when no reading has been swept yet.               *)
LEMMA NotSwept ==
  ASSUME NEW m, NEW d, Basic(m, d), NEW done \in Phases, OnTime(d, done), InSchedule(d), Swept(d, done)
  PROVE  done # {} /\ done # Cyclic /\ ~(done = Evaluation /\ None(d, "clock_corr"))
<1>1. /\ d.clk >= ReceivePit - HalfWindow /\ d.clk <= ReceivePit + HalfWindow /\ d.clk \in Int
      /\ ReceivePit - HalfWindow > 0 /\ ReceivePit + HalfWindow \in Int
  BY SlotTimes DEF InSchedule, Basic, HalfWindow
<1>2. done # {}
  <2> SUFFICES ASSUME done = {} PROVE FALSE
    OBVIOUS
  <2>1. Ahead(d, "async_eval", done) \in Nat
    BY DEF OnTime, CyclicOnTime, Cyclic
  <2>2. Ahead(d, "async_eval", done) = 0 - d.clk
    BY <1>1, SlotValues DEF Ahead
  <2>3. d.clk > 0
    BY <1>1, SlotTimes
  <2>4. 0 - d.clk \in Nat
    BY <2>1, <2>2
  <2> QED
    BY ONLY <1>1, <2>3, <2>4
<1> QED
  BY <1>1, <1>2 DEF Swept

(* A permanent frame adds a reading or members out of schedule.               *)
LEMMA InFrameProceeds ==
  ASSUME NEW m, NEW d, Basic(m, d), NEW h \in Histories, Following(d, h),
         NEW f \in Due(d), f.ev = "IN_FRAME", NEW h2, h2.silence = h.silence,
         IF ~OnSchedule(d, f)
           THEN h2.unheard = h.unheard \union f.members /\ h2.heard = h.heard
           ELSE /\ h2.unheard = h.unheard
                /\ h2.heard = (h.heard \/ (/\ Accepted(Cardinality(f.members))
                                          /\ Cardinality(f.members) >= Threshold(d.st)))
  PROVE  /\ Proceeds(m, d, InFrame(Handled(d, f), f), h2)
         /\ f.members \subseteq UNION Memberships
<1> DEFINE t      == Handled(d, f)
           noted  == Erased(Deleted(t, f), 0)
           count  == Cardinality(f.members)
           r      == Reading(f, count, t.clk)
           read   == [noted EXCEPT !.stack = Kept(@, r)]
           missed == [noted EXCEPT !.asyncF = @ \union f.members, !.asyncR = @ \union f.members]
           n      == InFrame(t, f)
<1>0. n = IF OnSchedule(t, f) THEN IF Accepted(count) THEN read ELSE noted ELSE missed
  BY DEF InFrame
<1>1. PICK done \in Phases : InPhase(d, done, h)
  BY DEF Following
<1>2. /\ f \in Frames /\ Basic(m, t) /\ Data(d, t) /\ t.clk = d.clk
      /\ Basic(m, noted) /\ Data(d, noted) /\ noted.clk = d.clk /\ Same(d, noted, DOMAIN SlotOf)
  BY FrameTaken
<1>3. OnSchedule(t, f) <=> OnSchedule(d, f)
  BY <1>2 DEF OnSchedule, InSchedule, Data
<1> HIDE DEF t, noted
<1>4. count \in 0 .. MaxMembership /\ f.port \in Ports /\ f.members \subseteq UNION Memberships
  BY <1>2, FrameTypes
<1>5. ASSUME NEW x, Basic(m, x), x.clk = d.clk, Same(d, x, DOMAIN SlotOf), Remembers(x, done, h2),
             x.st = d.st, x.counter = d.counter, x.sync = d.sync,
             d.st # "TENTATIVE_SYNC" => Swept(x, done)
      PROVE  Proceeds(m, d, x, h2)
  <2>1. OnTime(x, done)
    BY <1>1, <1>5, OnTimeKept DEF InPhase
  <2>2. Counts(x, h2)
    BY <1>5 DEF Following, Counts
  <2>3. Following(x, h2)
    BY <1>5, <2>1, <2>2 DEF Following, InPhase
  <2>4. Small(d.clk, x.clk)
    <3>1. d.clk \in Int
      BY SlotTimes DEF Basic
    <3> QED
      BY <1>5, <3>1, SmallStay
  <2> QED
    BY <1>5, <2>3, <2>4 DEF Proceeds
<1>6. "clock_corr" \in DOMAIN SlotOf
  BY SlotNames
<1>7. CASE OnSchedule(d, f) /\ Accepted(count)
  <2>1. r \in Readings
    <3>1. t.clk \in ReceivePit - HalfWindow .. ReceivePit + HalfWindow
      BY <1>3, <1>7 DEF OnSchedule, InSchedule, HalfWindow
    <3> QED
      BY <1>4, <3>1 DEF Reading, Readings
  <2>2. r.count = count
    BY DEF Reading
  <2> HIDE DEF r
  <2>3. Changes(noted, read, {"stack"}) /\ read.stack = Kept(noted.stack, r)
    BY <1>2 DEF Basic, Device, FieldNames, Changes
  <2> HIDE DEF read
  <2>4. /\ read.st = noted.st /\ read.clk = noted.clk /\ read.pend = noted.pend /\ read.icyc = noted.icyc
        /\ read.sync = noted.sync /\ read.asyncR = noted.asyncR /\ read.asyncF = noted.asyncF
        /\ read.counter = noted.counter /\ read.timer = noted.timer
        /\ read.floodReceive = noted.floodReceive /\ read.closedWindow = noted.closedWindow
    BY <2>3 DEF FieldNames, Changes
  <2>5. Device(read) /\ PendOK(read) /\ \A all : Same(noted, read, all)
    BY <1>2, <2>3, OtherFields
  <2>6. /\ read.stack \subseteq Readings /\ read.stack \subseteq d.stack \union {r}
        /\ \A x, y \in read.stack : x.port = y.port => x = y
    BY <1>2, <2>1, <2>3, KeptReadings DEF Basic, Data
  <2>7. Basic(m, read)
    BY <1>2, <2>4, <2>5, <2>6 DEF Basic
  <2>8. Same(d, read, DOMAIN SlotOf)
    BY <1>2, <2>5 DEF Same
  <2>9. AsyncMembers(read) = AsyncMembers(d) /\ read.asyncR = d.asyncR /\ read.asyncF = d.asyncF
        /\ read.st = d.st /\ read.clk = d.clk /\ read.counter = d.counter /\ read.sync = d.sync
    BY <1>2, <2>4 DEF Data, AsyncMembers
  <2>10. None(read, "clock_corr") => h2.heard \/ \A x \in read.stack : x.count < Threshold(read.st)
    <3> SUFFICES ASSUME None(read, "clock_corr"), ~h2.heard
                 PROVE  \A x \in read.stack : x.count < Threshold(d.st)
      BY <2>9
    <3>1. ~h.heard /\ ~(count >= Threshold(d.st))
      BY <1>7
    <3>2. \A x \in d.stack : x.count < Threshold(d.st)
      BY <1>1, <1>6, <2>8, <3>1, SameAlarm DEF Remembers, InPhase
    <3>3. count < Threshold(d.st)
      <4>1. Threshold(d.st) \in Int
        BY MasterAssumption DEF Threshold
      <4> QED
        BY <1>4, <3>1, <4>1, MasterAssumption
    <3> HIDE DEF count
    <3> QED
      BY <2>2, <2>6, <3>2, <3>3
  <2>11. Remembers(read, done, h2)
    BY <1>1, <1>7, <2>9, <2>10 DEF Remembers, InPhase
  <2>12. d.st # "TENTATIVE_SYNC" => Swept(read, done)
    <3> SUFFICES ASSUME d.st # "TENTATIVE_SYNC" PROVE Swept(read, done)
      OBVIOUS
    <3>1. done # {} /\ done # Cyclic /\ ~(done = Evaluation /\ None(d, "clock_corr"))
      BY <1>1, <1>7, NotSwept DEF InPhase, OnSchedule
    <3>2. None(read, "clock_corr") => None(d, "clock_corr")
      BY <1>6, <2>8, SameAlarm
    <3> QED
      BY <3>1, <3>2 DEF Swept
  <2>13. n = read
    BY <1>0, <1>3, <1>7
  <2> HIDE DEF n
  <2> QED
    BY <1>4, <1>5, <2>7, <2>8, <2>9, <2>11, <2>12, <2>13 DEF n, t
<1>8. CASE OnSchedule(d, f) /\ ~Accepted(count)
  <2>1. h2.unheard = h.unheard /\ (h.heard => h2.heard)
    BY <1>8 DEF Histories
  <2>2. AsyncMembers(noted) = AsyncMembers(d)
    BY <1>2 DEF Data, AsyncMembers
  <2>3. None(noted, "clock_corr") <=> None(d, "clock_corr")
    BY <1>2, <1>6, SameAlarm
  <2>4. Remembers(noted, done, h2)
    BY <1>1, <1>2, <2>1, <2>2, <2>3 DEF Remembers, Data, InPhase
  <2>5. d.st # "TENTATIVE_SYNC" => Swept(noted, done)
    BY <1>1, <1>2, <2>3 DEF Swept, Data, InPhase
  <2>6. n = noted
    BY <1>0, <1>3, <1>8
  <2> HIDE DEF n
  <2> QED
    BY <1>2, <1>4, <1>5, <2>4, <2>5, <2>6 DEF Data, n, t
<1>9. CASE ~OnSchedule(d, f)
  <2>1. /\ Changes(noted, missed, {"asyncF", "asyncR"})
        /\ missed.asyncF = noted.asyncF \union f.members /\ missed.asyncR = noted.asyncR \union f.members
    <3>1. Basic(m, noted)
      BY <1>2
    <3> QED
      BY ONLY <3>1 DEF Basic, Device, FieldNames, Changes
  <2> HIDE DEF missed
  <2>2. /\ missed.st = noted.st /\ missed.clk = noted.clk /\ missed.pend = noted.pend
        /\ missed.icyc = noted.icyc /\ missed.sync = noted.sync /\ missed.timer = noted.timer
        /\ missed.counter = noted.counter /\ missed.stack = noted.stack
        /\ missed.floodReceive = noted.floodReceive /\ missed.closedWindow = noted.closedWindow
    BY <2>1 DEF FieldNames, Changes
  <2>3. Device(missed) /\ PendOK(missed) /\ \A all : Same(noted, missed, all)
    BY <1>2, <2>1, OtherFields
  <2>4. missed.asyncF \subseteq UNION Memberships /\ missed.asyncR \subseteq UNION Memberships
    BY <1>2, <1>4, <2>1 DEF Basic
  <2>5. Basic(m, missed)
    BY <1>2, <2>2, <2>3, <2>4 DEF Basic
  <2>6. Same(d, missed, DOMAIN SlotOf)
    BY <1>2, <2>3 DEF Same
  <2>7. AsyncMembers(missed) = AsyncMembers(d) \union f.members
    BY <1>2, <2>1, <2>2 DEF Data, AsyncMembers
  <2>8. None(missed, "clock_corr") <=> None(d, "clock_corr")
    BY <1>6, <2>6, SameAlarm
  <2>9. Remembers(missed, done, h2)
    BY <1>1, <1>2, <1>9, <2>1, <2>2, <2>7, <2>8 DEF Remembers, Data, InPhase
  <2>10. missed.st = d.st /\ missed.clk = d.clk /\ missed.counter = d.counter /\ missed.sync = d.sync
    BY <1>2, <2>2 DEF Data
  <2>11. d.st # "TENTATIVE_SYNC" => Swept(missed, done)
    BY <1>1, <1>2, <2>2, <2>8 DEF Swept, Data, InPhase
  <2>12. n = missed
    BY <1>0, <1>3, <1>9
  <2> HIDE DEF n
  <2> QED
    BY <1>4, <1>5, <2>5, <2>6, <2>9, <2>10, <2>11, <2>12 DEF n, t
<1> QED
  BY <1>7, <1>8, <1>9
------------------------------------------------------------------------------
(* How a master gets into a cycle.                                             *)

(* At the receive pit the cyclic events are registered as if async_eval and    *)
(* inc had been handled in this cycle.                                         *)
LEMMA Joins ==
  ASSUME NEW m, NEW b, Basic(m, b), b.counter = 0, \A x \in DOMAIN SlotOf : None(b, x),
         b.clk = ReceivePit, NEW st \in {"SYNC", "TENTATIVE_SYNC"}, st = "SYNC" => b.sync <= MaxMembership,
         NEW h, h.unheard = {}, h.silence = 0, h.heard \/ b.stack = {}
  PROVE  LET n == Synchronised(b, st) IN Basic(m, n) /\ Following(n, h)
<1> DEFINE s == [b EXCEPT !.st = st]
           a == RegisterAll(s, Cyclic \ {"async_eval"})
           n == RegisterNext(a, "async_eval")
<1>0. n = Synchronised(b, st)
  BY DEF Synchronised
<1>1. Changes(b, s, {"counter", "st"}) /\ s.st = st /\ s.counter = b.counter
  BY DEF Basic, Device, FieldNames, Changes
<1> HIDE DEF s
<1>2. /\ Basic(m, s) /\ s.clk = ReceivePit /\ s.sync = b.sync /\ s.stack = b.stack
      /\ \A x \in DOMAIN SlotOf : None(s, x)
  <2>1. s.st \in States
    BY <1>1 DEF States, Synced
  <2>2. /\ Basic(m, s) /\ s.clk = b.clk /\ s.sync = b.sync /\ s.stack = b.stack
        /\ \A all : Same(b, s, all)
    BY <1>1, <2>1, SetsCounter
  <2>3. Same(b, s, DOMAIN SlotOf)
    BY <2>2
  <2> QED
    BY <2>2, <2>3, SameAlarm
<1>3. /\ Cyclic \ {"async_eval"} \in SUBSET DOMAIN SlotOf /\ "async_eval" \in DOMAIN SlotOf
      /\ "async_eval" \in Alarms \ (Cyclic \ {"async_eval"})
      /\ "clock_corr" \in Alarms \ (Cyclic \ {"async_eval"})
      /\ "clock_corr" \in Alarms \ {"async_eval"}
      /\ Cyclic \ {"async_eval"} \subseteq Alarms \ {"async_eval"}
  BY SlotNames DEF Cyclic, Alarms
<1>4. /\ Basic(m, a) /\ Data(s, a) /\ a.clk = ReceivePit
      /\ \A x \in Cyclic \ {"async_eval"} : Only(a, x, Distance(ReceivePit, x, FALSE))
      /\ None(a, "async_eval") /\ None(a, "clock_corr")
  <2>1. /\ Basic(m, a) /\ Data(s, a) /\ a.clk = s.clk
        /\ \A x \in Cyclic \ {"async_eval"} : None(s, x) => Only(a, x, Distance(s.clk, x, FALSE))
        /\ Same(s, a, Alarms \ (Cyclic \ {"async_eval"}))
    BY <1>2, <1>3, RegistersAll
  <2> HIDE DEF a
  <2>2. \A x \in Cyclic \ {"async_eval"} : None(s, x)
    BY <1>2, <1>3
  <2>3. None(s, "async_eval") /\ None(s, "clock_corr")
    BY <1>2, SlotNames
  <2>4. None(a, "async_eval") /\ None(a, "clock_corr")
    BY <1>3, <2>1, <2>3, SameAlarm
  <2> QED
    BY <1>2, <2>1, <2>2, <2>4
<1> HIDE DEF a
<1>5. /\ Basic(m, n) /\ Data(a, n) /\ n.clk = ReceivePit
      /\ Only(n, "async_eval", Distance(ReceivePit, "async_eval", TRUE))
      /\ \A x \in Cyclic \ {"async_eval"} : Only(n, x, Distance(ReceivePit, x, FALSE))
      /\ None(n, "clock_corr")
  <2> DEFINE r == RegisterAction(a, "async_eval", TRUE)
  <2>1. /\ Basic(m, r) /\ Data(a, r) /\ r.clk = a.clk
        /\ None(a, "async_eval") => Only(r, "async_eval", Distance(a.clk, "async_eval", TRUE))
        /\ Same(a, r, Alarms \ {"async_eval"})
    BY <1>3, <1>4, Registers
  <2>2. n = r
    BY DEF RegisterNext
  <2> HIDE DEF n, r
  <2>3. \A x \in Cyclic \ {"async_eval"} : Only(n, x, Distance(ReceivePit, x, FALSE))
    BY <1>3, <1>4, <2>1, <2>2, SameAlarm
  <2>4. None(n, "clock_corr")
    BY <1>3, <1>4, <2>1, <2>2, SameAlarm
  <2> QED
    BY <1>4, <2>1, <2>2, <2>3, <2>4
<1> HIDE DEF n
<1>6. /\ Precision \in Int /\ Precision > 0 /\ AcceptanceWindow \in Int /\ AcceptanceWindow > 0
      /\ ReceivePit \in Int /\ Cycle \in Nat \ {0} /\ Precision < ReceivePit
      /\ ReceivePit + 2 * Precision + 1 < Cycle - AcceptanceWindow
  BY SlotTimes
<1>7. /\ Distance(ReceivePit, "async_eval", TRUE) = Cycle - ReceivePit
      /\ Distance(ReceivePit, "inc", FALSE) = Cycle - Precision
      /\ Distance(ReceivePit, "sync_eval", FALSE) = Precision
      /\ Distance(ReceivePit, "async_up", FALSE) = Cycle - AcceptanceWindow - ReceivePit
  <2>1. (-ReceivePit) % Cycle = Cycle - ReceivePit /\ (-Precision) % Cycle = Cycle - Precision
    <3>1. Cycle - ReceivePit \in 0 .. Cycle - 1 /\ Cycle - Precision \in 0 .. Cycle - 1
      BY <1>6
    <3>2. (Cycle - ReceivePit) % Cycle = Cycle - ReceivePit /\ (Cycle - Precision) % Cycle = Cycle - Precision
      BY <1>6, <3>1, SmallRemainder
    <3> QED
      BY <1>6, <3>2
  <2>2. Precision % Cycle = Precision
        /\ (Cycle - AcceptanceWindow - ReceivePit) % Cycle = Cycle - AcceptanceWindow - ReceivePit
    <3>1. Precision \in 0 .. Cycle - 1 /\ Cycle - AcceptanceWindow - ReceivePit \in 0 .. Cycle - 1
      BY <1>6
    <3> QED
      BY <1>6, <3>1, SmallRemainder
  <2>3. /\ SlotOf["async_eval"] - ReceivePit = -ReceivePit
        /\ SlotOf["inc"] - ReceivePit = -Precision
        /\ SlotOf["sync_eval"] - ReceivePit = Precision
        /\ SlotOf["async_up"] - ReceivePit = Cycle - AcceptanceWindow - ReceivePit
    BY <1>6, SlotValues
  <2>4. Cycle - ReceivePit # 0
    BY <1>6
  <2> QED
    BY <2>1, <2>2, <2>3, <2>4 DEF Distance
<1>8. OnTime(n, Early)
  <2>1. /\ Ahead(n, "async_eval", Early) = Cycle - ReceivePit
        /\ Ahead(n, "inc", Early) = Cycle - Precision
        /\ Ahead(n, "sync_eval", Early) = Precision
        /\ Ahead(n, "async_up", Early) = Cycle - AcceptanceWindow - ReceivePit
    <3>1. "async_eval" \in Early /\ "inc" \in Early /\ "sync_eval" \notin Early /\ "async_up" \notin Early
      BY DEF Early
    <3> QED
      BY <1>5, <1>6, <3>1, SlotValues DEF Ahead
  <2>2. /\ Cycle - ReceivePit \in Nat /\ Cycle - Precision \in Nat /\ Precision \in Nat
        /\ Cycle - AcceptanceWindow - ReceivePit \in Nat
    BY <1>6
  <2>3. CyclicOnTime(n, Early)
    BY <1>5, <1>7, <2>1, <2>2 DEF CyclicOnTime, Cyclic
  <2> QED
    BY <1>5, <2>3 DEF OnTime
<1>9. n.st = st /\ n.counter = 0 /\ n.stack = b.stack /\ n.sync = b.sync
  BY <1>1, <1>2, <1>4, <1>5 DEF Data
<1>10. Remembers(n, Early, h)
  BY <1>9 DEF Remembers
<1>11. Early \in Phases /\ Swept(n, Early)
  BY DEF Phases, Early, Swept, Cyclic, Evaluation
<1>12. Counts(n, h)
  BY <1>9, MasterAssumption DEF Counts
<1>13. Following(n, h)
  BY <1>8, <1>9, <1>10, <1>11, <1>12 DEF Following, InPhase, Synced
<1> QED
  BY <1>0, <1>5, <1>13

(* What is kept of an idle device by an operation on its events.               *)
LEMMA StaysIdleKept ==
  ASSUME NEW m, NEW d, NEW n, Idle(m, d), Basic(m, n), Data(d, n),
         \A x \in DOMAIN SlotOf : None(d, x) => None(n, x)
  PROVE  Idle(m, n)
BY DEF Idle, Data

(* The clock is set to the receive pit, as if the frame had come then.         *)
LEMMA AtReceivePit ==
  ASSUME NEW m, NEW d, Idle(m, d)
  PROVE  LET n == ClockCorrection(d, d.clk - ReceivePit) IN
         Idle(m, n) /\ Data(d, n) /\ n.clk = ReceivePit /\ Same(d, n, {"ASYNCHRON"})
<1> DEFINE n == ClockCorrection(d, d.clk - ReceivePit)
<1>1. /\ Basic(m, d) /\ d.clk \in Int /\ ReceivePit \in 0 .. Cycle - 1 /\ Cycle \in Nat \ {0}
  BY SlotTimes DEF Idle, Basic
<1>2. d.clk - ReceivePit \in Int /\ d.clk - (d.clk - ReceivePit) = ReceivePit
  BY <1>1
<1>3. /\ Basic(m, n) /\ Data(d, n) /\ n.clk = (d.clk - (d.clk - ReceivePit)) % Cycle
      /\ Same(d, n, {"ASYNCHRON"})
      /\ \A x \in DOMAIN SlotOf : None(d, x) => None(n, x)
  BY <1>1, <1>2, Corrects
<1> HIDE DEF n
<1>4. n.clk = ReceivePit
  BY <1>1, <1>2, <1>3, SmallRemainder
<1>5. Idle(m, n)
  BY <1>3, StaysIdleKept
<1> QED
  BY <1>3, <1>4, <1>5 DEF n

(* The integration cycle and the members of the frame are taken over.          *)
LEMMA Adopts ==
  ASSUME NEW m \in Masters, NEW d, Idle(m, d), NEW f \in Frames
  PROVE  LET n == Adopt(d, f) IN
         /\ Idle(m, n) /\ n.st = d.st /\ n.clk = ReceivePit /\ n.sync = Cardinality(f.members)
         /\ n.sync \in 0 .. MaxMembership
         /\ Same(d, n, {"ASYNCHRON"})
<1> DEFINE c == ClockCorrection(d, d.clk - ReceivePit)
           n == [c EXCEPT !.icyc = f.icyc, !.sync = Cardinality(f.members)]
<1>0. n = Adopt(d, f)
  BY DEF Adopt
<1>1. Idle(m, c) /\ Data(d, c) /\ c.clk = ReceivePit /\ Same(d, c, {"ASYNCHRON"})
  BY AtReceivePit
<1> HIDE DEF c
<1>2. Basic(m, c) /\ c.st = d.st
  BY <1>1 DEF Idle, Data
<1>3. /\ Changes(c, n, {"icyc", "sync"}) /\ n.icyc = f.icyc /\ n.sync = Cardinality(f.members)
  BY <1>2 DEF Basic, Device, FieldNames, Changes
<1> HIDE DEF n
<1>4. f.icyc < MaxIcys /\ f.icyc \in 0 .. MaxIcys
      /\ Cardinality(f.members) \in 0 .. MaxMembership /\ Cardinality(f.members) \in 0 .. LargestSync(m)
  <2>1. f.icyc \in 0 .. MaxIcys - 1 /\ Cardinality(f.members) \in 0 .. MaxMembership
    BY FrameTypes
  <2> QED
    BY <2>1, SyncRange, MasterAssumption
<1>5. /\ Basic(m, n) /\ n.clk = c.clk /\ n.st = c.st
      /\ n.counter = c.counter /\ n.stack = c.stack
      /\ \A all : Same(c, n, all)
  <2>1. Basic(m, c) /\ Changes(c, n, {"icyc", "sync"})
    BY <1>2, <1>3
  <2>2. n.icyc \in 0 .. MaxIcys /\ n.sync \in 0 .. LargestSync(m)
    BY <1>3, <1>4
  <2>3. Basic(m, n) /\ n.clk = c.clk /\ n.st = c.st
    BY ONLY <2>1, <2>2, SetsIcycAndSync
  <2>4. n.counter = c.counter /\ n.stack = c.stack /\ \A all : Same(c, n, all)
    BY ONLY <2>1, <2>2, SetsIcycAndSync
  <2> QED
    BY <2>3, <2>4
<1>6. \A x \in DOMAIN SlotOf : None(n, x)
  <2>1. Same(c, n, DOMAIN SlotOf) /\ \A x \in DOMAIN SlotOf : None(c, x)
    BY <1>1, <1>5 DEF Idle
  <2> QED
    BY <2>1, SameAlarm
<1>7. Idle(m, n)
  BY <1>1, <1>3, <1>4, <1>5, <1>6 DEF Idle
<1>8. Same(d, n, {"ASYNCHRON"})
  <2>1. Same(c, n, {"ASYNCHRON"})
    BY <1>5
  <2> QED
    BY <1>1, <2>1 DEF Same
<1> QED
  BY <1>0, <1>1, <1>2, <1>3, <1>4, <1>5, <1>7, <1>8

(* The frame that a master joins with is the one reading of the cycle.         *)
LEMMA ReadsOne ==
  ASSUME NEW m, NEW d, Idle(m, d), d.clk = ReceivePit, NEW f \in Frames
  PROVE  LET n == WithReading(d, f) IN
         /\ Basic(m, n) /\ n.clk = ReceivePit /\ n.counter = 0 /\ n.sync = d.sync
         /\ \A x \in DOMAIN SlotOf : None(n, x)
<1> DEFINE r == Reading(f, Cardinality(f.members), d.clk)
           n == [d EXCEPT !.stack = Inserted(@, r)]
<1>0. n = WithReading(d, f)
  BY DEF WithReading
<1>1. r \in Readings
  <2>1. f.port \in Ports /\ Cardinality(f.members) \in 0 .. MaxMembership
    BY FrameTypes
  <2>2. d.clk \in ReceivePit - HalfWindow .. ReceivePit + HalfWindow
    BY SlotTimes
  <2> QED
    BY <2>1, <2>2 DEF Reading, Readings
<1> HIDE DEF r
<1>2. Basic(m, d) /\ d.stack = {} /\ d.counter = 0 /\ \A x \in DOMAIN SlotOf : None(d, x)
  BY DEF Idle
<1>3. Changes(d, n, {"stack"}) /\ n.stack = {r}
  BY <1>2 DEF Basic, Device, FieldNames, Changes, Inserted
<1> HIDE DEF n
<1>4. PendOK(n) /\ \A x \in DOMAIN SlotOf : None(n, x)
  BY <1>2, <1>3, OtherFields
<1>5. Basic(m, n) /\ n.clk = d.clk /\ n.counter = d.counter /\ n.sync = d.sync
  BY <1>1, <1>2, <1>3, <1>4 DEF Basic, Changes, FieldNames
<1> QED
  BY <1>0, <1>2, <1>4, <1>5

(* Results of a handler that may take a waiting master into a cycle.           *)
Enters(m, n, h) == Waits(m, n) \/ (Basic(m, n) /\ Following(n, h))

LEMMA JoinsCycle ==
  ASSUME NEW m, NEW d, Idle(m, d), d.clk = ReceivePit, d.sync \in 0 .. MaxMembership, NEW f \in Frames,
         NEW st \in {"SYNC", "TENTATIVE_SYNC"}, NEW h, h.unheard = {}, h.silence = 0, h.heard
  PROVE  /\ Enters(m, Synchronised(WithReading(d, f), st), h)
         /\ Enters(m, Synchronised(Erased(WithReading(d, f), 0), st), h)
<1> DEFINE r == WithReading(d, f)
           e == Erased(r, 0)
<1>1. /\ Basic(m, r) /\ r.clk = ReceivePit /\ r.counter = 0 /\ r.sync = d.sync
      /\ \A x \in DOMAIN SlotOf : None(r, x)
  BY ReadsOne
<1> HIDE DEF r
<1>2. /\ Basic(m, e) /\ Data(r, e) /\ e.clk = r.clk /\ Same(r, e, Alarms)
  <2>1. Changes(r, e, {"pend", "gone"}) /\ PendOK(e) /\ Same(r, e, Alarms)
    BY <1>1, ErasedEffect DEF Basic
  <2> HIDE DEF e
  <2>2. {"pend", "gone"} \in SUBSET Timing /\ "clk" \notin {"pend", "gone"}
    BY DEF Timing
  <2>3. e.clk = r.clk
    BY <2>1, <2>2, ClockKept
  <2>4. e.clk \in 0 .. Cycle - 1
    BY <1>1, <2>3 DEF Basic
  <2> QED
    BY <1>1, <2>1, <2>2, <2>3, <2>4, BasicKept
<1> HIDE DEF e
<1>3. e.counter = 0 /\ e.sync = d.sync /\ \A x \in DOMAIN SlotOf : None(e, x)
  <2>1. \A x \in DOMAIN SlotOf : x \in Alarms
    BY DEF Alarms
  <2>2. \A x \in DOMAIN SlotOf : None(e, x)
    BY <1>1, <1>2, <2>1, SameAlarm
  <2> QED
    BY <1>1, <1>2, <2>2 DEF Data
<1>4. d.sync <= MaxMembership
  BY MasterAssumption
<1>5. Basic(m, Synchronised(r, st)) /\ Following(Synchronised(r, st), h)
  BY <1>1, <1>4, Joins
<1>6. Basic(m, Synchronised(e, st)) /\ Following(Synchronised(e, st), h)
  BY <1>1, <1>2, <1>3, <1>4, Joins
<1> QED
  BY <1>5, <1>6 DEF r, e, Enters

LEMMA IntegrateInFrameEnters ==
  ASSUME NEW m \in Masters, NEW d, Idle(m, d), d.st = "INTEGRATE", Once(d, "ASYNCHRON"), NEW f \in Frames,
         NEW h, h.unheard = {}, h.silence = 0, h.heard
  PROVE  Enters(m, IntegrateInFrame(d, f), h)
<1> DEFINE a   == Erased(Deleted(d, f), 0)
           b   == Adopt(a, f)
           set == NoAsync(b)
           off == StopTimer(set)
<1>1. Idle(m, a) /\ a.st = "INTEGRATE" /\ Once(a, "ASYNCHRON")
  BY DropsIdle DEF Data
<1> HIDE DEF a
<1>2. /\ Idle(m, b) /\ b.st = "INTEGRATE" /\ b.clk = ReceivePit /\ b.sync \in 0 .. MaxMembership
      /\ Once(b, "ASYNCHRON")
  <2>1. /\ Idle(m, b) /\ b.st = a.st /\ b.clk = ReceivePit /\ b.sync \in 0 .. MaxMembership
        /\ Same(a, b, {"ASYNCHRON"})
    BY <1>1, Adopts
  <2> QED
    BY <1>1, <2>1, SameAlarm
<1> HIDE DEF b
<1>3. /\ Idle(m, set) /\ set.st = "INTEGRATE" /\ set.clk = ReceivePit /\ set.sync \in 0 .. MaxMembership
      /\ Once(set, "ASYNCHRON")
  <2>1. Basic(m, b)
    BY <1>2 DEF Idle
  <2>2. Calms(m, b, set) /\ set.clk = b.clk /\ set.sync = b.sync /\ Same(b, set, {"ASYNCHRON"})
    BY <2>1, ClearsAsync
  <2>3. set.st = b.st
    BY <2>2 DEF Calms
  <2>4. Idle(m, set)
    BY <1>2, <2>2, StaysIdle
  <2> QED
    BY <1>2, <2>2, <2>3, <2>4, SameAlarm
<1> HIDE DEF set
<1>4. Idle(m, off) /\ off.clk = ReceivePit /\ off.sync \in 0 .. MaxMembership
  <2>1. Basic(m, set)
    BY <1>3 DEF Idle
  <2>2. Data(set, off) /\ off.clk = set.clk
    BY <2>1, StopsTimer
  <2> QED
    BY <1>3, <2>2, IdleOperations DEF Data
<1> HIDE DEF off
<1>5. Enters(m, Synchronised(WithReading(off, f), "SYNC"), h)
  BY <1>4, JoinsCycle
<1>6. Enters(m, WaitCycle(SetTimer(off, Cycle + AcceptanceWindow \div 2)), h)
  <2>1. Cycle + AcceptanceWindow \div 2 \in Nat
    BY Timeouts
  <2>2. Idle(m, SetTimer(off, Cycle + AcceptanceWindow \div 2))
    BY <1>4, <2>1, IdleOperations
  <2> QED
    BY <2>2, WaitStatesWait DEF Enters
<1>7. Enters(m, set, h)
  BY <1>3, IdleWaits DEF Enters, WaitStates
<1>8. IntegrateInFrame(d, f) \in {Synchronised(WithReading(off, f), "SYNC"),
                                 WaitCycle(SetTimer(off, Cycle + AcceptanceWindow \div 2)), set}
  BY DEF IntegrateInFrame, a, b, set, off
<1> QED
  BY <1>5, <1>6, <1>7, <1>8

LEMMA DeletesIdle ==
  ASSUME NEW m, NEW d, Idle(m, d), NEW f
  PROVE  Idle(m, Deleted(d, f)) /\ Data(d, Deleted(d, f)) /\ Idle(m, Abandoned(d, f))
         /\ Data(d, Abandoned(d, f)) /\ Abandoned(d, f).clk = d.clk
<1> DEFINE a == Deleted(d, f)
           b == Abandoned(d, f)
<1>1. Basic(m, d) /\ Device(d) /\ PendOK(d) /\ \A x \in DOMAIN SlotOf : None(d, x)
  BY DEF Idle, Basic
<1>2. /\ Changes(d, a, {"gone"}) /\ PendOK(a) /\ \A x \in DOMAIN SlotOf : None(a, x)
      /\ Changes(d, b, {"gone"}) /\ PendOK(b) /\ \A x \in DOMAIN SlotOf : None(b, x)
  <2>1. Changes(d, a, {"gone"})
    BY <1>1, DeletedEffect
  <2>2. Changes(d, b, {"gone"})
    BY <1>1 DEF Abandoned, Device, FieldNames, Changes
  <2> HIDE DEF a, b
  <2> QED
    BY <1>1, <2>1, <2>2, OtherFields
<1> HIDE DEF a, b
<1>3. {"gone"} \in SUBSET Timing /\ "clk" \notin {"gone"}
  BY DEF Timing
<1>4. a.clk = d.clk /\ b.clk = d.clk
  BY <1>2, <1>3, ClockKept
<1>5. a.clk \in 0 .. Cycle - 1 /\ b.clk \in 0 .. Cycle - 1
  BY <1>1, <1>4 DEF Basic
<1>6. Basic(m, a) /\ Data(d, a) /\ Basic(m, b) /\ Data(d, b)
  BY <1>1, <1>2, <1>3, <1>5, BasicKept
<1>7. Idle(m, a) /\ Idle(m, b)
  BY <1>2, <1>6 DEF Idle, Data
<1> QED
  BY <1>4, <1>6, <1>7 DEF a, b

LEMMA UnsyncInFrameEnters ==
  ASSUME NEW m \in Masters, NEW d, Idle(m, d), d.st = "UNSYNC", NEW f \in Frames,
         NEW h, h.unheard = {}, h.silence = 0, h.heard
  PROVE  Enters(m, UnsyncInFrame(d, f), h)
<1> DEFINE a   == Deleted(d, f)
           off == StopTimer(a)
           set == Adopt(off, f)
           synced == Erased(WithReading(set, f), 0)
<1>1. Idle(m, a) /\ a.st = "UNSYNC"
  BY DeletesIdle DEF Data
<1> HIDE DEF a
<1>2. Idle(m, off) /\ off.st = "UNSYNC"
  <2>1. Basic(m, a)
    BY <1>1 DEF Idle
  <2>2. Data(a, off)
    BY <2>1, StopsTimer
  <2> QED
    BY <1>1, <2>2, IdleOperations DEF Data
<1> HIDE DEF off
<1>3. /\ Idle(m, set) /\ set.st = "UNSYNC" /\ set.clk = ReceivePit /\ set.sync \in 0 .. MaxMembership
  BY <1>2, Adopts
<1> HIDE DEF set
<1>4. Enters(m, Synchronised(synced, "SYNC"), h) /\ Enters(m, Synchronised(synced, "TENTATIVE_SYNC"), h)
  BY <1>3, JoinsCycle
<1> HIDE DEF synced
<1>5. Enters(m, set, h)
  BY <1>3, IdleWaits DEF Enters, WaitStates, Waiting
<1>6. UnsyncInFrame(d, f) \in {Synchronised(synced, "SYNC"), Synchronised(synced, "TENTATIVE_SYNC"), set}
  BY DEF UnsyncInFrame, a, off, set, synced
<1> QED
  BY <1>4, <1>5, <1>6

(* The inverted test: with no member the master starts anew, else it joins.   *)
LEMMA WaitCycleOtherEnters ==
  ASSUME NEW m \in Masters, NEW d, Idle(m, d), NEW f
  PROVE  Enters(m, WaitCycleOther(d, f), Blank)
<1> DEFINE kept == IF f.ev = "IN_FRAME" THEN Abandoned(d, f) ELSE d
           zero == SetTimer(StopTimer(ZeroSync(kept)), RestartSync)
           z    == [zero EXCEPT !.sync = 0]
           c    == ClockCorrection(kept, kept.clk - ReceivePit)
           b    == [c EXCEPT !.icyc = @ + 1]
<1>1. Idle(m, kept) /\ kept.clk = d.clk
  BY DeletesIdle
<1> HIDE DEF kept
<1>2. Enters(m, Unsync(z), Blank)
  <2>1. Idle(m, zero)
    BY <1>1, IdleOperations, Timeouts
  <2> HIDE DEF zero
  <2>2. Changes(zero, z, {"sync"}) /\ z.sync = 0
    BY <2>1 DEF Idle, Basic, Device, FieldNames, Changes
  <2> HIDE DEF z
  <2>3. Idle(m, z)
    BY <2>1, <2>2, IdleSync, SyncRange
  <2> QED
    BY <2>3, WaitStatesWait DEF Enters
<1>3. Enters(m, Synchronised(b, "TENTATIVE_SYNC"), Blank)
  <2>1. Idle(m, c) /\ c.clk = ReceivePit
    BY <1>1, AtReceivePit
  <2> HIDE DEF c
  <2>2. Basic(m, c) /\ c.counter = 0 /\ c.stack = {} /\ c.icyc < MaxIcys
        /\ \A x \in DOMAIN SlotOf : None(c, x)
    BY <2>1 DEF Idle
  <2>3. Changes(c, b, {"icyc", "sync"}) /\ b.icyc = c.icyc + 1 /\ b.sync = c.sync
    BY <2>2 DEF Basic, Device, FieldNames, Changes
  <2> HIDE DEF b
  <2>4. b.icyc \in 0 .. MaxIcys /\ b.sync \in 0 .. LargestSync(m)
    <3>1. c.icyc \in 0 .. MaxIcys /\ c.sync \in 0 .. LargestSync(m)
      BY <2>2 DEF Basic
    <3> QED
      BY <2>2, <2>3, <3>1, MasterAssumption
  <2>5. /\ Basic(m, b) /\ b.clk = c.clk /\ b.counter = c.counter /\ b.stack = c.stack
        /\ \A all : Same(c, b, all)
    <3>1. Basic(m, c) /\ Changes(c, b, {"icyc", "sync"})
      BY <2>2, <2>3
    <3>2. Basic(m, b) /\ \A all : Same(c, b, all)
      BY ONLY <2>4, <3>1, SetsIcycAndSync
    <3>3. b.clk = c.clk /\ b.counter = c.counter /\ b.stack = c.stack
      BY ONLY <2>3 DEF Changes, FieldNames
    <3> QED
      BY <3>2, <3>3
  <2>6. \A x \in DOMAIN SlotOf : None(b, x)
    <3>1. Same(c, b, DOMAIN SlotOf)
      BY <2>5
    <3> QED
      BY <2>2, <3>1, SameAlarm
  <2>7. Blank.unheard = {} /\ Blank.silence = 0 /\ b.stack = {}
    BY <2>2, <2>5 DEF Blank
  <2>8. Basic(m, Synchronised(b, "TENTATIVE_SYNC")) /\ Following(Synchronised(b, "TENTATIVE_SYNC"), Blank)
    BY <2>1, <2>2, <2>5, <2>6, <2>7, Joins
  <2> QED
    BY <2>8 DEF Enters
<1>4. WaitCycleOther(d, f) \in {Unsync(z), Synchronised(b, "TENTATIVE_SYNC")}
  BY <1>1 DEF WaitCycleOther, kept, zero, z, c, b
<1> QED
  BY <1>2, <1>3, <1>4

(* After the last CA frame the master sets its clock to zero in the midst of   *)
(* a cycle; the events whose slots lie behind count as handled.                *)
LEMMA WaitCsTimeoutEnters ==
  ASSUME NEW m \in Masters, NEW d, Idle(m, d)
  PROVE  Enters(m, WaitCsTimeout(d, m), Blank)
<1> DEFINE k == [d EXCEPT !.icyc = StartIcy, !.sync = WithBit(0, m)]
           a == NoAsync(k)
           r == RegisterAll(a, Cyclic)
           z == ClockZero(r)
           n == [z EXCEPT !.st = "TENTATIVE_SYNC"]
           done == {x \in Cyclic : SlotOf[x] < d.clk}
<1>0. n = WaitCsTimeout(d, m)
  BY DEF WaitCsTimeout
<1>1. /\ Basic(m, d) /\ d.counter = 0 /\ d.stack = {} /\ \A x \in DOMAIN SlotOf : None(d, x)
      /\ d.clk \in 0 .. Cycle - 1
  BY DEF Idle, Basic
<1>2. Changes(d, k, {"icyc", "sync"}) /\ k.icyc = StartIcy /\ k.sync = WithBit(0, m)
  BY <1>1 DEF Basic, Device, FieldNames, Changes
<1> HIDE DEF k
<1>3. /\ Basic(m, k) /\ k.clk = d.clk /\ k.counter = 0 /\ k.stack = {} /\ \A x \in DOMAIN SlotOf : None(k, x)
  <2>1. k.icyc \in 0 .. MaxIcys /\ k.sync \in 0 .. LargestSync(m)
    <3>1. StartIcy \in 0 .. MaxIcys
      BY MasterAssumption
    <3> QED
      BY <1>2, <3>1, SyncRange
  <2> Basic(m, d) /\ Changes(d, k, {"icyc", "sync"})
    BY <1>1, <1>2
  <2>2. Basic(m, k) /\ k.clk = d.clk
    BY <2>1, SetsIcycAndSync
  <2>3. k.counter = d.counter /\ k.stack = d.stack /\ \A all : Same(d, k, all)
    BY <2>1, SetsIcycAndSync
  <2>4. Same(d, k, DOMAIN SlotOf)
    BY <2>3
  <2>5. \A x \in DOMAIN SlotOf : None(k, x)
    BY <1>1, <2>4, SameAlarm
  <2> QED
    BY <1>1, <2>2, <2>3, <2>5
<1>4. /\ Basic(m, a) /\ a.clk = d.clk /\ a.counter = 0 /\ a.stack = {} /\ \A x \in DOMAIN SlotOf : None(a, x)
  <2>1. Calms(m, k, a) /\ a.clk = k.clk /\ a.counter = k.counter /\ a.stack = k.stack
    BY <1>3, ClearsAsync
  <2> HIDE DEF a
  <2> QED
    BY <1>3, <2>1 DEF Calms
<1> HIDE DEF a
<1>5. /\ Basic(m, r) /\ Data(a, r) /\ r.clk = d.clk
      /\ \A x \in Cyclic : Only(r, x, Distance(d.clk, x, FALSE))
      /\ None(r, "clock_corr")
  <2>1. Cyclic \in SUBSET DOMAIN SlotOf /\ "clock_corr" \in Alarms \ Cyclic /\ "clock_corr" \in DOMAIN SlotOf
    BY SlotNames DEF Cyclic, Alarms
  <2>2. /\ Basic(m, r) /\ Data(a, r) /\ r.clk = a.clk
        /\ \A x \in Cyclic : None(a, x) => Only(r, x, Distance(a.clk, x, FALSE))
        /\ Same(a, r, Alarms \ Cyclic)
    BY <1>4, <2>1, RegistersAll
  <2> HIDE DEF r
  <2>3. None(r, "clock_corr")
    BY <1>4, <2>1, <2>2, SameAlarm
  <2>4. \A x \in Cyclic : None(a, x)
    BY <1>4, <2>1
  <2> QED
    BY <1>4, <2>2, <2>3, <2>4
<1> HIDE DEF r
<1>6. /\ Basic(m, z) /\ Data(r, z) /\ z.clk = 0
      /\ \A x \in Cyclic : Only(z, x, Larger(0, Distance(d.clk, x, FALSE) + d.clk))
      /\ None(z, "clock_corr")
  <2>1. /\ Calms(m, r, z) /\ Data(r, z) /\ z.clk = 0
        /\ \A x \in DOMAIN SlotOf : \A left : Only(r, x, left) => Only(z, x, Larger(0, left + r.clk))
    BY <1>5, ZeroesClock
  <2> HIDE DEF z
  <2>2. Basic(m, z) /\ None(z, "clock_corr")
    BY <1>5, <2>1, SlotNames DEF Calms
  <2>3. ASSUME NEW x \in Cyclic PROVE Only(z, x, Larger(0, Distance(d.clk, x, FALSE) + d.clk))
    <3>1. x \in DOMAIN SlotOf /\ Only(r, x, Distance(d.clk, x, FALSE))
      BY <1>5, SlotNames
    <3> QED
      BY <1>5, <2>1, <3>1
  <2> QED
    BY <2>1, <2>2, <2>3
<1> HIDE DEF z
<1>7. /\ Changes(z, n, {"counter", "st"}) /\ n.st = "TENTATIVE_SYNC" /\ n.counter = z.counter
  BY <1>6 DEF Basic, Device, FieldNames, Changes
<1> HIDE DEF n
<1>8. /\ Basic(m, n) /\ n.clk = 0 /\ n.stack = {} /\ n.counter = 0
      /\ \A x \in Cyclic : Only(n, x, Larger(0, Distance(d.clk, x, FALSE) + d.clk))
      /\ None(n, "clock_corr")
  <2>1. n.st \in States
    BY <1>7 DEF States, Synced
  <2>2. Basic(m, z) /\ Changes(z, n, {"counter", "st"})
    BY <1>6, <1>7
  <2>3. Basic(m, n) /\ n.clk = z.clk /\ n.stack = z.stack
    BY ONLY <2>1, <2>2, SetsCounter
  <2>4. \A all : Same(z, n, all)
    BY ONLY <2>1, <2>2, SetsCounter
  <2>5. Same(z, n, Cyclic \union {"clock_corr"})
    BY <2>4
  <2>6. None(n, "clock_corr")
    BY <1>6, <2>5, SameAlarm
  <2>7. ASSUME NEW x \in Cyclic PROVE Only(n, x, Larger(0, Distance(d.clk, x, FALSE) + d.clk))
    <3>1. PICK left : left = Larger(0, Distance(d.clk, x, FALSE) + d.clk)
      OBVIOUS
    <3>2. Only(z, x, left) /\ x \in Cyclic \union {"clock_corr"}
      BY <1>6, <3>1
    <3>3. Only(n, x, left)
      BY <2>5, <3>2, SameAlarm
    <3> QED
      BY <3>1, <3>3
  <2>8. n.stack = {} /\ n.counter = 0
    BY <1>4, <1>5, <1>6, <1>7, <2>3 DEF Data
  <2> QED
    BY <1>6, <2>3, <2>6, <2>7, <2>8
<1>9. \A x \in Cyclic : SlotOf[x] \in 0 .. Cycle - 1
  BY SlotTimes, SlotValues DEF Cyclic
<1>10. ASSUME NEW x \in Cyclic
       PROVE  Ahead(n, x, done) \in Nat /\ Larger(0, Distance(d.clk, x, FALSE) + d.clk) = Ahead(n, x, done)
  <2>1. SlotOf[x] \in 0 .. Cycle - 1 /\ d.clk \in 0 .. Cycle - 1 /\ Cycle \in Nat \ {0}
    BY <1>1, <1>9, SlotTimes
  <2>2. PICK way : way = Distance(d.clk, x, FALSE)
    OBVIOUS
  <2>3. way = IF SlotOf[x] < d.clk THEN SlotOf[x] - d.clk + Cycle ELSE SlotOf[x] - d.clk
    <3>1. CASE SlotOf[x] < d.clk
      <4>1. SlotOf[x] - d.clk + Cycle \in 0 .. Cycle - 1 /\ SlotOf[x] - d.clk \in Int
        BY <2>1, <3>1
      <4>2. (SlotOf[x] - d.clk + Cycle) % Cycle = SlotOf[x] - d.clk + Cycle
        BY <2>1, <4>1, SmallRemainder
      <4>3. (SlotOf[x] - d.clk) % Cycle = SlotOf[x] - d.clk + Cycle
        BY <2>1, <4>1, <4>2
      <4> QED
        BY <2>2, <3>1, <4>3 DEF Distance
    <3>2. CASE ~(SlotOf[x] < d.clk)
      <4>1. SlotOf[x] - d.clk \in 0 .. Cycle - 1
        BY <2>1, <3>2
      <4>2. (SlotOf[x] - d.clk) % Cycle = SlotOf[x] - d.clk
        BY <2>1, <4>1, SmallRemainder
      <4> QED
        BY <2>2, <3>2, <4>2 DEF Distance
    <3> QED
      BY <3>1, <3>2
  <2>4. Ahead(n, x, done) = IF SlotOf[x] < d.clk THEN SlotOf[x] + Cycle ELSE SlotOf[x]
    <3>1. x \in done <=> SlotOf[x] < d.clk
      OBVIOUS
    <3> HIDE DEF done
    <3>2. Ahead(n, x, done) = SlotOf[x] - 0 + (IF SlotOf[x] < d.clk THEN Cycle ELSE 0)
      BY <1>8, <3>1 DEF Ahead
    <3> QED
      BY <2>1, <3>2
  <2> HIDE DEF done
  <2>5. PICK ahead : ahead = Ahead(n, x, done)
    OBVIOUS
  <2>6. way + d.clk = ahead /\ ahead \in Nat
    <3>1. CASE SlotOf[x] < d.clk
      BY <2>1, <2>3, <2>4, <2>5, <3>1
    <3>2. CASE ~(SlotOf[x] < d.clk)
      BY <2>1, <2>3, <2>4, <2>5, <3>2
    <3> QED
      BY <3>1, <3>2
  <2>7. Larger(0, way + d.clk) = ahead
    BY <2>6 DEF Larger
  <2> QED
    BY <2>2, <2>5, <2>6, <2>7
<1>11. OnTime(n, done)
  <2>1. CyclicOnTime(n, done)
    BY <1>8, <1>10 DEF CyclicOnTime
  <2> QED
    BY <1>8, <2>1 DEF OnTime
<1>12. done \in Phases
  <2>1. /\ SlotOf["async_eval"] < SlotOf["inc"] /\ SlotOf["inc"] < SlotOf["sync_eval"]
        /\ SlotOf["sync_eval"] < SlotOf["async_up"]
        /\ d.clk \in Int /\ \A x \in Cyclic : SlotOf[x] \in Int
    BY <1>1, <1>9, SlotTimes, SlotValues
  <2>2. /\ "async_up" \in done => "sync_eval" \in done
        /\ "sync_eval" \in done => "inc" \in done
        /\ "inc" \in done => "async_eval" \in done
    BY <2>1 DEF Cyclic
  <2>3. done \subseteq Cyclic
    OBVIOUS
  <2> HIDE DEF done
  <2>4. CASE "async_up" \in done
    <3>1. done = Cyclic
      BY <2>2, <2>3, <2>4 DEF Cyclic
    <3> QED
      BY <3>1 DEF Phases
  <2>5. CASE "async_up" \notin done /\ "sync_eval" \in done
    <3>1. done = Evaluation
      BY <2>2, <2>3, <2>5 DEF Cyclic, Evaluation
    <3> QED
      BY <3>1 DEF Phases
  <2>6. CASE "async_up" \notin done /\ "sync_eval" \notin done /\ "inc" \in done
    <3>1. done = Early
      BY <2>2, <2>3, <2>6 DEF Cyclic, Early
    <3> QED
      BY <3>1 DEF Phases
  <2>7. CASE "async_up" \notin done /\ "sync_eval" \notin done /\ "inc" \notin done
    <3>1. done = {} \/ done = {"async_eval"}
      BY <2>2, <2>3, <2>7 DEF Cyclic
    <3> QED
      BY <3>1 DEF Phases
  <2> QED
    BY <2>4, <2>5, <2>6, <2>7
<1>13. Remembers(n, done, Blank)
  BY <1>8 DEF Remembers, Blank
<1>14. Counts(n, Blank)
  BY <1>7, <1>8, MasterAssumption DEF Counts, Blank
<1> HIDE DEF done
<1>15. Following(n, Blank)
  BY <1>7, <1>11, <1>12, <1>13, <1>14 DEF Following, InPhase, Synced
<1> QED
  BY <1>0, <1>8, <1>15 DEF Enters
------------------------------------------------------------------------------
(* Received frames, the replay of corrections and the ticks of time.           *)

Silent(d) == [d EXCEPT !.out = {}]

LEMMA SilentEffect ==
  ASSUME NEW m, NEW d, Basic(m, d)
  PROVE  LET n == Silent(d) IN
         /\ Basic(m, n) /\ Data(d, n) /\ n.clk = d.clk /\ n.fault = d.fault
         /\ Same(d, n, Alarms)
<1> DEFINE n == Silent(d)
<1>1. Changes(d, n, {"out"})
  BY DEF Silent, Basic, Device, FieldNames, Changes
<1> HIDE DEF n
<1>2. {"out"} \in SUBSET Timing /\ "clk" \notin {"out"} /\ "pend" \notin {"out"}
  BY DEF Timing
<1>3. PendOK(n) /\ \A all : Same(d, n, all)
  BY <1>1, <1>2, OtherFields
<1>4. n.clk = d.clk
  BY <1>1, <1>2, ClockKept
<1>5. n.clk \in 0 .. Cycle - 1
  BY <1>4 DEF Basic
<1>6. Basic(m, n) /\ Data(d, n)
  BY <1>1, <1>2, <1>3, <1>5, BasicKept
<1>7. n.fault = d.fault
  BY <1>1 DEF Changes, FieldNames
<1>8. Same(d, n, Alarms)
  BY <1>3
<1> QED
  BY <1>4, <1>6, <1>7, <1>8 DEF n

(* What leaves clock, data and alarms alone keeps a master sound.              *)
LEMMA KeepsSound ==
  ASSUME NEW m, NEW d, NEW h, Sound(m, d, h), ~d.fault,
         NEW n, Basic(m, n), Data(d, n), n.clk = d.clk, Same(d, n, Alarms)
  PROVE  Sound(m, n, h)
<1>1. /\ DOMAIN SlotOf \subseteq Alarms /\ "inc" \in Alarms /\ "clock_corr" \in Alarms /\ "ASYNCHRON" \in Alarms
  BY SlotNames DEF Alarms
<1>2. Same(d, n, DOMAIN SlotOf)
  BY <1>1 DEF Same
<1>3. h \in Histories /\ (Replaying(d, h) \/ Resting(d, h) \/ Following(d, h))
  BY DEF Sound
<1>4. CASE Replaying(d, h)
  <2>1. Once(n, "inc") /\ Once(n, "clock_corr")
    BY <1>1, <1>4, SameAlarm DEF Replaying
  <2>2. Replaying(n, h)
    BY <1>4, <2>1 DEF Replaying, Data
  <2> QED
    BY <1>3, <2>2 DEF Sound
<1>5. CASE Resting(d, h)
  <2>1. \A x \in DOMAIN SlotOf : None(n, x)
    BY <1>2, <1>5, SameAlarm DEF Resting
  <2>2. d.st \in Waiting => Once(n, "ASYNCHRON")
    <3>1. d.st \in Waiting => Once(d, "ASYNCHRON")
      BY <1>5 DEF Resting
    <3> QED
      BY <1>1, <3>1, SameAlarm
  <2>3. Resting(n, h)
    BY <1>5, <2>1, <2>2 DEF Resting, Data
  <2> QED
    BY <1>3, <2>3 DEF Sound
<1>6. CASE Following(d, h)
  BY <1>2, <1>3, <1>6, FollowingKept DEF Sound
<1> QED
  BY <1>3, <1>4, <1>5, <1>6

LEMMA FilingKeeps ==
  ASSUME NEW m, NEW d, Basic(m, d), NEW n, Filing(d, n)
  PROVE  Basic(m, n) /\ Data(d, n) /\ n.clk = d.clk /\ Same(d, n, Alarms)
<1>1. Changes(d, n, {"pend", "gone", "fault"}) /\ PendOK(n) /\ Same(d, n, Alarms)
  BY DEF Filing
<1>2. {"pend", "gone", "fault"} \in SUBSET Timing /\ "clk" \notin {"pend", "gone", "fault"}
  BY DEF Timing
<1>3. n.clk = d.clk
  BY <1>1, <1>2, ClockKept
<1>4. n.clk \in 0 .. Cycle - 1
  BY <1>3 DEF Basic
<1>5. Basic(m, n) /\ Data(d, n)
  BY <1>1, <1>2, <1>4, BasicKept
<1> QED
  BY <1>1, <1>3, <1>5

(* Whatever the state, a received frame is filed, rejected or ruins the run.   *)
LEMMA ReceptionFiles ==
  ASSUME NEW m, NEW d, Basic(m, d), NEW f \in Frames
  PROVE  /\ \A n \in ReceiveIntegrating(d, f) : Filing(d, n)
         /\ \A n \in ReceiveUnsync(d, f) : Filing(d, n)
         /\ \A n \in ReceiveFlooding(d, f) : Filing(d, n)
         /\ \A n \in ReceiveWaiting(d, f) : Filing(d, n)
         /\ \A n \in ReceiveSynced(d, f) : Filing(d, n)
<1>1. Device(d) /\ PendOK(d)
  BY DEF Basic
<1>2. Filing(d, d)
  BY <1>1 DEF Filing, Changes, Same
<1>3. \A n \in Receive(d, f) : Filing(d, n)
  <2> DEFINE n == RegisterTimer(d, f)
  <2>1. Changes(d, n, {"pend"}) /\ PendOK(n) /\ Same(d, n, Alarms)
    BY <1>1, RegisterTimerEffect
  <2> HIDE DEF n
  <2>2. Filing(d, n)
    BY <2>1 DEF Filing, Changes
  <2> QED
    BY <2>2 DEF Receive, n
<1>4. \A n \in FileBest(d, f) : Filing(d, n)
  BY <1>1, FileBestEffect
<1>5. ASSUME NEW x \in FileBest(d, f) PROVE Filing(d, [x EXCEPT !.fault = TRUE])
  <2> DEFINE n == [x EXCEPT !.fault = TRUE]
  <2>1. Changes(d, x, {"pend", "gone", "fault"}) /\ PendOK(x) /\ Same(d, x, Alarms)
    BY <1>4 DEF Filing
  <2>2. Changes(d, n, {"pend", "gone", "fault"}) /\ n.pend = x.pend
    BY <2>1 DEF Device, FieldNames, Changes
  <2> HIDE DEF n
  <2>3. PendOK(n) /\ Same(x, n, Alarms)
    BY <2>1, <2>2, PendKept
  <2>4. Same(d, n, Alarms)
    BY <2>1, <2>3 DEF Same
  <2> QED
    BY <2>2, <2>3, <2>4 DEF Filing, n
<1>6. \A n \in ReceiveIntegrating(d, f) : Filing(d, n)
  BY <1>2, <1>3, <1>4 DEF ReceiveIntegrating
<1>7. \A n \in ReceiveUnsync(d, f) : Filing(d, n)
  BY <1>3, <1>4 DEF ReceiveUnsync
<1>8. \A n \in ReceiveFlooding(d, f) : Filing(d, n)
  BY <1>3, <1>5 DEF ReceiveFlooding
<1>9. \A n \in ReceiveWaiting(d, f) : Filing(d, n)
  BY <1>2, <1>4 DEF ReceiveWaiting
<1>10. \A n \in ReceiveSynced(d, f) : Filing(d, n)
  BY <1>2, <1>3 DEF ReceiveSynced
<1> QED
  BY <1>6, <1>7, <1>8, <1>9, <1>10

(* The frames of the environment are frames.                                   *)
LEMMA ArrivingFrames ==
  ASSUME NEW kind \in Kinds, NEW x \in Fields(kind), NEW w \in PermanenceDelays
  PROVE  Frame(kind, x[1], x[2], x[3], w) \in Frames
<1>1. w \in Nat /\ (CHOOSE p \in Ports : TRUE) \in Ports /\ 0 \in 0 .. MaxIcys - 1
  BY MasterAssumption
<1>2. x[1] \in Ports /\ x[2] \in 0 .. MaxIcys - 1 /\ x[3] \in Memberships \union {{}}
  <2>1. CASE kind = "IN_FRAME"
    BY <2>1 DEF Fields
  <2>2. CASE kind = "CS"
    BY <1>1, <2>2 DEF Fields
  <2>3. CASE kind = "CA"
    BY <1>1, <2>3 DEF Fields
  <2> QED
    BY <2>1, <2>2, <2>3 DEF Kinds
<1> QED
  BY <1>1, <1>2 DEF Frame, Frames

(* PSEUDOSYNC replays the corrections of an earlier run.                       *)
LEMMA PseudoIncReplays ==
  ASSUME NEW m, NEW d, Basic(m, d), NEW h, Replaying(d, h), NEW e \in Due(d), e.ev = "inc"
  PROVE  LET n == Inc(Handled(d, e), e) IN Basic(m, n) /\ Replaying(n, h)
<1> DEFINE t == Handled(d, e)
           r == [t EXCEPT !.icyc = (@ + 1) % MaxIcys]
           n == RegisterNext(r, "inc")
<1>0. n = Inc(t, e)
  BY DEF Inc
<1>1. "inc" \in DOMAIN SlotOf /\ "clock_corr" \in Alarms \ {"inc"}
  BY SlotNames DEF Alarms
<1>2. /\ Basic(m, t) /\ Data(d, t) /\ Same(d, t, Alarms \ {"inc"}) /\ None(t, "inc")
  BY HandledEffect DEF Replaying, Once
<1> HIDE DEF t
<1>3. Once(t, "clock_corr")
  BY <1>1, <1>2, SameAlarm DEF Replaying
<1>4. Changes(t, r, {"icyc", "sync"}) /\ r.icyc = (t.icyc + 1) % MaxIcys /\ r.sync = t.sync
  BY <1>2 DEF Basic, Device, FieldNames, Changes
<1> HIDE DEF r
<1>5. r.icyc \in 0 .. MaxIcys /\ r.sync \in 0 .. LargestSync(m)
  <2>1. t.icyc \in Int /\ MaxIcys \in Nat \ {0} /\ t.sync \in 0 .. LargestSync(m)
    BY <1>2, MasterAssumption DEF Basic
  <2>2. t.icyc + 1 \in Int
    BY <2>1
  <2>3. (t.icyc + 1) % MaxIcys \in 0 .. MaxIcys - 1
    BY <2>1, <2>2, Remainder
  <2> QED
    BY <1>4, <2>1, <2>3
<1>6. Basic(m, r) /\ r.st = t.st /\ r.counter = t.counter /\ \A all : Same(t, r, all)
  <2> Basic(m, t) /\ Changes(t, r, {"icyc", "sync"})
    BY <1>2, <1>4
  <2>1. Basic(m, r) /\ r.st = t.st /\ r.counter = t.counter
    BY <1>5, SetsIcycAndSync
  <2>2. \A all : Same(t, r, all)
    BY <1>5, SetsIcycAndSync
  <2> QED
    BY <2>1, <2>2
<1>7. None(r, "inc") /\ Once(r, "clock_corr")
  <2>1. Same(t, r, {"inc", "clock_corr"})
    BY <1>6
  <2> QED
    BY <1>2, <1>3, <2>1, SameAlarm
<1>8. /\ Basic(m, n) /\ Data(r, n) /\ Only(n, "inc", Distance(r.clk, "inc", TRUE))
      /\ Same(r, n, Alarms \ {"inc"})
  BY <1>1, <1>6, <1>7, Registers DEF RegisterNext
<1> HIDE DEF n
<1>9. Distance(r.clk, "inc", TRUE) \in Nat
  <2>1. r.clk \in Int
    BY <1>6 DEF Basic
  <2> QED
    BY <1>1, <2>1, DistanceType
<1>10. Once(n, "inc") /\ Once(n, "clock_corr")
  <2>1. Once(n, "inc")
    BY <1>8, <1>9 DEF Once
  <2>2. Once(n, "clock_corr")
    BY <1>1, <1>7, <1>8, SameAlarm
  <2> QED
    BY <2>1, <2>2
<1>11. Replaying(n, h)
  BY <1>2, <1>6, <1>8, <1>10 DEF Replaying, Data
<1> QED
  BY <1>0, <1>8, <1>11 DEF t

LEMMA PseudoCorrReplays ==
  ASSUME NEW m, NEW d, Basic(m, d), NEW h, Replaying(d, h), NEW e \in Due(d), e.ev = "clock_corr",
         NEW c \in Recorded
  PROVE  LET n == RegisterNext(ClockCorrection(Handled(d, e), c), "clock_corr") IN
         Basic(m, n) /\ Replaying(n, h)
<1> DEFINE t == Handled(d, e)
           k == ClockCorrection(t, c)
           n == RegisterNext(k, "clock_corr")
<1>1. "clock_corr" \in DOMAIN SlotOf /\ "inc" \in DOMAIN SlotOf /\ "inc" \in Alarms \ {"clock_corr"}
  BY SlotNames DEF Alarms
<1>2. /\ Basic(m, t) /\ Data(d, t) /\ Same(d, t, Alarms \ {"clock_corr"}) /\ None(t, "clock_corr")
  BY HandledEffect DEF Replaying, Once
<1> HIDE DEF t
<1>3. Once(t, "inc")
  BY <1>1, <1>2, SameAlarm DEF Replaying
<1>4. PICK left \in Nat : Only(t, "inc", left)
  BY <1>3 DEF Once
<1>5. c \in Int
  BY MasterAssumption
<1>6. Basic(m, k) /\ Data(t, k) /\ None(k, "clock_corr") /\ Only(k, "inc", Larger(0, left + c))
  BY <1>1, <1>2, <1>4, <1>5, Corrects
<1> HIDE DEF k
<1>7. Larger(0, left + c) \in Nat
  BY <1>5 DEF Larger
<1>8. Once(k, "inc")
  BY <1>6, <1>7 DEF Once
<1>9. /\ Basic(m, n) /\ Data(k, n) /\ Only(n, "clock_corr", Distance(k.clk, "clock_corr", TRUE))
      /\ Same(k, n, Alarms \ {"clock_corr"})
  BY <1>1, <1>6, Registers DEF RegisterNext
<1> HIDE DEF n
<1>10. Once(n, "inc") /\ Once(n, "clock_corr")
  <2>1. k.clk \in Int
    BY <1>6 DEF Basic
  <2>2. Distance(k.clk, "clock_corr", TRUE) \in Nat
    BY <1>1, <2>1, DistanceType
  <2>3. Once(n, "clock_corr")
    BY <1>9, <2>2 DEF Once
  <2>4. Once(n, "inc")
    BY <1>1, <1>8, <1>9, SameAlarm
  <2> QED
    BY <2>3, <2>4
<1>11. Replaying(n, h)
  BY <1>2, <1>6, <1>9, <1>10 DEF Replaying, Data
<1> QED
  BY <1>9, <1>11 DEF n, k, t

(* A tick of time, and the states a master starts in.                          *)
LEMMA TickKeeps ==
  ASSUME NEW m, NEW d, NEW h, Sound(m, d, h), ~d.fault, NothingDue(d)
  PROVE  LET n == Silent(TimePasses(d)) IN
         Sound(m, n, h) /\ n.st = d.st /\ (n.clk = (d.clk + 1) % Cycle)
<1> DEFINE k == TimePasses(d)
           n == Silent(k)
<1>1. Basic(m, d) /\ h \in Histories /\ (Replaying(d, h) \/ Resting(d, h) \/ Following(d, h))
  BY DEF Sound
<1>2. /\ Changes(d, k, {"clk", "pend", "gone"}) /\ k.clk = (d.clk + 1) % Cycle /\ PendOK(k)
      /\ \A x \in Alarms : None(d, x) => None(k, x)
      /\ \A x \in Alarms : \A left : Only(d, x, left) => left \in Nat \ {0} /\ Only(k, x, left - 1)
  BY <1>1, TimePassesEffect DEF Basic
<1>3. Basic(m, k) /\ Data(d, k)
  <2>1. {"clk", "pend", "gone"} \in SUBSET Timing
    BY DEF Timing
  <2>2. d.clk + 1 \in Int /\ Cycle \in Nat \ {0}
    BY <1>1, SlotTimes DEF Basic
  <2>3. k.clk \in 0 .. Cycle - 1
    BY <1>2, <2>2, Remainder
  <2> HIDE DEF k
  <2> QED
    BY <1>1, <1>2, <2>1, <2>3, BasicKept
<1>4. \A x \in Alarms : Once(d, x) => Once(k, x)
  <2>1. ASSUME NEW x \in Alarms, NEW left \in Nat, Only(d, x, left) PROVE Once(k, x)
    <3>1. left - 1 \in Nat /\ Only(k, x, left - 1)
      BY <1>2, <2>1
    <3> QED
      BY <3>1 DEF Once
  <2> QED
    BY <2>1 DEF Once
<1>5. "inc" \in Alarms /\ "clock_corr" \in Alarms /\ "ASYNCHRON" \in Alarms /\ DOMAIN SlotOf \subseteq Alarms
  BY SlotNames DEF Alarms
<1>6. k.fault = d.fault
  BY <1>2 DEF Changes, FieldNames
<1>7. Sound(m, k, h)
  <2>1. CASE Replaying(d, h)
    <3>1. Replaying(k, h)
      BY <1>3, <1>4, <1>5, <2>1 DEF Replaying, Data
    <3> QED
      BY <1>1, <1>3, <3>1 DEF Sound
  <2>2. CASE Resting(d, h)
    <3>1. \A x \in DOMAIN SlotOf : None(k, x)
      BY <1>2, <1>5, <2>2 DEF Resting
    <3>2. d.st \in Waiting => Once(k, "ASYNCHRON")
      BY <1>4, <1>5, <2>2 DEF Resting
    <3>3. Resting(k, h)
      BY <1>3, <2>2, <3>1, <3>2 DEF Resting, Data
    <3> QED
      BY <1>1, <1>3, <3>3 DEF Sound
  <2>3. CASE Following(d, h)
    <3>1. PICK done \in Phases : InPhase(d, done, h)
      BY <2>3 DEF Following
    <3> DEFINE next == IF k.clk = 0 THEN {} ELSE done
    <3>2. OnTime(d, done) /\ Remembers(d, done, h) /\ (d.st # "TENTATIVE_SYNC" => Swept(d, done))
      BY <3>1 DEF InPhase
    <3>3. next \in Phases /\ OnTime(k, next) /\ done # {} /\ (None(k, "clock_corr") => None(d, "clock_corr"))
      BY <1>1, <3>2, TickOnTime
    <3>4. d.st # "TENTATIVE_SYNC" => Swept(k, next)
      BY <1>1, <3>2, TickSwept
    <3> HIDE DEF k
    <3>5. k.st = d.st /\ k.counter = d.counter /\ k.stack = d.stack /\ k.sync = d.sync
          /\ k.asyncR = d.asyncR /\ k.asyncF = d.asyncF /\ k.icyc = d.icyc
      BY <1>3 DEF Data
    <3>6. Remembers(k, next, h)
      <4>1. next # {} => next = done
        OBVIOUS
      <4>2. AsyncMembers(k) = AsyncMembers(d)
        BY <3>5 DEF AsyncMembers
      <4> HIDE DEF next
      <4> QED
        BY <3>2, <3>3, <3>5, <4>1, <4>2 DEF Remembers
    <3> HIDE DEF next
    <3>7. InPhase(k, next, h)
      BY <3>3, <3>4, <3>5, <3>6 DEF InPhase
    <3>8. Counts(k, h)
      BY <2>3, <3>5 DEF Following, Counts
    <3>9. Following(k, h)
      BY <2>3, <3>3, <3>5, <3>7, <3>8 DEF Following
    <3> QED
      BY <1>1, <1>3, <3>9 DEF Sound
  <2> QED
    BY <1>1, <2>1, <2>2, <2>3
<1> HIDE DEF k
<1>8. /\ Basic(m, n) /\ Data(k, n) /\ n.clk = k.clk /\ Same(k, n, Alarms)
  BY <1>3, SilentEffect
<1>9. ~k.fault
  BY <1>6
<1> HIDE DEF n
<1>10. Sound(m, n, h)
  BY <1>7, <1>8, <1>9, KeepsSound
<1>11. n.st = d.st /\ n.clk = (d.clk + 1) % Cycle
  BY <1>2, <1>3, <1>8 DEF Data
<1> QED
  BY <1>10, <1>11 DEF n, k

LEMMA BlankHistory == Blank \in Histories
BY DEF Blank, Histories

LEMMA PowersUp ==
  ASSUME NEW m \in Masters
  PROVE  Sound(m, Integrate(PowerUp), Blank) /\ Sound(m, PseudoSync, Blank)
<1>1. /\ Device(PowerUp) /\ PowerUp.pend = {} /\ PowerUp.clk = 0 /\ PowerUp.icyc = 0 /\ PowerUp.sync = 0
      /\ PowerUp.asyncR = {} /\ PowerUp.asyncF = {} /\ PowerUp.counter = 0 /\ PowerUp.stack = {}
      /\ PowerUp.timer = ListenTimeout /\ PowerUp.floodReceive = FALSE /\ PowerUp.closedWindow = FALSE
  BY DEF PowerUp, Device, FieldNames
<1>2. 0 \in 0 .. Cycle - 1 /\ 0 \in 0 .. MaxIcys /\ 0 \in 0 .. LargestSync(m) /\ 0 < MaxIcys /\ ListenTimeout \in Nat
  BY SlotTimes, SyncRange, MasterAssumption
<1> DEFINE p == [PowerUp EXCEPT !.st = "PSEUDOSYNC"]
           n == RegisterAll(p, {"clock_corr", "inc"})
<1>3. Sound(m, Integrate(PowerUp), Blank)
  <2> DEFINE i == [PowerUp EXCEPT !.st = "INTEGRATE"]
  <2>1. Device(i) /\ i.st = "INTEGRATE" /\ \A x \in FieldNames \ {"st"} : i[x] = PowerUp[x]
    BY <1>1 DEF Device, FieldNames
  <2>2. Integrate(PowerUp) = StartTimer(i, i.timer)
    <3>1. i.timer = PowerUp.timer
      BY <2>1 DEF FieldNames
    <3> QED
      BY <3>1 DEF Integrate, Await
  <2> HIDE DEF i
  <2>3. Basic(m, i) /\ i.counter = 0 /\ i.stack = {} /\ i.icyc < MaxIcys /\ \A x : None(i, x)
    BY <1>1, <1>2, <2>1 DEF Basic, PendOK, FieldNames, States, Waiting, None, Named
  <2>4. Idle(m, i)
    BY <2>3 DEF Idle
  <2>5. Waits(m, StartTimer(i, i.timer))
    <3> DEFINE s == StartTimer(i, i.timer)
    <3>1. i.timer \in Nat
      BY <2>3 DEF Basic
    <3>2. /\ Basic(m, s) /\ Data(i, s) /\ Only(s, "ASYNCHRON", i.timer) /\ Same(i, s, DOMAIN SlotOf)
      BY <2>3, <3>1, StartsTimer
    <3> HIDE DEF s
    <3>3. \A x \in DOMAIN SlotOf : None(s, x)
      BY <2>3, <3>2, SameAlarm
    <3>4. Idle(m, s) /\ s.st = "INTEGRATE" /\ Once(s, "ASYNCHRON")
      BY <2>1, <2>3, <3>1, <3>2, <3>3 DEF Idle, Data, Once
    <3> QED
      BY <3>4, IdleWaits DEF WaitStates, s
  <2> QED
    BY <2>2, <2>5, BlankHistory DEF Waits, Sound
<1>4. Sound(m, PseudoSync, Blank)
  <2>1. Device(p) /\ p.st = "PSEUDOSYNC" /\ \A x \in FieldNames \ {"st"} : p[x] = PowerUp[x]
    BY <1>1 DEF Device, FieldNames
  <2>2. PseudoSync = n
    BY DEF PseudoSync
  <2> HIDE DEF p
  <2>3. Basic(m, p) /\ p.counter = 0 /\ p.clk = 0 /\ \A x : None(p, x)
    BY <1>1, <1>2, <2>1 DEF Basic, PendOK, FieldNames, States, None, Named
  <2>4. {"clock_corr", "inc"} \in SUBSET DOMAIN SlotOf
    BY SlotNames
  <2>5. /\ Basic(m, n) /\ Data(p, n)
        /\ \A x \in {"clock_corr", "inc"} : None(p, x) => Only(n, x, Distance(p.clk, x, FALSE))
    BY <2>3, <2>4, RegistersAll
  <2> HIDE DEF n
  <2>6. Only(n, "inc", Distance(p.clk, "inc", FALSE)) /\ Only(n, "clock_corr", Distance(p.clk, "clock_corr", FALSE))
    BY <2>3, <2>5
  <2>7. Distance(p.clk, "inc", FALSE) \in Nat /\ Distance(p.clk, "clock_corr", FALSE) \in Nat
    <3>1. p.clk \in Int
      BY <2>3
    <3> QED
      BY <2>4, <3>1, DistanceType
  <2>8. Once(n, "inc") /\ Once(n, "clock_corr")
    BY <2>6, <2>7 DEF Once
  <2>9. Replaying(n, Blank)
    BY <2>1, <2>3, <2>5, <2>8 DEF Replaying, Data
  <2> QED
    BY <2>2, <2>5, <2>9, BlankHistory DEF Sound
<1> QED
  BY <1>3, <1>4
------------------------------------------------------------------------------
(* The steps of a master.                                                      *)

(* A step of one master that keeps the invariant and both limits.              *)
Good(m, d, h, n, k) ==
  /\ Sound(m, n, k)
  /\ d.st \in Synced /\ n.st \in Synced => Small(d.clk, n.clk)
  /\ d.st \in Synced /\ h.unheard # {} /\ k.unheard = {}
     /\ Cardinality(h.unheard) >= ThresholdAsync(d.st) => n.st \notin Synced

Moves(m, d, h) ==
  \E n, k : /\ sm' = [sm EXCEPT ![m] = n] /\ seen' = [seen EXCEPT ![m] = k]
            /\ Good(m, d, h, n, k)

(* The master m of a state in which the invariant holds.                       *)
At(m, d, h) ==
  /\ IInv /\ d = sm[m] /\ h = seen[m]
  /\ Sound(m, d, h)

(* A step of m that takes it to n and its history to k.                        *)
Goes(m, n, k) ==
  /\ sm' = [sm EXCEPT ![m] = n]
  /\ seen' = [seen EXCEPT ![m] = IF n.st \in Synced THEN k ELSE Blank]

LEMMA GoesTo ==
  ASSUME IInv, NEW m \in Masters, NEW n, sm' = [sm EXCEPT ![m] = n], NEW k, Noted(m, k)
  PROVE  Goes(m, n, k)
<1>1. sm'[m] = n
  BY DEF IInv
<1> QED
  BY <1>1 DEF Noted, Goes

LEMMA Modes ==
  ASSUME NEW m, NEW d, NEW h, Sound(m, d, h)
  PROVE  /\ Basic(m, d) /\ h \in Histories
         /\ d.st \in WaitStates => Resting(d, h) /\ h = Blank
         /\ d.st \in Synced => Following(d, h)
         /\ d.st = "PSEUDOSYNC" => Replaying(d, h) /\ h = Blank
BY DEF Sound, Replaying, Resting, Following, WaitStates, Synced

(* Steps of a master that waits.                                               *)
LEMMA EntersMoves ==
  ASSUME NEW m \in Masters, NEW d, NEW h, At(m, d, h), d.st \notin Synced,
         NEW n, NEW k \in Histories, Enters(m, n, k), Goes(m, n, k)
  PROVE  Moves(m, d, h)
<1>1. CASE Waits(m, n)
  <2>1. n.st \notin Synced /\ Sound(m, n, Blank)
    BY <1>1, BlankHistory DEF Waits, Resting, Sound
  <2>2. Good(m, d, h, n, Blank)
    BY <2>1 DEF Good
  <2>3. sm' = [sm EXCEPT ![m] = n] /\ seen' = [seen EXCEPT ![m] = Blank]
    BY <2>1 DEF Goes
  <2> QED
    BY <2>2, <2>3 DEF Moves
<1>2. CASE Basic(m, n) /\ Following(n, k)
  <2>1. n.st \in Synced /\ Sound(m, n, k)
    BY <1>2 DEF Following, Sound
  <2>2. Good(m, d, h, n, k)
    BY <2>1 DEF Good
  <2>3. sm' = [sm EXCEPT ![m] = n] /\ seen' = [seen EXCEPT ![m] = k]
    BY <2>1 DEF Goes
  <2> QED
    BY <2>2, <2>3 DEF Moves
<1> QED
  BY <1>1, <1>2 DEF Enters

(* Steps of a master that is synchronised.                                     *)
LEMMA ProceedsMoves ==
  ASSUME NEW m \in Masters, NEW d, NEW h, At(m, d, h), d.st \in Synced,
         NEW n, NEW k \in Histories, Proceeds(m, d, n, k), Goes(m, n, k),
         h.unheard # {} /\ k.unheard = {} /\ Cardinality(h.unheard) >= ThresholdAsync(d.st) => Waits(m, n)
  PROVE  Moves(m, d, h)
<1>1. CASE Waits(m, n)
  <2>1. n.st \notin Synced /\ Sound(m, n, Blank)
    BY <1>1, BlankHistory DEF Waits, Resting, Sound
  <2>2. Good(m, d, h, n, Blank)
    BY <2>1 DEF Good
  <2>3. sm' = [sm EXCEPT ![m] = n] /\ seen' = [seen EXCEPT ![m] = Blank]
    BY <2>1 DEF Goes
  <2> QED
    BY <2>2, <2>3 DEF Moves
<1>2. CASE ~Waits(m, n)
  <2>1. Basic(m, n) /\ Following(n, k) /\ Small(d.clk, n.clk)
    BY <1>2 DEF Proceeds
  <2>2. n.st \in Synced /\ Sound(m, n, k)
    BY <2>1 DEF Following, Sound
  <2>3. Good(m, d, h, n, k)
    BY <1>2, <2>1, <2>2 DEF Good
  <2>4. sm' = [sm EXCEPT ![m] = n] /\ seen' = [seen EXCEPT ![m] = k]
    BY <2>2 DEF Goes
  <2> QED
    BY <2>3, <2>4 DEF Moves
<1> QED
  BY <1>1, <1>2

LEMMA WaitingTaken ==
  ASSUME NEW m, NEW d, NEW h, Sound(m, d, h), d.st \in WaitStates, ~d.fault, NEW e \in Due(d)
  PROVE  LET t == Handled(d, e) IN
         /\ Idle(m, t) /\ t.st = d.st /\ t.clk = d.clk /\ t.sync = d.sync
         /\ t.st \in Waiting /\ e.ev # "ASYNCHRON" => Once(t, "ASYNCHRON")
         /\ e.ev \in Kinds => e \in Frames
         /\ h = Blank /\ h \in Histories
BY Modes, IdleTaken DEF Handled

(* PSEUDOSYNC.                                                                 *)
LEMMA ReplayingMoves ==
  ASSUME NEW m \in Masters, NEW d, NEW h, At(m, d, h), d.st = "PSEUDOSYNC",
         NEW n, Basic(m, n), Replaying(n, h), Goes(m, n, h)
  PROVE  Moves(m, d, h)
<1>1. h = Blank /\ h \in Histories /\ n.st = "PSEUDOSYNC"
  BY Modes DEF At, Replaying
<1>2. d.st \notin Synced /\ n.st \notin Synced
  BY <1>1 DEF Synced
<1>3. Good(m, d, h, n, Blank)
  BY <1>1, <1>2 DEF Good, Sound
<1>4. sm' = [sm EXCEPT ![m] = n] /\ seen' = [seen EXCEPT ![m] = Blank]
  BY <1>2 DEF Goes
<1> QED
  BY <1>3, <1>4 DEF Moves

LEMMA PseudoSteps ==
  ASSUME NEW m \in Masters, NEW d, NEW h, At(m, d, h), PseudoInc(m) \/ PseudoCorr(m)
  PROVE  Moves(m, d, h)
<1>0. Basic(m, d) /\ IInv /\ d = sm[m] /\ h = seen[m]
  BY Modes DEF At
<1>1. CASE PseudoInc(m)
  <2>1. d.st = "PSEUDOSYNC"
    BY <1>0, <1>1 DEF PseudoInc, On, Handles
  <2>2. PICK e, n :
        /\ e \in Due(d)
        /\ e.ev = "inc" /\ n = Inc(Handled(d, e), e)
        /\ sm' = [sm EXCEPT ![m] = n] /\ Noted(m, h)
    BY <1>0, <1>1 DEF PseudoInc, On, Handles, Handled
  <2>3. Basic(m, n) /\ Replaying(n, h)
    BY <1>0, <2>1, <2>2, Modes, PseudoIncReplays DEF At
  <2>4. Goes(m, n, h)
    BY <1>0, <2>2, GoesTo
  <2> QED
    BY <2>1, <2>3, <2>4, ReplayingMoves
<1>2. CASE PseudoCorr(m)
  <2>1. d.st = "PSEUDOSYNC"
    BY <1>0, <1>2 DEF PseudoCorr, On, Handles
  <2>2. PICK c, e, n :
           /\ c \in Recorded /\ e \in Due(d)
           /\ e.ev = "clock_corr" /\ n = RegisterNext(ClockCorrection(Handled(d, e), c), "clock_corr")
           /\ sm' = [sm EXCEPT ![m] = n] /\ Noted(m, h)
    BY <1>0, <1>2 DEF PseudoCorr, On, Handles, Handled
  <2>3. Basic(m, n) /\ Replaying(n, h)
    BY <1>0, <2>1, <2>2, Modes, PseudoCorrReplays DEF At
  <2>4. Goes(m, n, h)
    BY <1>0, <2>2, GoesTo
  <2> QED
    BY <2>1, <2>3, <2>4, ReplayingMoves
<1> QED
  BY <1>1, <1>2

LEMMA WaitsMoves ==
  ASSUME NEW m \in Masters, NEW d, NEW h, At(m, d, h), d.st \in WaitStates,
         NEW n, Waits(m, n), sm' = [sm EXCEPT ![m] = n], Noted(m, h)
  PROVE  Moves(m, d, h)
<1>1. h \in Histories /\ d.st \notin Synced
  BY Modes DEF At, WaitStates, Synced
<1>2. Goes(m, n, h)
  BY GoesTo DEF At
<1>3. Enters(m, n, h)
  BY DEF Enters
<1> QED
  BY <1>1, <1>2, <1>3, EntersMoves

(* INTEGRATE.                                                                 *)
LEMMA IntegrateSteps ==
  ASSUME NEW m \in Masters, NEW d, NEW h, At(m, d, h),
         IntegrateOnTimeout(m) \/ IntegrateOnCa(m) \/ IntegrateOnInFrame(m)
  PROVE  Moves(m, d, h)
<1>0. Sound(m, d, h) /\ d = sm[m] /\ h = seen[m]
  BY DEF At
<1>1. CASE IntegrateOnTimeout(m)
  <2>1. d.st = "INTEGRATE" /\ d.st \in WaitStates /\ ~d.fault
    BY <1>0, <1>1 DEF IntegrateOnTimeout, On, Handles, WaitStates
  <2>2. PICK e, t, n :
           /\ e \in Due(d)
           /\ e.ev = "ASYNCHRON" /\ t = Handled(d, e) /\ n = IntegrateTimeout(t, e)
           /\ sm' = [sm EXCEPT ![m] = n] /\ Noted(m, h)
    BY <1>0, <1>1 DEF IntegrateOnTimeout, On, Handles, Handled
  <2>3. /\ Idle(m, t) /\ t.st = "INTEGRATE"
        /\ t.st \in Waiting /\ e.ev # "ASYNCHRON" => Once(t, "ASYNCHRON")
    BY <1>0, <2>1, <2>2, WaitingTaken
  <2>4. Waits(m, n)
    BY <2>2, <2>3, IntegrateTimeoutWaits
  <2> QED
    BY <2>1, <2>2, <2>4, WaitsMoves
<1>2. CASE IntegrateOnCa(m)
  <2>1. d.st = "INTEGRATE" /\ d.st \in WaitStates /\ ~d.fault
    BY <1>0, <1>2 DEF IntegrateOnCa, On, Handles, WaitStates
  <2>2. PICK e, t, n :
           /\ e \in Due(d)
           /\ e.ev = "CA" /\ t = Handled(d, e) /\ n = Acknowledged(t, m)
           /\ sm' = [sm EXCEPT ![m] = n] /\ Noted(m, h)
    BY <1>0, <1>2 DEF IntegrateOnCa, On, Handles, Handled
  <2>3. /\ Idle(m, t) /\ t.st = "INTEGRATE"
        /\ t.st \in Waiting /\ e.ev # "ASYNCHRON" => Once(t, "ASYNCHRON")
    BY <1>0, <2>1, <2>2, WaitingTaken
  <2>4. Waits(m, n)
    BY <2>2, <2>3, AcknowledgedWaits
  <2> QED
    BY <2>1, <2>2, <2>4, WaitsMoves
<1>3. CASE IntegrateOnInFrame(m)
  <2> DEFINE k == [Blank EXCEPT !.heard = TRUE]
  <2>1. d.st = "INTEGRATE" /\ d.st \in WaitStates /\ ~d.fault /\ d.st \notin Synced
    BY <1>0, <1>3 DEF IntegrateOnInFrame, OnAdopted, Handles, WaitStates, Synced
  <2>2. PICK f, t, n :
           /\ f \in Due(d)
           /\ f.ev = "IN_FRAME" /\ t = Handled(d, f) /\ n = IntegrateInFrame(t, f)
           /\ sm' = [sm EXCEPT ![m] = n] /\ Noted(m, k)
    BY <1>0, <1>3 DEF IntegrateOnInFrame, OnAdopted, Handles, Handled
  <2>3. /\ Idle(m, t) /\ t.st = "INTEGRATE" /\ f \in Frames
        /\ t.st \in Waiting => Once(t, "ASYNCHRON")
    BY <1>0, <2>1, <2>2, WaitingTaken DEF Kinds
  <2>4. k.unheard = {} /\ k.silence = 0 /\ k.heard /\ k \in Histories
    BY DEF Blank, Histories
  <2> HIDE DEF k
  <2>5. Enters(m, n, k)
    BY <2>2, <2>3, <2>4, IntegrateInFrameEnters DEF Waiting
  <2>6. Goes(m, n, k)
    BY <2>2, GoesTo DEF At
  <2> QED
    BY <2>1, <2>4, <2>5, <2>6, EntersMoves
<1> QED
  BY <1>1, <1>2, <1>3

(* UNSYNC.                                                                    *)
LEMMA UnsyncSteps ==
  ASSUME NEW m \in Masters, NEW d, NEW h, At(m, d, h),
         UnsyncOnTimeout(m) \/ UnsyncOnCs(m) \/ UnsyncOnCa(m) \/ UnsyncOnInFrame(m)
  PROVE  Moves(m, d, h)
<1>0. Sound(m, d, h) /\ d = sm[m] /\ h = seen[m]
  BY DEF At
<1>1. CASE UnsyncOnTimeout(m)
  <2>1. d.st = "UNSYNC" /\ d.st \in WaitStates /\ ~d.fault
    BY <1>0, <1>1 DEF UnsyncOnTimeout, On, Handles, WaitStates
  <2>2. PICK e, t, n :
           /\ e \in Due(d)
           /\ e.ev = "ASYNCHRON" /\ t = Handled(d, e) /\ n = UnsyncTimeout(t, e)
           /\ sm' = [sm EXCEPT ![m] = n] /\ Noted(m, h)
    BY <1>0, <1>1 DEF UnsyncOnTimeout, On, Handles, Handled
  <2>3. /\ Idle(m, t) /\ t.st = "UNSYNC"
        /\ t.st \in Waiting /\ e.ev # "ASYNCHRON" => Once(t, "ASYNCHRON")
    BY <1>0, <2>1, <2>2, WaitingTaken
  <2>4. Waits(m, n)
    BY <2>2, <2>3, UnsyncTimeoutWaits
  <2> QED
    BY <2>1, <2>2, <2>4, WaitsMoves
<1>2. CASE UnsyncOnCs(m)
  <2>1. d.st = "UNSYNC" /\ d.st \in WaitStates /\ ~d.fault
    BY <1>0, <1>2 DEF UnsyncOnCs, On, Handles, WaitStates
  <2>2. PICK e, t, n :
           /\ e \in Due(d)
           /\ e.ev = "CS" /\ t = Handled(d, e) /\ n = UnsyncCs(t, e, m)
           /\ sm' = [sm EXCEPT ![m] = n] /\ Noted(m, h)
    BY <1>0, <1>2 DEF UnsyncOnCs, On, Handles, Handled
  <2>3. /\ Idle(m, t) /\ t.st = "UNSYNC"
        /\ t.st \in Waiting /\ e.ev # "ASYNCHRON" => Once(t, "ASYNCHRON")
    BY <1>0, <2>1, <2>2, WaitingTaken
  <2>4. Waits(m, n)
    BY <2>2, <2>3, UnsyncCsWaits
  <2> QED
    BY <2>1, <2>2, <2>4, WaitsMoves
<1>3. CASE UnsyncOnCa(m)
  <2>1. d.st = "UNSYNC" /\ d.st \in WaitStates /\ ~d.fault
    BY <1>0, <1>3 DEF UnsyncOnCa, On, Handles, WaitStates
  <2>2. PICK e, t, n :
           /\ e \in Due(d)
           /\ e.ev = "CA" /\ t = Handled(d, e) /\ n = Acknowledged(t, m)
           /\ sm' = [sm EXCEPT ![m] = n] /\ Noted(m, h)
    BY <1>0, <1>3 DEF UnsyncOnCa, On, Handles, Handled
  <2>3. /\ Idle(m, t) /\ t.st = "UNSYNC"
        /\ t.st \in Waiting /\ e.ev # "ASYNCHRON" => Once(t, "ASYNCHRON")
    BY <1>0, <2>1, <2>2, WaitingTaken
  <2>4. Waits(m, n)
    BY <2>2, <2>3, AcknowledgedWaits
  <2> QED
    BY <2>1, <2>2, <2>4, WaitsMoves
<1>4. CASE UnsyncOnInFrame(m)
  <2> DEFINE k == [Blank EXCEPT !.heard = TRUE]
  <2>1. d.st = "UNSYNC" /\ d.st \in WaitStates /\ ~d.fault /\ d.st \notin Synced
    BY <1>0, <1>4 DEF UnsyncOnInFrame, OnAdopted, Handles, WaitStates, Synced
  <2>2. PICK f, t, n :
           /\ f \in Due(d)
           /\ f.ev = "IN_FRAME" /\ t = Handled(d, f) /\ n = UnsyncInFrame(t, f)
           /\ sm' = [sm EXCEPT ![m] = n] /\ Noted(m, k)
    BY <1>0, <1>4 DEF UnsyncOnInFrame, OnAdopted, Handles, Handled
  <2>3. /\ Idle(m, t) /\ t.st = "UNSYNC" /\ f \in Frames
        /\ t.st \in Waiting => Once(t, "ASYNCHRON")
    BY <1>0, <2>1, <2>2, WaitingTaken DEF Kinds
  <2>4. k.unheard = {} /\ k.silence = 0 /\ k.heard /\ k \in Histories
    BY DEF Blank, Histories
  <2> HIDE DEF k
  <2>5. Enters(m, n, k)
    BY <2>2, <2>3, <2>4, UnsyncInFrameEnters
  <2>6. Goes(m, n, k)
    BY <2>2, GoesTo DEF At
  <2> QED
    BY <2>1, <2>4, <2>5, <2>6, EntersMoves
<1> QED
  BY <1>1, <1>2, <1>3, <1>4

(* FLOOD.                                                                     *)
LEMMA FloodSteps ==
  ASSUME NEW m \in Masters, NEW d, NEW h, At(m, d, h),
         FloodOnTimeout(m) \/ FloodOnCs(m) \/ FloodOnCa(m) \/ FloodOnInFrame(m)
  PROVE  Moves(m, d, h)
<1>0. Sound(m, d, h) /\ d = sm[m] /\ h = seen[m]
  BY DEF At
<1>1. CASE FloodOnTimeout(m)
  <2>1. d.st = "FLOOD" /\ d.st \in WaitStates /\ ~d.fault
    BY <1>0, <1>1 DEF FloodOnTimeout, On, Handles, WaitStates
  <2>2. PICK e, t, n :
           /\ e \in Due(d)
           /\ e.ev = "ASYNCHRON" /\ t = Handled(d, e) /\ n = FloodTimeout(t, e)
           /\ sm' = [sm EXCEPT ![m] = n] /\ Noted(m, h)
    BY <1>0, <1>1 DEF FloodOnTimeout, On, Handles, Handled
  <2>3. /\ Idle(m, t) /\ t.st = "FLOOD"
        /\ t.st \in Waiting /\ e.ev # "ASYNCHRON" => Once(t, "ASYNCHRON")
    BY <1>0, <2>1, <2>2, WaitingTaken
  <2>4. Waits(m, n)
    BY <2>2, <2>3, FloodTimeoutWaits
  <2> QED
    BY <2>1, <2>2, <2>4, WaitsMoves
<1>2. CASE FloodOnCs(m)
  <2>1. d.st = "FLOOD" /\ d.st \in WaitStates /\ ~d.fault
    BY <1>0, <1>2 DEF FloodOnCs, On, Handles, WaitStates
  <2>2. PICK e, t, n :
           /\ e \in Due(d)
           /\ e.ev = "CS" /\ t = Handled(d, e) /\ n = FloodCs(t, e)
           /\ sm' = [sm EXCEPT ![m] = n] /\ Noted(m, h)
    BY <1>0, <1>2 DEF FloodOnCs, On, Handles, Handled
  <2>3. /\ Idle(m, t) /\ t.st = "FLOOD"
        /\ t.st \in Waiting /\ e.ev # "ASYNCHRON" => Once(t, "ASYNCHRON")
    BY <1>0, <2>1, <2>2, WaitingTaken
  <2>4. Waits(m, n)
    BY <2>2, <2>3, FloodCsWaits
  <2> QED
    BY <2>1, <2>2, <2>4, WaitsMoves
<1>3. CASE FloodOnCa(m)
  <2>1. d.st = "FLOOD" /\ d.st \in WaitStates /\ ~d.fault
    BY <1>0, <1>3 DEF FloodOnCa, On, Handles, WaitStates
  <2>2. PICK e, t, n :
           /\ e \in Due(d)
           /\ e.ev = "CA" /\ t = Handled(d, e) /\ n = FloodCa(t, e)
           /\ sm' = [sm EXCEPT ![m] = n] /\ Noted(m, h)
    BY <1>0, <1>3 DEF FloodOnCa, On, Handles, Handled
  <2>3. /\ Idle(m, t) /\ t.st = "FLOOD"
        /\ t.st \in Waiting /\ e.ev # "ASYNCHRON" => Once(t, "ASYNCHRON")
    BY <1>0, <2>1, <2>2, WaitingTaken
  <2>4. Waits(m, n)
    BY <2>2, <2>3, FloodCaWaits DEF Waiting
  <2> QED
    BY <2>1, <2>2, <2>4, WaitsMoves
<1>4. CASE FloodOnInFrame(m)
  <2>1. d.st = "FLOOD" /\ d.st \in WaitStates /\ ~d.fault
    BY <1>0, <1>4 DEF FloodOnInFrame, On, Handles, WaitStates
  <2>2. PICK e, t, n :
           /\ e \in Due(d)
           /\ e.ev = "IN_FRAME" /\ t = Handled(d, e) /\ n = DropInFrame(t, e)
           /\ sm' = [sm EXCEPT ![m] = n] /\ Noted(m, h)
    BY <1>0, <1>4 DEF FloodOnInFrame, On, Handles, Handled
  <2>3. /\ Idle(m, t) /\ t.st = "FLOOD"
        /\ t.st \in Waiting /\ e.ev # "ASYNCHRON" => Once(t, "ASYNCHRON")
    BY <1>0, <2>1, <2>2, WaitingTaken
  <2>4. Waits(m, n)
    BY <2>2, <2>3, DropInFrameWaits DEF Waiting, WaitStates
  <2> QED
    BY <2>1, <2>2, <2>4, WaitsMoves
<1> QED
  BY <1>1, <1>2, <1>3, <1>4

(* WAIT_4_CYCLE_START_CS.                                                     *)
LEMMA WaitCsSteps ==
  ASSUME NEW m \in Masters, NEW d, NEW h, At(m, d, h),
         WaitCsOnTimeout(m) \/ WaitCsOnCs(m) \/ WaitCsOnCa(m) \/ WaitCsOnInFrame(m)
  PROVE  Moves(m, d, h)
<1>0. Sound(m, d, h) /\ d = sm[m] /\ h = seen[m]
  BY DEF At
<1>1. CASE WaitCsOnTimeout(m)
  <2>1. d.st = "WAIT_4_CYCLE_START_CS" /\ d.st \in WaitStates /\ ~d.fault /\ d.st \notin Synced
    BY <1>0, <1>1 DEF WaitCsOnTimeout, On, Handles, WaitStates, Synced
  <2>2. PICK e, t, n :
           /\ e \in Due(d)
           /\ t = Handled(d, e) /\ n = WaitCsTimeout(t, m)
           /\ sm' = [sm EXCEPT ![m] = n] /\ Noted(m, h)
    BY <1>0, <1>1 DEF WaitCsOnTimeout, On, Handles, Handled
  <2>3. Idle(m, t) /\ h = Blank /\ h \in Histories
    BY <1>0, <2>1, <2>2, WaitingTaken
  <2>4. Enters(m, n, h)
    BY <2>2, <2>3, WaitCsTimeoutEnters
  <2>5. Goes(m, n, h)
    BY <2>2, GoesTo DEF At
  <2> QED
    BY <2>1, <2>3, <2>4, <2>5, EntersMoves
<1>2. CASE WaitCsOnCs(m)
  <2>1. d.st = "WAIT_4_CYCLE_START_CS" /\ d.st \in WaitStates /\ ~d.fault
    BY <1>0, <1>2 DEF WaitCsOnCs, On, Handles, WaitStates
  <2>2. PICK e, t, n :
           /\ e \in Due(d)
           /\ e.ev = "CS" /\ t = Handled(d, e) /\ n = WaitCsCs(t, e)
           /\ sm' = [sm EXCEPT ![m] = n] /\ Noted(m, h)
    BY <1>0, <1>2 DEF WaitCsOnCs, On, Handles, Handled
  <2>3. /\ Idle(m, t) /\ t.st = "WAIT_4_CYCLE_START_CS"
        /\ t.st \in Waiting /\ e.ev # "ASYNCHRON" => Once(t, "ASYNCHRON")
    BY <1>0, <2>1, <2>2, WaitingTaken
  <2>4. Waits(m, n)
    BY <2>2, <2>3, WaitCsCsWaits
  <2> QED
    BY <2>1, <2>2, <2>4, WaitsMoves
<1>3. CASE WaitCsOnCa(m)
  <2>1. d.st = "WAIT_4_CYCLE_START_CS" /\ d.st \in WaitStates /\ ~d.fault
    BY <1>0, <1>3 DEF WaitCsOnCa, On, Handles, WaitStates
  <2>2. PICK e, t, n :
           /\ e \in Due(d)
           /\ e.ev = "CA" /\ t = Handled(d, e) /\ n = Acknowledged(t, m)
           /\ sm' = [sm EXCEPT ![m] = n] /\ Noted(m, h)
    BY <1>0, <1>3 DEF WaitCsOnCa, On, Handles, Handled
  <2>3. /\ Idle(m, t) /\ t.st = "WAIT_4_CYCLE_START_CS"
        /\ t.st \in Waiting /\ e.ev # "ASYNCHRON" => Once(t, "ASYNCHRON")
    BY <1>0, <2>1, <2>2, WaitingTaken
  <2>4. Waits(m, n)
    BY <2>2, <2>3, AcknowledgedWaits
  <2> QED
    BY <2>1, <2>2, <2>4, WaitsMoves
<1>4. CASE WaitCsOnInFrame(m)
  <2>1. d.st = "WAIT_4_CYCLE_START_CS" /\ d.st \in WaitStates /\ ~d.fault
    BY <1>0, <1>4 DEF WaitCsOnInFrame, On, Handles, WaitStates
  <2>2. PICK e, t, n :
           /\ e \in Due(d)
           /\ e.ev = "IN_FRAME" /\ t = Handled(d, e) /\ n = DropInFrame(t, e)
           /\ sm' = [sm EXCEPT ![m] = n] /\ Noted(m, h)
    BY <1>0, <1>4 DEF WaitCsOnInFrame, On, Handles, Handled
  <2>3. /\ Idle(m, t) /\ t.st = "WAIT_4_CYCLE_START_CS"
        /\ t.st \in Waiting /\ e.ev # "ASYNCHRON" => Once(t, "ASYNCHRON")
    BY <1>0, <2>1, <2>2, WaitingTaken
  <2>4. Waits(m, n)
    BY <2>2, <2>3, DropInFrameWaits DEF Waiting, WaitStates
  <2> QED
    BY <2>1, <2>2, <2>4, WaitsMoves
<1> QED
  BY <1>1, <1>2, <1>3, <1>4

(* WAIT_4_CYCLE_START.                                                        *)
LEMMA WaitCycleSteps ==
  ASSUME NEW m \in Masters, NEW d, NEW h, At(m, d, h),
         WaitCycleOnTimeout(m) \/ WaitCycleOnFrame(m)
  PROVE  Moves(m, d, h)
<1>0. Sound(m, d, h) /\ d = sm[m] /\ h = seen[m]
  BY DEF At
<1>1. CASE WaitCycleOnTimeout(m)
  <2>1. d.st = "WAIT_4_CYCLE_START" /\ d.st \in WaitStates /\ ~d.fault
    BY <1>0, <1>1 DEF WaitCycleOnTimeout, On, Handles, WaitStates
  <2>2. PICK e, t, n :
           /\ e \in Due(d)
           /\ e.ev = "ASYNCHRON" /\ t = Handled(d, e) /\ n = Ignore(t, e)
           /\ sm' = [sm EXCEPT ![m] = n] /\ Noted(m, h)
    BY <1>0, <1>1 DEF WaitCycleOnTimeout, On, Handles, Handled
  <2>3. /\ Idle(m, t) /\ t.st = "WAIT_4_CYCLE_START"
        /\ t.st \in Waiting /\ e.ev # "ASYNCHRON" => Once(t, "ASYNCHRON")
    BY <1>0, <2>1, <2>2, WaitingTaken
  <2>4. Waits(m, n)
    BY <2>2, <2>3, IgnoreWaits
  <2> QED
    BY <2>1, <2>2, <2>4, WaitsMoves
<1>2. CASE WaitCycleOnFrame(m)
  <2>1. d.st = "WAIT_4_CYCLE_START" /\ d.st \in WaitStates /\ ~d.fault /\ d.st \notin Synced
    BY <1>0, <1>2 DEF WaitCycleOnFrame, On, Handles, WaitStates, Synced
  <2>2. PICK e, t, n :
           /\ e \in Due(d)
           /\ t = Handled(d, e) /\ n = WaitCycleOther(t, e)
           /\ sm' = [sm EXCEPT ![m] = n] /\ Noted(m, h)
    BY <1>0, <1>2 DEF WaitCycleOnFrame, On, Handles, Handled
  <2>3. Idle(m, t) /\ h = Blank /\ h \in Histories
    BY <1>0, <2>1, <2>2, WaitingTaken
  <2>4. Enters(m, n, h)
    BY <2>2, <2>3, WaitCycleOtherEnters
  <2>5. Goes(m, n, h)
    BY <2>2, GoesTo DEF At
  <2> QED
    BY <2>1, <2>3, <2>4, <2>5, EntersMoves
<1> QED
  BY <1>1, <1>2

LEMMA QuietMoves ==
  ASSUME NEW m \in Masters, NEW d, NEW h, At(m, d, h), d.st \in Synced,
         NEW n, Proceeds(m, d, n, h), sm' = [sm EXCEPT ![m] = n], Noted(m, h)
  PROVE  Moves(m, d, h)
<1>1. h \in Histories
  BY Modes DEF At
<1>2. Goes(m, n, h)
  BY GoesTo DEF At
<1> QED
  BY <1>1, <1>2, ProceedsMoves

(* A CA frame.                                                                *)
LEMMA CaSteps ==
  ASSUME NEW m \in Masters, NEW d, NEW h, At(m, d, h),
         TentativeOnCa(m) \/ SyncOnCa(m) \/ StableOnCa(m)
  PROVE  Moves(m, d, h)
<1>0. Sound(m, d, h) /\ d = sm[m] /\ h = seen[m]
  BY DEF At
<1>1. CASE TentativeOnCa(m)
  <2>1. d.st = "TENTATIVE_SYNC" /\ d.st \in Synced
    BY <1>0, <1>1 DEF TentativeOnCa, On, Handles, Synced
  <2>2. PICK e, n :
           /\ e \in Due(d)
           /\ e.ev = "CA" /\ n = TentativeCa(Handled(d, e), m)
           /\ sm' = [sm EXCEPT ![m] = n] /\ Noted(m, h)
    BY <1>0, <1>1 DEF TentativeOnCa, On, Handles, Handled
  <2>3. Basic(m, d) /\ Following(d, h)
    BY <1>0, <2>1, Modes
  <2>4. Proceeds(m, d, n, h)
    BY <2>1, <2>2, <2>3, CaProceeds
  <2> QED
    BY <2>1, <2>2, <2>4, QuietMoves
<1>2. CASE SyncOnCa(m)
  <2>1. d.st = "SYNC" /\ d.st \in Synced
    BY <1>0, <1>2 DEF SyncOnCa, On, Handles, Synced
  <2>2. PICK e, n :
           /\ e \in Due(d)
           /\ e.ev = "CA" /\ n = SyncCa(Handled(d, e), m)
           /\ sm' = [sm EXCEPT ![m] = n] /\ Noted(m, h)
    BY <1>0, <1>2 DEF SyncOnCa, On, Handles, Handled
  <2>3. Basic(m, d) /\ Following(d, h)
    BY <1>0, <2>1, Modes
  <2>4. Proceeds(m, d, n, h)
    BY <2>1, <2>2, <2>3, CaProceeds
  <2> QED
    BY <2>1, <2>2, <2>4, QuietMoves
<1>3. CASE StableOnCa(m)
  <2>1. d.st = "STABLE" /\ d.st \in Synced
    BY <1>0, <1>3 DEF StableOnCa, On, Handles, Synced
  <2>2. PICK e, n :
           /\ e \in Due(d)
           /\ e.ev = "CA" /\ n = StableCa(Handled(d, e), m)
           /\ sm' = [sm EXCEPT ![m] = n] /\ Noted(m, h)
    BY <1>0, <1>3 DEF StableOnCa, On, Handles, Handled
  <2>3. Basic(m, d) /\ Following(d, h)
    BY <1>0, <2>1, Modes
  <2>4. Proceeds(m, d, n, h)
    BY <2>1, <2>2, <2>3, CaProceeds
  <2> QED
    BY <2>1, <2>2, <2>4, QuietMoves
<1> QED
  BY <1>1, <1>2, <1>3

(* CS frames and the timer have no effect.                                    *)
LEMMA OtherSteps ==
  ASSUME NEW m \in Masters, NEW d, NEW h, At(m, d, h),
         TentativeOnOther(m) \/ SyncOnOther(m)
  PROVE  Moves(m, d, h)
<1>0. Sound(m, d, h) /\ d = sm[m] /\ h = seen[m]
  BY DEF At
<1>1. CASE TentativeOnOther(m)
  <2>1. d.st = "TENTATIVE_SYNC" /\ d.st \in Synced
    BY <1>0, <1>1 DEF TentativeOnOther, On, Handles, Synced
  <2>2. PICK e, n :
           /\ e \in Due(d)
           /\ e.ev \in {"CS", "ASYNCHRON"} /\ n = Ignore(Handled(d, e), e)
           /\ sm' = [sm EXCEPT ![m] = n] /\ Noted(m, h)
    BY <1>0, <1>1 DEF TentativeOnOther, On, Handles, Handled
  <2>3. Basic(m, d) /\ Following(d, h)
    BY <1>0, <2>1, Modes
  <2>4. Proceeds(m, d, n, h)
    BY <2>1, <2>2, <2>3, IgnoreProceeds
  <2> QED
    BY <2>1, <2>2, <2>4, QuietMoves
<1>2. CASE SyncOnOther(m)
  <2>1. d.st = "SYNC" /\ d.st \in Synced
    BY <1>0, <1>2 DEF SyncOnOther, On, Handles, Synced
  <2>2. PICK e, n :
           /\ e \in Due(d)
           /\ e.ev \in {"CS", "ASYNCHRON"} /\ n = Ignore(Handled(d, e), e)
           /\ sm' = [sm EXCEPT ![m] = n] /\ Noted(m, h)
    BY <1>0, <1>2 DEF SyncOnOther, On, Handles, Handled
  <2>3. Basic(m, d) /\ Following(d, h)
    BY <1>0, <2>1, Modes
  <2>4. Proceeds(m, d, n, h)
    BY <2>1, <2>2, <2>3, IgnoreProceeds
  <2> QED
    BY <2>1, <2>2, <2>4, QuietMoves
<1> QED
  BY <1>1, <1>2

(* The next integration cycle.                                                *)
LEMMA IncSteps ==
  ASSUME NEW m \in Masters, NEW d, NEW h, At(m, d, h),
         TentativeOnInc(m) \/ SyncOnInc(m) \/ StableOnInc(m)
  PROVE  Moves(m, d, h)
<1>0. Sound(m, d, h) /\ d = sm[m] /\ h = seen[m]
  BY DEF At
<1>1. CASE TentativeOnInc(m)
  <2>1. d.st = "TENTATIVE_SYNC" /\ d.st \in Synced
    BY <1>0, <1>1 DEF TentativeOnInc, On, Handles, Synced
  <2>2. PICK e, n :
           /\ e \in Due(d)
           /\ e.ev = "inc" /\ n = Inc(Handled(d, e), e)
           /\ sm' = [sm EXCEPT ![m] = n] /\ Noted(m, h)
    BY <1>0, <1>1 DEF TentativeOnInc, On, Handles, Handled
  <2>3. Basic(m, d) /\ Following(d, h)
    BY <1>0, <2>1, Modes
  <2>4. Proceeds(m, d, n, h)
    BY <2>1, <2>2, <2>3, IncProceeds
  <2> QED
    BY <2>1, <2>2, <2>4, QuietMoves
<1>2. CASE SyncOnInc(m)
  <2>1. d.st = "SYNC" /\ d.st \in Synced
    BY <1>0, <1>2 DEF SyncOnInc, On, Handles, Synced
  <2>2. PICK e, n :
           /\ e \in Due(d)
           /\ e.ev = "inc" /\ n = Inc(Handled(d, e), e)
           /\ sm' = [sm EXCEPT ![m] = n] /\ Noted(m, h)
    BY <1>0, <1>2 DEF SyncOnInc, On, Handles, Handled
  <2>3. Basic(m, d) /\ Following(d, h)
    BY <1>0, <2>1, Modes
  <2>4. Proceeds(m, d, n, h)
    BY <2>1, <2>2, <2>3, IncProceeds
  <2> QED
    BY <2>1, <2>2, <2>4, QuietMoves
<1>3. CASE StableOnInc(m)
  <2>1. d.st = "STABLE" /\ d.st \in Synced
    BY <1>0, <1>3 DEF StableOnInc, On, Handles, Synced
  <2>2. PICK e, n :
           /\ e \in Due(d)
           /\ e.ev = "inc" /\ n = Inc(Handled(d, e), e)
           /\ sm' = [sm EXCEPT ![m] = n] /\ Noted(m, h)
    BY <1>0, <1>3 DEF StableOnInc, On, Handles, Handled
  <2>3. Basic(m, d) /\ Following(d, h)
    BY <1>0, <2>1, Modes
  <2>4. Proceeds(m, d, n, h)
    BY <2>1, <2>2, <2>3, IncProceeds
  <2> QED
    BY <2>1, <2>2, <2>4, QuietMoves
<1> QED
  BY <1>1, <1>2, <1>3

(* The correction of the clock.                                               *)
LEMMA ClockCorrSteps ==
  ASSUME NEW m \in Masters, NEW d, NEW h, At(m, d, h),
         TentativeOnClockCorr(m) \/ SyncOnClockCorr(m) \/ StableOnClockCorr(m)
  PROVE  Moves(m, d, h)
<1>0. Sound(m, d, h) /\ d = sm[m] /\ h = seen[m]
  BY DEF At
<1>1. CASE TentativeOnClockCorr(m)
  <2>1. d.st = "TENTATIVE_SYNC" /\ d.st \in Synced
    BY <1>0, <1>1 DEF TentativeOnClockCorr, On, Handles, Synced
  <2>2. PICK e, n :
           /\ e \in Due(d)
           /\ e.ev = "clock_corr" /\ n = ClockCorr(Handled(d, e), e)
           /\ sm' = [sm EXCEPT ![m] = n] /\ Noted(m, h)
    BY <1>0, <1>1 DEF TentativeOnClockCorr, On, Handles, Handled
  <2>3. Basic(m, d) /\ Following(d, h)
    BY <1>0, <2>1, Modes
  <2>4. Proceeds(m, d, n, h)
    BY <2>1, <2>2, <2>3, ClockCorrProceeds
  <2> QED
    BY <2>1, <2>2, <2>4, QuietMoves
<1>2. CASE SyncOnClockCorr(m)
  <2>1. d.st = "SYNC" /\ d.st \in Synced
    BY <1>0, <1>2 DEF SyncOnClockCorr, On, Handles, Synced
  <2>2. PICK e, n :
           /\ e \in Due(d)
           /\ e.ev = "clock_corr" /\ n = ClockCorr(Handled(d, e), e)
           /\ sm' = [sm EXCEPT ![m] = n] /\ Noted(m, h)
    BY <1>0, <1>2 DEF SyncOnClockCorr, On, Handles, Handled
  <2>3. Basic(m, d) /\ Following(d, h)
    BY <1>0, <2>1, Modes
  <2>4. Proceeds(m, d, n, h)
    BY <2>1, <2>2, <2>3, ClockCorrProceeds
  <2> QED
    BY <2>1, <2>2, <2>4, QuietMoves
<1>3. CASE StableOnClockCorr(m)
  <2>1. d.st = "STABLE" /\ d.st \in Synced
    BY <1>0, <1>3 DEF StableOnClockCorr, On, Handles, Synced
  <2>2. PICK e, n :
           /\ e \in Due(d)
           /\ e.ev = "clock_corr" /\ n = ClockCorr(Handled(d, e), e)
           /\ sm' = [sm EXCEPT ![m] = n] /\ Noted(m, h)
    BY <1>0, <1>3 DEF StableOnClockCorr, On, Handles, Handled
  <2>3. Basic(m, d) /\ Following(d, h)
    BY <1>0, <2>1, Modes
  <2>4. Proceeds(m, d, n, h)
    BY <2>1, <2>2, <2>3, ClockCorrProceeds
  <2> QED
    BY <2>1, <2>2, <2>4, QuietMoves
<1> QED
  BY <1>1, <1>2, <1>3

(* The other half-window is cleared.                                          *)
LEMMA AsyncUpSteps ==
  ASSUME NEW m \in Masters, NEW d, NEW h, At(m, d, h),
         TentativeOnAsyncUp(m) \/ SyncOnAsyncUp(m) \/ StableOnAsyncUp(m)
  PROVE  Moves(m, d, h)
<1>0. Sound(m, d, h) /\ d = sm[m] /\ h = seen[m]
  BY DEF At
<1>1. CASE TentativeOnAsyncUp(m)
  <2>1. d.st = "TENTATIVE_SYNC" /\ d.st \in Synced
    BY <1>0, <1>1 DEF TentativeOnAsyncUp, On, Handles, Synced
  <2>2. PICK e, n :
           /\ e \in Due(d)
           /\ e.ev = "async_up" /\ n = AsyncUp(Handled(d, e), e)
           /\ sm' = [sm EXCEPT ![m] = n] /\ Noted(m, h)
    BY <1>0, <1>1 DEF TentativeOnAsyncUp, On, Handles, Handled
  <2>3. Basic(m, d) /\ Following(d, h)
    BY <1>0, <2>1, Modes
  <2>4. Proceeds(m, d, n, h)
    BY <2>1, <2>2, <2>3, AsyncUpProceeds
  <2> QED
    BY <2>1, <2>2, <2>4, QuietMoves
<1>2. CASE SyncOnAsyncUp(m)
  <2>1. d.st = "SYNC" /\ d.st \in Synced
    BY <1>0, <1>2 DEF SyncOnAsyncUp, On, Handles, Synced
  <2>2. PICK e, n :
           /\ e \in Due(d)
           /\ e.ev = "async_up" /\ n = AsyncUp(Handled(d, e), e)
           /\ sm' = [sm EXCEPT ![m] = n] /\ Noted(m, h)
    BY <1>0, <1>2 DEF SyncOnAsyncUp, On, Handles, Handled
  <2>3. Basic(m, d) /\ Following(d, h)
    BY <1>0, <2>1, Modes
  <2>4. Proceeds(m, d, n, h)
    BY <2>1, <2>2, <2>3, AsyncUpProceeds
  <2> QED
    BY <2>1, <2>2, <2>4, QuietMoves
<1>3. CASE StableOnAsyncUp(m)
  <2>1. d.st = "STABLE" /\ d.st \in Synced
    BY <1>0, <1>3 DEF StableOnAsyncUp, On, Handles, Synced
  <2>2. PICK e, n :
           /\ e \in Due(d)
           /\ e.ev = "async_up" /\ n = AsyncUp(Handled(d, e), e)
           /\ sm' = [sm EXCEPT ![m] = n] /\ Noted(m, h)
    BY <1>0, <1>3 DEF StableOnAsyncUp, On, Handles, Handled
  <2>3. Basic(m, d) /\ Following(d, h)
    BY <1>0, <2>1, Modes
  <2>4. Proceeds(m, d, n, h)
    BY <2>1, <2>2, <2>3, AsyncUpProceeds
  <2> QED
    BY <2>1, <2>2, <2>4, QuietMoves
<1> QED
  BY <1>1, <1>2, <1>3

(* Clique detection.                                                          *)
LEMMA AsyncEvalSteps ==
  ASSUME NEW m \in Masters, NEW d, NEW h, At(m, d, h),
         TentativeOnAsyncEval(m) \/ SyncOnAsyncEval(m) \/ StableOnAsyncEval(m)
  PROVE  Moves(m, d, h)
<1>0. Sound(m, d, h) /\ d = sm[m] /\ h = seen[m]
  BY DEF At
<1>1. CASE TentativeOnAsyncEval(m)
  <2>1. d.st = "TENTATIVE_SYNC" /\ d.st \in Synced /\ ThresholdAsync(d.st) = TentativeThresholdAsync
    BY <1>0, <1>1 DEF TentativeOnAsyncEval, OnAsyncEval, Handles, Synced, ThresholdAsync
  <2>2. PICK e, n, k :
           /\ e \in Due(d)
           /\ e.ev = "async_eval" /\ n = TentativeAsyncEval(Handled(d, e), e) /\ k = [h EXCEPT !.unheard = {}]
           /\ sm' = [sm EXCEPT ![m] = n] /\ Noted(m, k)
    BY <1>0, <1>1 DEF TentativeOnAsyncEval, OnAsyncEval, Handles, Handled
  <2>3. Basic(m, d) /\ Following(d, h) /\ h \in Histories
    BY <1>0, <2>1, Modes
  <2>4. k \in Histories /\ k.unheard = {} /\ k.heard = h.heard /\ k.silence = h.silence
    BY <2>2, <2>3 DEF Histories
  <2>5. /\ Proceeds(m, d, n, k)
        /\ Cardinality(h.unheard) >= TentativeThresholdAsync => Waits(m, n)
    BY <2>1, <2>2, <2>3, <2>4, AsyncEvalProceeds
  <2>6. Goes(m, n, k)
    BY <2>2, GoesTo DEF At
  <2> QED
    BY <2>1, <2>4, <2>5, <2>6, ProceedsMoves
<1>2. CASE SyncOnAsyncEval(m)
  <2>1. d.st = "SYNC" /\ d.st \in Synced /\ ThresholdAsync(d.st) = SyncThresholdAsync
    BY <1>0, <1>2 DEF SyncOnAsyncEval, OnAsyncEval, Handles, Synced, ThresholdAsync
  <2>2. PICK e, n, k :
           /\ e \in Due(d)
           /\ e.ev = "async_eval" /\ n = SyncAsyncEval(Handled(d, e), e) /\ k = [h EXCEPT !.unheard = {}]
           /\ sm' = [sm EXCEPT ![m] = n] /\ Noted(m, k)
    BY <1>0, <1>2 DEF SyncOnAsyncEval, OnAsyncEval, Handles, Handled
  <2>3. Basic(m, d) /\ Following(d, h) /\ h \in Histories
    BY <1>0, <2>1, Modes
  <2>4. k \in Histories /\ k.unheard = {} /\ k.heard = h.heard /\ k.silence = h.silence
    BY <2>2, <2>3 DEF Histories
  <2>5. /\ Proceeds(m, d, n, k)
        /\ Cardinality(h.unheard) >= SyncThresholdAsync => Waits(m, n)
    BY <2>1, <2>2, <2>3, <2>4, AsyncEvalProceeds
  <2>6. Goes(m, n, k)
    BY <2>2, GoesTo DEF At
  <2> QED
    BY <2>1, <2>4, <2>5, <2>6, ProceedsMoves
<1>3. CASE StableOnAsyncEval(m)
  <2>1. d.st = "STABLE" /\ d.st \in Synced /\ ThresholdAsync(d.st) = StableThresholdAsync
    BY <1>0, <1>3 DEF StableOnAsyncEval, OnAsyncEval, Handles, Synced, ThresholdAsync
  <2>2. PICK e, n, k :
           /\ e \in Due(d)
           /\ e.ev = "async_eval" /\ n = StableAsyncEval(Handled(d, e), e) /\ k = [h EXCEPT !.unheard = {}]
           /\ sm' = [sm EXCEPT ![m] = n] /\ Noted(m, k)
    BY <1>0, <1>3 DEF StableOnAsyncEval, OnAsyncEval, Handles, Handled
  <2>3. Basic(m, d) /\ Following(d, h) /\ h \in Histories
    BY <1>0, <2>1, Modes
  <2>4. k \in Histories /\ k.unheard = {} /\ k.heard = h.heard /\ k.silence = h.silence
    BY <2>2, <2>3 DEF Histories
  <2>5. /\ Proceeds(m, d, n, k)
        /\ Cardinality(h.unheard) >= StableThresholdAsync => Waits(m, n)
    BY <2>1, <2>2, <2>3, <2>4, AsyncEvalProceeds
  <2>6. Goes(m, n, k)
    BY <2>2, GoesTo DEF At
  <2> QED
    BY <2>1, <2>4, <2>5, <2>6, ProceedsMoves
<1> QED
  BY <1>1, <1>2, <1>3

(* The evaluation of a cycle.                                                 *)
LEMMA SyncEvalSteps ==
  ASSUME NEW m \in Masters, NEW d, NEW h, At(m, d, h),
         TentativeOnSyncEval(m) \/ SyncOnSyncEval(m) \/ StableOnSyncEval(m)
  PROVE  Moves(m, d, h)
<1>0. Sound(m, d, h) /\ d = sm[m] /\ h = seen[m]
  BY DEF At
<1>1. CASE TentativeOnSyncEval(m)
  <2>1. d.st = "TENTATIVE_SYNC" /\ d.st \in Synced
    BY <1>0, <1>1 DEF TentativeOnSyncEval, OnSyncEval, Handles, Synced
  <2>2. PICK e, n, k :
           /\ e \in Due(d)
           /\ e.ev = "sync_eval" /\ n = TentativeSyncEval(Handled(d, e), e)
           /\ k = [h EXCEPT !.silence = IF h.heard THEN 0 ELSE @ + 1, !.heard = FALSE]
           /\ sm' = [sm EXCEPT ![m] = n] /\ Noted(m, k)
    BY <1>0, <1>1 DEF TentativeOnSyncEval, OnSyncEval, Handles, Handled
  <2>3. Basic(m, d) /\ Following(d, h) /\ h \in Histories
    BY <1>0, <2>1, Modes
  <2>4. k \in Histories /\ k.unheard = h.unheard /\ k.silence = IF h.heard THEN 0 ELSE h.silence + 1
    <3>1. PICK silence \in Nat : silence = IF h.heard THEN 0 ELSE h.silence + 1
      BY <2>3 DEF Histories
    <3>2. k = [h EXCEPT !.silence = silence, !.heard = FALSE]
      BY <2>2, <3>1
    <3> QED
      BY <2>3, <3>1, <3>2 DEF Histories
  <2>5. Proceeds(m, d, n, k)
    BY <2>1, <2>2, <2>3, <2>4, TentativeSyncEvalProceeds
  <2>6. Goes(m, n, k)
    BY <2>2, GoesTo DEF At
  <2> QED
    BY <2>1, <2>4, <2>5, <2>6, ProceedsMoves
<1>2. CASE SyncOnSyncEval(m)
  <2>1. d.st = "SYNC" /\ d.st \in Synced
    BY <1>0, <1>2 DEF SyncOnSyncEval, OnSyncEval, Handles, Synced
  <2>2. PICK e, n, k :
           /\ e \in Due(d)
           /\ e.ev = "sync_eval" /\ n = SyncSyncEval(Handled(d, e), e)
           /\ k = [h EXCEPT !.silence = IF h.heard THEN 0 ELSE @ + 1, !.heard = FALSE]
           /\ sm' = [sm EXCEPT ![m] = n] /\ Noted(m, k)
    BY <1>0, <1>2 DEF SyncOnSyncEval, OnSyncEval, Handles, Handled
  <2>3. Basic(m, d) /\ Following(d, h) /\ h \in Histories
    BY <1>0, <2>1, Modes
  <2>4. k \in Histories /\ k.unheard = h.unheard /\ k.silence = IF h.heard THEN 0 ELSE h.silence + 1
    <3>1. PICK silence \in Nat : silence = IF h.heard THEN 0 ELSE h.silence + 1
      BY <2>3 DEF Histories
    <3>2. k = [h EXCEPT !.silence = silence, !.heard = FALSE]
      BY <2>2, <3>1
    <3> QED
      BY <2>3, <3>1, <3>2 DEF Histories
  <2>5. Proceeds(m, d, n, k)
    BY <2>1, <2>2, <2>3, <2>4, SyncSyncEvalProceeds
  <2>6. Goes(m, n, k)
    BY <2>2, GoesTo DEF At
  <2> QED
    BY <2>1, <2>4, <2>5, <2>6, ProceedsMoves
<1>3. CASE StableOnSyncEval(m)
  <2>1. d.st = "STABLE" /\ d.st \in Synced
    BY <1>0, <1>3 DEF StableOnSyncEval, OnSyncEval, Handles, Synced
  <2>2. PICK e, n, k :
           /\ e \in Due(d)
           /\ e.ev = "sync_eval" /\ n = StableSyncEval(Handled(d, e), e)
           /\ k = [h EXCEPT !.silence = IF h.heard THEN 0 ELSE @ + 1, !.heard = FALSE]
           /\ sm' = [sm EXCEPT ![m] = n] /\ Noted(m, k)
    BY <1>0, <1>3 DEF StableOnSyncEval, OnSyncEval, Handles, Handled
  <2>3. Basic(m, d) /\ Following(d, h) /\ h \in Histories
    BY <1>0, <2>1, Modes
  <2>4. k \in Histories /\ k.unheard = h.unheard /\ k.silence = IF h.heard THEN 0 ELSE h.silence + 1
    <3>1. PICK silence \in Nat : silence = IF h.heard THEN 0 ELSE h.silence + 1
      BY <2>3 DEF Histories
    <3>2. k = [h EXCEPT !.silence = silence, !.heard = FALSE]
      BY <2>2, <3>1
    <3> QED
      BY <2>3, <3>1, <3>2 DEF Histories
  <2>5. Proceeds(m, d, n, k)
    BY <2>1, <2>2, <2>3, <2>4, StableSyncEvalProceeds
  <2>6. Goes(m, n, k)
    BY <2>2, GoesTo DEF At
  <2> QED
    BY <2>1, <2>4, <2>5, <2>6, ProceedsMoves
<1> QED
  BY <1>1, <1>2, <1>3

(* A frame becomes permanent.                                                  *)
LEMMA InFrameMoves ==
  ASSUME NEW m \in Masters, NEW d, NEW h, At(m, d, h), NEW st \in Synced, NEW threshold,
         threshold = Threshold(st), OnInFrame(m, st, threshold)
  PROVE  Moves(m, d, h)
<1>0. Sound(m, d, h) /\ d = sm[m] /\ h = seen[m] /\ IInv
  BY DEF At
<1>1. d.st = st
  BY <1>0 DEF OnInFrame, Handles
<1>2. PICK f, k :
         /\ f \in Due(d)
         /\ f.ev = "IN_FRAME" /\ sm'[m] = InFrame(Handled(d, f), f)
         /\ k = (IF ~OnSchedule(d, f) THEN [h EXCEPT !.unheard = @ \union f.members]
                 ELSE [h EXCEPT !.heard = @ \/ (/\ Accepted(Cardinality(f.members))
                                                /\ Cardinality(f.members) >= threshold)])
         /\ Noted(m, k)
  BY <1>0 DEF OnInFrame, Handled
<1>3. PICK n : n = InFrame(Handled(d, f), f)
  OBVIOUS
<1>4. sm' = [sm EXCEPT ![m] = n]
  <2>1. PICK x : sm' = [sm EXCEPT ![m] = x]
    BY DEF OnInFrame, Handles
  <2>2. sm'[m] = x
    BY <1>0, <2>1 DEF IInv
  <2> QED
    BY <1>2, <1>3, <2>1, <2>2
<1>5. Basic(m, d) /\ Following(d, h) /\ h \in Histories
  BY <1>0, <1>1, Modes
<1>6. /\ k.silence = h.silence
      /\ IF ~OnSchedule(d, f)
           THEN k.unheard = h.unheard \union f.members /\ k.heard = h.heard
           ELSE /\ k.unheard = h.unheard
                /\ k.heard = (h.heard \/ (/\ Accepted(Cardinality(f.members))
                                         /\ Cardinality(f.members) >= Threshold(d.st)))
  <2>1. CASE ~OnSchedule(d, f)
    <3>1. k = [h EXCEPT !.unheard = @ \union f.members]
      BY <1>2, <2>1
    <3> QED
      BY <1>5, <2>1, <3>1 DEF Histories
  <2>2. CASE OnSchedule(d, f)
    <3>1. k = [h EXCEPT !.heard = @ \/ (/\ Accepted(Cardinality(f.members))
                                        /\ Cardinality(f.members) >= Threshold(d.st))]
      BY <1>1, <1>2, <2>2
    <3> QED
      BY <1>5, <2>2, <3>1 DEF Histories
  <2> QED
    BY <2>1, <2>2
<1>7. Proceeds(m, d, n, k) /\ f.members \subseteq UNION Memberships
  <2>1. f \in Due(d) /\ f.ev = "IN_FRAME"
    BY <1>2
  <2>2. Proceeds(m, d, InFrame(Handled(d, f), f), k) /\ f.members \subseteq UNION Memberships
    BY <1>5, <1>6, <2>1, InFrameProceeds
  <2> QED
    BY <1>3, <2>2
<1>8. k \in Histories
  <2>1. CASE ~OnSchedule(d, f)
    BY <1>2, <1>5, <1>7, <2>1 DEF Histories
  <2>2. CASE OnSchedule(d, f)
    <3>1. h.heard \in BOOLEAN /\ Accepted(Cardinality(f.members)) \in BOOLEAN
          /\ (Cardinality(f.members) >= threshold) \in BOOLEAN
      BY <1>5 DEF Histories, Accepted
    <3> QED
      BY <1>2, <1>5, <2>2, <3>1 DEF Histories
  <2> QED
    BY <2>1, <2>2
<1>9. h.unheard \subseteq k.unheard
  BY <1>6
<1>10. Goes(m, n, k)
  BY <1>0, <1>2, <1>4, GoesTo
<1> QED
  BY <1>1, <1>7, <1>8, <1>9, <1>10, ProceedsMoves

LEMMA InFrameSteps ==
  ASSUME NEW m \in Masters, NEW d, NEW h, At(m, d, h),
         TentativeOnInFrame(m) \/ SyncOnInFrame(m) \/ StableOnInFrame(m)
  PROVE  Moves(m, d, h)
<1>1. /\ "TENTATIVE_SYNC" \in Synced /\ TentativeThresholdSync = Threshold("TENTATIVE_SYNC")
      /\ "SYNC" \in Synced /\ SyncThresholdSync = Threshold("SYNC")
      /\ "STABLE" \in Synced /\ StableThresholdSync = Threshold("STABLE")
  BY DEF Synced, Threshold
<1> QED
  BY <1>1, InFrameMoves DEF TentativeOnInFrame, SyncOnInFrame, StableOnInFrame

(* A frame arrives.                                                            *)
LEMMA ReceptionSteps ==
  ASSUME NEW m \in Masters, NEW d, NEW h, At(m, d, h), NEW f \in Frames, Receives(m, f)
  PROVE  Moves(m, d, h)
<1>0. Sound(m, d, h) /\ d = sm[m] /\ h = seen[m] /\ IInv /\ Basic(m, d)
  BY Modes DEF At
<1>1. Basic(m, Silent(d)) /\ Data(d, Silent(d)) /\ Silent(d).clk = d.clk /\ Same(d, Silent(d), Alarms)
  BY <1>0, SilentEffect
<1>2. PICK n : Filing(Silent(d), n) /\ sm' = [sm EXCEPT ![m] = n] /\ ~d.fault /\ UNCHANGED seen
  <2>1. CASE IntegrateRCin(m, f)
    <3>1. \E n \in ReceiveIntegrating(Silent(d), f) : sm' = [sm EXCEPT ![m] = n]
      BY <1>0, <2>1 DEF IntegrateRCin, RCin, Silent
    <3>2. ~d.fault /\ UNCHANGED seen
      BY <1>0, <2>1 DEF IntegrateRCin, RCin
    <3> QED
      BY <1>1, <3>1, <3>2, ReceptionFiles
  <2>2. CASE UnsyncRCin(m, f)
    <3>1. \E n \in ReceiveUnsync(Silent(d), f) : sm' = [sm EXCEPT ![m] = n]
      BY <1>0, <2>2 DEF UnsyncRCin, RCin, Silent
    <3>2. ~d.fault /\ UNCHANGED seen
      BY <1>0, <2>2 DEF UnsyncRCin, RCin
    <3> QED
      BY <1>1, <3>1, <3>2, ReceptionFiles
  <2>3. CASE FloodRCin(m, f)
    <3>1. \E n \in ReceiveFlooding(Silent(d), f) : sm' = [sm EXCEPT ![m] = n]
      BY <1>0, <2>3 DEF FloodRCin, RCin, Silent
    <3>2. ~d.fault /\ UNCHANGED seen
      BY <1>0, <2>3 DEF FloodRCin, RCin
    <3> QED
      BY <1>1, <3>1, <3>2, ReceptionFiles
  <2>4. CASE WaitCsRCin(m, f)
    <3>1. \E n \in ReceiveFlooding(Silent(d), f) : sm' = [sm EXCEPT ![m] = n]
      BY <1>0, <2>4 DEF WaitCsRCin, RCin, Silent
    <3>2. ~d.fault /\ UNCHANGED seen
      BY <1>0, <2>4 DEF WaitCsRCin, RCin
    <3> QED
      BY <1>1, <3>1, <3>2, ReceptionFiles
  <2>5. CASE WaitCycleRCin(m, f)
    <3>1. \E n \in ReceiveWaiting(Silent(d), f) : sm' = [sm EXCEPT ![m] = n]
      BY <1>0, <2>5 DEF WaitCycleRCin, RCin, Silent
    <3>2. ~d.fault /\ UNCHANGED seen
      BY <1>0, <2>5 DEF WaitCycleRCin, RCin
    <3> QED
      BY <1>1, <3>1, <3>2, ReceptionFiles
  <2>6. CASE TentativeRCin(m, f)
    <3>1. \E n \in ReceiveSynced(Silent(d), f) : sm' = [sm EXCEPT ![m] = n]
      BY <1>0, <2>6 DEF TentativeRCin, RCin, Silent
    <3>2. ~d.fault /\ UNCHANGED seen
      BY <1>0, <2>6 DEF TentativeRCin, RCin
    <3> QED
      BY <1>1, <3>1, <3>2, ReceptionFiles
  <2>7. CASE SyncRCin(m, f)
    <3>1. \E n \in ReceiveSynced(Silent(d), f) : sm' = [sm EXCEPT ![m] = n]
      BY <1>0, <2>7 DEF SyncRCin, RCin, Silent
    <3>2. ~d.fault /\ UNCHANGED seen
      BY <1>0, <2>7 DEF SyncRCin, RCin
    <3> QED
      BY <1>1, <3>1, <3>2, ReceptionFiles
  <2>8. CASE StableRCin(m, f)
    <3>1. \E n \in ReceiveSynced(Silent(d), f) : sm' = [sm EXCEPT ![m] = n]
      BY <1>0, <2>8 DEF StableRCin, RCin, Silent
    <3>2. ~d.fault /\ UNCHANGED seen
      BY <1>0, <2>8 DEF StableRCin, RCin
    <3> QED
      BY <1>1, <3>1, <3>2, ReceptionFiles
  <2> QED
    BY <2>1, <2>2, <2>3, <2>4, <2>5, <2>6, <2>7, <2>8 DEF Receives
<1>3. /\ Basic(m, n) /\ Data(Silent(d), n) /\ n.clk = Silent(d).clk /\ Same(Silent(d), n, Alarms)
  BY <1>1, <1>2, FilingKeeps
<1>4. Data(d, n) /\ n.clk = d.clk /\ Same(d, n, Alarms)
  BY <1>1, <1>3 DEF Data, Same
<1>5. Sound(m, n, h)
  BY <1>0, <1>2, <1>3, <1>4, KeepsSound
<1>6. Small(d.clk, n.clk)
  <2>1. d.clk \in Int
    BY <1>0 DEF Basic
  <2> QED
    BY <1>4, <2>1, SmallStay
<1>7. Good(m, d, h, n, h)
  BY <1>5, <1>6 DEF Good
<1>8. seen' = [seen EXCEPT ![m] = h]
  BY <1>0, <1>2 DEF IInv
<1> QED
  BY <1>2, <1>7, <1>8 DEF Moves

LEMMA ArrivalSteps ==
  ASSUME NEW m \in Masters, NEW d, NEW h, At(m, d, h), Arrival(m)
  PROVE  Moves(m, d, h)
<1>1. PICK kind \in {"CS", "CA", "IN_FRAME"}, w \in PermanenceDelays :
         \E x \in Fields(kind) : Receives(m, Frame(kind, x[1], x[2], x[3], w))
  BY DEF Arrival
<1>2. PICK x \in Fields(kind) : Receives(m, Frame(kind, x[1], x[2], x[3], w))
  BY <1>1
<1>3. PICK f : f = Frame(kind, x[1], x[2], x[3], w)
  OBVIOUS
<1>4. f \in Frames
  BY <1>3, ArrivingFrames DEF Kinds
<1>5. Receives(m, f)
  BY <1>2, <1>3
<1> QED
  BY <1>4, <1>5, ReceptionSteps

(* What a step may do to a master.                                             *)
StaysClose(o) ==
  sm[o].st \in Synced /\ sm'[o].st \in Synced => Small(sm[o].clk, sm'[o].clk)

LeavesCliques(o) ==
  /\ sm[o].st \in Synced
  /\ seen[o].unheard # {} /\ seen'[o].unheard = {}
  /\ Cardinality(seen[o].unheard) >= ThresholdAsync(sm[o].st)
  => sm'[o].st \notin Synced

Limited == \A o \in Masters : StaysClose(o) /\ LeavesCliques(o)

LEMMA MovesWithin ==
  ASSUME IInv, NEW m \in Masters, NEW d, NEW h, d = sm[m], h = seen[m], Moves(m, d, h)
  PROVE  IInv' /\ Limited
<1>1. PICK n, k : /\ sm' = [sm EXCEPT ![m] = n] /\ seen' = [seen EXCEPT ![m] = k]
                  /\ Good(m, d, h, n, k)
  BY DEF Moves
<1>2. /\ sm'[m] = n /\ seen'[m] = k
      /\ \A o \in Masters \ {m} : sm'[o] = sm[o] /\ seen'[o] = seen[o]
      /\ DOMAIN sm' = Masters /\ DOMAIN seen' = Masters
      /\ sm' = [o \in DOMAIN sm' |-> sm'[o]] /\ seen' = [o \in DOMAIN seen' |-> seen'[o]]
  BY <1>1 DEF IInv
<1>3. /\ Sound(m, n, k)
      /\ d.st \in Synced /\ n.st \in Synced => Small(d.clk, n.clk)
      /\ d.st \in Synced /\ h.unheard # {} /\ k.unheard = {}
         /\ Cardinality(h.unheard) >= ThresholdAsync(d.st) => n.st \notin Synced
  BY <1>1 DEF Good
<1>4. \A o \in Masters : Sound(o, sm[o], seen[o])
  BY DEF IInv
<1>5. IInv'
  <2>1. ASSUME NEW o \in Masters PROVE Sound(o, sm'[o], seen'[o])
    <3>1. CASE o = m
      BY <1>2, <1>3, <3>1
    <3>2. CASE o # m
      BY <1>2, <1>4, <3>2
    <3> QED
      BY <3>1, <3>2
  <2> QED
    BY <1>2, <2>1 DEF IInv
<1>6. ASSUME NEW o \in Masters PROVE StaysClose(o) /\ LeavesCliques(o)
  <2>1. CASE o = m
    <3>1. StaysClose(m)
      BY <1>2, <1>3 DEF StaysClose
    <3>2. LeavesCliques(m)
      BY <1>2, <1>3 DEF LeavesCliques
    <3> QED
      BY <2>1, <3>1, <3>2
  <2>2. CASE o # m
    <3>1. sm'[o] = sm[o] /\ seen'[o] = seen[o]
      BY <1>2, <2>2
    <3>2. sm[o].clk \in Int
      BY <1>4 DEF Sound, Basic
    <3>3. Small(sm[o].clk, sm[o].clk)
      BY <3>2, SmallStay
    <3> QED
      BY <3>1, <3>3 DEF StaysClose, LeavesCliques
  <2> QED
    BY <2>1, <2>2
<1> QED
  BY <1>5, <1>6 DEF Limited

(* A tick of time.                                                             *)
LEMMA TickSteps ==
  ASSUME IInv, Tick
  PROVE  IInv' /\ Limited
<1>1. /\ sm' = [m \in Masters |-> Silent(TimePasses(sm[m]))] /\ seen' = seen
      /\ \A m \in Masters : NothingDue(sm[m]) /\ ~sm[m].fault
  BY DEF Tick, Quiet, Silent
<1>2. ASSUME NEW o \in Masters
      PROVE  Sound(o, sm'[o], seen'[o]) /\ StaysClose(o) /\ LeavesCliques(o)
  <2>1. PICK d, h : d = sm[o] /\ h = seen[o]
    OBVIOUS
  <2>2. Sound(o, d, h) /\ NothingDue(d) /\ ~d.fault
    BY <1>1, <2>1 DEF IInv
  <2>3. PICK n : n = Silent(TimePasses(d))
    OBVIOUS
  <2>4. Sound(o, n, h) /\ n.st = d.st /\ n.clk = (d.clk + 1) % Cycle
    BY <2>2, <2>3, TickKeeps
  <2>5. sm'[o] = n /\ seen'[o] = h
    BY <1>1, <2>1, <2>3
  <2>6. Small(d.clk, n.clk)
    <3>1. d.clk \in 0 .. Cycle - 1 /\ Cycle \in Nat \ {0} /\ HalfWindow \in Nat \ {0}
      BY <2>2, SlotTimes DEF Sound, Basic
    <3>2. CASE d.clk + 1 < Cycle
      <4>1. d.clk + 1 \in 0 .. Cycle - 1 /\ -1 \in -HalfWindow .. HalfWindow /\ d.clk \in Int
        BY <3>1, <3>2
      <4>2. n.clk = d.clk - (-1)
        BY <2>4, <3>1, <4>1, SmallRemainder
      <4> QED
        BY <4>1, <4>2, SmallMove
    <3>3. CASE ~(d.clk + 1 < Cycle)
      <4>1. d.clk + 1 = Cycle /\ d.clk = Cycle - 1
        BY <3>1, <3>3
      <4>2. n.clk = 0
        BY <2>4, <3>1, <4>1
      <4>3. (n.clk - d.clk) % Cycle <= 1
        BY <3>1, <4>1, <4>2
      <4>4. (n.clk - d.clk) % Cycle \in Int
        BY <3>1, <4>2
      <4> QED
        BY <3>1, <4>3, <4>4 DEF Small
    <3> QED
      BY <3>2, <3>3
  <2>7. StaysClose(o)
    BY <2>1, <2>5, <2>6 DEF StaysClose
  <2>8. LeavesCliques(o)
    BY <2>1, <2>5 DEF LeavesCliques
  <2> QED
    BY <2>4, <2>5, <2>7, <2>8
<1>3. /\ DOMAIN sm' = Masters /\ DOMAIN seen' = Masters
      /\ sm' = [m \in DOMAIN sm' |-> sm'[m]] /\ seen' = [m \in DOMAIN seen' |-> seen'[m]]
  BY <1>1 DEF IInv
<1>4. IInv'
  BY <1>2, <1>3 DEF IInv
<1> QED
  BY <1>2, <1>4 DEF Limited

LEMMA HandlingMoves ==
  ASSUME NEW m \in Masters, NEW d, NEW h, At(m, d, h), Handling(m)
  PROVE  Moves(m, d, h)
<1>1. CASE PseudoInc(m) \/ PseudoCorr(m)
  BY <1>1, PseudoSteps
<1>2. CASE IntegrateOnTimeout(m) \/ IntegrateOnCa(m) \/ IntegrateOnInFrame(m)
  BY <1>2, IntegrateSteps
<1>3. CASE UnsyncOnTimeout(m) \/ UnsyncOnCs(m) \/ UnsyncOnCa(m) \/ UnsyncOnInFrame(m)
  BY <1>3, UnsyncSteps
<1>4. CASE FloodOnTimeout(m) \/ FloodOnCs(m) \/ FloodOnCa(m) \/ FloodOnInFrame(m)
  BY <1>4, FloodSteps
<1>5. CASE WaitCsOnTimeout(m) \/ WaitCsOnCs(m) \/ WaitCsOnCa(m) \/ WaitCsOnInFrame(m)
  BY <1>5, WaitCsSteps
<1>6. CASE WaitCycleOnTimeout(m) \/ WaitCycleOnFrame(m)
  BY <1>6, WaitCycleSteps
<1>7. CASE TentativeOnCa(m) \/ SyncOnCa(m) \/ StableOnCa(m)
  BY <1>7, CaSteps
<1>8. CASE TentativeOnOther(m) \/ SyncOnOther(m)
  BY <1>8, OtherSteps
<1>9. CASE TentativeOnInFrame(m) \/ SyncOnInFrame(m) \/ StableOnInFrame(m)
  BY <1>9, InFrameSteps
<1>10. CASE TentativeOnAsyncEval(m) \/ SyncOnAsyncEval(m) \/ StableOnAsyncEval(m)
  BY <1>10, AsyncEvalSteps
<1>11. CASE TentativeOnSyncEval(m) \/ SyncOnSyncEval(m) \/ StableOnSyncEval(m)
  BY <1>11, SyncEvalSteps
<1>12. CASE TentativeOnInc(m) \/ SyncOnInc(m) \/ StableOnInc(m)
  BY <1>12, IncSteps
<1>13. CASE TentativeOnClockCorr(m) \/ SyncOnClockCorr(m) \/ StableOnClockCorr(m)
  BY <1>13, ClockCorrSteps
<1>14. CASE TentativeOnAsyncUp(m) \/ SyncOnAsyncUp(m) \/ StableOnAsyncUp(m)
  BY <1>14, AsyncUpSteps
<1> QED
  BY <1>1, <1>2, <1>3, <1>4, <1>5, <1>6, <1>7, <1>8, <1>9, <1>10, <1>11, <1>12, <1>13, <1>14 DEF Handling

(* The invariant is inductive, and every step keeps to its two limits.         *)
LEMMA EveryStep ==
  ASSUME IInv, [Next]_vars
  PROVE  IInv' /\ Limited
<1>1. CASE Tick
  BY <1>1, TickSteps
<1>2. ASSUME NEW m \in Masters, Handling(m) \/ Arrival(m)
      PROVE  IInv' /\ Limited
  <2>1. PICK d, h : d = sm[m] /\ h = seen[m]
    OBVIOUS
  <2>2. At(m, d, h)
    BY <2>1 DEF At, IInv
  <2>3. Moves(m, d, h)
    BY <1>2, <2>2, HandlingMoves, ArrivalSteps
  <2> QED
    BY <2>1, <2>3, MovesWithin
<1>3. CASE UNCHANGED vars
  <2>1. sm' = sm /\ seen' = seen
    BY <1>3 DEF vars
  <2>2. IInv'
    BY <2>1 DEF IInv
  <2>3. ASSUME NEW o \in Masters PROVE StaysClose(o) /\ LeavesCliques(o)
    <3>1. sm[o].clk \in Int
      BY DEF IInv, Sound, Basic
    <3>2. Small(sm[o].clk, sm[o].clk)
      BY <3>1, SmallStay
    <3> QED
      BY <2>1, <3>2 DEF StaysClose, LeavesCliques
  <2> QED
    BY <2>2, <2>3 DEF Limited
<1> QED
  BY <1>1, <1>2, <1>3 DEF Next

LEMMA InitHolds == Init => IInv
<1> SUFFICES ASSUME Init PROVE IInv
  OBVIOUS
<1>1. /\ DOMAIN sm = Masters /\ DOMAIN seen = Masters
      /\ sm = [m \in DOMAIN sm |-> sm[m]] /\ seen = [m \in DOMAIN seen |-> seen[m]]
  BY DEF Init
<1>2. ASSUME NEW m \in Masters PROVE Sound(m, sm[m], seen[m])
  <2>1. sm[m] \in {Integrate(PowerUp), PseudoSync} /\ seen[m] = Blank
    BY DEF Init
  <2> QED
    BY <2>1, PowersUp
<1> QED
  BY <1>1, <1>2 DEF IInv

(* What the invariant says of a master in each of its states.                  *)
LEMMA InvariantTypes == IInv => TypeOK
<1> SUFFICES ASSUME IInv, NEW m \in Masters, NEW d, d = sm[m]
             PROVE  /\ d.st \in States
                    /\ d.clk \in 0 .. Cycle - 1
                    /\ d.icyc \in 0 .. MaxIcys
                    /\ d.sync \in 0 .. MaxMembership + 2^m
                    /\ d.counter \in 0 .. NumStable + NumUnstable
                    /\ \A s, t \in d.stack : s.port = t.port => s = t
                    /\ \A e \in d.pend : e.left \in Nat
  BY DEF TypeOK
<1>1. PICK h : Sound(m, d, h)
  BY DEF IInv
<1>2. Basic(m, d)
  BY <1>1 DEF Sound
<1>3. d.counter \in 0 .. NumStable + NumUnstable
  BY <1>1, MasterAssumption DEF Sound, Replaying, Resting, Following, Counts
<1>4. \A e \in d.pend : e.left \in Nat
  BY <1>2, EventTypes DEF Basic, PendOK
<1>5. d.sync \in 0 .. MaxMembership + 2^m
  BY <1>2 DEF Basic, LargestSync
<1> QED
  BY <1>2, <1>3, <1>4, <1>5 DEF Basic

LEMMA OneOrNone ==
  ASSUME NEW d, NEW x
  PROVE  /\ (\E left : Only(d, x, left)) => Cardinality(Named(d, {x})) = 1
         /\ None(d, x) => Cardinality(Named(d, {x})) = 0
BY FS_Singleton, FS_EmptySet DEF Only, None

LEMMA InvariantWakes == IInv => WakeUps
<1> SUFFICES ASSUME IInv, NEW m \in Masters, NEW d, d = sm[m], ~d.fault
             PROVE  LET once(ev) == Cardinality(Named(d, {ev})) = 1 IN
                    CASE d.st \in Synced       -> /\ \A ev \in Cyclic : once(ev)
                                                  /\ Cardinality(Named(d, {"clock_corr"})) <= 1
                      [] d.st \in Waiting      -> Named(d, DOMAIN SlotOf) = {} /\ once("ASYNCHRON")
                      [] d.st = "PSEUDOSYNC"   -> once("inc") /\ once("clock_corr")
                      [] OTHER                 -> Named(d, DOMAIN SlotOf) = {}
  BY DEF WakeUps
<1> DEFINE once(ev) == Cardinality(Named(d, {ev})) = 1
<1>0. PICK h : Sound(m, d, h)
  BY DEF IInv
<1>1. CASE d.st \in Synced
  <2>1. PICK done \in Phases : OnTime(d, done)
    BY <1>0, <1>1, Modes DEF Following, InPhase
  <2>2. \A ev \in Cyclic : once(ev)
    BY <2>1, OneOrNone DEF OnTime, CyclicOnTime
  <2>3. Cardinality(Named(d, {"clock_corr"})) <= 1
    <3>1. Cardinality(Named(d, {"clock_corr"})) = 0 \/ Cardinality(Named(d, {"clock_corr"})) = 1
      BY <2>1, OneOrNone DEF OnTime, Correcting
    <3> QED
      BY <3>1
  <2> HIDE DEF once
  <2>4. d.st \notin Waiting /\ d.st # "PSEUDOSYNC"
    BY <1>1 DEF Synced, Waiting
  <2> QED
    BY <1>1, <2>2, <2>3, <2>4, Zenon DEF once
<1>2. CASE d.st \in WaitStates
  <2>1. Resting(d, h)
    BY <1>0, <1>2, Modes
  <2>2. Named(d, DOMAIN SlotOf) = {}
    BY <2>1 DEF Resting, None, Named
  <2>3. d.st \in Waiting => once("ASYNCHRON")
    BY <2>1, OneOrNone DEF Resting, Once
  <2> HIDE DEF once
  <2>4. d.st \notin Synced /\ d.st # "PSEUDOSYNC"
    BY <1>2 DEF Synced, WaitStates
  <2> QED
    BY <2>2, <2>3, <2>4 DEF once
<1>3. CASE d.st = "PSEUDOSYNC"
  <2>1. once("inc") /\ once("clock_corr")
    BY <1>0, <1>3, Modes, OneOrNone DEF Replaying, Once
  <2> HIDE DEF once
  <2>2. d.st \notin Synced /\ d.st \notin Waiting
    BY <1>3 DEF Synced, Waiting
  <2> QED
    BY <1>3, <2>1, <2>2 DEF once
<1>4. d.st \in Synced \union WaitStates \union {"PSEUDOSYNC"}
  BY <1>0 DEF Sound, Basic, States, Synced, WaitStates, Waiting
<1> QED
  BY <1>1, <1>2, <1>3, <1>4

LEMMA InvariantLeaves == IInv => LeavesSilence
<1> SUFFICES ASSUME IInv, NEW m \in Masters, NEW d, NEW h, d = sm[m], h = seen[m], d.st \in Synced
             PROVE  h.silence <= (IF d.st = "STABLE" THEN NumUnstable - 1 ELSE 0)
  BY DEF LeavesSilence
<1>1. Counts(d, h) /\ h.silence \in Nat
  BY Modes DEF Following, IInv, Histories
<1>2. NumUnstable \in Nat
  BY MasterAssumption
<1> QED
  BY <1>1, <1>2 DEF Counts

(* A master is well-formed in every state, has exactly the events of its state *)
(* registered and leaves silence in time: by the invariant, which tells where  *)
(* in the cycle it is.                                                         *)
THEOREM AlwaysConsistent == Spec => []Consistent
<1>1. Init => IInv
  BY InitHolds
<1>2. IInv /\ [Next]_vars => IInv'
  BY EveryStep
<1>3. IInv => Consistent
  BY InvariantTypes, InvariantWakes, InvariantLeaves DEF Consistent
<1> QED
  BY <1>1, <1>2, <1>3, PTL DEF Spec

(* While a master stays synchronised no step moves its clock by more than half *)
(* the acceptance window: every reading in the stack is one of the window, and *)
(* a state that steps back to a cycle of its own is no longer synchronised.    *)
THEOREM ClockMovesLittle == Spec => StepsWithinWindow
<1>1. Init => IInv
  BY InitHolds
<1>2. IInv /\ [Next]_vars => IInv'
  BY EveryStep
<1>3. IInv /\ [Next]_vars =>
        [\A m \in Masters :
           sm[m].st \in Synced /\ sm'[m].st \in Synced =>
             LET ahead == (sm'[m].clk - sm[m].clk) % Cycle
             IN ahead <= AcceptanceWindow \div 2 \/ Cycle - ahead <= AcceptanceWindow \div 2]_vars
  BY EveryStep DEF Limited, StaysClose, Small, HalfWindow
<1> QED
  BY <1>1, <1>2, <1>3, PTL DEF Spec, StepsWithinWindow

(* Enough members out of schedule make a synchronised master leave its clique  *)
(* at the next evaluation: until then both half-windows hold them, or the one  *)
(* that is evaluated.                                                          *)
THEOREM CliquesAreNoticed == Spec => CliqueNoticed
<1>1. Init => IInv
  BY InitHolds
<1>2. IInv /\ [Next]_vars => IInv'
  BY EveryStep
<1>3. IInv /\ [Next]_vars =>
        [\A m \in Masters :
           /\ sm[m].st \in Synced
           /\ seen[m].unheard # {} /\ seen'[m].unheard = {}
           /\ Cardinality(seen[m].unheard) >= ThresholdAsync(sm[m].st)
           => sm'[m].st \notin Synced]_vars
  BY EveryStep DEF Limited, LeavesCliques
<1> QED
  BY <1>1, <1>2, <1>3, PTL DEF Spec, CliqueNoticed
=============================================================================
