--------------------------- MODULE SyncClient_proofs ---------------------------
(***************************************************************************)
(* Proofs about SyncClient.  The invariant tells where in the cycle a      *)
(* synchronised client is: the set of cyclic events that were handled      *)
(* since the last async_eval fixes when each is due again, whether the     *)
(* correction may be registered and what the client remembers of the       *)
(* frames it saw.  First the operations of the scheduler, then the         *)
(* readings of a cycle, the order of a cycle, and each handler.            *)
(***************************************************************************)
EXTENDS SyncClient, IntegerLemmas, TLAPS

Fields == {"st", "clk", "pend", "icyc", "sync", "asyncR", "asyncF", "counter",
           "stack", "timedOut", "gone", "fault"}
Device(d) == DOMAIN d = Fields /\ d = [x \in DOMAIN d |-> d[x]]

Alarms == DOMAIN SlotOf \union {"ASYNCHRON"}
Alarm  == [ev : Alarms, left : Nat]
Frames == [ev : {"IN_FRAME"}, left : Nat, listed : BOOLEAN, key : Int, port : Ports,
           icyc : 0 .. MaxIcys - 1, members : Memberships]
Readings == [port : Ports, count : 0 .. MaxMembership, pit : ReceivePit - Precision .. ReceivePit + Precision]

PendOK(d) == d.pend \subseteq Frames \union Alarm

Basic(d) ==
  /\ Device(d) /\ PendOK(d)
  /\ d.st \in States
  /\ d.clk \in 0 .. Cycle - 1
  /\ d.icyc \in 0 .. MaxIcys - 1
  /\ d.sync \in 0 .. MaxMembership
  /\ d.asyncR \subseteq UNION Memberships /\ d.asyncF \subseteq UNION Memberships
  /\ d.timedOut \in BOOLEAN
  /\ d.stack \subseteq Readings
  /\ \A s, t \in d.stack : s.port = t.port => s = t

(* The event x is registered once, left ticks ahead; or it is not registered. *)
Only(d, x, left) == Named(d, {x}) = {[ev |-> x, left |-> left]}
None(d, x) == Named(d, {x}) = {}
Once(d, x) == \E left \in Nat : Only(d, x, left)

(* The cyclic events that were handled since the last async_eval was due.      *)
Phases == {{}, {"async_eval"}, {"async_eval", "inc"}, {"async_eval", "inc", "sync_eval"}, Cyclic}
Ahead(d, x, done) == SlotOf[x] - d.clk + (IF x \in done THEN Cycle ELSE 0)

CyclicOnTime(d, done) ==
  \A x \in Cyclic : Ahead(d, x, done) \in Nat /\ Only(d, x, Ahead(d, x, done))

Correcting(d, done) ==
  /\ done = {"async_eval", "inc", "sync_eval"}
  /\ SlotOf["clock_corr"] - d.clk \in Nat
  /\ Only(d, "clock_corr", SlotOf["clock_corr"] - d.clk)

OnTime(d, done) ==
  /\ CyclicOnTime(d, done)
  /\ None(d, "clock_corr") \/ Correcting(d, done)
  /\ None(d, "ASYNCHRON")

Threshold(st) == IF st = "STABLE" THEN StableThresholdSync ELSE SyncThresholdSync

Remembers(d, done, u, h) ==
  /\ u \subseteq AsyncMembers(d)
  /\ done # {} /\ done # Cyclic => u \subseteq d.asyncR /\ u \subseteq d.asyncF
  /\ None(d, "clock_corr") => h \/ \A s \in d.stack : s.count < Threshold(d.st)

Counts(d, s) ==
  IF d.st = "STABLE" THEN d.counter \in 0 .. NumUnstable /\ s <= d.counter
                     ELSE d.counter \in 0 .. NumStable /\ s = 0

Following(d, u, h, s) ==
  /\ d.st \in Synced
  /\ \E done \in Phases : OnTime(d, done) /\ Remembers(d, done, u, h)
  /\ Counts(d, s)

Integrating(d) ==
  /\ d.st = "INTEGRATE"
  /\ d.counter = 0
  /\ \A x \in DOMAIN SlotOf : None(d, x)
  /\ IF d.timedOut THEN None(d, "ASYNCHRON") ELSE Once(d, "ASYNCHRON")

Replaying(d) ==
  d.st = "PSEUDOSYNC" /\ d.counter = 0 /\ Once(d, "inc") /\ Once(d, "clock_corr")

IInv ==
  /\ Basic(client)
  /\ unheard \subseteq UNION Memberships /\ heard \in BOOLEAN /\ silence \in Nat
  /\ \/ Replaying(client)
     \/ Integrating(client)
     \/ Following(client, unheard, heard, silence)
------------------------------------------------------------------------------
(* What the operations of the scheduler do to a device.                        *)

(* n is d but for the named fields.                                            *)
Changes(d, n, names) == Device(n) /\ \A x \in Fields \ names : n[x] = d[x]

(* The events of n are well-formed, those named x the ones of d.               *)
Same(d, n, names) == \A x \in names : Named(n, {x}) = Named(d, {x})

(* The names of the events with an action time, and their slots.              *)
LEMMA SlotNames ==
  /\ DOMAIN SlotOf = {"async_eval", "sync_eval", "clock_corr", "inc", "async_up"}
  /\ DOMAIN SlotOf = Cyclic \union {"clock_corr"}
  /\ \A x \in DOMAIN SlotOf : SlotOf[x] \in Int
BY SlotsInOrder DEF SlotOf, Cyclic

(* A registered event is a frame or an alarm.                                 *)
LEMMA EventTypes ==
  ASSUME NEW e \in Frames \union Alarm
  PROVE  /\ e.left \in Nat
         /\ e.ev \in Alarms \union {"IN_FRAME"}
         /\ e.ev = "IN_FRAME" => e \in Frames
         /\ e.ev \in Alarms => e \in Alarm /\ e = [ev |-> e.ev, left |-> e.left]
BY SlotNames DEF Frames, Alarm, Alarms

(* The way to a slot is never negative.                                       *)
LEMMA DistanceType ==
  ASSUME NEW clk \in Int, NEW ev \in DOMAIN SlotOf, NEW next \in BOOLEAN
  PROVE  Distance(clk, ev, next) \in Nat
<1>1. SlotOf[ev] - clk \in Int /\ Cycle \in Nat \ {0}
  BY SlotNames, SlotsInOrder
<1>2. (SlotOf[ev] - clk) % Cycle \in 0 .. Cycle - 1
  BY <1>1, Remainder
<1> QED
  BY <1>1, <1>2 DEF Distance

(* registerEvent() adds the event at its distance and changes no other.       *)
LEMMA RegisterActionEffect ==
  ASSUME NEW d, NEW ev \in DOMAIN SlotOf, NEW next \in BOOLEAN, Device(d), PendOK(d), d.clk \in Int
  PROVE  LET n == RegisterAction(d, ev, next) IN
         /\ Changes(d, n, {"pend", "fault"})
         /\ PendOK(n)
         /\ None(d, ev) => Only(n, ev, Distance(d.clk, ev, next))
         /\ Same(d, n, Alarms \ {ev})
<1> DEFINE new == [ev |-> ev, left |-> Distance(d.clk, ev, next)]
           n == RegisterAction(d, ev, next)
<1>1. Device(n)
  BY DEF RegisterAction, Device, Fields
<1>2. \A x \in Fields \ {"pend", "fault"} : n[x] = d[x]
  BY DEF RegisterAction, Device, Fields
<1>3. n.pend = d.pend \union {new}
  BY DEF RegisterAction, Device, Fields
<1>4. new \in Alarm
  BY DistanceType DEF Alarm, Alarms
<1>5. new.ev = ev
  OBVIOUS
<1> HIDE DEF new, n
<1>6. PendOK(n)
  BY <1>3, <1>4 DEF PendOK
<1>7. None(d, ev) => Named(n, {ev}) = {new}
  BY <1>3, <1>5 DEF None, Named
<1>8. Same(d, n, Alarms \ {ev})
  BY <1>3, <1>5 DEF Same, Named
<1> QED
  BY <1>1, <1>2, <1>6, <1>7, <1>8 DEF Changes, Only, new, n

(* Several events at once.                                                    *)
LEMMA RegisterAllEffect ==
  ASSUME NEW d, NEW evs \in SUBSET DOMAIN SlotOf, Device(d), PendOK(d), d.clk \in Int
  PROVE  LET n == RegisterAll(d, evs) IN
         /\ Changes(d, n, {"pend", "fault"})
         /\ PendOK(n)
         /\ \A x \in evs : None(d, x) => Only(n, x, Distance(d.clk, x, FALSE))
         /\ Same(d, n, Alarms \ evs)
<1> DEFINE new(e) == [ev |-> e, left |-> Distance(d.clk, e, FALSE)]
           n == RegisterAll(d, evs)
<1>1. Device(n)
  BY DEF RegisterAll, Device, Fields
<1>2. \A x \in Fields \ {"pend", "fault"} : n[x] = d[x]
  BY DEF RegisterAll, Device, Fields
<1>3. n.pend = d.pend \union {new(e) : e \in evs}
  BY DEF RegisterAll, Device, Fields
<1>4. \A e \in evs : new(e) \in Alarm
  BY DistanceType DEF Alarm, Alarms
<1>5. \A e \in evs : new(e).ev = e
  OBVIOUS
<1> HIDE DEF new, n
<1>6. PendOK(n)
  BY <1>3, <1>4 DEF PendOK
<1>7. \A x \in evs : None(d, x) => Named(n, {x}) = {new(x)}
  BY <1>3, <1>5 DEF None, Named
<1>8. Same(d, n, Alarms \ evs)
  BY <1>3, <1>5 DEF Same, Named
<1> QED
  BY <1>1, <1>2, <1>6, <1>7, <1>8 DEF Changes, Only, new, n

(* The timer of a device.                                                     *)
LEMMA StartTimerEffect ==
  ASSUME NEW d, NEW left \in Nat, Device(d), PendOK(d)
  PROVE  LET n == StartTimer(d, left) IN
         /\ Changes(d, n, {"pend", "fault"})
         /\ PendOK(n)
         /\ None(d, "ASYNCHRON") => Only(n, "ASYNCHRON", left)
         /\ Same(d, n, DOMAIN SlotOf)
<1> DEFINE new == [ev |-> "ASYNCHRON", left |-> left]
           n == StartTimer(d, left)
<1>1. Device(n)
  BY DEF StartTimer, RegisterTimer, Device, Fields
<1>2. \A x \in Fields \ {"pend", "fault"} : n[x] = d[x]
  BY DEF StartTimer, RegisterTimer, Device, Fields
<1>3. n.pend = d.pend \union {new}
  BY DEF StartTimer, RegisterTimer, Device, Fields
<1>4. new \in Alarm
  BY DEF Alarm, Alarms
<1>5. new.ev = "ASYNCHRON"
  OBVIOUS
<1> HIDE DEF new, n
<1>6. PendOK(n)
  BY <1>3, <1>4 DEF PendOK
<1>7. None(d, "ASYNCHRON") => Named(n, {"ASYNCHRON"}) = {new}
  BY <1>3, <1>5 DEF None, Named
<1>8. Same(d, n, DOMAIN SlotOf)
  BY <1>3, <1>5, SlotNames DEF Same, Named
<1> QED
  BY <1>1, <1>2, <1>6, <1>7, <1>8 DEF Changes, Only, new, n

(* A frame is an event of its own and no alarm.                               *)
LEMMA RegisterTimerEffect ==
  ASSUME NEW d, NEW f \in Frames, Device(d), PendOK(d)
  PROVE  LET n == RegisterTimer(d, f) IN
         /\ Changes(d, n, {"pend"})
         /\ PendOK(n)
         /\ Same(d, n, Alarms)
<1> DEFINE n == RegisterTimer(d, f)
<1>1. Device(n) /\ \A x \in Fields \ {"pend"} : n[x] = d[x]
  BY DEF RegisterTimer, Device, Fields
<1>2. n.pend = d.pend \union {f}
  BY DEF RegisterTimer, Device, Fields
<1>3. f.ev = "IN_FRAME"
  BY DEF Frames
<1>4. "IN_FRAME" \notin Alarms
  BY SlotNames DEF Alarms
<1> HIDE DEF n
<1> QED
  BY <1>1, <1>2, <1>3, <1>4 DEF Changes, Same, Named, PendOK, n

(* unregisterEvent() takes the named events and no other.                     *)
LEMMA UnregisterEffect ==
  ASSUME NEW d, NEW names \in SUBSET Alarms, Device(d), PendOK(d)
  PROVE  LET n == Unregister(d, names) IN
         /\ Changes(d, n, {"pend"})
         /\ PendOK(n)
         /\ \A x \in names : None(n, x)
         /\ Same(d, n, Alarms \ names)
<1> DEFINE n == Unregister(d, names)
<1>1. Device(n) /\ \A x \in Fields \ {"pend"} : n[x] = d[x]
  BY DEF Unregister, Device, Fields
<1>2. n.pend = {e \in d.pend : e.ev \notin names}
  BY DEF Unregister, Device, Fields
<1> HIDE DEF n
<1> QED
  BY <1>1, <1>2 DEF Changes, Same, Named, None, PendOK, n

(* The event that is handled goes; it was the only one of its name.           *)
LEMMA TakenEffect ==
  ASSUME NEW d, NEW e \in d.pend, Device(d), PendOK(d)
  PROVE  LET n == Taken(d, e) IN
         /\ Changes(d, n, {"pend"})
         /\ PendOK(n)
         /\ Same(d, n, Alarms \ {e.ev})
         /\ \A left : Only(d, e.ev, left) => None(n, e.ev) /\ e = [ev |-> e.ev, left |-> left]
<1> DEFINE n == Taken(d, e)
<1>1. Device(n) /\ \A x \in Fields \ {"pend"} : n[x] = d[x]
  BY DEF Taken, Device, Fields
<1>2. n.pend = d.pend \ {e}
  BY DEF Taken, Device, Fields
<1> HIDE DEF n
<1>3. PendOK(n)
  BY <1>2 DEF PendOK
<1>4. Same(d, n, Alarms \ {e.ev})
  BY <1>2 DEF Same, Named
<1>5. ASSUME NEW left, Only(d, e.ev, left) PROVE None(n, e.ev) /\ e = [ev |-> e.ev, left |-> left]
  <2>1. e \in Named(d, {e.ev})
    BY DEF Named
  <2>2. e = [ev |-> e.ev, left |-> left] /\ Named(d, {e.ev}) = {e}
    BY <1>5, <2>1 DEF Only
  <2> QED
    BY <1>2, <2>2 DEF None, Named
<1> QED
  BY <1>1, <1>3, <1>4, <1>5 DEF Changes, n

(* What a function on events does to a set of events, named by name.           *)
Moved(e, c)  == IF e.ev \in DOMAIN SlotOf THEN [e EXCEPT !.left = Larger(0, @ + c)] ELSE e
Nearer(e)    == [e EXCEPT !.left = @ - 1]

LEMMA KeyMovedType ==
  ASSUME NEW e \in Frames \union Alarm, NEW c \in Int
  PROVE  /\ KeyMoved(e, c) \in Frames \union Alarm
         /\ KeyMoved(e, c).ev = e.ev
         /\ e.ev \in Alarms => KeyMoved(e, c) = e
<1>1. CASE e \in Frames
  BY <1>1, SlotNames DEF KeyMoved, Frames, Alarms
<1>2. CASE e \in Alarm
  BY <1>2, SlotNames DEF KeyMoved, Alarms, Alarm
<1> QED
  BY <1>1, <1>2

LEMMA MovedType ==
  ASSUME NEW e \in Frames \union Alarm, NEW c \in Int
  PROVE  /\ Moved(e, c) \in Frames \union Alarm
         /\ Moved(e, c).ev = e.ev
         /\ e.ev \in DOMAIN SlotOf => Moved(e, c) = [ev |-> e.ev, left |-> Larger(0, e.left + c)]
         /\ e.ev = "ASYNCHRON" => Moved(e, c) = e
<1>1. CASE e \in Frames
  BY <1>1, SlotNames DEF Moved, Frames
<1>2. CASE e \in Alarm
  <2>1. Larger(0, e.left + c) \in Nat
    BY <1>2 DEF Larger, Alarm
  <2> QED
    BY <1>2, <2>1, SlotNames DEF Moved, Alarm, Alarms
<1> QED
  BY <1>1, <1>2

LEMMA NearerType ==
  ASSUME NEW e \in Frames \union Alarm, e.left > 0
  PROVE  /\ Nearer(e) \in Frames \union Alarm
         /\ Nearer(e).ev = e.ev
         /\ e.ev \in Alarms => Nearer(e) = [ev |-> e.ev, left |-> e.left - 1]
<1>1. CASE e \in Frames
  <2>1. e.left - 1 \in Nat
    BY <1>1 DEF Frames
  <2> QED
    BY <1>1, <2>1, SlotNames DEF Nearer, Frames, Alarms
<1>2. CASE e \in Alarm
  <2>1. e.left - 1 \in Nat
    BY <1>2 DEF Alarm
  <2> QED
    BY <1>2, <2>1, SlotNames DEF Nearer, Alarm, Alarms
<1> QED
  BY <1>1, <1>2

EventMap(d, n, g) ==
  /\ \A e \in n.pend : \E o \in d.pend : e = g[o]
  /\ \A o \in d.pend : g[o] \in n.pend /\ g[o] \in Frames \union Alarm /\ g[o].ev = o.ev

Fixed(d, g, x) == \A o \in d.pend : o.ev = x => g[o] = o

(* The events of a name after such a change.                                   *)
LEMMA MappedEvents ==
  ASSUME NEW d, NEW n, NEW g, EventMap(d, n, g)
  PROVE  /\ PendOK(n)
         /\ \A x : None(d, x) => None(n, x)
         /\ \A x, left : Only(d, x, left) => /\ [ev |-> x, left |-> left] \in d.pend
                                            /\ Named(n, {x}) = {g[[ev |-> x, left |-> left]]}
         /\ \A x : Fixed(d, g, x) => Named(n, {x}) = Named(d, {x})
<1> USE DEF EventMap
<1>1. PendOK(n)
  BY DEF PendOK
<1>2. \A x : None(d, x) => None(n, x)
  BY DEF None, Named
<1>3. ASSUME NEW x, NEW left, Only(d, x, left)
      PROVE  [ev |-> x, left |-> left] \in d.pend /\ Named(n, {x}) = {g[[ev |-> x, left |-> left]]}
  <2> DEFINE old == [ev |-> x, left |-> left]
  <2>1. old \in d.pend /\ old.ev = x /\ \A o \in d.pend : o.ev = x => o = old
    BY <1>3 DEF Only, Named
  <2> HIDE DEF old
  <2>2. Named(n, {x}) = {g[old]}
    BY <2>1 DEF Named
  <2> QED
    BY <2>1, <2>2 DEF old
<1>4. ASSUME NEW x, Fixed(d, g, x) PROVE Named(n, {x}) = Named(d, {x})
  BY <1>4 DEF Named, Fixed
<1> QED
  BY <1>1, <1>2, <1>3, <1>4

(* clockCorrection() moves the clock and the events that have a slot.         *)
LEMMA ClockCorrectionEffect ==
  ASSUME NEW d, NEW c \in Int, Device(d), PendOK(d)
  PROVE  LET n == ClockCorrection(d, c) IN
         /\ Changes(d, n, {"clk", "pend", "gone"})
         /\ n.clk = (d.clk - c) % Cycle
         /\ PendOK(n)
         /\ Same(d, n, {"ASYNCHRON"})
         /\ \A x \in DOMAIN SlotOf : None(d, x) => None(n, x)
         /\ \A x \in DOMAIN SlotOf : \A left : Only(d, x, left) => Only(n, x, Larger(0, left + c))
<1> DEFINE m == Correct(d, c)
           n == ClockCorrection(d, c)
           g == [o \in d.pend |-> KeyMoved(Moved(o, c), c)]
<1>1. Device(m) /\ m.clk = (d.clk - c) % Cycle /\ m.pend = {Moved(e, c) : e \in d.pend}
      /\ \A x \in Fields \ {"clk", "pend"} : m[x] = d[x]
  BY DEF Correct, Device, Fields, Moved
<1>2. n = [[m EXCEPT !.pend = {KeyMoved(e, c) : e \in @}] EXCEPT !.gone = {[h EXCEPT !.key = @ + c] : h \in @}]
  BY DEF ClockCorrection
<1> HIDE DEF m, n
<1>3. /\ Device(n) /\ n.pend = {KeyMoved(e, c) : e \in m.pend}
      /\ \A x \in Fields \ {"pend", "gone"} : n[x] = m[x]
  BY <1>1, <1>2 DEF Device, Fields
<1>4. Changes(d, n, {"clk", "pend", "gone"}) /\ n.clk = (d.clk - c) % Cycle
  BY <1>1, <1>3 DEF Changes, Fields
<1>5. /\ \A e \in n.pend : \E o \in d.pend : e = g[o]
      /\ \A o \in d.pend : g[o] \in n.pend
  <2>1. \A o \in d.pend : g[o] = KeyMoved(Moved(o, c), c)
    OBVIOUS
  <2> HIDE DEF g
  <2> QED
    BY <1>1, <1>3, <2>1
<1>6. ASSUME NEW o \in d.pend
      PROVE  /\ g[o] \in Frames \union Alarm
             /\ g[o].ev = o.ev
             /\ o.ev = "ASYNCHRON" => g[o] = o
             /\ o.ev \in DOMAIN SlotOf => g[o] = [ev |-> o.ev, left |-> Larger(0, o.left + c)]
  <2> DEFINE e == Moved(o, c)
  <2>1. o \in Frames \union Alarm /\ g[o] = KeyMoved(e, c)
    BY DEF PendOK
  <2>2. /\ e \in Frames \union Alarm /\ e.ev = o.ev
        /\ o.ev \in DOMAIN SlotOf => e = [ev |-> o.ev, left |-> Larger(0, o.left + c)]
        /\ o.ev = "ASYNCHRON" => e = o
    BY <2>1, MovedType
  <2> HIDE DEF e, g
  <2>3. KeyMoved(e, c) \in Frames \union Alarm /\ KeyMoved(e, c).ev = e.ev
        /\ (e.ev \in Alarms => KeyMoved(e, c) = e)
    BY <2>2, KeyMovedType
  <2> QED
    BY <2>1, <2>2, <2>3 DEF Alarms
<1> HIDE DEF g
<1>map. EventMap(d, n, g)
  BY <1>5, <1>6 DEF EventMap
<1>7. PendOK(n) /\ \A x : None(d, x) => None(n, x)
  BY <1>map, MappedEvents
<1>8. Same(d, n, {"ASYNCHRON"})
  <2>1. Fixed(d, g, "ASYNCHRON")
    BY <1>6 DEF Fixed
  <2> QED
    BY <1>map, <2>1, MappedEvents DEF Same
<1>9. ASSUME NEW x \in DOMAIN SlotOf, NEW left, Only(d, x, left) PROVE Only(n, x, Larger(0, left + c))
  <2> DEFINE old == [ev |-> x, left |-> left]
  <2>1. old \in d.pend /\ Named(n, {x}) = {g[old]}
    BY <1>map, <1>9, MappedEvents
  <2>2. old.ev = x /\ old.left = left
    OBVIOUS
  <2> HIDE DEF old
  <2> QED
    BY <1>6, <2>1, <2>2 DEF Only
<1> QED
  BY <1>4, <1>7, <1>8, <1>9 DEF n

(* A tick brings every event nearer by one.                                   *)
LEMMA TimePassesEffect ==
  ASSUME NEW d, Device(d), PendOK(d), NothingDue(d)
  PROVE  LET n == TimePasses(d) IN
         /\ Changes(d, n, {"clk", "pend", "gone"})
         /\ n.clk = (d.clk + 1) % Cycle
         /\ PendOK(n)
         /\ \A x \in Alarms : None(d, x) => None(n, x)
         /\ \A x \in Alarms : \A left : Only(d, x, left) => left \in Nat \ {0} /\ Only(n, x, left - 1)
<1> DEFINE m == Ticked(d)
           n == TimePasses(d)
           g == [o \in d.pend |-> KeyMoved(Nearer(o), -1)]
<1>1. Device(m) /\ m.clk = (d.clk + 1) % Cycle /\ m.pend = {Nearer(e) : e \in d.pend}
      /\ \A x \in Fields \ {"clk", "pend"} : m[x] = d[x]
  BY DEF Ticked, Device, Fields, Nearer
<1>2. n = [[m EXCEPT !.pend = {KeyMoved(e, -1) : e \in @}]
             EXCEPT !.gone = {h \in {[o EXCEPT !.key = @ - 1] : o \in @} : h.key >= -GoneHorizon}]
  BY DEF TimePasses
<1> HIDE DEF m, n
<1>3. /\ Device(n) /\ n.pend = {KeyMoved(e, -1) : e \in m.pend}
      /\ \A x \in Fields \ {"pend", "gone"} : n[x] = m[x]
  BY <1>1, <1>2 DEF Device, Fields
<1>4. Changes(d, n, {"clk", "pend", "gone"}) /\ n.clk = (d.clk + 1) % Cycle
  BY <1>1, <1>3 DEF Changes, Fields
<1>5. /\ \A e \in n.pend : \E o \in d.pend : e = g[o]
      /\ \A o \in d.pend : g[o] \in n.pend
  <2>1. \A o \in d.pend : g[o] = KeyMoved(Nearer(o), -1)
    OBVIOUS
  <2> HIDE DEF g
  <2> QED
    BY <1>1, <1>3, <2>1
<1>6. ASSUME NEW o \in d.pend
      PROVE  /\ o.left \in Nat \ {0}
             /\ g[o] \in Frames \union Alarm
             /\ g[o].ev = o.ev
             /\ o.ev \in Alarms => g[o] = [ev |-> o.ev, left |-> o.left - 1]
  <2> DEFINE e == Nearer(o)
  <2>1. o \in Frames \union Alarm /\ g[o] = KeyMoved(e, -1)
    BY DEF PendOK
  <2>2. o.left \in Nat \ {0}
    BY <2>1, EventTypes DEF NothingDue
  <2>3. /\ e \in Frames \union Alarm /\ e.ev = o.ev
        /\ o.ev \in Alarms => e = [ev |-> o.ev, left |-> o.left - 1]
    BY <2>1, <2>2, NearerType
  <2> HIDE DEF e, g
  <2>4. KeyMoved(e, -1) \in Frames \union Alarm /\ KeyMoved(e, -1).ev = e.ev
        /\ (e.ev \in Alarms => KeyMoved(e, -1) = e)
    BY <2>3, KeyMovedType
  <2> QED
    BY <2>1, <2>2, <2>3, <2>4
<1> HIDE DEF g
<1>map. EventMap(d, n, g)
  BY <1>5, <1>6 DEF EventMap
<1>7. PendOK(n) /\ \A x : None(d, x) => None(n, x)
  BY <1>map, MappedEvents
<1>8. ASSUME NEW x \in Alarms, NEW left, Only(d, x, left) PROVE left \in Nat \ {0} /\ Only(n, x, left - 1)
  <2> DEFINE old == [ev |-> x, left |-> left]
  <2>1. old \in d.pend /\ Named(n, {x}) = {g[old]}
    BY <1>map, <1>8, MappedEvents
  <2>2. old.ev = x /\ old.left = left
    OBVIOUS
  <2> HIDE DEF old
  <2> QED
    BY <1>6, <2>1, <2>2 DEF Only
<1> QED
  BY <1>4, <1>7, <1>8 DEF n

(* The container and the frames leave the other events alone.                  *)
LEMMA ErasedEffect ==
  ASSUME NEW d, NEW key, Device(d), PendOK(d)
  PROVE  LET n == Erased(d, key) IN
         /\ Changes(d, n, {"pend", "gone"})
         /\ PendOK(n)
         /\ Same(d, n, Alarms)
<1> DEFINE Un(e) == [e EXCEPT !.listed = FALSE]
           Off(e) == [Un(e) EXCEPT !.key = 0]
           n == Erased(d, key)
<1>1. n = [[d EXCEPT !.pend = (@ \ Filed(d, key)) \union {Off(e) : e \in Filed(d, key)}]
             EXCEPT !.gone = {g \in @ : g.key # key}]
  BY DEF Erased
<1> HIDE DEF n
<1>2. Device(n) /\ \A x \in Fields \ {"pend", "gone"} : n[x] = d[x]
  <2> HIDE DEF Off
  <2> QED
    BY <1>1 DEF Device, Fields
<1>3. n.pend = (d.pend \ Filed(d, key)) \union {Off(e) : e \in Filed(d, key)}
  <2> HIDE DEF Off
  <2> QED
    BY <1>1 DEF Device, Fields
<1>4. ASSUME NEW e \in Filed(d, key)
      PROVE  e \in d.pend /\ e.ev = "IN_FRAME" /\ Off(e) \in Frames /\ Off(e).ev = "IN_FRAME"
  <2>1. e \in d.pend /\ e.ev = "IN_FRAME"
    BY DEF Filed, Named
  <2>2. e \in Frames
    BY <2>1, EventTypes DEF PendOK
  <2>3. Un(e) \in Frames
    BY <2>2 DEF Frames
  <2> HIDE DEF Un
  <2>5. Off(e) \in Frames
    BY <2>3 DEF Frames
  <2>6. Off(e).ev = "IN_FRAME"
    BY <2>5 DEF Frames
  <2> QED
    BY <2>1, <2>5, <2>6
<1>5. "IN_FRAME" \notin Alarms
  BY SlotNames DEF Alarms
<1> HIDE DEF Off
<1>6. PendOK(n)
  BY <1>3, <1>4 DEF PendOK
<1>7. ASSUME NEW x \in Alarms PROVE Named(n, {x}) = Named(d, {x})
  <2>1. \A e \in Filed(d, key) : e.ev # x /\ Off(e).ev # x
    BY <1>4, <1>5
  <2> QED
    BY <1>3, <2>1 DEF Named
<1> QED
  BY <1>2, <1>6, <1>7 DEF Changes, Same, n

LEMMA DeletedEffect ==
  ASSUME NEW d, NEW f, Device(d), PendOK(d)
  PROVE  LET n == Deleted(d, f) IN
         /\ Changes(d, n, {"gone"})
         /\ PendOK(n)
         /\ Same(d, n, Alarms)
<1> DEFINE n == Deleted(d, f)
<1>1. Device(n) /\ \A x \in Fields \ {"gone"} : n[x] = d[x]
  BY DEF Deleted, Device, Fields
<1> HIDE DEF n
<1>2. n.pend = d.pend
  BY <1>1 DEF Fields
<1> QED
  BY <1>1, <1>2 DEF Changes, Same, Named, PendOK, n

(* What a received frame may change.                                           *)
Filing(d, n) ==
  /\ Changes(d, n, {"pend", "gone", "fault"})
  /\ PendOK(n)
  /\ Same(d, n, Alarms)

(* Every outcome of filing a frame in INTEGRATE is such a change.             *)
LEMMA FileBestEffect ==
  ASSUME NEW d, NEW f \in Frames, Device(d), PendOK(d), NEW n \in FileBest(d, f)
  PROVE  Filing(d, n)
<1>1. ASSUME NEW b, Filing(d, b) PROVE Filing(d, RegisterTimer(Erased(b, f.key), f))
  <2> DEFINE m == Erased(b, f.key)
             r == RegisterTimer(m, f)
  <2>1. Changes(b, m, {"pend", "gone"}) /\ PendOK(m) /\ Same(b, m, Alarms)
    BY <1>1, ErasedEffect DEF Filing, Changes
  <2> HIDE DEF m
  <2>2. Changes(m, r, {"pend"}) /\ PendOK(r) /\ Same(m, r, Alarms)
    BY <2>1, RegisterTimerEffect DEF Changes
  <2> HIDE DEF r
  <2>3. Filing(d, r)
    BY <1>1, <2>1, <2>2 DEF Filing, Changes, Same
  <2> QED
    BY <2>3 DEF m, r
<1>2. Filing(d, d)
  BY DEF Filing, Changes, Same
<1>3. ASSUME NEW g \in d.pend, g.ev = "IN_FRAME" PROVE Filing(d, [d EXCEPT !.pend = @ \ {g}])
  <2> DEFINE r == [d EXCEPT !.pend = @ \ {g}]
  <2>1. Device(r) /\ r.pend = d.pend \ {g} /\ \A x \in Fields \ {"pend", "gone", "fault"} : r[x] = d[x]
    BY DEF Device, Fields
  <2>2. "IN_FRAME" \notin Alarms
    BY SlotNames DEF Alarms
  <2> HIDE DEF r
  <2>3. Filing(d, r)
    BY <1>3, <2>1, <2>2 DEF Filing, Changes, Same, Named, PendOK
  <2> QED
    BY <2>3 DEF r
<1>4. Filing(d, [d EXCEPT !.fault = TRUE])
  <2> DEFINE r == [d EXCEPT !.fault = TRUE]
  <2>1. Device(r) /\ r.pend = d.pend /\ \A x \in Fields \ {"pend", "gone", "fault"} : r[x] = d[x]
    BY DEF Device, Fields
  <2> HIDE DEF r
  <2>2. Filing(d, r)
    BY <2>1 DEF Filing, Changes, Same, Named, PendOK
  <2> QED
    BY <2>2 DEF r
<1>5. Filing(d, RegisterTimer(d, f))
  BY RegisterTimerEffect DEF Filing, Changes
<1>6. Filing(d, RegisterTimer(Erased(d, f.key), f))
  BY <1>1, <1>2
<1>7. ASSUME NEW g \in Filed(d, f.key)
      PROVE  Filing(d, RegisterTimer(Erased([d EXCEPT !.pend = @ \ {g}], f.key), f))
  BY <1>1, <1>3 DEF Filed, Named
<1> DEFINE pending == Filed(d, f.key)
           past    == {g \in d.gone : g.key = f.key}
           ByPending(g) == IF Better(f, g) THEN RegisterTimer(Erased([d EXCEPT !.pend = @ \ {g}], f.key), f) ELSE d
           ByPast(g) == CASE g.freed                  -> [d EXCEPT !.fault = TRUE]
                          [] ~g.freed /\ Better(f, g) -> RegisterTimer(Erased(d, f.key), f)
                          [] OTHER                    -> d
<1>8. \/ n = RegisterTimer(d, f)
      \/ \E g \in pending : n = ByPending(g)
      \/ \E g \in past : n = ByPast(g)
  BY Zenon DEF FileBest
<1>9. ASSUME NEW g \in pending PROVE Filing(d, ByPending(g))
  BY <1>2, <1>7
<1>10. ASSUME NEW g \in past PROVE Filing(d, ByPast(g))
  BY <1>2, <1>4, <1>6
<1> HIDE DEF pending, past, ByPending, ByPast
<1> QED
  BY <1>5, <1>8, <1>9, <1>10
------------------------------------------------------------------------------
(* The readings of a cycle.                                                    *)

(* The evaluation counts the members of a reading, or none.                   *)
LEMMA SyncMembersType ==
  ASSUME NEW stack \in SUBSET Readings
  PROVE  /\ SyncMembers(stack) \in 0 .. MaxMembership
         /\ \A t \in Nat \ {0} : (\A s \in stack : s.count < t) => SyncMembers(stack) < t
<1>1. CASE stack = {}
  BY <1>1, ClientAssumption DEF SyncMembers
<1>2. CASE stack # {}
  <2> DEFINE S == {s.count : s \in stack}
  <2>1. S \in SUBSET (0 .. MaxMembership) /\ S # {}
    BY <1>2 DEF Readings
  <2>2. SyncMembers(stack) = Max(S)
    BY <1>2 DEF SyncMembers
  <2>3. \A k \in S : \E s \in stack : k = s.count
    OBVIOUS
  <2> HIDE DEF S
  <2>4. \E g \in S : \A k \in S : g >= k
    BY <2>1, ClientAssumption, GreatestInteger
  <2>5. Max(S) \in S
    BY <2>4 DEF Max
  <2> QED
    BY <2>1, <2>2, <2>3, <2>5
<1> QED
  BY <1>1, <1>2

(* A reading lies in the window around the receive pit, the sum of the         *)
(* deviations of n readings therefore within n times the precision, and their  *)
(* average within the precision.                                               *)
LEMMA DeviationWithinPrecision ==
  ASSUME NEW stack \in SUBSET Readings, IsFiniteSet(stack), stack # {}
  PROVE  Deviation(stack) \in -Precision .. Precision
<1> DEFINE w == [s \in stack |-> s.pit - ReceivePit]
           Folds(f) == f = [s \in SUBSET stack |->
                              IF s = {} THEN 0
                              ELSE LET x == CHOOSE x \in s : TRUE IN f[s \ {x}] + x.pit - ReceivePit]
           F == CHOOSE f : Folds(f)
           sum == FoldSet(LAMBDA s, n : n + s.pit - ReceivePit, 0, stack)
<1>1. sum = F[stack]
  BY DEF FoldSet, MapThenFoldSet
<1>2. \A s \in stack : s.pit \in Int /\ w[s] \in -Precision .. Precision /\ w[s] = s.pit - ReceivePit
  BY SlotsInOrder DEF Readings
<1>3. \E f : Folds(f)
  <2>1. PICK f \in [SUBSET stack -> Int] : Sums(w, stack, f)
    <3>1. \A s \in stack : w[s] \in Int
      BY <1>2, SlotsInOrder
    <3> HIDE DEF w
    <3> QED
      BY <3>1, SumsExist
  <2>2. ASSUME NEW s \in SUBSET stack
        PROVE  f[s] = IF s = {} THEN 0
                      ELSE LET x == CHOOSE x \in s : TRUE IN f[s \ {x}] + x.pit - ReceivePit
    <3> DEFINE x == CHOOSE x \in s : TRUE
    <3>1. f[s] = IF s = {} THEN 0 ELSE w[x] + f[s \ {x}]
      BY <2>1 DEF Sums, Chosen
    <3>2. s # {} => x \in s
      OBVIOUS
    <3> HIDE DEF x
    <3>3. s # {} => w[x] = x.pit - ReceivePit /\ x.pit \in Int /\ f[s \ {x}] \in Int
      BY <1>2, <2>1, <3>2
    <3>4. s # {} => w[x] + f[s \ {x}] = f[s \ {x}] + x.pit - ReceivePit
      BY <3>3, SlotsInOrder
    <3>5. f[s] = IF s = {} THEN 0 ELSE f[s \ {x}] + x.pit - ReceivePit
      BY <3>1, <3>4
    <3> QED
      BY <3>5 DEF x
  <2>3. Folds(f)
    BY <2>1, <2>2
  <2> QED
    BY <2>3
<1>4. Folds(F)
  BY <1>3
<1> HIDE DEF F
<1>5. \A s \in SUBSET stack :
         F[s] = IF s = {} THEN 0 ELSE LET x == CHOOSE x \in s : TRUE IN F[s \ {x}] + x.pit - ReceivePit
  BY <1>4
<1> HIDE DEF Folds
<1> DEFINE P == {s \in SUBSET stack : /\ F[s] \in Int
                                      /\ F[s] <= Precision * Cardinality(s)
                                      /\ -F[s] <= Precision * Cardinality(s)}
<1>6. ASSUME NEW s \in SUBSET stack, \A x \in s : s \ {x} \in P PROVE s \in P
  <2>1. CASE s = {}
    <3>1. F[s] = 0
      BY <1>5, <2>1
    <3>2. Cardinality(s) = 0
      BY <2>1, FS_EmptySet
    <3> QED
      BY <3>1, <3>2, SlotsInOrder
  <2>2. CASE s # {}
    <3> DEFINE x == CHOOSE x \in s : TRUE
               n == Cardinality(s \ {x})
    <3>1. x \in s /\ F[s] = F[s \ {x}] + x.pit - ReceivePit
      BY <1>5, <2>2
    <3>2. IsFiniteSet(s)
      BY FS_Subset
    <3>3. n \in Nat /\ Cardinality(s) = n + 1
      <4> HIDE DEF x
      <4>1. IsFiniteSet(s \ {x}) /\ Cardinality(s \ {x}) = Cardinality(s) - 1
        BY <3>1, <3>2, FS_RemoveElement
      <4>2. Cardinality(s) \in Nat /\ Cardinality(s \ {x}) \in Nat
        BY <3>2, <4>1, FS_CardinalityType
      <4> QED
        BY <4>1, <4>2
    <3>4. s \ {x} \in P
      BY <1>6, <3>1
    <3> HIDE DEF x
    <3>5. F[s \ {x}] \in Int /\ F[s \ {x}] <= Precision * n /\ -F[s \ {x}] <= Precision * n
      BY <3>4
    <3>6. x.pit \in Int /\ x.pit - ReceivePit <= Precision /\ -(x.pit - ReceivePit) <= Precision
      BY <1>2, <3>1, SlotsInOrder
    <3> HIDE DEF n
    <3>7. Precision * (n + 1) = Precision * n + Precision /\ Precision * n \in Int
      BY <3>3, SlotsInOrder
    <3>8. F[s] \in Int /\ F[s] <= Precision * (n + 1) /\ -F[s] <= Precision * (n + 1)
      BY <3>1, <3>5, <3>6, <3>7, SlotsInOrder
    <3> QED
      BY <3>3, <3>8
  <2> QED
    BY <2>1, <2>2
<1>7. stack \in P
  <2> HIDE DEF P
  <2> QED
    BY <1>6, InductionOnSubsets
<1> DEFINE b == Cardinality(stack)
<1>8. b \in Nat \ {0} /\ sum \in Int /\ sum <= Precision * b /\ -sum <= Precision * b
  BY <1>1, <1>7, FS_CardinalityType, FS_EmptySet
<1>9. Deviation(stack) = Truncated(sum, b)
  BY DEF Deviation
<1> HIDE DEF sum, b
<1>10. CASE sum >= 0
  <2>1. sum \div b \in 0 .. Precision
    BY <1>8, <1>10, SlotsInOrder, QuotientBound
  <2> QED
    BY <1>9, <1>10, <2>1, SlotsInOrder DEF Truncated
<1>11. CASE sum < 0
  <2>1. (-sum) \div b \in 0 .. Precision
    BY <1>8, <1>11, SlotsInOrder, QuotientBound
  <2> QED
    BY <1>8, <1>9, <1>11, <2>1, SlotsInOrder DEF Truncated
<1> QED
  BY <1>8, <1>10, <1>11
------------------------------------------------------------------------------
(* The operations again, on a device whose fields have their types.            *)

Data(d, n) ==
  /\ n.st = d.st /\ n.icyc = d.icyc /\ n.sync = d.sync
  /\ n.asyncR = d.asyncR /\ n.asyncF = d.asyncF
  /\ n.counter = d.counter /\ n.stack = d.stack /\ n.timedOut = d.timedOut

Timing == {"clk", "pend", "gone", "fault"}

(* An operation that changes only what belongs to the timing keeps the types. *)
LEMMA BasicKept ==
  ASSUME NEW d, NEW n, Basic(d), NEW names \in SUBSET Timing, Changes(d, n, names),
         PendOK(n), n.clk \in 0 .. Cycle - 1
  PROVE  Basic(n) /\ Data(d, n)
<1>1. Data(d, n)
  BY DEF Changes, Fields, Timing, Data
<1> QED
  BY <1>1 DEF Basic, Data, Changes

(* ... and the clock, when that is not among it.                              *)
LEMMA ClockKept ==
  ASSUME NEW d, NEW n, NEW names \in SUBSET Timing, "clk" \notin names, Changes(d, n, names)
  PROVE  n.clk = d.clk
BY DEF Changes, Fields

(* The same events, by whatever name.                                         *)
LEMMA PendKept ==
  ASSUME NEW d, NEW n, n.pend = d.pend, PendOK(d)
  PROVE  PendOK(n) /\ \A names : Same(d, n, names)
BY DEF PendOK, Same, Named

(* Devices with the same events of a name agree on all that is said of it.    *)
LEMMA SameAlarm ==
  ASSUME NEW d, NEW n, NEW names, Same(d, n, names), NEW x \in names
  PROVE  /\ None(d, x) <=> None(n, x)
         /\ \A left : Only(d, x, left) <=> Only(n, x, left)
         /\ Once(d, x) <=> Once(n, x)
BY DEF Same, None, Only, Once

(* registerEvent(), of one event and of several.                              *)
LEMMA Registers ==
  ASSUME NEW d, Basic(d), NEW ev \in DOMAIN SlotOf, NEW next \in BOOLEAN
  PROVE  LET n == RegisterAction(d, ev, next) IN
         /\ Basic(n) /\ Data(d, n) /\ n.clk = d.clk
         /\ None(d, ev) => Only(n, ev, Distance(d.clk, ev, next))
         /\ Same(d, n, Alarms \ {ev})
<1> DEFINE n == RegisterAction(d, ev, next)
<1>1. Device(d) /\ PendOK(d) /\ d.clk \in 0 .. Cycle - 1 /\ d.clk \in Int
  BY SlotsInOrder DEF Basic
<1>2. /\ Changes(d, n, {"pend", "fault"})
      /\ PendOK(n)
      /\ None(d, ev) => Only(n, ev, Distance(d.clk, ev, next))
      /\ Same(d, n, Alarms \ {ev})
  BY <1>1, RegisterActionEffect
<1> HIDE DEF n
<1>3. n.clk = d.clk
  BY <1>2, ClockKept DEF Timing
<1>4. Basic(n) /\ Data(d, n)
  BY <1>1, <1>2, <1>3, BasicKept DEF Timing
<1> QED
  BY <1>2, <1>3, <1>4 DEF n

LEMMA RegistersAll ==
  ASSUME NEW d, Basic(d), NEW evs \in SUBSET DOMAIN SlotOf
  PROVE  LET n == RegisterAll(d, evs) IN
         /\ Basic(n) /\ Data(d, n) /\ n.clk = d.clk
         /\ \A x \in evs : None(d, x) => Only(n, x, Distance(d.clk, x, FALSE))
         /\ Same(d, n, Alarms \ evs)
<1> DEFINE n == RegisterAll(d, evs)
<1>1. Device(d) /\ PendOK(d) /\ d.clk \in 0 .. Cycle - 1 /\ d.clk \in Int
  BY SlotsInOrder DEF Basic
<1>2. /\ Changes(d, n, {"pend", "fault"})
      /\ PendOK(n)
      /\ \A x \in evs : None(d, x) => Only(n, x, Distance(d.clk, x, FALSE))
      /\ Same(d, n, Alarms \ evs)
  BY <1>1, RegisterAllEffect
<1> HIDE DEF n
<1>3. n.clk = d.clk
  BY <1>2, ClockKept DEF Timing
<1>4. Basic(n) /\ Data(d, n)
  BY <1>1, <1>2, <1>3, BasicKept DEF Timing
<1> QED
  BY <1>2, <1>3, <1>4 DEF n

(* The timer starts.                                                          *)
LEMMA StartsTimer ==
  ASSUME NEW d, Basic(d), NEW left \in Nat
  PROVE  LET n == StartTimer(d, left) IN
         /\ Basic(n) /\ Data(d, n) /\ n.clk = d.clk
         /\ None(d, "ASYNCHRON") => Only(n, "ASYNCHRON", left)
         /\ Same(d, n, DOMAIN SlotOf)
<1> DEFINE n == StartTimer(d, left)
<1>1. Device(d) /\ PendOK(d) /\ d.clk \in 0 .. Cycle - 1
  BY DEF Basic
<1>2. /\ Changes(d, n, {"pend", "fault"})
      /\ PendOK(n)
      /\ None(d, "ASYNCHRON") => Only(n, "ASYNCHRON", left)
      /\ Same(d, n, DOMAIN SlotOf)
  BY <1>1, StartTimerEffect
<1> HIDE DEF n
<1>3. n.clk = d.clk
  BY <1>2, ClockKept DEF Timing
<1>4. Basic(n) /\ Data(d, n)
  BY <1>1, <1>2, <1>3, BasicKept DEF Timing
<1> QED
  BY <1>2, <1>3, <1>4 DEF n

(* unregisterEvent().                                                         *)
LEMMA Unregisters ==
  ASSUME NEW d, Basic(d), NEW names \in SUBSET Alarms
  PROVE  LET n == Unregister(d, names) IN
         /\ Basic(n) /\ Data(d, n) /\ n.clk = d.clk
         /\ \A x \in names : None(n, x)
         /\ Same(d, n, Alarms \ names)
<1> DEFINE n == Unregister(d, names)
<1>1. Device(d) /\ PendOK(d) /\ d.clk \in 0 .. Cycle - 1
  BY DEF Basic
<1>2. /\ Changes(d, n, {"pend"})
      /\ PendOK(n)
      /\ \A x \in names : None(n, x)
      /\ Same(d, n, Alarms \ names)
  BY <1>1, UnregisterEffect
<1> HIDE DEF n
<1>3. n.clk = d.clk
  BY <1>2, ClockKept DEF Timing
<1>4. Basic(n) /\ Data(d, n)
  BY <1>1, <1>2, <1>3, BasicKept DEF Timing
<1> QED
  BY <1>2, <1>3, <1>4 DEF n

(* clockCorrection().                                                         *)
LEMMA Corrects ==
  ASSUME NEW d, Basic(d), NEW c \in Int
  PROVE  LET n == ClockCorrection(d, c) IN
         /\ Basic(n) /\ Data(d, n) /\ n.clk = (d.clk - c) % Cycle
         /\ Same(d, n, {"ASYNCHRON"})
         /\ \A x \in DOMAIN SlotOf : None(d, x) => None(n, x)
         /\ \A x \in DOMAIN SlotOf : \A left : Only(d, x, left) => Only(n, x, Larger(0, left + c))
<1> DEFINE n == ClockCorrection(d, c)
<1>1. Device(d) /\ PendOK(d) /\ d.clk - c \in Int /\ Cycle \in Nat \ {0}
  BY SlotsInOrder DEF Basic
<1>2. /\ Changes(d, n, {"clk", "pend", "gone"})
      /\ n.clk = (d.clk - c) % Cycle
      /\ PendOK(n)
      /\ Same(d, n, {"ASYNCHRON"})
      /\ \A x \in DOMAIN SlotOf : None(d, x) => None(n, x)
      /\ \A x \in DOMAIN SlotOf : \A left : Only(d, x, left) => Only(n, x, Larger(0, left + c))
  BY <1>1, ClockCorrectionEffect
<1> HIDE DEF n
<1>3. n.clk \in 0 .. Cycle - 1
  BY <1>1, <1>2, Remainder
<1>4. Basic(n) /\ Data(d, n)
  BY <1>1, <1>2, <1>3, BasicKept DEF Timing
<1> QED
  BY <1>2, <1>4 DEF n

(* The handled event is due: its own name is not registered any more.          *)
LEMMA Takes ==
  ASSUME NEW d, Basic(d), NEW e \in Due(d)
  PROVE  LET n == Taken(d, e) IN
         /\ Basic(n) /\ Data(d, n) /\ n.clk = d.clk
         /\ Same(d, n, Alarms \ {e.ev})
         /\ \A left : Only(d, e.ev, left) => None(n, e.ev) /\ left = 0
         /\ e.ev = "IN_FRAME" => e \in Frames
<1> DEFINE n == Taken(d, e)
<1>1. Device(d) /\ PendOK(d) /\ d.clk \in 0 .. Cycle - 1
  BY DEF Basic
<1>2. e \in d.pend /\ e.left = 0
  BY DEF Due
<1>3. e \in Frames \union Alarm
  BY <1>1, <1>2 DEF PendOK
<1>4. /\ Changes(d, n, {"pend"})
      /\ PendOK(n)
      /\ Same(d, n, Alarms \ {e.ev})
      /\ \A left : Only(d, e.ev, left) => None(n, e.ev) /\ e = [ev |-> e.ev, left |-> left]
  BY <1>1, <1>2, TakenEffect
<1> HIDE DEF n
<1>5. n.clk = d.clk
  BY <1>4, ClockKept DEF Timing
<1>6. Basic(n) /\ Data(d, n)
  BY <1>1, <1>4, <1>5, BasicKept DEF Timing
<1>7. ASSUME NEW left, Only(d, e.ev, left) PROVE None(n, e.ev) /\ left = 0
  <2>1. e = [ev |-> e.ev, left |-> left]
    BY <1>4, <1>7
  <2>2. e.left = left
    BY <2>1
  <2> QED
    BY <1>2, <1>4, <1>7, <2>2
<1> QED
  BY <1>3, <1>4, <1>5, <1>6, <1>7, EventTypes DEF n

(* Note that a frame was handled or filed.                                     *)
LEMMA Deletes ==
  ASSUME NEW d, Basic(d), NEW f, NEW key
  PROVE  LET n == Erased(Deleted(d, f), key) IN
         Basic(n) /\ Data(d, n) /\ n.clk = d.clk /\ Same(d, n, Alarms)
<1> DEFINE m == Deleted(d, f)
           n == Erased(m, key)
<1>1. Device(d) /\ PendOK(d) /\ d.clk \in 0 .. Cycle - 1
  BY DEF Basic
<1>2. Changes(d, m, {"gone"}) /\ PendOK(m) /\ Same(d, m, Alarms)
  BY <1>1, DeletedEffect
<1> HIDE DEF m
<1>3. Changes(m, n, {"pend", "gone"}) /\ PendOK(n) /\ Same(m, n, Alarms)
  BY <1>2, ErasedEffect DEF Changes
<1> HIDE DEF n
<1>4. Changes(d, n, {"pend", "gone"}) /\ Same(d, n, Alarms)
  BY <1>2, <1>3 DEF Changes, Same
<1>5. n.clk = d.clk
  BY <1>4, ClockKept DEF Timing
<1>6. Basic(n) /\ Data(d, n)
  BY <1>1, <1>3, <1>4, <1>5, BasicKept DEF Timing
<1> QED
  BY <1>4, <1>5, <1>6 DEF m, n
------------------------------------------------------------------------------
(* The order of a cycle.                                                       *)

(* The slots.                                                                 *)
LEMMA SlotValues ==
  /\ SlotOf["async_eval"] = 0
  /\ SlotOf["inc"] = ReceivePit - Precision
  /\ SlotOf["sync_eval"] = ReceivePit + Precision
  /\ SlotOf["clock_corr"] = ReceivePit + 2 * Precision + 1
  /\ SlotOf["async_up"] = Cycle - AcceptanceWindow
BY DEF SlotOf

(* What is due tells where in the cycle the client is.                         *)
LEMMA PhaseOf ==
  ASSUME NEW d, Basic(d), NEW done \in Phases, CyclicOnTime(d, done),
         NEW x \in Cyclic, Ahead(d, x, done) = 0
  PROVE  /\ x \notin done /\ d.clk = SlotOf[x] /\ done \union {x} \in Phases
         /\ x = "async_eval" => done = {}
         /\ x = "inc" => done = {"async_eval"}
         /\ x = "sync_eval" => done = {"async_eval", "inc"}
         /\ x = "async_up" => done = {"async_eval", "inc", "sync_eval"}
<1>1. /\ d.clk \in Int /\ 0 <= d.clk /\ d.clk < Cycle
      /\ Precision \in Int /\ Precision > 0 /\ AcceptanceWindow \in Int /\ AcceptanceWindow > 0
      /\ ReceivePit \in Int /\ Cycle \in Int /\ Precision < ReceivePit
      /\ ReceivePit + 3 * Precision + 1 <= Cycle - AcceptanceWindow
  BY SlotsInOrder DEF Basic
<1>2. /\ -d.clk + (IF "async_eval" \in done THEN Cycle ELSE 0) >= 0
      /\ ReceivePit - Precision - d.clk + (IF "inc" \in done THEN Cycle ELSE 0) >= 0
      /\ ReceivePit + Precision - d.clk + (IF "sync_eval" \in done THEN Cycle ELSE 0) >= 0
      /\ Cycle - AcceptanceWindow - d.clk + (IF "async_up" \in done THEN Cycle ELSE 0) >= 0
  <2>1. \A y \in Cyclic : Ahead(d, y, done) >= 0
    BY DEF CyclicOnTime
  <2>2. Ahead(d, "async_eval", done) >= 0 /\ Ahead(d, "inc", done) >= 0
        /\ Ahead(d, "sync_eval", done) >= 0 /\ Ahead(d, "async_up", done) >= 0
    BY <2>1 DEF Cyclic
  <2> QED
    BY <1>1, <2>2, SlotValues DEF Ahead
<1>3. CASE x = "async_eval"
  <2>0. Ahead(d, "async_eval", done) = 0
    BY <1>3
  <2>1. 0 - d.clk + (IF "async_eval" \in done THEN Cycle ELSE 0) = 0
    BY <1>1, <2>0, SlotValues DEF Ahead
  <2>2. "async_eval" \notin done
    <3> SUFFICES ASSUME "async_eval" \in done PROVE FALSE
      OBVIOUS
    <3>1. 0 - d.clk + Cycle = 0
      BY <2>1
    <3> QED
      BY <1>1, <3>1
  <2>3. d.clk = 0
    <3>1. 0 - d.clk + 0 = 0
      BY <2>1, <2>2
    <3> QED
      BY SMTT(30), <1>1, <3>1
  <2> QED
    BY <1>3, <2>2, <2>3, SlotValues DEF Phases, Cyclic
<1>4. CASE x = "inc"
  <2>1. ReceivePit - Precision - d.clk + (IF "inc" \in done THEN Cycle ELSE 0) = 0
    BY <1>1, <1>4, SlotValues DEF Ahead
  <2>2. d.clk = ReceivePit - Precision /\ "inc" \notin done /\ "async_eval" \in done
    BY <1>1, <1>2, <2>1
  <2> QED
    BY <1>4, <2>2, SlotValues DEF Phases, Cyclic
<1>5. CASE x = "sync_eval"
  <2>1. ReceivePit + Precision - d.clk + (IF "sync_eval" \in done THEN Cycle ELSE 0) = 0
    BY <1>1, <1>5, SlotValues DEF Ahead
  <2>2. d.clk = ReceivePit + Precision /\ "sync_eval" \notin done /\ "inc" \in done
    BY <1>1, <1>2, <2>1
  <2> QED
    BY <1>5, <2>2, SlotValues DEF Phases, Cyclic
<1>6. CASE x = "async_up"
  <2>1. Cycle - AcceptanceWindow - d.clk + (IF "async_up" \in done THEN Cycle ELSE 0) = 0
    BY <1>1, <1>6, SlotValues DEF Ahead
  <2>2. d.clk = Cycle - AcceptanceWindow /\ "async_up" \notin done /\ "sync_eval" \in done
    BY <1>1, <1>2, <2>1
  <2> QED
    BY <1>6, <2>2, SlotValues DEF Phases, Cyclic
<1> QED
  BY <1>3, <1>4, <1>5, <1>6 DEF Cyclic

(* An event that acts in its slot and is registered for the next cycle.        *)
LEMMA ReRegistered ==
  ASSUME NEW d, Basic(d), NEW done \in Phases, CyclicOnTime(d, done),
         NEW x \in Cyclic, Ahead(d, x, done) = 0,
         NEW t, Basic(t), t.clk = d.clk, Same(d, t, Cyclic \ {x}), None(t, x)
  PROVE  LET n == RegisterNext(t, x) IN
         /\ Basic(n) /\ Data(t, n) /\ n.clk = d.clk
         /\ CyclicOnTime(n, done \union {x})
         /\ Same(t, n, Alarms \ {x})
<1> DEFINE n == RegisterNext(t, x)
           next == done \union {x}
<1>1. x \notin done /\ d.clk = SlotOf[x]
  BY PhaseOf
<1>2. /\ Basic(n) /\ Data(t, n) /\ n.clk = d.clk
      /\ Only(n, x, Distance(t.clk, x, TRUE))
      /\ Same(t, n, Alarms \ {x})
  <2>1. x \in DOMAIN SlotOf /\ TRUE \in BOOLEAN
    BY SlotNames
  <2> DEFINE r == RegisterAction(t, x, TRUE)
  <2>2. /\ Basic(r) /\ Data(t, r) /\ r.clk = t.clk
        /\ None(t, x) => Only(r, x, Distance(t.clk, x, TRUE))
        /\ Same(t, r, Alarms \ {x})
    BY <2>1, Registers
  <2>3. n = r
    BY DEF RegisterNext
  <2> HIDE DEF n, r
  <2> QED
    BY <2>2, <2>3
<1>3. SlotOf[x] \in Int /\ Cycle \in Nat \ {0}
  <2>1. x \in DOMAIN SlotOf
    BY SlotNames
  <2> QED
    BY <2>1, SlotNames, SlotsInOrder
<1>4. Distance(t.clk, x, TRUE) = Cycle
  <2>1. SlotOf[x] - t.clk = 0
    BY <1>1, <1>3
  <2>2. 0 % Cycle = 0
    BY <1>3, SmallRemainder
  <2> QED
    BY <2>1, <2>2 DEF Distance
<1> HIDE DEF n
<1>5. Ahead(n, x, next) = Cycle
  BY <1>1, <1>2, <1>3 DEF Ahead
<1>6. ASSUME NEW y \in Cyclic, y # x
      PROVE  Ahead(n, y, next) = Ahead(d, y, done) /\ Only(n, y, Ahead(d, y, done))
  <2>1. Ahead(n, y, next) = Ahead(d, y, done)
    BY <1>2, <1>6 DEF Ahead
  <2>2. Only(d, y, Ahead(d, y, done))
    BY DEF CyclicOnTime
  <2>3. Only(t, y, Ahead(d, y, done))
    BY <1>6, <2>2, SameAlarm
  <2>4. y \in Alarms \ {x}
    BY <1>6, SlotNames DEF Alarms
  <2> QED
    BY <1>2, <2>1, <2>3, <2>4, SameAlarm
<1>7. CyclicOnTime(n, next)
  BY <1>2, <1>3, <1>4, <1>5, <1>6 DEF CyclicOnTime
<1> QED
  BY <1>2, <1>7 DEF n

(* What changes neither the clock nor the alarms keeps them on time.          *)
LEMMA OnTimeKept ==
  ASSUME NEW d, NEW n, NEW done, n.clk = d.clk, Same(d, n, Alarms), OnTime(d, done)
  PROVE  OnTime(n, done)
<1>1. Cyclic \subseteq Alarms /\ "clock_corr" \in Alarms /\ "ASYNCHRON" \in Alarms
  BY SlotNames DEF Alarms
<1>2. \A x : Ahead(n, x, done) = Ahead(d, x, done)
  BY DEF Ahead
<1>3. CyclicOnTime(n, done)
  <2>1. ASSUME NEW x \in Cyclic PROVE Ahead(n, x, done) \in Nat /\ Only(n, x, Ahead(n, x, done))
    BY <1>1, <1>2, SameAlarm DEF OnTime, CyclicOnTime
  <2> QED
    BY <2>1 DEF CyclicOnTime
<1>4. None(d, "clock_corr") => None(n, "clock_corr")
  BY <1>1, SameAlarm
<1>5. Correcting(d, done) => Correcting(n, done)
  BY <1>1, SameAlarm DEF Correcting
<1>6. None(n, "ASYNCHRON")
  BY <1>1, SameAlarm DEF OnTime
<1> QED
  BY <1>3, <1>4, <1>5, <1>6 DEF OnTime

(* The tick of time.                                                           *)
LEMMA TickOnTime ==
  ASSUME NEW d, Basic(d), NothingDue(d), NEW done \in Phases, OnTime(d, done)
  PROVE  LET n == TimePasses(d)
             next == IF n.clk = 0 THEN {} ELSE done
         IN /\ Basic(n) /\ Data(d, n) /\ n.clk = (d.clk + 1) % Cycle
            /\ next \in Phases /\ OnTime(n, next)
            /\ n.clk = 0 => done = Cyclic
            /\ None(n, "clock_corr") => None(d, "clock_corr")
<1> DEFINE n == TimePasses(d)
           next == IF n.clk = 0 THEN {} ELSE done
<1>1. /\ Device(d) /\ PendOK(d) /\ d.clk \in Int /\ 0 <= d.clk /\ d.clk < Cycle
      /\ Precision \in Int /\ Precision > 0 /\ AcceptanceWindow \in Int /\ AcceptanceWindow > 0
      /\ ReceivePit \in Int /\ Cycle \in Int /\ Precision < ReceivePit
      /\ ReceivePit + 3 * Precision + 1 <= Cycle - AcceptanceWindow
  BY SlotsInOrder DEF Basic
<1>2. /\ Changes(d, n, {"clk", "pend", "gone"})
      /\ n.clk = (d.clk + 1) % Cycle
      /\ PendOK(n)
      /\ \A x \in Alarms : None(d, x) => None(n, x)
      /\ \A x \in Alarms : \A left : Only(d, x, left) => left \in Nat \ {0} /\ Only(n, x, left - 1)
  BY <1>1, TimePassesEffect
<1> HIDE DEF n
<1>3. n.clk = IF d.clk = Cycle - 1 THEN 0 ELSE d.clk + 1
  <2>1. CASE d.clk = Cycle - 1
    BY <1>1, <1>2, <2>1
  <2>2. CASE d.clk # Cycle - 1
    <3>1. d.clk + 1 \in 0 .. Cycle - 1 /\ Cycle \in Nat \ {0}
      BY <1>1, <2>2
    <3> QED
      BY <1>2, <2>2, <3>1, SmallRemainder
  <2> QED
    BY <2>1, <2>2
<1>4. Basic(n) /\ Data(d, n)
  <2>1. n.clk \in 0 .. Cycle - 1
    BY <1>1, <1>3
  <2> QED
    BY <1>2, <2>1, BasicKept DEF Timing
<1>5. Cyclic \subseteq Alarms /\ "clock_corr" \in Alarms /\ "ASYNCHRON" \in Alarms
      /\ \A x \in Cyclic : SlotOf[x] \in Int
  BY SlotNames DEF Alarms
<1>6. ASSUME NEW x \in Cyclic
      PROVE  Ahead(d, x, done) \in Nat \ {0} /\ Only(n, x, Ahead(d, x, done) - 1)
  BY <1>2, <1>5 DEF OnTime, CyclicOnTime
<1>7. done # {} /\ (n.clk = 0 => done = Cyclic)
  <2>1. Ahead(d, "async_eval", done) > 0 /\ Ahead(d, "inc", done) > 0
        /\ Ahead(d, "sync_eval", done) > 0 /\ Ahead(d, "async_up", done) > 0
    BY <1>6 DEF Cyclic
  <2>2. /\ -d.clk + (IF "async_eval" \in done THEN Cycle ELSE 0) > 0
        /\ ReceivePit - Precision - d.clk + (IF "inc" \in done THEN Cycle ELSE 0) > 0
        /\ ReceivePit + Precision - d.clk + (IF "sync_eval" \in done THEN Cycle ELSE 0) > 0
        /\ Cycle - AcceptanceWindow - d.clk + (IF "async_up" \in done THEN Cycle ELSE 0) > 0
    BY <1>1, <2>1, SlotValues DEF Ahead
  <2>3. "async_eval" \in done
    BY <1>1, <2>2
  <2>4. n.clk = 0 => "async_up" \in done
    BY <1>1, <1>3, <2>2
  <2> QED
    BY <2>3, <2>4 DEF Phases, Cyclic
<1>8. ASSUME NEW x \in Cyclic PROVE Ahead(n, x, next) = Ahead(d, x, done) - 1
  <2>1. CASE n.clk = 0
    <3>1. d.clk = Cycle - 1 /\ x \in done /\ x \notin next
      BY <1>1, <1>3, <1>7, <2>1
    <3> QED
      BY <1>1, <1>5, <2>1, <3>1 DEF Ahead
  <2>2. CASE n.clk # 0
    BY <1>1, <1>3, <1>5, <2>2 DEF Ahead
  <2> QED
    BY <2>1, <2>2
<1>9. next \in Phases
  BY DEF Phases
<1>10. CyclicOnTime(n, next)
  BY <1>6, <1>8 DEF CyclicOnTime
<1>11. ASSUME Correcting(d, done) PROVE Correcting(n, next) /\ ~None(n, "clock_corr")
  <2> DEFINE left == SlotOf["clock_corr"] - d.clk
  <2>1. left \in Nat \ {0} /\ Only(n, "clock_corr", left - 1)
    BY <1>2, <1>5, <1>11 DEF Correcting
  <2>2. n.clk = d.clk + 1 /\ n.clk # 0
    BY <1>1, <1>3, <2>1, SlotValues
  <2>3. SlotOf["clock_corr"] - n.clk = left - 1
    BY <1>1, <2>2, SlotValues
  <2>4. Correcting(n, next)
    BY <1>11, <2>1, <2>2, <2>3 DEF Correcting
  <2>5. ~None(n, "clock_corr")
    BY <2>1 DEF None, Only
  <2> QED
    BY <2>4, <2>5
<1>12. OnTime(n, next) /\ (None(n, "clock_corr") => None(d, "clock_corr"))
  BY <1>2, <1>5, <1>10, <1>11 DEF OnTime
<1> QED
  BY <1>2, <1>4, <1>7, <1>9, <1>12 DEF n
------------------------------------------------------------------------------
(* The handlers of a client that is synchronised.                              *)

(* A clique detection leads to INTEGRATE with the timer as its only event.     *)
LEMMA Restarts ==
  ASSUME NEW d, Basic(d), None(d, "ASYNCHRON"), NEW timeout \in Nat
  PROVE  Basic(Restart(d, timeout)) /\ Integrating(Restart(d, timeout))
<1> DEFINE c == ClockCorrection(d, d.clk)
           z == [c EXCEPT !.icyc = 0, !.sync = 0, !.asyncR = {}, !.asyncF = {}, !.counter = 0, !.stack = {}]
           q == Unregister(z, DOMAIN SlotOf)
           i == [q EXCEPT !.st = "INTEGRATE", !.timedOut = FALSE]
           n == StartTimer(i, timeout)
<1>1. n = Restart(d, timeout)
  BY DEF Restart, Integrate
<1>2. Basic(c) /\ None(c, "ASYNCHRON")
  <2>1. d.clk \in Int
    BY SlotsInOrder DEF Basic
  <2>2. Basic(c) /\ Same(d, c, {"ASYNCHRON"})
    BY <2>1, Corrects
  <2> HIDE DEF c
  <2> QED
    BY <2>2, SameAlarm
<1> HIDE DEF c
<1>3. Basic(z) /\ None(z, "ASYNCHRON") /\ z.counter = 0
  <2>1. Device(z)
    BY <1>2 DEF Basic, Device, Fields
  <2>2. /\ z.st = c.st /\ z.clk = c.clk /\ z.pend = c.pend /\ z.timedOut = c.timedOut
        /\ z.icyc = 0 /\ z.sync = 0 /\ z.asyncR = {} /\ z.asyncF = {} /\ z.counter = 0 /\ z.stack = {}
    BY <1>2 DEF Basic, Device, Fields
  <2> HIDE DEF z
  <2>3. PendOK(z) /\ Same(c, z, {"ASYNCHRON"})
    BY <1>2, <2>2, PendKept DEF Basic
  <2>4. Basic(z)
    BY <1>2, <2>1, <2>2, <2>3, ClientAssumption DEF Basic
  <2> QED
    BY <1>2, <2>2, <2>3, <2>4, SameAlarm
<1> HIDE DEF z
<1>4. Basic(q) /\ None(q, "ASYNCHRON") /\ q.counter = 0 /\ \A x \in DOMAIN SlotOf : None(q, x)
  <2>1. /\ Basic(q) /\ Data(z, q)
        /\ \A x \in DOMAIN SlotOf : None(q, x)
        /\ Same(z, q, Alarms \ DOMAIN SlotOf)
    BY <1>3, Unregisters DEF Alarms
  <2>2. "ASYNCHRON" \in Alarms \ DOMAIN SlotOf
    BY SlotNames DEF Alarms
  <2> HIDE DEF q
  <2> QED
    BY <1>3, <2>1, <2>2, SameAlarm DEF Data
<1> HIDE DEF q
<1>5. /\ Basic(i) /\ None(i, "ASYNCHRON") /\ i.counter = 0 /\ i.st = "INTEGRATE" /\ i.timedOut = FALSE
      /\ \A x \in DOMAIN SlotOf : None(i, x)
  <2>1. Device(i)
    BY <1>4 DEF Basic, Device, Fields
  <2>2. /\ i.st = "INTEGRATE" /\ i.timedOut = FALSE
        /\ i.clk = q.clk /\ i.pend = q.pend /\ i.icyc = q.icyc /\ i.sync = q.sync /\ i.counter = q.counter
        /\ i.asyncR = q.asyncR /\ i.asyncF = q.asyncF /\ i.stack = q.stack
    BY <1>4 DEF Basic, Device, Fields
  <2> HIDE DEF i
  <2>3. PendOK(i) /\ Same(q, i, Alarms)
    BY <1>4, <2>2, PendKept DEF Basic
  <2>4. Basic(i)
    BY <1>4, <2>1, <2>2, <2>3 DEF Basic, States
  <2> QED
    BY <1>4, <2>2, <2>3, <2>4, SameAlarm DEF Alarms
<1> HIDE DEF i
<1>6. /\ Basic(n) /\ Data(i, n)
      /\ Only(n, "ASYNCHRON", timeout)
      /\ Same(i, n, DOMAIN SlotOf)
  BY <1>5, StartsTimer
<1> HIDE DEF n
<1>7. Integrating(n)
  <2>1. \A x \in DOMAIN SlotOf : None(n, x)
    BY <1>5, <1>6, SameAlarm
  <2>2. Once(n, "ASYNCHRON")
    BY <1>6 DEF Once
  <2>3. n.st = "INTEGRATE" /\ n.counter = 0 /\ n.timedOut = FALSE
    BY <1>5, <1>6 DEF Data
  <2> QED
    BY <2>1, <2>2, <2>3 DEF Integrating
<1> QED
  BY <1>1, <1>6, <1>7

(* A cyclic event that is handled is not registered any more.                  *)
LEMMA CyclicTaken ==
  ASSUME NEW d, Basic(d), NEW done \in Phases, OnTime(d, done), NEW e \in Due(d), e.ev \in Cyclic
  PROVE  /\ Ahead(d, e.ev, done) = 0
         /\ None(d, "clock_corr")
         /\ Basic(Taken(d, e)) /\ Data(d, Taken(d, e)) /\ Taken(d, e).clk = d.clk
         /\ None(Taken(d, e), e.ev)
         /\ Same(d, Taken(d, e), Alarms \ {e.ev})
<1> DEFINE n == Taken(d, e)
<1>1. /\ Basic(n) /\ Data(d, n) /\ n.clk = d.clk
      /\ Same(d, n, Alarms \ {e.ev})
      /\ \A left : Only(d, e.ev, left) => None(n, e.ev) /\ left = 0
  BY SMTT(30), Takes
<1> HIDE DEF n
<1>2. Only(d, e.ev, Ahead(d, e.ev, done))
  BY DEF OnTime, CyclicOnTime
<1>3. Ahead(d, e.ev, done) = 0 /\ None(n, e.ev)
  BY <1>1, <1>2
<1>4. None(d, "clock_corr")
  <2> SUFFICES ASSUME Correcting(d, done) PROVE FALSE
    BY DEF OnTime
  <2>1. done = {"async_eval", "inc", "sync_eval"} /\ SlotOf["clock_corr"] - d.clk \in Nat
    BY DEF Correcting
  <2>2. e.ev \notin done /\ d.clk = SlotOf[e.ev]
    BY <1>3, PhaseOf DEF OnTime
  <2>3. e.ev = "async_up"
    BY <2>1, <2>2 DEF Cyclic
  <2>4. SlotOf["clock_corr"] - SlotOf["async_up"] \in Nat
    BY <2>1, <2>2, <2>3
  <2>5. ReceivePit + 2 * Precision + 1 - (Cycle - AcceptanceWindow) < 0
    BY SlotsInOrder
  <2>6. SlotOf["clock_corr"] - SlotOf["async_up"] = ReceivePit + 2 * Precision + 1 - (Cycle - AcceptanceWindow)
    BY SlotValues, SlotsInOrder
  <2> QED
    BY <2>4, <2>5, <2>6
<1> QED
  BY <1>1, <1>3, <1>4 DEF n

(* ... and a handler that only changes data registers it for the next cycle.   *)
LEMMA CyclicNext ==
  ASSUME NEW d, Basic(d), NEW done \in Phases, OnTime(d, done), NEW e \in Due(d), NEW x \in Cyclic, e.ev = x,
         NEW r, Basic(r), r.clk = d.clk, r.pend = Taken(d, e).pend
  PROVE  LET n == RegisterNext(r, x) IN
         /\ Basic(n) /\ Data(r, n) /\ n.clk = d.clk
         /\ OnTime(n, done \union {x})
<1> DEFINE t == Taken(d, e)
           n == RegisterNext(r, x)
<1>1. /\ Ahead(d, x, done) = 0 /\ None(d, "clock_corr")
      /\ Basic(t) /\ None(t, x) /\ Same(d, t, Alarms \ {x})
  BY CyclicTaken
<1> HIDE DEF t
<1>2. Same(t, r, Alarms) /\ r.pend = t.pend
  <2>1. r.pend = t.pend
    BY DEF t
  <2> QED
    BY <1>1, <2>1, PendKept DEF Basic
<1>3. x \in Alarms /\ Cyclic \subseteq Alarms /\ "clock_corr" \in Alarms \ {x} /\ "ASYNCHRON" \in Alarms \ {x}
  BY SlotNames DEF Alarms, Cyclic
<1>4. Same(d, r, Alarms \ {x}) /\ None(r, x)
  BY <1>1, <1>2, <1>3, SameAlarm DEF Same
<1>5. Same(d, r, Cyclic \ {x})
  BY <1>3, <1>4 DEF Same
<1>6. /\ Basic(n) /\ Data(r, n) /\ n.clk = d.clk
      /\ CyclicOnTime(n, done \union {x})
      /\ Same(r, n, Alarms \ {x})
  <2>1. CyclicOnTime(d, done)
    BY DEF OnTime
  <2>2. None(r, x) /\ Ahead(d, x, done) = 0
    BY <1>1, <1>4
  <2> QED
    BY <2>1, <2>2, <1>5, ReRegistered
<1> HIDE DEF n
<1>7. None(n, "clock_corr") /\ None(n, "ASYNCHRON")
  <2>1. None(d, "ASYNCHRON")
    BY DEF OnTime
  <2>2. None(r, "clock_corr") /\ None(r, "ASYNCHRON")
    BY <1>1, <1>3, <1>4, <2>1, SameAlarm
  <2> QED
    BY <1>3, <1>6, <2>2, SameAlarm
<1> QED
  BY <1>6, <1>7 DEF OnTime, n

(* The members seen out of schedule can be counted.                           *)
LEMMA FiniteMembers ==
  ASSUME NEW d, Basic(d), NEW u, u \subseteq AsyncMembers(d)
  PROVE  Cardinality(u) \in Nat /\ Cardinality(AsyncMembers(d)) \in Nat
         /\ Cardinality(u) <= Cardinality(AsyncMembers(d))
<1>1. AsyncMembers(d) \subseteq UNION Memberships
  BY DEF AsyncMembers, Basic
<1>2. IsFiniteSet(AsyncMembers(d))
  BY <1>1, ClientAssumption, FS_Subset
<1>3. IsFiniteSet(u)
  BY <1>2, FS_Subset
<1> QED
  BY <1>2, <1>3, FS_Subset, FS_CardinalityType

(* async_eval: the clique detection, in SYNC and in STABLE.                    *)
LEMMA AsyncEvaluated ==
  ASSUME NEW d, Basic(d), NEW u, NEW h, NEW s, Following(d, u, h, s),
         NEW e \in Due(d), e.ev = "async_eval"
  PROVE  LET t == Taken(d, e)
             m == RegisterNext(t, "async_eval")
         IN /\ Basic(t) /\ None(t, "ASYNCHRON")
            /\ Basic(m) /\ None(m, "ASYNCHRON")
            /\ Following(m, {}, h, s) /\ m.clk = d.clk
            /\ AsyncMembers(m) = AsyncMembers(t)
            /\ Cardinality(u) \in Nat /\ Cardinality(AsyncMembers(t)) \in Nat
            /\ Cardinality(u) <= Cardinality(AsyncMembers(t))
<1> DEFINE t == Taken(d, e)
           m == RegisterNext(t, "async_eval")
<1>1. PICK done \in Phases : OnTime(d, done) /\ Remembers(d, done, u, h)
  BY DEF Following
<1>2. "async_eval" \in Cyclic /\ "ASYNCHRON" \in Alarms \ {"async_eval"}
  BY DEF Cyclic, Alarms
<1>3. /\ Ahead(d, "async_eval", done) = 0 /\ None(d, "clock_corr")
      /\ Basic(t) /\ Data(d, t) /\ t.clk = d.clk
      /\ Same(d, t, Alarms \ {"async_eval"})
  BY <1>1, <1>2, CyclicTaken
<1>4. done = {}
  BY <1>1, <1>2, <1>3, PhaseOf DEF OnTime
<1>5. Basic(m) /\ Data(t, m) /\ m.clk = d.clk /\ OnTime(m, {"async_eval"})
  <2>1. /\ Basic(m) /\ Data(t, m) /\ m.clk = d.clk
        /\ OnTime(m, done \union {"async_eval"})
    BY <1>1, <1>2, <1>3, CyclicNext
  <2>2. done \union {"async_eval"} = {"async_eval"}
    BY <1>4
  <2> QED
    BY <2>1, <2>2
<1> HIDE DEF t, m
<1>6. AsyncMembers(t) = AsyncMembers(d) /\ AsyncMembers(m) = AsyncMembers(t)
  BY <1>3, <1>5 DEF AsyncMembers, Data
<1>7. u \subseteq AsyncMembers(t)
  BY <1>1, <1>6 DEF Remembers
<1>8. None(t, "ASYNCHRON")
  BY <1>1, <1>2, <1>3, SameAlarm DEF OnTime
<1>9. Following(m, {}, h, s)
  <2>1. m.st = d.st /\ m.counter = d.counter /\ m.stack = d.stack
    BY <1>3, <1>5 DEF Data
  <2>2. Remembers(m, {"async_eval"}, {}, h)
    BY <1>1, <1>3, <2>1 DEF Remembers
  <2>3. {"async_eval"} \in Phases
    BY DEF Phases
  <2>4. Counts(m, s)
    BY <2>1 DEF Following, Counts
  <2> QED
    BY <1>5, <2>1, <2>2, <2>3, <2>4 DEF Following
<1> QED
  BY <1>3, <1>5, <1>6, <1>7, <1>8, <1>9, FiniteMembers DEF OnTime, t, m

(* ... in SYNC, which evaluates before it registers again, ...                *)
LEMMA SyncAsyncEvalKeeps ==
  ASSUME NEW d, Basic(d), NEW u, NEW h, NEW s, Following(d, u, h, s),
         NEW e \in Due(d), e.ev = "async_eval"
  PROVE  LET n == SyncAsyncEval(Taken(d, e), e)
         IN /\ Basic(n)
            /\ Integrating(n) \/ (Following(n, {}, h, s) /\ n.clk = d.clk)
            /\ Cardinality(u) >= SyncThresholdAsync => Integrating(n)
<1> DEFINE t == Taken(d, e)
           m == RegisterNext(t, "async_eval")
           r == Restart(t, RestartAsync)
           n == SyncAsyncEval(t, e)
<1>1. /\ Basic(t) /\ None(t, "ASYNCHRON") /\ Basic(m)
      /\ Following(m, {}, h, s) /\ m.clk = d.clk
      /\ Cardinality(u) \in Nat /\ Cardinality(AsyncMembers(t)) \in Nat
      /\ Cardinality(u) <= Cardinality(AsyncMembers(t))
  BY AsyncEvaluated
<1>2. Basic(r) /\ Integrating(r)
  BY <1>1, Restarts, ClientAssumption
<1>3. n = IF Cardinality(AsyncMembers(t)) >= SyncThresholdAsync THEN r ELSE m
  BY DEF SyncAsyncEval
<1> HIDE DEF t, m, r, n
<1>4. /\ Basic(n)
      /\ Integrating(n) \/ (Following(n, {}, h, s) /\ n.clk = d.clk)
      /\ Cardinality(u) >= SyncThresholdAsync => Integrating(n)
  BY <1>1, <1>2, <1>3, ClientAssumption
<1> QED
  BY <1>4 DEF n, t

(* ... and in STABLE, which registers first.                                  *)
LEMMA StableAsyncEvalKeeps ==
  ASSUME NEW d, Basic(d), NEW u, NEW h, NEW s, Following(d, u, h, s),
         NEW e \in Due(d), e.ev = "async_eval"
  PROVE  LET n == StableAsyncEval(Taken(d, e), e)
         IN /\ Basic(n)
            /\ Integrating(n) \/ (Following(n, {}, h, s) /\ n.clk = d.clk)
            /\ Cardinality(u) >= StableThresholdAsync => Integrating(n)
<1> DEFINE t == Taken(d, e)
           m == RegisterNext(t, "async_eval")
           r == Restart(m, RestartAsync)
           n == StableAsyncEval(t, e)
<1>1. /\ Basic(m) /\ None(m, "ASYNCHRON")
      /\ Following(m, {}, h, s) /\ m.clk = d.clk
      /\ AsyncMembers(m) = AsyncMembers(t)
      /\ Cardinality(u) \in Nat /\ Cardinality(AsyncMembers(t)) \in Nat
      /\ Cardinality(u) <= Cardinality(AsyncMembers(t))
  BY AsyncEvaluated
<1>2. Basic(r) /\ Integrating(r)
  BY <1>1, Restarts, ClientAssumption
<1>3. n = IF Cardinality(AsyncMembers(m)) >= StableThresholdAsync THEN r ELSE m
  BY DEF StableAsyncEval
<1> HIDE DEF t, m, r, n
<1>4. /\ Basic(n)
      /\ Integrating(n) \/ (Following(n, {}, h, s) /\ n.clk = d.clk)
      /\ Cardinality(u) >= StableThresholdAsync => Integrating(n)
  BY <1>1, <1>2, <1>3, ClientAssumption
<1> QED
  BY <1>4 DEF n, t

(* inc, and async_up, which clears the half that is not evaluated next.        *)
LEMMA IncKeeps ==
  ASSUME NEW d, Basic(d), NEW u, NEW h, NEW s, Following(d, u, h, s),
         NEW e \in Due(d), e.ev = "inc"
  PROVE  LET n == Inc(Taken(d, e), e)
         IN Basic(n) /\ Following(n, u, h, s) /\ n.clk = d.clk /\ n.st = d.st
<1> DEFINE t == Taken(d, e)
           r == [t EXCEPT !.icyc = (@ + 1) % MaxIcys]
           n == RegisterNext(r, "inc")
<1>1. PICK done \in Phases : OnTime(d, done) /\ Remembers(d, done, u, h)
  BY DEF Following
<1>2. "inc" \in Cyclic
  BY DEF Cyclic
<1>3. /\ Ahead(d, "inc", done) = 0 /\ None(d, "clock_corr")
      /\ Basic(t) /\ Data(d, t) /\ t.clk = d.clk
  BY <1>1, <1>2, CyclicTaken
<1>4. done = {"async_eval"}
  BY <1>1, <1>2, <1>3, PhaseOf DEF OnTime
<1> HIDE DEF t
<1>5. /\ Basic(r) /\ r.clk = d.clk /\ r.pend = t.pend /\ r.st = d.st /\ r.stack = d.stack
      /\ r.counter = d.counter /\ r.asyncR = d.asyncR /\ r.asyncF = d.asyncF
  <2>1. Device(r)
    BY <1>3 DEF Basic, Device, Fields
  <2>2. /\ r.st = t.st /\ r.clk = t.clk /\ r.pend = t.pend /\ r.timedOut = t.timedOut /\ r.sync = t.sync
        /\ r.icyc = (t.icyc + 1) % MaxIcys /\ r.asyncR = t.asyncR /\ r.asyncF = t.asyncF
        /\ r.counter = t.counter /\ r.stack = t.stack
    BY <1>3 DEF Basic, Device, Fields
  <2> HIDE DEF r
  <2>3. PendOK(r)
    BY <1>3, <2>2, PendKept DEF Basic
  <2>4. r.icyc \in 0 .. MaxIcys - 1
    <3>1. t.icyc + 1 \in Int
      BY <1>3, ClientAssumption DEF Basic
    <3> QED
      BY <2>2, <3>1, Remainder, ClientAssumption
  <2>5. Basic(r)
    BY <1>3, <2>1, <2>2, <2>3, <2>4 DEF Basic
  <2> QED
    BY <1>3, <2>2, <2>5 DEF Data
<1> HIDE DEF r
<1>6. Basic(n) /\ Data(r, n) /\ n.clk = d.clk /\ OnTime(n, {"async_eval", "inc"})
  <2>1. r.pend = Taken(d, e).pend
    BY <1>5 DEF t
  <2>2. /\ Basic(n) /\ Data(r, n) /\ n.clk = d.clk
        /\ OnTime(n, done \union {"inc"})
    BY <1>1, <1>2, <1>5, <2>1, CyclicNext
  <2>3. done \union {"inc"} = {"async_eval", "inc"}
    BY <1>4
  <2> QED
    BY <2>2, <2>3
<1> HIDE DEF n
<1>7. Following(n, u, h, s)
  <2>1. /\ n.st = d.st /\ n.counter = d.counter /\ n.stack = d.stack
        /\ n.asyncR = d.asyncR /\ n.asyncF = d.asyncF
    BY <1>5, <1>6 DEF Data
  <2>2. u \subseteq d.asyncR /\ u \subseteq d.asyncF /\ (h \/ \A x \in d.stack : x.count < Threshold(d.st))
    BY <1>1, <1>3, <1>4 DEF Remembers, Cyclic
  <2>3. Remembers(n, {"async_eval", "inc"}, u, h)
    BY <2>1, <2>2 DEF Remembers, AsyncMembers
  <2>4. {"async_eval", "inc"} \in Phases
    BY DEF Phases
  <2>5. Counts(n, s)
    BY <2>1 DEF Following, Counts
  <2> QED
    BY <1>6, <2>1, <2>3, <2>4, <2>5 DEF Following
<1> QED
  BY <1>5, <1>6, <1>7 DEF n, r, t, Inc, Data

(* async_up clears the half-window that is not evaluated next.                *)
LEMMA AsyncUpKeeps ==
  ASSUME NEW d, Basic(d), NEW u, NEW h, NEW s, Following(d, u, h, s),
         NEW e \in Due(d), e.ev = "async_up"
  PROVE  LET n == AsyncUp(Taken(d, e), e)
         IN Basic(n) /\ Following(n, u, h, s) /\ n.clk = d.clk /\ n.st = d.st
<1> DEFINE t == Taken(d, e)
           r == IF t.icyc % 2 = 0 THEN [t EXCEPT !.asyncF = {}] ELSE [t EXCEPT !.asyncR = {}]
           n == RegisterNext(r, "async_up")
<1>1. PICK done \in Phases : OnTime(d, done) /\ Remembers(d, done, u, h)
  BY DEF Following
<1>2. "async_up" \in Cyclic
  BY DEF Cyclic
<1>3. /\ Ahead(d, "async_up", done) = 0 /\ None(d, "clock_corr")
      /\ Basic(t) /\ Data(d, t) /\ t.clk = d.clk
  BY <1>1, <1>2, CyclicTaken
<1>4. done = {"async_eval", "inc", "sync_eval"}
  BY <1>1, <1>2, <1>3, PhaseOf DEF OnTime
<1> HIDE DEF t
<1>5. /\ Basic(r) /\ r.clk = d.clk /\ r.pend = t.pend /\ r.st = d.st /\ r.stack = d.stack
      /\ r.counter = d.counter /\ AsyncMembers(r) = AsyncMembers(d)
  <2>1. Device(r)
    BY <1>3 DEF Basic, Device, Fields
  <2>2. /\ r.st = t.st /\ r.clk = t.clk /\ r.pend = t.pend /\ r.timedOut = t.timedOut /\ r.sync = t.sync
        /\ r.icyc = t.icyc /\ r.counter = t.counter /\ r.stack = t.stack
    BY <1>3 DEF Basic, Device, Fields
  <2>3. /\ r.asyncR = IF t.icyc % 2 = 0 THEN t.asyncR ELSE {}
        /\ r.asyncF = IF t.icyc % 2 = 0 THEN {} ELSE t.asyncF
    BY <1>3 DEF Basic, Device, Fields
  <2> HIDE DEF r
  <2>4. PendOK(r)
    BY <1>3, <2>2, PendKept DEF Basic
  <2>5. Basic(r)
    BY <1>3, <2>1, <2>2, <2>3, <2>4 DEF Basic
  <2> QED
    BY <1>3, <2>2, <2>3, <2>5 DEF Data, AsyncMembers
<1> HIDE DEF r
<1>6. Basic(n) /\ Data(r, n) /\ n.clk = d.clk /\ OnTime(n, Cyclic)
  <2>1. r.pend = Taken(d, e).pend
    BY <1>5 DEF t
  <2>2. /\ Basic(n) /\ Data(r, n) /\ n.clk = d.clk
        /\ OnTime(n, done \union {"async_up"})
    BY <1>1, <1>2, <1>5, <2>1, CyclicNext
  <2>3. done \union {"async_up"} = Cyclic
    BY <1>4 DEF Cyclic
  <2> QED
    BY <2>2, <2>3
<1> HIDE DEF n
<1>7. Following(n, u, h, s)
  <2>1. /\ n.st = d.st /\ n.counter = d.counter /\ n.stack = d.stack
        /\ AsyncMembers(n) = AsyncMembers(d)
    BY <1>5, <1>6 DEF Data, AsyncMembers
  <2>2. u \subseteq AsyncMembers(d) /\ (h \/ \A x \in d.stack : x.count < Threshold(d.st))
    BY <1>1, <1>3 DEF Remembers
  <2>3. Remembers(n, Cyclic, u, h)
    BY <2>1, <2>2 DEF Remembers
  <2>4. Cyclic \in Phases
    BY DEF Phases
  <2>5. Counts(n, s)
    BY <2>1 DEF Following, Counts
  <2> QED
    BY <1>6, <2>1, <2>3, <2>4, <2>5 DEF Following
<1> QED
  BY <1>5, <1>6, <1>7 DEF n, r, t, AsyncUp, Data

(* sync_eval: the evaluation registers the correction of this cycle.           *)
Evaluation == {"async_eval", "inc", "sync_eval"}

Alike(d, n) == /\ n.clk = d.clk /\ n.pend = d.pend /\ n.icyc = d.icyc
               /\ n.asyncR = d.asyncR /\ n.asyncF = d.asyncF

LEMMA SyncEvaluated ==
  ASSUME NEW d, Basic(d), NEW u, NEW h, NEW s, Following(d, u, h, s),
         NEW e \in Due(d), e.ev = "sync_eval"
  PROVE  LET m    == Evaluated(Taken(d, e))
             next == RegisterNext(m, "sync_eval")
         IN /\ Basic(m) /\ None(m, "ASYNCHRON")
            /\ h \/ m.sync < Threshold(d.st)
            /\ Basic(next) /\ next.clk = d.clk /\ next.st = d.st /\ next.counter = d.counter
            /\ m.counter = d.counter
            /\ \A n : Alike(next, n) => OnTime(n, Evaluation) /\ Remembers(n, Evaluation, u, FALSE)
<1> DEFINE t    == Taken(d, e)
           r    == [t EXCEPT !.sync = SyncMembers(t.stack)]
           m    == Register(r, "clock_corr")
           next == RegisterNext(m, "sync_eval")
<1>0. m = Evaluated(Taken(d, e))
  BY DEF Evaluated
<1>1. PICK done \in Phases : OnTime(d, done) /\ Remembers(d, done, u, h)
  BY DEF Following
<1>2. /\ "sync_eval" \in Cyclic /\ "clock_corr" \in DOMAIN SlotOf /\ Cyclic \subseteq Alarms
      /\ "ASYNCHRON" \in Alarms \ {"sync_eval"} /\ "ASYNCHRON" \in Alarms \ {"clock_corr"}
      /\ "clock_corr" \in Alarms \ {"sync_eval"} /\ "sync_eval" \in Alarms \ {"clock_corr"}
      /\ "clock_corr" \notin Cyclic
  BY SlotNames DEF Cyclic, Alarms
<1>3. /\ Ahead(d, "sync_eval", done) = 0 /\ None(d, "clock_corr")
      /\ Basic(t) /\ Data(d, t) /\ t.clk = d.clk
      /\ None(t, "sync_eval")
      /\ Same(d, t, Alarms \ {"sync_eval"})
  BY <1>1, <1>2, CyclicTaken
<1>4. done = {"async_eval", "inc"} /\ d.clk = ReceivePit + Precision
  <2>1. done = {"async_eval", "inc"} /\ d.clk = SlotOf["sync_eval"]
    BY <1>1, <1>2, <1>3, PhaseOf DEF OnTime
  <2> QED
    BY <2>1, SlotValues
<1> HIDE DEF t
<1>5. /\ Basic(r) /\ r.clk = d.clk /\ r.st = d.st /\ r.counter = d.counter
      /\ r.icyc = d.icyc /\ r.asyncR = d.asyncR /\ r.asyncF = d.asyncF
      /\ Same(t, r, Alarms) /\ r.sync = SyncMembers(d.stack)
  <2>1. Device(r)
    BY <1>3 DEF Basic, Device, Fields
  <2>2. /\ r.st = t.st /\ r.clk = t.clk /\ r.pend = t.pend /\ r.timedOut = t.timedOut
        /\ r.sync = SyncMembers(t.stack)
        /\ r.icyc = t.icyc /\ r.asyncR = t.asyncR /\ r.asyncF = t.asyncF
        /\ r.counter = t.counter /\ r.stack = t.stack
    BY <1>3 DEF Basic, Device, Fields
  <2> HIDE DEF r
  <2>4. PendOK(r) /\ Same(t, r, Alarms)
    BY <1>3, <2>2, PendKept DEF Basic
  <2>5. SyncMembers(t.stack) \in 0 .. MaxMembership
    BY <1>3, SyncMembersType DEF Basic
  <2>6. Basic(r)
    BY <1>3, <2>1, <2>2, <2>4, <2>5 DEF Basic
  <2> QED
    BY <1>3, <2>2, <2>4, <2>6 DEF Data
<1>6. h \/ r.sync < Threshold(d.st)
  <2>1. Threshold(d.st) \in Nat \ {0}
    BY ClientAssumption DEF Threshold
  <2>2. d.stack \in SUBSET Readings
    BY DEF Basic
  <2> QED
    BY <1>1, <1>3, <1>5, <2>1, <2>2, SyncMembersType DEF Remembers
<1> HIDE DEF r
<1>7. /\ Basic(m) /\ Data(r, m) /\ m.clk = d.clk
      /\ Same(r, m, Alarms \ {"clock_corr"})
      /\ Only(m, "clock_corr", Precision + 1)
  <2> DEFINE x == RegisterAction(r, "clock_corr", FALSE)
  <2>1. /\ Basic(x) /\ Data(r, x) /\ x.clk = r.clk
        /\ None(r, "clock_corr") => Only(x, "clock_corr", Distance(r.clk, "clock_corr", FALSE))
        /\ Same(r, x, Alarms \ {"clock_corr"})
    BY <1>2, <1>5, Registers
  <2>2. m = x
    BY DEF Register
  <2> HIDE DEF m, x
  <2>3. None(r, "clock_corr")
    <3>1. "clock_corr" \in Alarms
      BY <1>2
    <3>2. None(t, "clock_corr")
      BY <1>2, <1>3, SameAlarm
    <3> QED
      BY <1>5, <3>1, <3>2, SameAlarm
  <2>4. Distance(r.clk, "clock_corr", FALSE) = Precision + 1
    <3>1. SlotOf["clock_corr"] - r.clk = Precision + 1
      BY <1>4, <1>5, SlotsInOrder, SlotValues
    <3>2. Precision + 1 \in 0 .. Cycle - 1 /\ Cycle \in Nat \ {0}
      BY SlotsInOrder
    <3>3. (Precision + 1) % Cycle = Precision + 1
      BY <3>2, SmallRemainder
    <3> QED
      BY <3>1, <3>3 DEF Distance
  <2> QED
    BY <1>5, <2>1, <2>2, <2>3, <2>4
<1> HIDE DEF m
<1>8. Same(d, m, Alarms \ {"sync_eval", "clock_corr"}) /\ None(m, "sync_eval")
  <2>1. Same(d, m, Alarms \ {"sync_eval", "clock_corr"})
    BY <1>3, <1>5, <1>7 DEF Same
  <2>2. "sync_eval" \in Alarms
    BY <1>2
  <2>3. None(r, "sync_eval")
    BY <1>3, <1>5, <2>2, SameAlarm
  <2> QED
    BY <1>2, <1>7, <2>1, <2>3, SameAlarm
<1>9. /\ Basic(next) /\ Data(m, next) /\ next.clk = d.clk
      /\ CyclicOnTime(next, done \union {"sync_eval"})
      /\ Same(m, next, Alarms \ {"sync_eval"})
  <2>1. Same(d, m, Cyclic \ {"sync_eval"})
    BY <1>2, <1>8 DEF Same
  <2> QED
    BY <1>1, <1>2, <1>3, <1>7, <1>8, <2>1, ReRegistered DEF OnTime
<1> HIDE DEF next
<1>10. None(m, "ASYNCHRON") /\ None(next, "ASYNCHRON")
  <2>1. "ASYNCHRON" \in Alarms \ {"sync_eval", "clock_corr"}
    BY <1>2
  <2>2. None(d, "ASYNCHRON")
    BY <1>1 DEF OnTime
  <2>3. None(m, "ASYNCHRON")
    BY <1>8, <2>1, <2>2, SameAlarm
  <2> QED
    BY <1>2, <1>9, <2>3, SameAlarm
<1>11. Only(next, "clock_corr", Precision + 1) /\ ~None(next, "clock_corr")
  <2>1. Only(next, "clock_corr", Precision + 1)
    BY <1>2, <1>7, <1>9, SameAlarm
  <2> QED
    BY <2>1 DEF Only, None
<1>12. OnTime(next, Evaluation)
  <2>1. done \union {"sync_eval"} = Evaluation
    BY <1>4 DEF Evaluation
  <2>2. SlotOf["clock_corr"] - next.clk = Precision + 1 /\ Precision + 1 \in Nat
    BY <1>4, <1>9, SlotsInOrder, SlotValues
  <2>3. Correcting(next, Evaluation)
    BY <1>11, <2>2 DEF Correcting, Evaluation
  <2> QED
    BY <1>9, <1>10, <2>1, <2>3 DEF OnTime
<1>13. next.st = d.st /\ next.counter = d.counter /\ next.icyc = d.icyc
       /\ next.asyncR = d.asyncR /\ next.asyncF = d.asyncF
       /\ m.counter = d.counter /\ m.sync = r.sync
  BY <1>5, <1>7, <1>9 DEF Data
<1>14. ASSUME NEW n, Alike(next, n) PROVE OnTime(n, Evaluation) /\ Remembers(n, Evaluation, u, FALSE)
  <2>1. Same(next, n, Alarms) /\ Same(next, n, {"clock_corr"})
    BY <1>9, <1>14, PendKept DEF Alike, Basic
  <2>2. OnTime(n, Evaluation)
    BY <1>12, <1>14, <2>1, OnTimeKept DEF Alike
  <2>3. ~None(n, "clock_corr")
    BY <1>11, <2>1, SameAlarm
  <2>4. u \subseteq d.asyncR /\ u \subseteq d.asyncF
    BY <1>1, <1>4 DEF Remembers, Cyclic
  <2>5. n.asyncR = d.asyncR /\ n.asyncF = d.asyncF
    BY <1>13, <1>14 DEF Alike
  <2> QED
    BY <2>2, <2>3, <2>4, <2>5 DEF Remembers, AsyncMembers
<1> QED
  BY <1>0, <1>6, <1>7, <1>9, <1>10, <1>13, <1>14 DEF next

(* The evaluated cycle is noted in the counter, and the state may change.      *)
With(d, k, st) == [d EXCEPT !.counter = k, !.st = st]

LEMMA CounterSet ==
  ASSUME NEW d, Basic(d), NEW st \in States, NEW k
  PROVE  LET n == With(d, k, st)
         IN Basic(n) /\ Alike(d, n) /\ n.counter = k /\ n.st = st
<1> DEFINE b == [d EXCEPT !.counter = k]
           n == [b EXCEPT !.st = st]
<1>1. Device(b) /\ b.counter = k /\ \A x \in Fields \ {"counter"} : b[x] = d[x]
  BY DEF Basic, Device, Fields
<1> HIDE DEF b
<1>2. Device(n) /\ n.st = st /\ \A x \in Fields \ {"st"} : n[x] = b[x]
  BY <1>1 DEF Device, Fields
<1> HIDE DEF n
<1>3. /\ n.st = st /\ n.counter = k
      /\ n.clk = d.clk /\ n.pend = d.pend /\ n.icyc = d.icyc /\ n.sync = d.sync
      /\ n.asyncR = d.asyncR /\ n.asyncF = d.asyncF /\ n.timedOut = d.timedOut /\ n.stack = d.stack
  BY <1>1, <1>2 DEF Fields
<1>4. PendOK(n)
  BY <1>3, PendKept DEF Basic
<1>5. Basic(n) /\ Alike(d, n)
  BY <1>2, <1>3, <1>4 DEF Basic, Alike
<1> QED
  BY <1>3, <1>5 DEF n, b, With

(* In SYNC a cycle of too few members ends the synchronised operation, ...    *)
LEMMA SyncSyncEvalKeeps ==
  ASSUME NEW d, Basic(d), NEW u, NEW h \in BOOLEAN, NEW s \in Nat, Following(d, u, h, s),
         d.st = "SYNC", NEW e \in Due(d), e.ev = "sync_eval"
  PROVE  LET n == SyncSyncEval(Taken(d, e), e)
         IN /\ Basic(n)
            /\ \/ Integrating(n)
               \/ Following(n, u, FALSE, IF h THEN 0 ELSE s + 1) /\ n.clk = d.clk
<1> DEFINE m    == Evaluated(Taken(d, e))
           next == RegisterNext(m, "sync_eval")
           r    == Restart(m, RestartSync)
           more == [next EXCEPT !.counter = Counted(@)]
           up   == [next EXCEPT !.counter = 0, !.st = "STABLE"]
           n    == SyncSyncEval(Taken(d, e), e)
           again(x) == Following(x, u, FALSE, IF h THEN 0 ELSE s + 1) /\ x.clk = d.clk
<1>1. /\ Basic(m) /\ None(m, "ASYNCHRON")
      /\ h \/ m.sync < Threshold(d.st)
      /\ Basic(next) /\ next.clk = d.clk /\ next.st = d.st /\ next.counter = d.counter
      /\ m.counter = d.counter
      /\ \A x : Alike(next, x) => OnTime(x, Evaluation) /\ Remembers(x, Evaluation, u, FALSE)
  BY SyncEvaluated
<1>2. n = CASE m.sync < SyncThresholdSync -> r
            [] m.sync >= SyncThresholdSync /\ (~ToStableEnabled \/ m.counter < NumStable) -> more
            [] OTHER -> up
  BY DEF SyncSyncEval
<1>3. Evaluation \in Phases
  BY DEF Evaluation, Phases
<1> HIDE DEF m, next, n
<1>4. m.sync \in Int /\ SyncThresholdSync \in Int
  BY <1>1, ClientAssumption DEF Basic
<1>5. Basic(r) /\ Integrating(r)
  BY <1>1, Restarts, ClientAssumption
<1>6. ASSUME m.sync >= SyncThresholdSync PROVE h = TRUE
  <2>1. Threshold(d.st) = SyncThresholdSync
    BY DEF Threshold
  <2> QED
    BY <1>1, <1>4, <1>6, <2>1
<1>7. d.counter \in 0 .. NumStable /\ Counted(next.counter) \in Int
  BY <1>1, ClientAssumption DEF Following, Counts, Counted
<1>8. ASSUME m.sync >= SyncThresholdSync, ~ToStableEnabled \/ m.counter < NumStable
      PROVE  Basic(more) /\ again(more)
  <2>1. more = With(next, Counted(next.counter), "SYNC")
    BY <1>1 DEF Basic, Device, Fields, With
  <2>2. "SYNC" \in States
    BY DEF States, Synced
  <2>3. Basic(more) /\ Alike(next, more) /\ more.counter = Counted(next.counter) /\ more.st = "SYNC"
    BY <1>1, <2>1, <2>2, CounterSet
  <2> HIDE DEF more
  <2>4. more.counter \in 0 .. NumStable
    BY <1>1, <1>7, <1>8, <2>3, ClientAssumption DEF Counted
  <2>5. Counts(more, IF h THEN 0 ELSE s + 1)
    BY <1>6, <1>8, <2>3, <2>4 DEF Counts
  <2>6. OnTime(more, Evaluation) /\ Remembers(more, Evaluation, u, FALSE)
    BY <1>1, <2>3
  <2>7. more.st \in Synced /\ more.clk = d.clk
    BY <1>1, <2>3 DEF Synced, Alike
  <2> QED
    BY <1>3, <2>3, <2>5, <2>6, <2>7 DEF Following
<1>9. ASSUME m.sync >= SyncThresholdSync
      PROVE  Basic(up) /\ again(up)
  <2>1. "STABLE" \in States
    BY DEF States, Synced
  <2>0. up = With(next, 0, "STABLE")
    BY DEF With
  <2> HIDE DEF up
  <2>2. Basic(up) /\ Alike(next, up) /\ up.counter = 0 /\ up.st = "STABLE"
    BY <1>1, <2>0, <2>1, CounterSet
  <2>3. Counts(up, IF h THEN 0 ELSE s + 1)
    <3>1. 0 \in 0 .. NumUnstable
      BY ClientAssumption
    <3>2. (IF h THEN 0 ELSE s + 1) = 0
      BY <1>6, <1>9
    <3> DEFINE t == IF h THEN 0 ELSE s + 1
    <3> HIDE DEF t
    <3>3. t = 0
      BY <3>2 DEF t
    <3> QED
      BY <2>2, <3>1, <3>3 DEF Counts, t
  <2>4. OnTime(up, Evaluation) /\ Remembers(up, Evaluation, u, FALSE)
    BY <1>1, <2>2
  <2>5. up.st \in Synced /\ up.clk = d.clk
    BY <1>1, <2>2 DEF Synced, Alike
  <2> QED
    BY <1>3, <2>2, <2>3, <2>4, <2>5 DEF Following
<1> HIDE DEF r, more, up, again
<1>10. Basic(n) /\ (Integrating(n) \/ again(n))
  BY <1>2, <1>4, <1>5, <1>8, <1>9
<1> QED
  BY <1>10 DEF n, again

(* ... in STABLE only the cycle after num_unstable_cycles of them.            *)
LEMMA StableSyncEvalKeeps ==
  ASSUME NEW d, Basic(d), NEW u, NEW h \in BOOLEAN, NEW s \in Nat, Following(d, u, h, s),
         d.st = "STABLE", NEW e \in Due(d), e.ev = "sync_eval"
  PROVE  LET n == StableSyncEval(Taken(d, e), e)
         IN /\ Basic(n)
            /\ \/ Integrating(n)
               \/ Following(n, u, FALSE, IF h THEN 0 ELSE s + 1) /\ n.clk = d.clk
<1> DEFINE m     == Evaluated(Taken(d, e))
           next  == RegisterNext(m, "sync_eval")
           r     == Restart(m, RestartSync)
           clear == [next EXCEPT !.counter = 0]
           more  == [next EXCEPT !.counter = @ + 1]
           n     == StableSyncEval(Taken(d, e), e)
           again(x) == Following(x, u, FALSE, IF h THEN 0 ELSE s + 1) /\ x.clk = d.clk
<1>1. /\ Basic(m) /\ None(m, "ASYNCHRON")
      /\ h \/ m.sync < Threshold(d.st)
      /\ Basic(next) /\ next.clk = d.clk /\ next.st = d.st /\ next.counter = d.counter
      /\ m.counter = d.counter
      /\ \A x : Alike(next, x) => OnTime(x, Evaluation) /\ Remembers(x, Evaluation, u, FALSE)
  BY SyncEvaluated
<1>2. n = CASE m.sync >= StableThresholdSync -> clear
            [] m.sync < StableThresholdSync /\ m.counter < NumUnstable -> more
            [] OTHER -> r
  BY DEF StableSyncEval
<1>3. Evaluation \in Phases
  BY DEF Evaluation, Phases
<1> HIDE DEF m, next, n
<1>4. m.sync \in Int /\ StableThresholdSync \in Int
  BY <1>1, ClientAssumption DEF Basic
<1>5. Basic(r) /\ Integrating(r)
  BY <1>1, Restarts, ClientAssumption
<1>6. "STABLE" \in States
  BY DEF States, Synced
<1>7. d.counter \in 0 .. NumUnstable /\ s <= d.counter /\ next.counter = d.counter
  BY <1>1 DEF Following, Counts
<1>8. ASSUME NEW x, NEW k \in 0 .. NumUnstable, x = With(next, k, "STABLE"),
             (IF h THEN 0 ELSE s + 1) <= k
      PROVE  Basic(x) /\ again(x)
  <2>1. Basic(x) /\ Alike(next, x) /\ x.counter = k /\ x.st = "STABLE"
    BY <1>1, <1>6, <1>8, CounterSet
  <2>2. Counts(x, IF h THEN 0 ELSE s + 1)
    BY <1>8, <2>1 DEF Counts
  <2>3. OnTime(x, Evaluation) /\ Remembers(x, Evaluation, u, FALSE)
    BY <1>1, <2>1
  <2>4. x.st \in Synced /\ x.clk = d.clk
    BY <1>1, <2>1 DEF Synced, Alike
  <2> QED
    BY <1>3, <2>1, <2>2, <2>3, <2>4 DEF Following
<1>9. ASSUME m.sync >= StableThresholdSync
      PROVE  Basic(clear) /\ again(clear)
  <2>1. h = TRUE
    <3>1. Threshold(d.st) = StableThresholdSync
      BY DEF Threshold
    <3> QED
      BY <1>1, <1>4, <1>9, <3>1
  <2>2. clear = With(next, 0, "STABLE")
    BY <1>1 DEF With, Basic, Device, Fields
  <2>3. (IF h THEN 0 ELSE s + 1) <= 0 /\ 0 \in 0 .. NumUnstable
    BY <2>1, ClientAssumption
  <2> HIDE DEF clear, again
  <2> QED
    BY <1>8, <2>2, <2>3
<1>10. ASSUME m.counter < NumUnstable
       PROVE  Basic(more) /\ again(more)
  <2>1. more = With(next, d.counter + 1, "STABLE")
    BY <1>1 DEF With, Basic, Device, Fields
  <2>2. (IF h THEN 0 ELSE s + 1) <= d.counter + 1 /\ d.counter + 1 \in 0 .. NumUnstable
    BY <1>1, <1>7, <1>10, ClientAssumption
  <2> HIDE DEF more, again
  <2> QED
    BY <1>8, <2>1, <2>2
<1> HIDE DEF r, clear, more, again
<1>11. Basic(n) /\ (Integrating(n) \/ again(n))
  BY <1>2, <1>4, <1>5, <1>9, <1>10
<1> QED
  BY <1>11 DEF n, again

(* A port has one reading at most, so there are finitely many.                 *)
LEMMA FiniteStack ==
  ASSUME NEW d, Basic(d)
  PROVE  IsFiniteSet(d.stack)
<1> DEFINE f == [x \in d.stack |-> x.port]
<1>1. f \in Injection(d.stack, Ports)
  BY DEF Basic, Readings, Injection, IsInjective
<1> HIDE DEF f
<1> QED
  BY <1>1, ClientAssumption, FS_Injection

(* How far the clock may move in one step.                                     *)
Small(before, after) ==
  LET ahead == (after - before) % Cycle IN ahead <= Precision \/ Cycle - ahead <= Precision

(* A correction within the precision is such a move.                          *)
LEMMA SmallMove ==
  ASSUME NEW a \in Int, NEW c \in -Precision .. Precision
  PROVE  Small(a, a - c)
<1>0. /\ Cycle \in Int /\ Precision \in Int /\ Precision > 0 /\ Cycle > 4 * Precision
      /\ c \in Int /\ -Precision <= c /\ c <= Precision
  BY SlotsInOrder
<1>1. a - c - a = -c
  BY <1>0
<1>2. CASE c <= 0
  <2>1. -c \in 0 .. Cycle - 1 /\ Cycle \in Nat \ {0}
    BY <1>0, <1>2
  <2>2. (-c) % Cycle = -c
    BY <2>1, SmallRemainder
  <2> QED
    BY <1>0, <1>1, <2>2 DEF Small
<1>3. CASE c > 0
  <2>1. (-c) % Cycle = Cycle - c
    BY <1>0, <1>3
  <2> QED
    BY <1>0, <1>1, <2>1 DEF Small
<1> QED
  BY <1>0, <1>2, <1>3

(* clock_corr: the clock moves by the deviation of this cycle's readings.      *)
LEMMA ClockCorrKeeps ==
  ASSUME NEW d, Basic(d), NEW u, NEW h, NEW s, Following(d, u, h, s),
         NEW e \in Due(d), e.ev = "clock_corr"
  PROVE  LET n == ClockCorr(Taken(d, e), e)
         IN Basic(n) /\ Following(n, u, h, s) /\ n.st = d.st /\ Small(d.clk, n.clk)
<1> DEFINE t == Taken(d, e)
           c == Deviation(t.stack)
           x == ClockCorrection(t, c)
           z == [x EXCEPT !.stack = {}]
           n == ClockCorr(t, e)
<1>0. n = IF t.stack = {} THEN t ELSE z
  BY DEF ClockCorr
<1>1. PICK done \in Phases : OnTime(d, done) /\ Remembers(d, done, u, h)
  BY DEF Following
<1>2. /\ Precision \in Int /\ Precision > 0 /\ AcceptanceWindow \in Int /\ AcceptanceWindow > 0
      /\ ReceivePit \in Int /\ Cycle \in Int /\ Precision < ReceivePit
      /\ ReceivePit + 3 * Precision + 1 <= Cycle - AcceptanceWindow
  BY SlotsInOrder
<1>3. /\ Basic(t) /\ Data(d, t) /\ t.clk = d.clk
      /\ Same(d, t, Alarms \ {"clock_corr"})
      /\ \A left : Only(d, "clock_corr", left) => None(t, "clock_corr") /\ left = 0
  BY Takes
<1>4. Correcting(d, done)
  <2>1. ~None(d, "clock_corr")
    BY DEF Due, None, Named
  <2> QED
    BY <1>1, <2>1 DEF OnTime
<1>5. done = Evaluation /\ None(t, "clock_corr") /\ d.clk = ReceivePit + 2 * Precision + 1
  <2>1. done = Evaluation /\ None(t, "clock_corr") /\ SlotOf["clock_corr"] - d.clk = 0
    BY <1>3, <1>4 DEF Correcting, Evaluation
  <2>2. d.clk \in Int
    BY <1>2 DEF Basic
  <2> QED
    BY <1>2, <2>1, <2>2, SlotValues
<1> HIDE DEF t
<1>6. /\ Cyclic \subseteq Alarms \ {"clock_corr"} /\ "ASYNCHRON" \in Alarms \ {"clock_corr"}
      /\ "clock_corr" \in DOMAIN SlotOf /\ Cyclic \subseteq DOMAIN SlotOf
  BY SlotNames DEF Alarms, Cyclic
<1>7. None(t, "ASYNCHRON") /\ \A y \in Cyclic : Ahead(t, y, done) \in Nat /\ Only(t, y, Ahead(t, y, done))
  <2>1. None(t, "ASYNCHRON")
    BY <1>1, <1>3, <1>6, SameAlarm DEF OnTime
  <2>2. ASSUME NEW y \in Cyclic PROVE Ahead(t, y, done) \in Nat /\ Only(t, y, Ahead(t, y, done))
    <3>1. y \in Alarms \ {"clock_corr"} /\ Ahead(t, y, done) = Ahead(d, y, done)
      BY <1>3, <1>6 DEF Ahead
    <3>2. Ahead(d, y, done) \in Nat /\ Only(d, y, Ahead(d, y, done))
      BY <1>1 DEF OnTime, CyclicOnTime
    <3> QED
      BY <1>3, <3>1, <3>2, SameAlarm
  <2> QED
    BY <2>1, <2>2
<1>8. u \subseteq d.asyncR /\ u \subseteq d.asyncF
  BY <1>1, <1>5 DEF Remembers, Evaluation, Cyclic
<1>9. ASSUME NEW y, Basic(y), None(y, "clock_corr"), None(y, "ASYNCHRON"), CyclicOnTime(y, Evaluation),
             y.asyncR = d.asyncR, y.asyncF = d.asyncF, y.stack = {}, y.st = d.st, y.counter = d.counter
      PROVE  Following(y, u, h, s)
  <2>1. OnTime(y, Evaluation)
    BY <1>9 DEF OnTime
  <2>2. Remembers(y, Evaluation, u, h)
    BY <1>8, <1>9 DEF Remembers, AsyncMembers
  <2>3. Evaluation \in Phases
    BY DEF Evaluation, Phases
  <2>4. Counts(y, s)
    BY <1>9 DEF Following, Counts
  <2> QED
    BY <1>9, <2>1, <2>2, <2>3, <2>4 DEF Following
<1>10. CASE t.stack = {}
  <2>1. Following(t, u, h, s)
    BY <1>3, <1>5, <1>7, <1>9, <1>10 DEF Data, CyclicOnTime
  <2>2. Small(d.clk, t.clk)
    <3>1. 0 \in -Precision .. Precision /\ d.clk \in Int /\ d.clk - 0 = d.clk
      BY <1>2, <1>5
    <3>2. Small(d.clk, d.clk - 0)
      BY <3>1, SmallMove
    <3> QED
      BY <1>3, <3>1, <3>2
  <2>3. n = t
    BY <1>0, <1>10
  <2> HIDE DEF n
  <2> QED
    BY <1>3, <2>1, <2>2, <2>3 DEF Data, t, n
<1>11. CASE t.stack # {}
  <2>1. c \in -Precision .. Precision
    BY <1>3, <1>11, FiniteStack, DeviationWithinPrecision DEF Basic
  <2> HIDE DEF c
  <2>2. c \in Int /\ -Precision <= c /\ c <= Precision
    BY <1>2, <2>1
  <2>3. /\ Basic(x) /\ Data(t, x) /\ x.clk = (t.clk - c) % Cycle
        /\ Same(t, x, {"ASYNCHRON"})
        /\ \A y \in DOMAIN SlotOf : None(t, y) => None(x, y)
        /\ \A y \in DOMAIN SlotOf : \A left : Only(t, y, left) => Only(x, y, Larger(0, left + c))
    BY <1>3, <2>2, Corrects
  <2>4. x.clk = d.clk - c
    <3>1. d.clk - c \in 0 .. Cycle - 1 /\ Cycle \in Nat \ {0}
      BY <1>2, <1>5, <2>2
    <3> QED
      BY <1>3, <2>3, <3>1, SmallRemainder
  <2> HIDE DEF x
  <2>5. Small(d.clk, x.clk)
    <3>1. d.clk \in Int
      BY <1>2, <1>5
    <3>2. Small(d.clk, d.clk - c)
      BY <2>1, <3>1, SmallMove
    <3> QED
      BY <2>4, <3>2
  <2>6. ASSUME NEW y \in Cyclic
        PROVE  Ahead(x, y, done) \in Nat /\ Only(x, y, Ahead(x, y, done))
    <3> DEFINE left == Ahead(t, y, done)
    <3>1. left \in Nat /\ Only(t, y, left)
      BY <1>7
    <3>2. left >= Precision
      <4>1. y = "async_up" \/ (y \in done /\ SlotOf[y] \in Int /\ SlotOf[y] >= 0)
        BY <1>2, <1>5, SlotValues DEF Evaluation, Cyclic
      <4>2. CASE y = "async_up"
        <5>1. y \notin done
          BY <1>5, <4>2 DEF Evaluation
        <5> QED
          BY <1>2, <1>3, <1>5, <4>2, <5>1, SlotValues DEF Ahead
      <4>3. CASE y \in done /\ SlotOf[y] \in Int /\ SlotOf[y] >= 0
        BY <1>2, <1>3, <1>5, <4>3 DEF Ahead
      <4> QED
        BY <4>1, <4>2, <4>3
    <3>3. Ahead(x, y, done) = left + c
      <4>1. SlotOf[y] \in Int
        BY <1>6, SlotNames
      <4> QED
        BY <1>2, <1>3, <1>5, <2>2, <2>4, <4>1 DEF Ahead
    <3> HIDE DEF left
    <3>4. left + c \in Nat /\ Larger(0, left + c) = left + c
      BY <1>2, <2>2, <3>1, <3>2 DEF Larger
    <3>5. y \in DOMAIN SlotOf
      BY <1>6
    <3> QED
      BY <2>3, <3>1, <3>3, <3>4, <3>5
  <2>7. CyclicOnTime(x, Evaluation) /\ None(x, "clock_corr") /\ None(x, "ASYNCHRON")
    <3>1. None(x, "clock_corr")
      BY <1>5, <1>6, <2>3
    <3>2. None(x, "ASYNCHRON")
      BY <1>7, <2>3, SameAlarm
    <3> QED
      BY <1>5, <2>6, <3>1, <3>2 DEF CyclicOnTime
  <2>8. Device(z) /\ z.stack = {} /\ \A y \in Fields \ {"stack"} : z[y] = x[y]
    <3>1. Device(x)
      BY <2>3 DEF Basic
    <3> QED
      BY <3>1 DEF Device, Fields
  <2> HIDE DEF z
  <2>9. /\ z.st = x.st /\ z.clk = x.clk /\ z.pend = x.pend /\ z.icyc = x.icyc /\ z.sync = x.sync
        /\ z.asyncR = x.asyncR /\ z.asyncF = x.asyncF /\ z.counter = x.counter /\ z.timedOut = x.timedOut
    BY <2>8 DEF Fields
  <2>10. PendOK(z) /\ Same(x, z, Alarms)
    BY <2>3, <2>9, PendKept DEF Basic
  <2>11. Basic(z)
    BY <2>3, <2>8, <2>9, <2>10 DEF Basic
  <2>12. CyclicOnTime(z, Evaluation) /\ None(z, "clock_corr") /\ None(z, "ASYNCHRON")
    BY <2>7, <2>9 DEF CyclicOnTime, Ahead, Only, None, Named
  <2>13. Following(z, u, h, s)
    BY <1>3, <1>9, <2>3, <2>8, <2>9, <2>11, <2>12 DEF Data
  <2>14. n = z
    BY <1>0, <1>11
  <2> HIDE DEF n
  <2> QED
    BY <1>3, <2>3, <2>5, <2>9, <2>11, <2>13, <2>14 DEF Data, t, n
<1> QED
  BY <1>10, <1>11
------------------------------------------------------------------------------
(* Frames.                                                                     *)

(* A port keeps one reading.                                                   *)
LEMMA KeptReadings ==
  ASSUME NEW stack \in SUBSET Readings, \A x, y \in stack : x.port = y.port => x = y, NEW r \in Readings
  PROVE  /\ Kept(stack, r) \subseteq Readings
         /\ \A x, y \in Kept(stack, r) : x.port = y.port => x = y
         /\ Kept(stack, r) \subseteq stack \union {r}
<1> DEFINE old == {o \in stack : o.port = r.port}
<1>1. Kept(stack, r) = stack \/ Kept(stack, r) = (stack \ old) \union {r}
  BY DEF Kept
<1>2. \A x \in stack \ old : x.port # r.port
  OBVIOUS
<1> HIDE DEF old
<1> QED
  BY <1>1, <1>2

(* The members of a frame can be counted.                                     *)
LEMMA FrameTypes ==
  ASSUME NEW f \in Frames
  PROVE  /\ f.port \in Ports /\ f.icyc \in 0 .. MaxIcys - 1 /\ f.members \subseteq UNION Memberships
         /\ Cardinality(f.members) \in 0 .. MaxMembership
         /\ f.ev = "IN_FRAME"
<1>1. f.port \in Ports /\ f.icyc \in 0 .. MaxIcys - 1 /\ f.members \in Memberships /\ f.ev = "IN_FRAME"
  BY DEF Frames
<1>2. f.members \subseteq UNION Memberships
  BY <1>1
<1>3. IsFiniteSet(f.members)
  BY <1>2, ClientAssumption, FS_Subset
<1>4. Cardinality(f.members) \in Nat /\ Cardinality(f.members) <= MaxMembership
  BY <1>1, <1>3, ClientAssumption, FS_CardinalityType
<1> QED
  BY <1>1, <1>2, <1>4, ClientAssumption

(* The frame that is handled and noted leaves the alarms alone.                *)
LEMMA FrameTaken ==
  ASSUME NEW d, Basic(d), NEW f \in Due(d), f.ev = "IN_FRAME"
  PROVE  LET t     == Taken(d, f)
             noted == Erased(Deleted(t, f), 0)
         IN /\ f \in Frames /\ Basic(t) /\ Data(d, t) /\ t.clk = d.clk /\ Same(d, t, Alarms)
            /\ Basic(noted) /\ Data(d, noted) /\ noted.clk = d.clk /\ Same(d, noted, Alarms)
<1> DEFINE t     == Taken(d, f)
           noted == Erased(Deleted(t, f), 0)
<1>1. /\ Basic(t) /\ Data(d, t) /\ t.clk = d.clk
      /\ Same(d, t, Alarms \ {"IN_FRAME"})
      /\ f \in Frames
  BY Takes
<1>2. Alarms \ {"IN_FRAME"} = Alarms
  BY SlotNames DEF Alarms
<1> HIDE DEF t
<1>3. Basic(noted) /\ Data(t, noted) /\ noted.clk = t.clk /\ Same(t, noted, Alarms)
  BY <1>1, Deletes
<1> HIDE DEF noted
<1> QED
  BY <1>1, <1>2, <1>3 DEF Data, Same, noted, t

(* A permanent frame adds a reading or members out of schedule.               *)
LEMMA InFrameKeeps ==
  ASSUME NEW d, Basic(d), NEW u, NEW h, NEW s, Following(d, u, h, s), h \in BOOLEAN,
         NEW f \in Due(d), f.ev = "IN_FRAME", NEW v, NEW g,
         IF OnSchedule(d, f)
           THEN v = u /\ g = (h \/ Cardinality(f.members) >= Threshold(d.st))
           ELSE v = u \union f.members /\ g = h
  PROVE  LET n == InFrame(Taken(d, f), f)
         IN Basic(n) /\ Following(n, v, g, s) /\ n.st = d.st /\ n.clk = d.clk
            /\ f.members \subseteq UNION Memberships
<1> DEFINE t      == Taken(d, f)
           noted  == Erased(Deleted(t, f), 0)
           count  == Cardinality(f.members)
           r      == Reading(f, count, t.clk)
           read   == [noted EXCEPT !.stack = Kept(@, r)]
           late   == [noted EXCEPT !.asyncF = @ \union f.members]
           missed == [late EXCEPT !.asyncR = @ \union f.members]
           n      == InFrame(t, f)
<1>0. n = IF OnSchedule(t, f) THEN IF Accepted(count) THEN read ELSE noted ELSE missed
  BY DEF InFrame
<1>1. PICK done \in Phases : OnTime(d, done) /\ Remembers(d, done, u, h)
  BY DEF Following
<1>2. /\ f \in Frames /\ Basic(t) /\ Data(d, t) /\ t.clk = d.clk
      /\ Basic(noted) /\ Data(d, noted) /\ noted.clk = d.clk /\ Same(d, noted, Alarms)
  BY FrameTaken
<1>3. OnSchedule(t, f) <=> OnSchedule(d, f)
  BY <1>2 DEF OnSchedule, InSchedule, Data
<1> HIDE DEF t, noted
<1>4. count \in 0 .. MaxMembership /\ f.port \in Ports /\ f.members \subseteq UNION Memberships
  BY <1>2, FrameTypes
<1>5. ASSUME NEW x, Basic(x), x.clk = d.clk, Same(d, x, Alarms), Remembers(x, done, v, g),
             x.st = d.st, x.counter = d.counter
      PROVE  Following(x, v, g, s)
  <2>1. OnTime(x, done)
    BY <1>1, <1>5, OnTimeKept
  <2>2. Counts(x, s)
    BY <1>5 DEF Following, Counts
  <2> QED
    BY <1>5, <2>1, <2>2 DEF Following
<1>6. "clock_corr" \in Alarms
  BY SlotNames DEF Alarms
<1>7. CASE OnSchedule(d, f) /\ Accepted(count)
  <2>1. r \in Readings
    <3>1. t.clk \in ReceivePit - Precision .. ReceivePit + Precision
      BY <1>3, <1>7 DEF OnSchedule, InSchedule
    <3> QED
      BY <1>4, <3>1 DEF Reading, Readings
  <2>2. r.count = count
    BY DEF Reading
  <2> HIDE DEF r
  <2>3. Device(read) /\ read.stack = Kept(noted.stack, r) /\ \A y \in Fields \ {"stack"} : read[y] = noted[y]
    <3>1. Device(noted)
      BY <1>2 DEF Basic
    <3> QED
      BY <3>1 DEF Device, Fields
  <2> HIDE DEF read
  <2>4. /\ read.st = noted.st /\ read.clk = noted.clk /\ read.pend = noted.pend /\ read.icyc = noted.icyc
        /\ read.sync = noted.sync /\ read.asyncR = noted.asyncR /\ read.asyncF = noted.asyncF
        /\ read.counter = noted.counter /\ read.timedOut = noted.timedOut
    BY <2>3 DEF Fields
  <2>5. PendOK(read) /\ Same(noted, read, Alarms)
    BY <1>2, <2>4, PendKept DEF Basic
  <2>6. /\ read.stack \subseteq Readings /\ read.stack \subseteq d.stack \union {r}
        /\ \A x, y \in read.stack : x.port = y.port => x = y
    BY <1>2, <2>1, <2>3, KeptReadings DEF Basic, Data
  <2>7. Basic(read)
    BY <1>2, <2>3, <2>4, <2>5, <2>6 DEF Basic
  <2>8. Same(d, read, Alarms)
    BY <1>2, <2>5 DEF Same
  <2>9. AsyncMembers(read) = AsyncMembers(d) /\ read.asyncR = d.asyncR /\ read.asyncF = d.asyncF
        /\ read.st = d.st /\ read.clk = d.clk /\ read.counter = d.counter
    BY <1>2, <2>4 DEF Data, AsyncMembers
  <2>10. None(read, "clock_corr") => g \/ \A x \in read.stack : x.count < Threshold(read.st)
    <3> SUFFICES ASSUME None(read, "clock_corr"), ~g
                 PROVE  \A x \in read.stack : x.count < Threshold(d.st)
      BY <2>9, <1>7
    <3>1. ~h /\ ~(count >= Threshold(d.st))
      BY <1>7
    <3>2. \A x \in d.stack : x.count < Threshold(d.st)
      BY <1>1, <1>6, <2>8, <3>1, SameAlarm DEF Remembers
    <3>3. count < Threshold(d.st)
      <4>1. Threshold(d.st) \in Int
        BY ClientAssumption DEF Threshold
      <4> QED
        BY <1>4, <3>1, <4>1
    <3> HIDE DEF count
    <3> QED
      BY <2>2, <2>6, <3>2, <3>3
  <2>11. Remembers(read, done, v, g)
    BY <1>1, <1>7, <2>9, <2>10 DEF Remembers
  <2>12. n = read
    BY <1>0, <1>3, <1>7
  <2> HIDE DEF n
  <2> QED
    BY <1>4, <1>5, <2>7, <2>8, <2>9, <2>11, <2>12 DEF n, t
<1>8. CASE OnSchedule(d, f) /\ ~Accepted(count)
  <2>1. AsyncMembers(noted) = AsyncMembers(d)
    BY <1>2 DEF Data, AsyncMembers
  <2>2. None(noted, "clock_corr") => g \/ \A x \in noted.stack : x.count < Threshold(noted.st)
    BY <1>1, <1>2, <1>6, <1>8, SameAlarm DEF Remembers, Data
  <2>3. Remembers(noted, done, v, g)
    BY <1>1, <1>2, <1>8, <2>1, <2>2 DEF Remembers, Data
  <2>4. n = noted
    BY <1>0, <1>3, <1>8
  <2> HIDE DEF n
  <2> QED
    BY <1>2, <1>4, <1>5, <2>3, <2>4 DEF Data, n, t
<1>9. CASE ~OnSchedule(d, f)
  <2>1. Device(late) /\ late.asyncF = noted.asyncF \union f.members
        /\ \A y \in Fields \ {"asyncF"} : late[y] = noted[y]
    <3>1. Device(noted)
      BY <1>2 DEF Basic
    <3> QED
      BY <3>1 DEF Device, Fields
  <2> HIDE DEF late
  <2>2. Device(missed) /\ missed.asyncR = late.asyncR \union f.members
        /\ \A y \in Fields \ {"asyncR"} : missed[y] = late[y]
    BY <2>1 DEF Device, Fields
  <2> HIDE DEF missed
  <2>3. /\ missed.st = noted.st /\ missed.clk = noted.clk /\ missed.pend = noted.pend
        /\ missed.icyc = noted.icyc /\ missed.sync = noted.sync
        /\ missed.asyncR = noted.asyncR \union f.members /\ missed.asyncF = noted.asyncF \union f.members
        /\ missed.counter = noted.counter /\ missed.timedOut = noted.timedOut /\ missed.stack = noted.stack
    BY <2>1, <2>2 DEF Fields
  <2>4. PendOK(missed) /\ Same(noted, missed, Alarms)
    BY <1>2, <2>3, PendKept DEF Basic
  <2>5. Basic(missed)
    BY <1>2, <1>4, <2>2, <2>3, <2>4 DEF Basic
  <2>6. Same(d, missed, Alarms)
    BY <1>2, <2>4 DEF Same
  <2>7. AsyncMembers(missed) = AsyncMembers(d) \union f.members
    BY <1>2, <2>3 DEF Data, AsyncMembers
  <2>8. None(missed, "clock_corr") => g \/ \A x \in missed.stack : x.count < Threshold(missed.st)
    BY <1>1, <1>2, <1>6, <1>9, <2>3, <2>6, SameAlarm DEF Remembers, Data
  <2>9. Remembers(missed, done, v, g)
    BY <1>1, <1>2, <1>9, <2>3, <2>7, <2>8 DEF Remembers, Data
  <2>10. missed.st = d.st /\ missed.clk = d.clk /\ missed.counter = d.counter
    BY <1>2, <2>3 DEF Data
  <2>11. n = missed
    BY <1>0, <1>3, <1>9
  <2> HIDE DEF n
  <2> QED
    BY <1>4, <1>5, <2>5, <2>6, <2>9, <2>10, <2>11 DEF n, t
<1> QED
  BY <1>7, <1>8, <1>9

(* A frame that is received changes no alarm and no data.                      *)
LEMMA FramesAreFrames ==
  ASSUME NEW p \in Ports, NEW i \in 0 .. MaxIcys - 1, NEW m \in Memberships, NEW w \in PermanenceDelays
  PROVE  Frame(p, i, m, w) \in Frames
<1>1. w \in Nat
  BY ClientAssumption
<1> QED
  BY <1>1 DEF Frame, Frames

(* ... so that the client stays where it is in the cycle.                     *)
LEMMA FilingKeeps ==
  ASSUME NEW d, Basic(d), NEW n, Filing(d, n)
  PROVE  /\ Basic(n) /\ Data(d, n) /\ n.clk = d.clk /\ Same(d, n, Alarms)
         /\ Integrating(d) => Integrating(n)
         /\ \A u, h, s : Following(d, u, h, s) => Following(n, u, h, s)
<1>1. n.clk = d.clk
  BY ClockKept DEF Filing, Timing
<1>2. Basic(n) /\ Data(d, n) /\ Same(d, n, Alarms)
  <2>1. n.clk \in 0 .. Cycle - 1
    BY <1>1 DEF Basic
  <2> QED
    BY <2>1, BasicKept DEF Filing, Timing
<1>3. DOMAIN SlotOf \subseteq Alarms /\ "ASYNCHRON" \in Alarms /\ "clock_corr" \in Alarms
  BY SlotNames DEF Alarms
<1>4. ASSUME Integrating(d) PROVE Integrating(n)
  BY <1>2, <1>3, <1>4, SameAlarm DEF Integrating, Data
<1>5. ASSUME NEW u, NEW h, NEW s, Following(d, u, h, s) PROVE Following(n, u, h, s)
  <2>1. PICK done \in Phases : OnTime(d, done) /\ Remembers(d, done, u, h)
    BY <1>5 DEF Following
  <2>2. OnTime(n, done)
    BY <1>1, <1>2, <2>1, OnTimeKept
  <2>3. None(n, "clock_corr") => None(d, "clock_corr")
    BY <1>2, <1>3, SameAlarm
  <2>4. Remembers(n, done, u, h)
    BY <1>2, <2>1, <2>3 DEF Remembers, Data, AsyncMembers
  <2> QED
    BY <1>2, <1>5, <2>2, <2>4 DEF Following, Counts, Data
<1> QED
  BY <1>1, <1>2, <1>4, <1>5

(* Both ways to receive a frame are such changes.                             *)
LEMMA ReceiveFiles ==
  ASSUME NEW d, Basic(d), NEW f \in Frames, NEW n,
         n \in Receive(d, f) \/ n \in ReceiveIntegrating(d, f)
  PROVE  Filing(d, n)
<1>1. Device(d) /\ PendOK(d)
  BY DEF Basic
<1>2. CASE n \in Receive(d, f)
  <2>1. n = RegisterTimer(d, f)
    BY <1>2 DEF Receive
  <2> QED
    BY <1>1, <2>1, RegisterTimerEffect DEF Filing, Changes
<1>3. CASE n \in ReceiveIntegrating(d, f)
  BY <1>1, <1>3, FileBestEffect DEF ReceiveIntegrating
<1> QED
  BY <1>2, <1>3

(* INTEGRATE: the timer runs out.                                              *)
LEMMA TimedOutKeeps ==
  ASSUME NEW d, Basic(d), Integrating(d), NEW e \in Due(d), e.ev = "ASYNCHRON"
  PROVE  LET n == TimedOut(Taken(d, e), e) IN Basic(n) /\ Integrating(n)
<1> DEFINE t == Taken(d, e)
           n == [t EXCEPT !.timedOut = TRUE]
<1>1. /\ Basic(t) /\ Data(d, t) /\ t.clk = d.clk
      /\ Same(d, t, Alarms \ {"ASYNCHRON"})
      /\ \A left : Only(d, "ASYNCHRON", left) => None(t, "ASYNCHRON") /\ left = 0
  BY Takes
<1>2. None(t, "ASYNCHRON")
  <2>1. ~None(d, "ASYNCHRON")
    BY DEF Due, None, Named
  <2> QED
    BY <1>1, <2>1 DEF Integrating, Once
<1>3. DOMAIN SlotOf \subseteq Alarms \ {"ASYNCHRON"}
  BY SlotNames DEF Alarms
<1> HIDE DEF t
<1>4. Device(n) /\ n.timedOut = TRUE /\ \A y \in Fields \ {"timedOut"} : n[y] = t[y]
  <2>1. Device(t)
    BY <1>1 DEF Basic
  <2> QED
    BY <2>1 DEF Device, Fields
<1> HIDE DEF n
<1>5. /\ n.st = t.st /\ n.clk = t.clk /\ n.pend = t.pend /\ n.icyc = t.icyc /\ n.sync = t.sync
      /\ n.asyncR = t.asyncR /\ n.asyncF = t.asyncF /\ n.counter = t.counter /\ n.stack = t.stack
  BY <1>4 DEF Fields
<1>6. PendOK(n) /\ Same(t, n, Alarms)
  BY <1>1, <1>5, PendKept DEF Basic
<1>7. Basic(n)
  BY <1>1, <1>4, <1>5, <1>6 DEF Basic
<1>8. None(n, "ASYNCHRON") /\ \A x \in DOMAIN SlotOf : None(n, x)
  <2>1. \A x \in DOMAIN SlotOf : None(t, x)
    BY <1>1, <1>3, SameAlarm DEF Integrating
  <2> QED
    BY <1>2, <1>3, <1>6, <2>1, SameAlarm DEF Alarms
<1>9. Integrating(n)
  BY <1>1, <1>4, <1>5, <1>8 DEF Integrating, Data
<1> QED
  BY <1>7, <1>9 DEF TimedOut, n, t

(* INTEGRATE: a permanent frame of enough members starts the synchronised      *)
(* operation in the middle of a cycle.                                         *)
LEMMA IntegrateInFrameKeeps ==
  ASSUME NEW d, Basic(d), Integrating(d), NEW f \in Due(d), f.ev = "IN_FRAME"
  PROVE  LET n == IntegrateInFrame(Taken(d, f), f)
         IN Basic(n) /\ (Integrating(n) \/ Following(n, {}, TRUE, 0))
<1> DEFINE t       == Taken(d, f)
           noted   == Erased(Deleted(t, f), 0)
           count   == Cardinality(f.members)
           listed  == (\E g \in Deleted(t, f).gone : g.key = 0) \/ Filed(t, 0) # {}
           c       == t.clk - ReceivePit
           cycle   == [noted EXCEPT !.icyc = f.icyc]
           taken   == [cycle EXCEPT !.sync = count]
           set     == ClockCorrection(taken, c)
           stopped == Unregister(set, {"ASYNCHRON"})
           running == IF t.timedOut THEN set ELSE stopped
           r       == Reading(f, count, ReceivePit)
           state   == [running EXCEPT !.st = "SYNC"]
           ready   == [state EXCEPT !.stack = Inserted(@, r)]
           going   == RegisterAll(ready, Cyclic)
           faulty  == [set EXCEPT !.fault = ~listed]
           n       == IntegrateInFrame(t, f)
<1>0. n = CASE ~f.listed /\ ContainerEmpty(t) -> t
            [] count >= IntegrateToSync -> going
            [] OTHER -> faulty
  BY DEF IntegrateInFrame
<1>1. /\ f \in Frames /\ Basic(t) /\ Data(d, t) /\ t.clk = d.clk /\ Same(d, t, Alarms)
      /\ Basic(noted) /\ Data(d, noted) /\ noted.clk = d.clk /\ Same(d, noted, Alarms)
  BY FrameTaken
<1> HIDE DEF t, noted, n, listed
<1>2. count \in 0 .. MaxMembership /\ f.icyc \in 0 .. MaxIcys - 1 /\ f.port \in Ports
  BY <1>1, FrameTypes
<1>3. DOMAIN SlotOf \subseteq Alarms /\ "ASYNCHRON" \in Alarms /\ Cyclic \subseteq DOMAIN SlotOf
      /\ "clock_corr" \in DOMAIN SlotOf /\ "ASYNCHRON" \notin DOMAIN SlotOf /\ "clock_corr" \notin Cyclic
  BY SlotNames DEF Alarms, Cyclic
<1>4. /\ Precision \in Int /\ Precision > 0 /\ AcceptanceWindow \in Int /\ AcceptanceWindow > 0
      /\ ReceivePit \in Int /\ Cycle \in Int /\ Precision < ReceivePit
      /\ ReceivePit + 3 * Precision + 1 <= Cycle - AcceptanceWindow
      /\ d.clk \in Int
  BY SlotsInOrder DEF Basic
<1>5. Integrating(t)
  <2>1. \A x \in DOMAIN SlotOf : None(t, x)
    BY <1>1, <1>3, SameAlarm DEF Integrating
  <2>2. IF t.timedOut THEN None(t, "ASYNCHRON") ELSE Once(t, "ASYNCHRON")
    BY <1>1, <1>3, SameAlarm DEF Integrating, Data
  <2> QED
    BY <1>1, <2>1, <2>2 DEF Integrating, Data
<1> HIDE DEF count
<1>6. /\ Basic(taken) /\ taken.clk = d.clk /\ taken.st = d.st /\ taken.timedOut = d.timedOut
      /\ taken.counter = d.counter /\ taken.pend = noted.pend
  <2>1. Device(cycle) /\ cycle.icyc = f.icyc /\ \A y \in Fields \ {"icyc"} : cycle[y] = noted[y]
    <3>1. Device(noted)
      BY <1>1 DEF Basic
    <3> QED
      BY <3>1 DEF Device, Fields
  <2> HIDE DEF cycle
  <2>2. Device(taken) /\ taken.sync = count /\ \A y \in Fields \ {"sync"} : taken[y] = cycle[y]
    BY <2>1 DEF Device, Fields
  <2> HIDE DEF taken
  <2>3. /\ taken.st = noted.st /\ taken.clk = noted.clk /\ taken.pend = noted.pend /\ taken.stack = noted.stack
        /\ taken.icyc = f.icyc /\ taken.sync = count /\ taken.timedOut = noted.timedOut
        /\ taken.asyncR = noted.asyncR /\ taken.asyncF = noted.asyncF /\ taken.counter = noted.counter
    BY <2>1, <2>2 DEF Fields
  <2>4. PendOK(taken)
    BY <1>1, <2>3, PendKept DEF Basic
  <2>5. Basic(taken)
    BY <1>1, <1>2, <2>2, <2>3, <2>4 DEF Basic
  <2> QED
    BY <1>1, <2>3, <2>5 DEF Data
<1>7. Same(d, taken, Alarms)
  <2>1. Same(noted, taken, Alarms)
    BY <1>1, <1>6, PendKept DEF Basic
  <2> QED
    BY <1>1, <2>1 DEF Same
<1> HIDE DEF taken
<1>8. /\ Basic(set) /\ set.clk = ReceivePit /\ set.st = d.st /\ set.timedOut = d.timedOut /\ set.counter = 0
      /\ \A x \in DOMAIN SlotOf : None(set, x)
      /\ IF set.timedOut THEN None(set, "ASYNCHRON") ELSE Once(set, "ASYNCHRON")
  <2>1. c \in Int
    BY <1>1, <1>4
  <2>2. /\ Basic(set) /\ Data(taken, set) /\ set.clk = (taken.clk - c) % Cycle
        /\ Same(taken, set, {"ASYNCHRON"})
        /\ \A x \in DOMAIN SlotOf : None(taken, x) => None(set, x)
    BY <1>6, <2>1, Corrects
  <2>3. taken.clk - c = ReceivePit
    BY <1>1, <1>4, <1>6
  <2>4. ReceivePit % Cycle = ReceivePit
    <3>1. ReceivePit \in 0 .. Cycle - 1 /\ Cycle \in Nat \ {0}
      BY <1>4
    <3> QED
      BY <3>1, SmallRemainder
  <2> HIDE DEF set, c
  <2>5. \A x \in DOMAIN SlotOf : None(taken, x)
    BY <1>3, <1>7, SameAlarm DEF Integrating
  <2>6. set.timedOut = d.timedOut
    BY <1>6, <2>2 DEF Data
  <2>7. IF d.timedOut THEN None(taken, "ASYNCHRON") ELSE Once(taken, "ASYNCHRON")
    BY <1>3, <1>7, SameAlarm DEF Integrating
  <2>8. IF d.timedOut THEN None(set, "ASYNCHRON") ELSE Once(set, "ASYNCHRON")
    BY <2>2, <2>7, SameAlarm
  <2> QED
    BY <1>6, <2>2, <2>3, <2>4, <2>5, <2>6, <2>8 DEF Data, Integrating
<1> HIDE DEF set
<1>9. Basic(faulty) /\ Integrating(faulty)
  <2>1. Device(faulty) /\ \A y \in Fields \ {"fault"} : faulty[y] = set[y]
    <3>1. Device(set)
      BY <1>8 DEF Basic
    <3> QED
      BY <3>1 DEF Device, Fields
  <2> HIDE DEF faulty
  <2>2. /\ faulty.st = set.st /\ faulty.clk = set.clk /\ faulty.pend = set.pend /\ faulty.icyc = set.icyc
        /\ faulty.sync = set.sync /\ faulty.asyncR = set.asyncR /\ faulty.asyncF = set.asyncF
        /\ faulty.counter = set.counter /\ faulty.stack = set.stack /\ faulty.timedOut = set.timedOut
    BY <2>1 DEF Fields
  <2>3. PendOK(faulty) /\ Same(set, faulty, Alarms)
    BY <1>8, <2>2, PendKept DEF Basic
  <2>4. Basic(faulty)
    BY <1>8, <2>1, <2>2, <2>3 DEF Basic
  <2>5. \A x \in DOMAIN SlotOf : None(faulty, x)
    BY <1>3, <1>8, <2>3, SameAlarm
  <2>6. IF faulty.timedOut THEN None(faulty, "ASYNCHRON") ELSE Once(faulty, "ASYNCHRON")
    BY <1>3, <1>8, <2>2, <2>3, SameAlarm
  <2> QED
    BY <1>8, <2>2, <2>4, <2>5, <2>6 DEF Integrating
<1>10. /\ Basic(running) /\ running.clk = ReceivePit /\ running.counter = 0
       /\ \A x \in Alarms : None(running, x)
  <2>1. CASE set.timedOut
    BY <1>1, <1>8, <2>1 DEF Data, Alarms
  <2>2. CASE ~set.timedOut
    <3>1. /\ Basic(stopped) /\ Data(set, stopped) /\ stopped.clk = set.clk
          /\ \A x \in {"ASYNCHRON"} : None(stopped, x)
          /\ Same(set, stopped, Alarms \ {"ASYNCHRON"})
      BY <1>3, <1>8, Unregisters
    <3> HIDE DEF stopped
    <3>2. \A x \in DOMAIN SlotOf : None(stopped, x)
      BY <1>3, <1>8, <3>1, SameAlarm
    <3>3. running = stopped
      BY <1>1, <1>8, <2>2 DEF Data
    <3> HIDE DEF running
    <3> QED
      BY <1>8, <3>1, <3>2, <3>3 DEF Data, Alarms
  <2> QED
    BY <2>1, <2>2
<1> HIDE DEF running
<1>11. /\ Basic(ready) /\ ready.clk = ReceivePit /\ ready.counter = 0 /\ ready.st = "SYNC"
       /\ \A x \in Alarms : None(ready, x)
  <2>1. Device(state) /\ state.st = "SYNC" /\ \A y \in Fields \ {"st"} : state[y] = running[y]
    <3>1. Device(running)
      BY <1>10 DEF Basic
    <3> QED
      BY <3>1 DEF Device, Fields
  <2> HIDE DEF state, r
  <2>2. Device(ready) /\ ready.stack = Inserted(state.stack, r) /\ \A y \in Fields \ {"stack"} : ready[y] = state[y]
    BY <2>1 DEF Device, Fields
  <2> HIDE DEF ready
  <2>3. /\ ready.st = "SYNC" /\ ready.clk = running.clk /\ ready.pend = running.pend /\ ready.icyc = running.icyc
        /\ ready.sync = running.sync /\ ready.asyncR = running.asyncR /\ ready.asyncF = running.asyncF
        /\ ready.counter = running.counter /\ ready.timedOut = running.timedOut
        /\ ready.stack = Inserted(running.stack, r)
    BY <2>1, <2>2 DEF Fields
  <2>4. PendOK(ready) /\ Same(running, ready, Alarms)
    BY <1>10, <2>3, PendKept DEF Basic
  <2>5. r \in Readings
    BY <1>2, <1>4 DEF r, Reading, Readings
  <2>6. ready.stack \subseteq Readings /\ \A x, y \in ready.stack : x.port = y.port => x = y
    BY <1>10, <2>3, <2>5 DEF Basic, Inserted
  <2>7. "SYNC" \in States
    BY DEF States, Synced
  <2>8. Basic(ready)
    BY <1>10, <2>2, <2>3, <2>4, <2>6, <2>7 DEF Basic
  <2> QED
    BY <1>10, <2>3, <2>4, <2>8, SameAlarm
<1> HIDE DEF ready
<1>12. /\ Basic(going) /\ Data(ready, going) /\ going.clk = ReceivePit
       /\ \A x \in Cyclic : Only(going, x, Distance(ReceivePit, x, FALSE))
       /\ Same(ready, going, Alarms \ Cyclic)
  <2>1. /\ Basic(going) /\ Data(ready, going) /\ going.clk = ready.clk
        /\ \A x \in Cyclic : None(ready, x) => Only(going, x, Distance(ready.clk, x, FALSE))
        /\ Same(ready, going, Alarms \ Cyclic)
    BY <1>3, <1>11, RegistersAll
  <2> HIDE DEF going
  <2> QED
    BY <1>3, <1>11, <2>1
<1> HIDE DEF going
<1>13. Following(going, {}, TRUE, 0)
  <2> DEFINE done == {"async_eval", "inc"}
  <2>1. ASSUME NEW x \in Cyclic
        PROVE  Ahead(going, x, done) \in Nat /\ Distance(ReceivePit, x, FALSE) = Ahead(going, x, done)
    <3> DEFINE away == SlotOf[x] - ReceivePit
               far  == Ahead(going, x, done)
    <3>1. far \in 0 .. Cycle - 1 /\ (away = far \/ away = far - Cycle) /\ away \in Int
      <4>1. CASE x = "async_eval"
        BY <1>4, <1>12, <4>1, SlotValues DEF Ahead
      <4>2. CASE x = "inc"
        BY <1>4, <1>12, <4>2, SlotValues DEF Ahead
      <4>3. CASE x = "sync_eval"
        BY <1>4, <1>12, <4>3, SlotValues DEF Ahead
      <4>4. CASE x = "async_up"
        BY <1>4, <1>12, <4>4, SlotValues DEF Ahead
      <4> QED
        BY <4>1, <4>2, <4>3, <4>4 DEF Cyclic
    <3> HIDE DEF away, far
    <3>2. away % Cycle = far
      BY <1>4, <3>1
    <3>3. far \in Nat
      BY <1>4, <3>1
    <3> QED
      BY <3>2, <3>3 DEF Distance, away, far
  <2> HIDE DEF done
  <2>2. CyclicOnTime(going, done)
    <3>1. ASSUME NEW x \in Cyclic
          PROVE  Ahead(going, x, done) \in Nat /\ Only(going, x, Ahead(going, x, done))
      <4>1. Only(going, x, Distance(ReceivePit, x, FALSE))
        BY <1>12
      <4> QED
        BY <2>1, <4>1
    <3> QED
      BY <3>1 DEF CyclicOnTime
  <2>3. None(going, "clock_corr") /\ None(going, "ASYNCHRON")
    <3>1. "clock_corr" \in Alarms \ Cyclic /\ "ASYNCHRON" \in Alarms \ Cyclic
      BY <1>3
    <3> QED
      BY <1>11, <1>12, <3>1, SameAlarm
  <2>4. OnTime(going, done) /\ Remembers(going, done, {}, TRUE)
    BY <2>2, <2>3 DEF OnTime, Remembers
  <2>5. done \in Phases
    BY DEF Phases, done
  <2>6. going.st = "SYNC" /\ going.counter = 0
    BY <1>11, <1>12 DEF Data
  <2>7. Counts(going, 0)
    BY <2>6, ClientAssumption DEF Counts
  <2> QED
    BY <2>4, <2>5, <2>6, <2>7 DEF Following, Synced
<1> HIDE DEF faulty
<1>14. n = t \/ n = going \/ n = faulty
  BY <1>0
<1> QED
  BY <1>1, <1>5, <1>9, <1>12, <1>13, <1>14 DEF n, t

(* PSEUDOSYNC: the counting goes on ...                                        *)
LEMMA PseudoIncKeeps ==
  ASSUME NEW d, Basic(d), Replaying(d), NEW e \in Due(d), e.ev = "inc"
  PROVE  LET n == Inc(Taken(d, e), e) IN Basic(n) /\ Replaying(n)
<1> DEFINE t == Taken(d, e)
           r == [t EXCEPT !.icyc = (@ + 1) % MaxIcys]
           n == RegisterNext(r, "inc")
<1>1. /\ Basic(t) /\ Data(d, t) /\ t.clk = d.clk
      /\ Same(d, t, Alarms \ {"inc"})
      /\ \A left : Only(d, "inc", left) => None(t, "inc")
  <2>1. /\ Basic(t) /\ Data(d, t) /\ t.clk = d.clk
        /\ Same(d, t, Alarms \ {e.ev})
        /\ \A left : Only(d, e.ev, left) => None(t, e.ev)
    BY Takes
  <2> HIDE DEF t
  <2> QED
    BY <2>1
<1>2. None(t, "inc")
  BY <1>1 DEF Replaying, Once
<1>3. "clock_corr" \in Alarms \ {"inc"} /\ "inc" \in Alarms /\ "inc" \in DOMAIN SlotOf
  BY SlotNames DEF Alarms
<1> HIDE DEF t
<1>4. /\ Basic(r) /\ r.st = t.st /\ r.counter = t.counter /\ Same(t, r, Alarms)
  <2>1. Device(r)
    BY <1>1 DEF Basic, Device, Fields
  <2>2. /\ r.st = t.st /\ r.clk = t.clk /\ r.pend = t.pend /\ r.timedOut = t.timedOut /\ r.sync = t.sync
        /\ r.icyc = (t.icyc + 1) % MaxIcys /\ r.asyncR = t.asyncR /\ r.asyncF = t.asyncF
        /\ r.counter = t.counter /\ r.stack = t.stack
    BY <1>1 DEF Basic, Device, Fields
  <2> HIDE DEF r
  <2>3. PendOK(r) /\ Same(t, r, Alarms)
    BY <1>1, <2>2, PendKept DEF Basic
  <2>4. r.icyc \in 0 .. MaxIcys - 1
    <3>1. t.icyc + 1 \in Int
      BY <1>1, ClientAssumption DEF Basic
    <3> QED
      BY <2>2, <3>1, Remainder, ClientAssumption
  <2>5. Basic(r)
    BY <1>1, <2>1, <2>2, <2>3, <2>4 DEF Basic
  <2> QED
    BY <2>2, <2>3, <2>5
<1> HIDE DEF r
<1>5. None(r, "inc") /\ Once(r, "clock_corr")
  <2>1. Once(t, "clock_corr")
    BY <1>1, <1>3, SameAlarm DEF Replaying
  <2> QED
    BY <1>2, <1>3, <1>4, <2>1, SameAlarm
<1>6. /\ Basic(n) /\ Data(r, n)
      /\ Only(n, "inc", Distance(r.clk, "inc", TRUE))
      /\ Same(r, n, Alarms \ {"inc"})
  <2> DEFINE x == RegisterAction(r, "inc", TRUE)
  <2>1. /\ Basic(x) /\ Data(r, x) /\ x.clk = r.clk
        /\ None(r, "inc") => Only(x, "inc", Distance(r.clk, "inc", TRUE))
        /\ Same(r, x, Alarms \ {"inc"})
    BY <1>3, <1>4, Registers
  <2>2. n = x
    BY DEF RegisterNext
  <2> HIDE DEF n, x
  <2> QED
    BY <1>5, <2>1, <2>2
<1> HIDE DEF n
<1>7. Distance(r.clk, "inc", TRUE) \in Nat
  <2>1. r.clk \in Int
    BY <1>4, SlotsInOrder DEF Basic
  <2> QED
    BY <1>3, <2>1, DistanceType
<1>8. Once(n, "inc") /\ Once(n, "clock_corr")
  BY <1>3, <1>5, <1>6, <1>7, SameAlarm DEF Once
<1>9. Replaying(n)
  BY <1>1, <1>4, <1>6, <1>8 DEF Replaying, Data
<1> QED
  BY <1>6, <1>9 DEF Inc, n, r, t

(* ... and so do the recorded corrections.                                     *)
LEMMA PseudoCorrKeeps ==
  ASSUME NEW d, Basic(d), Replaying(d), NEW e \in Due(d), e.ev = "clock_corr", NEW c \in Int
  PROVE  LET n == RegisterNext(ClockCorrection(Taken(d, e), c), "clock_corr")
         IN Basic(n) /\ Replaying(n)
<1> DEFINE t == Taken(d, e)
           r == ClockCorrection(t, c)
           n == RegisterNext(r, "clock_corr")
<1>1. /\ Basic(t) /\ Data(d, t) /\ t.clk = d.clk
      /\ Same(d, t, Alarms \ {"clock_corr"})
      /\ \A left : Only(d, "clock_corr", left) => None(t, "clock_corr")
  <2>1. /\ Basic(t) /\ Data(d, t) /\ t.clk = d.clk
        /\ Same(d, t, Alarms \ {e.ev})
        /\ \A left : Only(d, e.ev, left) => None(t, e.ev)
    BY Takes
  <2> HIDE DEF t
  <2> QED
    BY <2>1
<1>2. None(t, "clock_corr")
  BY <1>1 DEF Replaying, Once
<1>3. "inc" \in Alarms \ {"clock_corr"} /\ "clock_corr" \in DOMAIN SlotOf /\ "inc" \in DOMAIN SlotOf
  BY SlotNames DEF Alarms
<1> HIDE DEF t
<1>4. /\ Basic(r) /\ Data(t, r)
      /\ \A x \in DOMAIN SlotOf : None(t, x) => None(r, x)
      /\ \A x \in DOMAIN SlotOf : \A left : Only(t, x, left) => Only(r, x, Larger(0, left + c))
  BY <1>1, Corrects
<1> HIDE DEF r
<1>5. None(r, "clock_corr") /\ Once(r, "inc")
  <2>1. PICK left \in Nat : Only(d, "inc", left)
    BY DEF Replaying, Once
  <2>2. Only(t, "inc", left)
    BY <1>1, <1>3, <2>1, SameAlarm
  <2>3. Larger(0, left + c) \in Nat
    BY DEF Larger
  <2>4. Only(r, "inc", Larger(0, left + c))
    BY <1>3, <1>4, <2>2
  <2> QED
    BY <1>2, <1>3, <1>4, <2>3, <2>4 DEF Once
<1>6. /\ Basic(n) /\ Data(r, n)
      /\ Only(n, "clock_corr", Distance(r.clk, "clock_corr", TRUE))
      /\ Same(r, n, Alarms \ {"clock_corr"})
  <2> DEFINE x == RegisterAction(r, "clock_corr", TRUE)
  <2>1. /\ Basic(x) /\ Data(r, x) /\ x.clk = r.clk
        /\ None(r, "clock_corr") => Only(x, "clock_corr", Distance(r.clk, "clock_corr", TRUE))
        /\ Same(r, x, Alarms \ {"clock_corr"})
    BY <1>3, <1>4, Registers
  <2>2. n = x
    BY DEF RegisterNext
  <2> HIDE DEF n, x
  <2> QED
    BY <1>5, <2>1, <2>2
<1> HIDE DEF n
<1>7. Distance(r.clk, "clock_corr", TRUE) \in Nat
  <2>1. r.clk \in Int
    BY <1>4, SlotsInOrder DEF Basic
  <2> QED
    BY <1>3, <2>1, DistanceType
<1>8. Once(n, "inc") /\ Once(n, "clock_corr")
  BY <1>3, <1>5, <1>6, <1>7, SameAlarm DEF Once
<1>9. Replaying(n)
  BY <1>1, <1>4, <1>6, <1>8 DEF Replaying, Data
<1> QED
  BY <1>6, <1>9 DEF n, r, t
------------------------------------------------------------------------------
(* Time.                                                                       *)

(* A tick keeps what is known in every state.                                 *)
LEMMA TickKeeps ==
  ASSUME NEW d, Basic(d), NothingDue(d)
  PROVE  LET n == TimePasses(d) IN
         /\ Basic(n) /\ n.st = d.st /\ Small(d.clk, n.clk)
         /\ Replaying(d) => Replaying(n)
         /\ Integrating(d) => Integrating(n)
         /\ \A u, h, s : Following(d, u, h, s) => Following(n, u, h, s)
<1> DEFINE n == TimePasses(d)
<1>1. Device(d) /\ PendOK(d) /\ d.clk \in 0 .. Cycle - 1 /\ Cycle \in Nat \ {0}
  BY SlotsInOrder DEF Basic
<1>2. /\ Changes(d, n, {"clk", "pend", "gone"})
      /\ n.clk = (d.clk + 1) % Cycle
      /\ PendOK(n)
      /\ \A x \in Alarms : None(d, x) => None(n, x)
      /\ \A x \in Alarms : \A left : Only(d, x, left) => left \in Nat \ {0} /\ Only(n, x, left - 1)
  BY <1>1, TimePassesEffect
<1>3. Basic(n) /\ Data(d, n)
  <2> HIDE DEF n
  <2>1. n.clk \in 0 .. Cycle - 1
    <3>1. d.clk + 1 \in Int
      BY <1>1
    <3> QED
      BY <1>1, <1>2, <3>1, Remainder
  <2> QED
    BY <1>2, <2>1, BasicKept DEF Timing
<1> HIDE DEF n
<1>4. ASSUME NEW x \in Alarms, Once(d, x) PROVE Once(n, x)
  <2>1. PICK left \in Nat : Only(d, x, left)
    BY <1>4 DEF Once
  <2>2. left \in Nat \ {0} /\ Only(n, x, left - 1)
    BY <1>2, <2>1
  <2>3. left - 1 \in Nat
    BY <2>2
  <2> QED
    BY <2>2, <2>3 DEF Once
<1>5. DOMAIN SlotOf \subseteq Alarms /\ "ASYNCHRON" \in Alarms /\ "inc" \in Alarms /\ "clock_corr" \in Alarms
  BY SlotNames DEF Alarms
<1>6. ASSUME Replaying(d) PROVE Replaying(n)
  BY <1>3, <1>4, <1>5, <1>6 DEF Replaying, Data
<1>7. ASSUME Integrating(d) PROVE Integrating(n)
  BY <1>2, <1>3, <1>4, <1>5, <1>7 DEF Integrating, Data
<1>8. ASSUME NEW u, NEW h, NEW s, Following(d, u, h, s) PROVE Following(n, u, h, s)
  <2>1. PICK done \in Phases : OnTime(d, done) /\ Remembers(d, done, u, h)
    BY <1>8 DEF Following
  <2> DEFINE next == IF n.clk = 0 THEN {} ELSE done
  <2>2. /\ next \in Phases /\ OnTime(n, next)
        /\ n.clk = 0 => done = Cyclic
        /\ None(n, "clock_corr") => None(d, "clock_corr")
    BY <2>1, TickOnTime DEF n
  <2>3. next # {} => next = done
    OBVIOUS
  <2> HIDE DEF next
  <2>4. /\ AsyncMembers(n) = AsyncMembers(d) /\ n.asyncR = d.asyncR /\ n.asyncF = d.asyncF
        /\ n.stack = d.stack /\ n.st = d.st /\ n.counter = d.counter
    BY <1>3 DEF Data, AsyncMembers
  <2>5. Remembers(n, next, u, h)
    BY <2>1, <2>2, <2>3, <2>4 DEF Remembers
  <2> QED
    BY <1>8, <2>2, <2>4, <2>5 DEF Following, Counts
<1>9. Small(d.clk, n.clk)
  <2>1. Precision >= 1 /\ Cycle > 2 /\ Precision \in Int
    BY SlotsInOrder
  <2>2. n.clk - d.clk = 1 \/ n.clk - d.clk = 1 - Cycle
    <3>1. CASE d.clk = Cycle - 1
      BY <1>1, <1>2, <3>1
    <3>2. CASE d.clk # Cycle - 1
      <4>1. d.clk + 1 \in 0 .. Cycle - 1
        BY <1>1, <3>2
      <4> QED
        BY <1>1, <1>2, <4>1, SmallRemainder
    <3> QED
      BY <3>1, <3>2
  <2>3. (n.clk - d.clk) % Cycle = 1
    BY <1>1, <2>1, <2>2
  <2> QED
    BY <2>1, <2>3 DEF Small
<1> QED
  BY <1>3, <1>6, <1>7, <1>8, <1>9 DEF n, Data
------------------------------------------------------------------------------
(* The first states.                                                           *)

LEMMA PowersUp ==
  ASSUME NEW st \in States
  PROVE  LET d == [PowerUp EXCEPT !.st = st] IN
         Basic(d) /\ d.st = st /\ d.counter = 0 /\ d.timedOut = FALSE /\ \A x : None(d, x)
<1> DEFINE d == [PowerUp EXCEPT !.st = st]
<1>1. Device(d)
  BY DEF PowerUp, Device, Fields
<1>2. /\ d.st = st /\ d.clk = 0 /\ d.pend = {} /\ d.icyc = 0 /\ d.sync = 0 /\ d.asyncR = {} /\ d.asyncF = {}
      /\ d.counter = 0 /\ d.stack = {} /\ d.timedOut = FALSE
  BY DEF PowerUp
<1> HIDE DEF d
<1>3. 0 \in 0 .. Cycle - 1 /\ 0 \in 0 .. MaxIcys - 1 /\ 0 \in 0 .. MaxMembership
  BY SlotsInOrder, ClientAssumption
<1>4. Basic(d)
  BY <1>1, <1>2, <1>3 DEF Basic, PendOK
<1>5. \A x : None(d, x)
  BY <1>2 DEF None, Named
<1> QED
  BY <1>2, <1>4, <1>5 DEF d

LEMMA IntegrateFirst ==
  Basic(Integrate(PowerUp, ListenTimeout)) /\ Integrating(Integrate(PowerUp, ListenTimeout))
<1> DEFINE d == [PowerUp EXCEPT !.st = "INTEGRATE"]
           n == StartTimer(d, ListenTimeout)
<1>1. Integrate(PowerUp, ListenTimeout) = n
  <2>1. [d EXCEPT !.timedOut = FALSE] = d
    <3>1. Device(d) /\ d.timedOut = FALSE
      BY PowersUp DEF States, Basic
    <3> HIDE DEF d
    <3> QED
      BY <3>1 DEF Device, Fields
  <2> QED
    BY <2>1 DEF Integrate
<1>2. Basic(d) /\ d.st = "INTEGRATE" /\ d.counter = 0 /\ d.timedOut = FALSE /\ \A x : None(d, x)
  BY PowersUp DEF States
<1> HIDE DEF d
<1>3. /\ Basic(n) /\ Data(d, n)
      /\ Only(n, "ASYNCHRON", ListenTimeout)
      /\ Same(d, n, DOMAIN SlotOf)
  BY <1>2, StartsTimer, ClientAssumption
<1> HIDE DEF n
<1>4. Once(n, "ASYNCHRON") /\ \A x \in DOMAIN SlotOf : None(n, x)
  BY <1>2, <1>3, SameAlarm, ClientAssumption DEF Once
<1>5. Integrating(n)
  BY <1>2, <1>3, <1>4 DEF Integrating, Data
<1> QED
  BY <1>1, <1>3, <1>5

LEMMA PseudoSyncFirst == Basic(PseudoSync) /\ Replaying(PseudoSync)
<1> DEFINE d == [PowerUp EXCEPT !.st = "PSEUDOSYNC"]
           evs == {"inc", "clock_corr"}
           n == RegisterAll(d, evs)
<1>1. Basic(d) /\ d.st = "PSEUDOSYNC" /\ d.counter = 0 /\ \A x : None(d, x)
  BY PowersUp DEF States
<1>2. evs \subseteq DOMAIN SlotOf
  BY SlotNames
<1> HIDE DEF d
<1>3. /\ Basic(n) /\ Data(d, n)
      /\ \A x \in evs : Only(n, x, Distance(d.clk, x, FALSE))
  BY <1>1, <1>2, RegistersAll
<1>4. PseudoSync = n
  BY DEF PseudoSync, d
<1> HIDE DEF n
<1>5. \A x \in evs : Distance(d.clk, x, FALSE) \in Nat
  <2>1. d.clk \in Int
    BY <1>1, SlotsInOrder DEF Basic
  <2> QED
    BY <1>2, <2>1, DistanceType
<1>6. Once(n, "inc") /\ Once(n, "clock_corr")
  BY <1>3, <1>5 DEF Once
<1>7. Replaying(n)
  BY <1>1, <1>3, <1>6 DEF Replaying, Data
<1> QED
  BY <1>3, <1>4, <1>7
------------------------------------------------------------------------------
(* The steps of the client.                                                    *)

StepSmall ==
  client.st \in Synced /\ client'.st \in Synced => Small(client.clk, client'.clk)

StepNoticed ==
  client.st \in Synced /\ unheard # {} /\ unheard' = {} =>
    (Cardinality(unheard) >= (IF client.st = "SYNC" THEN SyncThresholdAsync ELSE StableThresholdAsync)
       => client'.st = "INTEGRATE")

LEMMA Modes ==
  ASSUME IInv
  PROVE  /\ client.st = "PSEUDOSYNC" => Replaying(client)
         /\ client.st = "INTEGRATE" => Integrating(client)
         /\ client.st \in Synced => Following(client, unheard, heard, silence)
BY DEF IInv, Replaying, Integrating, Following, Synced

LEMMA NotMoved == \A d : Basic(d) => Small(d.clk, d.clk)
<1> SUFFICES ASSUME NEW d, Basic(d) PROVE Small(d.clk, d.clk)
  OBVIOUS
<1>1. d.clk \in Int /\ d.clk - 0 = d.clk /\ 0 \in -Precision .. Precision
  BY SlotsInOrder DEF Basic
<1>2. Small(d.clk, d.clk - 0)
  BY <1>1, SmallMove
<1> QED
  BY <1>1, <1>2

(* Steps in which the client is not synchronised before.                       *)
LEMMA UnsyncedSteps ==
  ASSUME IInv, PseudoInc \/ PseudoCorr \/ IntegrateRCin \/ IntegrateTimeout \/ IntegrateOnFrame
  PROVE  IInv' /\ StepSmall /\ StepNoticed
<1>0. Basic(client)
  BY DEF IInv
<1>1. CASE PseudoInc
  <2>1. PICK e \in Due(client) : e.ev = "inc" /\ client' = Inc(Taken(client, e), e)
    BY <1>1 DEF PseudoInc, Quietly, On
  <2>2. client.st = "PSEUDOSYNC" /\ UNCHANGED history
    BY <1>1 DEF PseudoInc, Quietly, On
  <2>3. Basic(client') /\ Replaying(client')
    BY <1>0, <2>1, <2>2, Modes, PseudoIncKeeps
  <2> QED
    BY <2>2, <2>3 DEF IInv, history, StepSmall, StepNoticed, Synced
<1>2. CASE PseudoCorr
  <2>1. PICK c \in Recorded, e \in Due(client) :
           /\ e.ev = "clock_corr"
           /\ client' = RegisterNext(ClockCorrection(Taken(client, e), c), "clock_corr")
    BY <1>2 DEF PseudoCorr, Quietly, On
  <2>2. client.st = "PSEUDOSYNC" /\ UNCHANGED history
    BY <1>2 DEF PseudoCorr, Quietly, On
  <2>3. c \in Int
    BY ClientAssumption
  <2>4. Basic(client') /\ Replaying(client')
    BY <1>0, <2>1, <2>2, <2>3, Modes, PseudoCorrKeeps
  <2> QED
    BY <2>2, <2>4 DEF IInv, history, StepSmall, StepNoticed, Synced
<1>3. CASE IntegrateRCin
  <2>1. PICK p \in Ports, i \in 0 .. MaxIcys - 1, m \in Memberships, w \in PermanenceDelays :
           client' \in ReceiveIntegrating(client, Frame(p, i, m, w))
    BY <1>3 DEF IntegrateRCin, Arrives
  <2>2. client.st = "INTEGRATE" /\ UNCHANGED history
    BY <1>3 DEF IntegrateRCin, Arrives
  <2>3. Frame(p, i, m, w) \in Frames
    BY FramesAreFrames
  <2>4. Filing(client, client')
    BY <1>0, <2>1, <2>3, ReceiveFiles
  <2>5. Basic(client') /\ Integrating(client')
    BY <1>0, <2>2, <2>4, Modes, FilingKeeps
  <2> QED
    BY <2>2, <2>5 DEF IInv, history, StepSmall, StepNoticed, Synced
<1>4. CASE IntegrateTimeout
  <2>1. PICK e \in Due(client) : e.ev = "ASYNCHRON" /\ client' = TimedOut(Taken(client, e), e)
    BY <1>4 DEF IntegrateTimeout, Quietly, On
  <2>2. client.st = "INTEGRATE" /\ UNCHANGED history
    BY <1>4 DEF IntegrateTimeout, Quietly, On
  <2>3. Basic(client') /\ Integrating(client')
    BY <1>0, <2>1, <2>2, Modes, TimedOutKeeps
  <2> QED
    BY <2>2, <2>3 DEF IInv, history, StepSmall, StepNoticed, Synced
<1>5. CASE IntegrateOnFrame
  <2>1. PICK f \in Due(client) : f.ev = "IN_FRAME" /\ client' = IntegrateInFrame(Taken(client, f), f)
    BY <1>5 DEF IntegrateOnFrame, On
  <2>2. client.st = "INTEGRATE" /\ unheard' = {} /\ heard' = TRUE /\ silence' = 0
    BY <1>5 DEF IntegrateOnFrame, On
  <2>3. Basic(client') /\ (Integrating(client') \/ Following(client', {}, TRUE, 0))
    BY <1>0, <2>1, <2>2, Modes, IntegrateInFrameKeeps
  <2> QED
    BY <2>2, <2>3 DEF IInv, StepSmall, StepNoticed, Synced
<1> QED
  BY <1>1, <1>2, <1>3, <1>4, <1>5

(* Steps of a client that is synchronised.                                     *)
LEMMA ArrivalSteps ==
  ASSUME IInv, NEW st \in Synced, Arrives(st, Receive)
  PROVE  IInv' /\ StepSmall /\ StepNoticed
<1>0. Basic(client) /\ client.st = st /\ UNCHANGED history
  BY DEF IInv, Arrives
<1>1. PICK p \in Ports, i \in 0 .. MaxIcys - 1, m \in Memberships, w \in PermanenceDelays :
         client' \in Receive(client, Frame(p, i, m, w))
  BY DEF Arrives
<1>2. Frame(p, i, m, w) \in Frames
  BY FramesAreFrames
<1>3. Filing(client, client')
  BY <1>0, <1>1, <1>2, ReceiveFiles
<1>4. /\ Basic(client') /\ client'.clk = client.clk
      /\ Following(client', unheard, heard, silence)
  BY <1>0, <1>3, Modes, FilingKeeps
<1>5. Small(client.clk, client'.clk)
  BY <1>0, <1>4, NotMoved
<1> QED
  BY <1>0, <1>4, <1>5 DEF IInv, history, StepSmall, StepNoticed

(* A frame becomes permanent.                                                 *)
LEMMA FrameSteps ==
  ASSUME IInv, NEW st \in Synced, NEW threshold, threshold = Threshold(st), OnFrame(st, threshold)
  PROVE  IInv' /\ StepSmall /\ StepNoticed
<1>0. Basic(client) /\ client.st = st /\ UNCHANGED silence /\ heard \in BOOLEAN
  BY DEF IInv, OnFrame, On
<1>1. PICK f \in Due(client) :
         /\ f.ev = "IN_FRAME"
         /\ client' = InFrame(Taken(client, f), f)
         /\ IF OnSchedule(client, f)
              THEN unheard' = unheard /\ heard' = (heard \/ Cardinality(f.members) >= Threshold(client.st))
              ELSE unheard' = unheard \union f.members /\ heard' = heard
  BY <1>0 DEF OnFrame
<1>2. /\ Basic(client') /\ Following(client', unheard', heard', silence)
      /\ client'.clk = client.clk
      /\ f.members \subseteq UNION Memberships
  BY <1>0, <1>1, Modes, InFrameKeeps
<1>3. heard' \in BOOLEAN /\ unheard' \subseteq UNION Memberships /\ unheard \subseteq unheard'
  BY <1>0, <1>1, <1>2 DEF IInv
<1>4. Small(client.clk, client'.clk)
  BY <1>0, <1>2, NotMoved
<1>5. StepNoticed
  BY <1>3 DEF StepNoticed
<1> QED
  BY <1>0, <1>2, <1>3, <1>4, <1>5 DEF IInv, StepSmall

(* Clique detection.                                                          *)
LEMMA AsyncEvalSteps ==
  ASSUME IInv, SyncOnAsyncEval \/ StableOnAsyncEval
  PROVE  IInv' /\ StepSmall /\ StepNoticed
<1>0. Basic(client) /\ heard \in BOOLEAN /\ silence \in Nat
  BY DEF IInv
<1>1. unheard' = {} /\ heard' = heard /\ silence' = silence
  BY DEF SyncOnAsyncEval, StableOnAsyncEval, OnAsyncEval
<1>2. ASSUME Basic(client'), Integrating(client') \/ (Following(client', {}, heard, silence) /\ client'.clk = client.clk)
      PROVE  IInv' /\ StepSmall
  <2>1. IInv'
    BY <1>0, <1>1, <1>2 DEF IInv
  <2>2. StepSmall
    BY <1>0, <1>2, NotMoved DEF StepSmall, Integrating, Synced
  <2> QED
    BY <2>1, <2>2
<1>3. CASE SyncOnAsyncEval
  <2>1. client.st = "SYNC"
    BY <1>3 DEF SyncOnAsyncEval, OnAsyncEval, On
  <2>2. PICK e \in Due(client) : e.ev = "async_eval" /\ client' = SyncAsyncEval(Taken(client, e), e)
    BY <1>3 DEF SyncOnAsyncEval, OnAsyncEval, On
  <2>3. Following(client, unheard, heard, silence)
    BY <2>1, Modes DEF Synced
  <2>4. /\ Basic(client')
        /\ Integrating(client') \/ (Following(client', {}, heard, silence) /\ client'.clk = client.clk)
        /\ Cardinality(unheard) >= SyncThresholdAsync => Integrating(client')
    BY <1>0, <2>2, <2>3, SyncAsyncEvalKeeps
  <2> QED
    BY <1>2, <2>1, <2>4 DEF StepNoticed, Integrating
<1>4. CASE StableOnAsyncEval
  <2>1. client.st = "STABLE"
    BY <1>4 DEF StableOnAsyncEval, OnAsyncEval, On
  <2>2. PICK e \in Due(client) : e.ev = "async_eval" /\ client' = StableAsyncEval(Taken(client, e), e)
    BY <1>4 DEF StableOnAsyncEval, OnAsyncEval, On
  <2>3. Following(client, unheard, heard, silence)
    BY <2>1, Modes DEF Synced
  <2>4. /\ Basic(client')
        /\ Integrating(client') \/ (Following(client', {}, heard, silence) /\ client'.clk = client.clk)
        /\ Cardinality(unheard) >= StableThresholdAsync => Integrating(client')
    BY <1>0, <2>2, <2>3, StableAsyncEvalKeeps
  <2> QED
    BY <1>2, <2>1, <2>4 DEF StepNoticed, Integrating
<1> QED
  BY <1>3, <1>4

(* The evaluation of a cycle.                                                 *)
LEMMA SyncEvalSteps ==
  ASSUME IInv, SyncOnSyncEval \/ StableOnSyncEval
  PROVE  IInv' /\ StepSmall /\ StepNoticed
<1>0. Basic(client) /\ heard \in BOOLEAN /\ silence \in Nat /\ unheard \subseteq UNION Memberships
  BY DEF IInv
<1>1. unheard' = unheard /\ heard' = FALSE /\ silence' = IF heard THEN 0 ELSE silence + 1
  BY DEF SyncOnSyncEval, StableOnSyncEval, OnSyncEval
<1>2. silence' \in Nat
  BY <1>0, <1>1
<1>3. Basic(client') /\ (Integrating(client') \/ (Following(client', unheard, FALSE, silence') /\ client'.clk = client.clk))
  <2>1. CASE SyncOnSyncEval
    <3>1. client.st = "SYNC"
      BY <2>1 DEF SyncOnSyncEval, OnSyncEval, On
    <3>2. PICK e \in Due(client) : e.ev = "sync_eval" /\ client' = SyncSyncEval(Taken(client, e), e)
      BY <2>1 DEF SyncOnSyncEval, OnSyncEval, On
    <3>3. Following(client, unheard, heard, silence)
      BY <3>1, Modes DEF Synced
    <3> QED
      BY <1>0, <1>1, <3>1, <3>2, <3>3, SyncSyncEvalKeeps
  <2>2. CASE StableOnSyncEval
    <3>1. client.st = "STABLE"
      BY <2>2 DEF StableOnSyncEval, OnSyncEval, On
    <3>2. PICK e \in Due(client) : e.ev = "sync_eval" /\ client' = StableSyncEval(Taken(client, e), e)
      BY <2>2 DEF StableOnSyncEval, OnSyncEval, On
    <3>3. Following(client, unheard, heard, silence)
      BY <3>1, Modes DEF Synced
    <3> QED
      BY <1>0, <1>1, <3>1, <3>2, <3>3, StableSyncEvalKeeps
  <2> QED
    BY <2>1, <2>2
<1>4. IInv'
  BY <1>0, <1>1, <1>2, <1>3 DEF IInv
<1>5. StepSmall
  BY <1>0, <1>3, NotMoved DEF StepSmall, Integrating, Synced
<1>6. StepNoticed
  BY <1>1 DEF StepNoticed
<1> QED
  BY <1>4, <1>5, <1>6

(* inc, clock_corr and async_up.                                               *)
LEMMA QuietSteps ==
  ASSUME IInv, NEW st \in Synced,
         Quietly(On(st, "inc", Inc)) \/ Quietly(On(st, "clock_corr", ClockCorr)) \/ Quietly(On(st, "async_up", AsyncUp))
  PROVE  IInv' /\ StepSmall /\ StepNoticed
<1>0. Basic(client) /\ client.st = st /\ UNCHANGED history
  BY DEF IInv, Quietly, On
<1>1. Following(client, unheard, heard, silence)
  BY <1>0, Modes
<1>2. Basic(client') /\ Following(client', unheard, heard, silence) /\ Small(client.clk, client'.clk)
  <2>1. CASE Quietly(On(st, "inc", Inc))
    <3>1. PICK e \in Due(client) : e.ev = "inc" /\ client' = Inc(Taken(client, e), e)
      BY <2>1 DEF Quietly, On
    <3>2. Basic(client') /\ Following(client', unheard, heard, silence) /\ client'.clk = client.clk
      BY <1>0, <1>1, <3>1, IncKeeps
    <3> QED
      BY <1>0, <3>2, NotMoved
  <2>2. CASE Quietly(On(st, "clock_corr", ClockCorr))
    <3>1. PICK e \in Due(client) : e.ev = "clock_corr" /\ client' = ClockCorr(Taken(client, e), e)
      BY <2>2 DEF Quietly, On
    <3> QED
      BY <1>0, <1>1, <3>1, ClockCorrKeeps
  <2>3. CASE Quietly(On(st, "async_up", AsyncUp))
    <3>1. PICK e \in Due(client) : e.ev = "async_up" /\ client' = AsyncUp(Taken(client, e), e)
      BY <2>3 DEF Quietly, On
    <3>2. Basic(client') /\ Following(client', unheard, heard, silence) /\ client'.clk = client.clk
      BY <1>0, <1>1, <3>1, AsyncUpKeeps
    <3> QED
      BY <1>0, <3>2, NotMoved
  <2> QED
    BY <2>1, <2>2, <2>3
<1> QED
  BY <1>0, <1>2 DEF IInv, history, StepSmall, StepNoticed

(* A tick.                                                                    *)
LEMMA TickSteps ==
  ASSUME IInv, Tick
  PROVE  IInv' /\ StepSmall /\ StepNoticed
<1>0. Basic(client) /\ NothingDue(client) /\ client' = TimePasses(client) /\ UNCHANGED history
  BY DEF IInv, Tick
<1>1. /\ Basic(client') /\ client'.st = client.st /\ Small(client.clk, client'.clk)
      /\ Replaying(client) => Replaying(client')
      /\ Integrating(client) => Integrating(client')
      /\ \A u, h, s : Following(client, u, h, s) => Following(client', u, h, s)
  BY <1>0, TickKeeps
<1> QED
  BY <1>0, <1>1 DEF IInv, history, StepSmall, StepNoticed

(* The invariant is inductive, and every step keeps to its two limits.        *)
LEMMA EveryStep ==
  ASSUME IInv, [Next]_vars
  PROVE  IInv' /\ StepSmall /\ StepNoticed
<1>1. CASE Next
  <2>0. /\ "SYNC" \in Synced /\ SyncThresholdSync = Threshold("SYNC")
        /\ "STABLE" \in Synced /\ StableThresholdSync = Threshold("STABLE")
    BY DEF Synced, Threshold
  <2>1. CASE PseudoInc \/ PseudoCorr \/ IntegrateRCin \/ IntegrateTimeout \/ IntegrateOnFrame
    BY <2>1, UnsyncedSteps
  <2>2. CASE SyncRCin \/ StableRCin
    BY <2>0, <2>2, ArrivalSteps DEF SyncRCin, StableRCin
  <2>3. CASE SyncOnFrame \/ StableOnFrame
    BY <2>0, <2>3, FrameSteps DEF SyncOnFrame, StableOnFrame
  <2>4. CASE SyncOnAsyncEval \/ StableOnAsyncEval
    BY <2>4, AsyncEvalSteps
  <2>5. CASE SyncOnSyncEval \/ StableOnSyncEval
    BY <2>5, SyncEvalSteps
  <2>6. CASE SyncOnInc \/ SyncOnClockCorr \/ SyncOnAsyncUp
    BY <2>0, <2>6, QuietSteps DEF SyncOnInc, SyncOnClockCorr, SyncOnAsyncUp
  <2>7. CASE StableOnInc \/ StableOnClockCorr \/ StableOnAsyncUp
    BY <2>0, <2>7, QuietSteps DEF StableOnInc, StableOnClockCorr, StableOnAsyncUp
  <2>8. CASE Tick
    BY <2>8, TickSteps
  <2> QED
    BY <1>1, <2>1, <2>2, <2>3, <2>4, <2>5, <2>6, <2>7, <2>8 DEF Next
<1>2. CASE UNCHANGED vars
  <2>1. UNCHANGED client /\ UNCHANGED unheard /\ UNCHANGED heard /\ UNCHANGED silence
    BY <1>2 DEF vars
  <2>2. Small(client.clk, client.clk)
    BY NotMoved DEF IInv
  <2> QED
    BY <2>1, <2>2 DEF IInv, StepSmall, StepNoticed
<1> QED
  BY <1>1, <1>2

LEMMA InitHolds == Init => IInv
<1> SUFFICES ASSUME Init PROVE IInv
  OBVIOUS
<1>1. unheard = {} /\ heard = FALSE /\ silence = 0
  BY DEF Init
<1>2. CASE client = Integrate(PowerUp, ListenTimeout)
  BY <1>1, <1>2, IntegrateFirst DEF IInv
<1>3. CASE client = PseudoSync
  BY <1>1, <1>3, PseudoSyncFirst DEF IInv
<1> QED
  BY <1>2, <1>3 DEF Init

(* What the invariant says of a client in each of its states.                  *)
LEMMA InvariantTypes == IInv => TypeOK
<1> SUFFICES ASSUME IInv PROVE TypeOK
  OBVIOUS
<1>1. Basic(client)
  BY DEF IInv
<1>2. client.counter \in 0 .. NumStable + NumUnstable
  BY ClientAssumption DEF IInv, Replaying, Integrating, Following, Counts
<1>3. \A e \in client.pend : e.left \in Nat
  BY <1>1, EventTypes DEF Basic, PendOK
<1> QED
  BY <1>1, <1>2, <1>3 DEF Basic, TypeOK

LEMMA OneOrNone ==
  ASSUME NEW d, NEW x
  PROVE  /\ (\E left : Only(d, x, left)) => Cardinality(Named(d, {x})) = 1
         /\ None(d, x) => Cardinality(Named(d, {x})) = 0
BY FS_Singleton, FS_EmptySet DEF Only, None

LEMMA InvariantWakes == IInv => WakeUps
<1> SUFFICES ASSUME IInv PROVE WakeUps
  OBVIOUS
<1> DEFINE once(ev) == Cardinality(Named(client, {ev})) = 1
<1>1. CASE client.st \in Synced
  <2>1. PICK done \in Phases : OnTime(client, done)
    BY <1>1, Modes DEF Following
  <2>2. \A ev \in Cyclic : once(ev)
    BY <2>1, OneOrNone DEF OnTime, CyclicOnTime
  <2>3. Cardinality(Named(client, {"clock_corr"})) <= 1
    <3>1. Cardinality(Named(client, {"clock_corr"})) = 0 \/ Cardinality(Named(client, {"clock_corr"})) = 1
      BY <2>1, OneOrNone DEF OnTime, Correcting
    <3> QED
      BY <3>1
  <2>4. Named(client, {"ASYNCHRON"}) = {}
    BY <2>1 DEF OnTime, None
  <2>5. client.st # "INTEGRATE"
    BY <1>1 DEF Synced
  <2> QED
    BY <1>1, <2>2, <2>3, <2>4, <2>5, Zenon DEF WakeUps
<1>2. CASE client.st = "INTEGRATE"
  <2>1. Integrating(client) /\ client.timedOut \in BOOLEAN
    BY <1>2, Modes DEF IInv, Basic
  <2>2. Named(client, DOMAIN SlotOf) = {}
    BY <2>1 DEF Integrating, None, Named
  <2>3. client.timedOut = (Named(client, {"ASYNCHRON"}) = {})
    BY <2>1 DEF Integrating, None, Once, Only
  <2>4. client.st \notin Synced
    BY <1>2 DEF Synced
  <2> QED
    BY <1>2, <2>2, <2>3, <2>4 DEF WakeUps
<1>3. CASE client.st \notin Synced /\ client.st # "INTEGRATE"
  <2>1. Replaying(client)
    BY <1>3, Modes DEF IInv, Basic, States
  <2>2. once("inc") /\ once("clock_corr")
    BY <2>1, OneOrNone DEF Replaying, Once
  <2> QED
    BY <1>3, <2>2 DEF WakeUps
<1> QED
  BY <1>1, <1>2, <1>3

LEMMA InvariantLeaves == IInv => LeavesSilence
<1> SUFFICES ASSUME IInv, client.st \in Synced
             PROVE  silence <= (IF client.st = "STABLE" THEN NumUnstable ELSE 0)
  BY DEF LeavesSilence
<1>1. Counts(client, silence) /\ silence \in Nat /\ NumUnstable \in Nat
  BY Modes, ClientAssumption DEF Following, IInv
<1> QED
  BY <1>1 DEF Counts

(* A client is well-formed in every state, has exactly the events of its state *)
(* registered and leaves silence in time: by the invariant, which tells where  *)
(* in the cycle it is.                                                         *)
THEOREM AlwaysConsistent == Spec => []Consistent
<1>1. Init => IInv
  BY InitHolds
<1>2. IInv /\ [Next]_vars => IInv'
  BY EveryStep
<1>3. IInv => Consistent
  BY InvariantTypes, InvariantWakes, InvariantLeaves DEF Consistent
<1> QED
  BY <1>1, <1>2, <1>3, PTL DEF Spec

(* While a client stays synchronised no step moves its clock by more than the  *)
(* precision: every reading in the stack is one of the window, and the         *)
(* correction is due in the only part of the cycle where it is safe.           *)
THEOREM ClockMovesLittle == Spec => StepsWithinPrecision
<1>1. Init => IInv
  BY InitHolds
<1>2. IInv /\ [Next]_vars => IInv'
  BY EveryStep
<1>3. IInv /\ [Next]_vars =>
        [client.st \in Synced /\ client'.st \in Synced =>
           LET ahead == (client'.clk - client.clk) % Cycle
           IN ahead <= Precision \/ Cycle - ahead <= Precision]_vars
  BY EveryStep DEF StepSmall, Small
<1> QED
  BY <1>1, <1>2, <1>3, PTL DEF Spec, StepsWithinPrecision

(* Enough members out of schedule make the client restart at the next          *)
(* evaluation: until then both half-windows hold them, or the one that is      *)
(* evaluated.                                                                  *)
THEOREM CliquesAreNoticed == Spec => CliqueNoticed
<1>1. Init => IInv
  BY InitHolds
<1>2. IInv /\ [Next]_vars => IInv'
  BY EveryStep
<1>3. IInv /\ [Next]_vars =>
        [client.st \in Synced /\ unheard # {} /\ unheard' = {} =>
           (Cardinality(unheard) >= (IF client.st = "SYNC" THEN SyncThresholdAsync ELSE StableThresholdAsync)
              => client'.st = "INTEGRATE")]_vars
  BY EveryStep DEF StepNoticed
<1> QED
  BY <1>1, <1>2, <1>3, PTL DEF Spec, CliqueNoticed
=============================================================================
