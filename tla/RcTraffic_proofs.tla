-------------------------- MODULE RcTraffic_proofs --------------------------
(***************************************************************************)
(* Proofs about RcTraffic for all links, ports, gaps, jitters, priorities, *)
(* buffers and clock corrections.                                          *)
(***************************************************************************)
EXTENDS RcTraffic, IntegerLemmas, TLAPS

(* A buffer keeps its type whatever fields of it an action changes.        *)
LEMMA ResetBagType ==
  ASSUME TypeOK, NEW v \in VLs
  PROVE  ResetBag(v) \in BufferState
<1>1. Delay(v, buffer[v].age) \in 0 .. Jitter[v]
  BY RcAssumption DEF Delay, TypeOK, BufferState
<1>2. Cardinality(Dest[v]) \in Nat
  <2>1. Dest[v] \subseteq Ports
    BY RcAssumption
  <2> QED
    BY <2>1, RcAssumption, FS_Subset, FS_CardinalityType
<1> DEFINE d == Delay(v, buffer[v].age)
<1>3. d \in Nat
  BY <1>1, RcAssumption
<1> HIDE DEF d
<1> DEFINE t == IF buffer[v].numReset + 1 # Cardinality(Dest[v]) THEN buffer[v].timer
                ELSE IF Bag[v] < d THEN 0 ELSE Bag[v] - d
<1>4. t \in Nat \union {None}
  BY <1>2, <1>3, RcAssumption DEF TypeOK, BufferState
<1> DEFINE b == buffer[v]
<1>5. ResetBag(v) = [b EXCEPT !.numReset = @ + 1, !.timer = t]
  BY Zenon DEF ResetBag, d
<1>6. b \in BufferState
  BY DEF TypeOK
<1> HIDE DEF t, b
<1>7. [b EXCEPT !.numReset = @ + 1] \in BufferState
  BY <1>6 DEF BufferState
<1>8. [[b EXCEPT !.numReset = @ + 1] EXCEPT !.timer = t] \in BufferState
  BY <1>4, <1>7 DEF BufferState
<1>9. [b EXCEPT !.numReset = @ + 1, !.timer = t] = [[b EXCEPT !.numReset = @ + 1] EXCEPT !.timer = t]
  BY <1>6 DEF BufferState
<1> QED
  BY <1>5, <1>8, <1>9

LEMMA DequeuedType ==
  ASSUME NEW v \in VLs, NEW b \in BufferState, HasFrame(b)
  PROVE  Dequeued(v, b.frames) \in Nat
BY DEF Dequeued, HasFrame, BufferState

LEMMA EnqueuedType ==
  ASSUME NEW v \in VLs, NEW n \in Nat
  PROVE  Enqueued(v, n) \in Nat
BY DEF Enqueued

LEMMA EmitType ==
  ASSUME TypeOK, NEW v \in VLs, NEW b \in BufferState, HasFrame(b), Emit(v, b)
  PROVE  /\ buffer' \in [VLs -> BufferState]
         /\ wire' \subseteq VLs \X Ports
<1>1. [b EXCEPT !.frames = Dequeued(v, @), !.bagExpired = FALSE, !.numReset = 0]
        \in BufferState
  BY DequeuedType DEF BufferState
<1>2. Dest[v] \subseteq Ports
  BY RcAssumption
<1> QED
  BY <1>1, <1>2 DEF TypeOK, Emit

LEMMA TransmitType ==
  ASSUME TypeOK, NEW v \in VLs, NEW p \in Ports, Transmit(v, p)
  PROVE  /\ buffer' \in [VLs -> BufferState]
         /\ gap' \in [VLs -> [Ports -> Nat]]
BY ResetBagType DEF TypeOK, Transmit

LEMMA QueueOfType ==
  ASSUME NEW v \in VLs
  PROVE  QueueOf(v) \in Priorities
BY RcAssumption DEF QueueOf, Priorities

LEMMA SizeType ==
  ASSUME NEW n \in Int
  PROVE  n % SizeMod \in 0 .. (SizeMod - 1)
BY RcAssumption

LEMMA EnqueueType ==
  ASSUME NEW s \in PortState, NEW v \in VLs
  PROVE  Enqueue(v, s) \in PortState
<1> DEFINE i == QueueOf(v)
           bytes == IF Priority[v] \in Priorities THEN (s.size[i] + Bytes[v]) % SizeMod
                    ELSE s.size[i]
<1>1. i \in Priorities
  BY QueueOfType
<1>2. s.size[i] \in 0 .. (SizeMod - 1) /\ s.size[i] + Bytes[v] \in Int
  BY <1>1, RcAssumption DEF PortState
<1>3. bytes \in 0 .. (SizeMod - 1)
  BY <1>2, SizeType
<1>4. Append(s.queue[i], v) \in Seq(VLs)
  BY <1>1 DEF PortState
<1>5. Enqueue(v, s) = [s EXCEPT !.queue = [s.queue EXCEPT ![i] = Append(s.queue[i], v)],
                                !.size = [s.size EXCEPT ![i] = bytes]]
  BY DEF Enqueue, PortState
<1> DEFINE queues == [s.queue EXCEPT ![i] = Append(s.queue[i], v)]
           sizes == [s.size EXCEPT ![i] = bytes]
<1>6. queues \in [Priorities -> Seq(VLs)] /\ sizes \in [Priorities -> 0 .. (SizeMod - 1)]
  <2> HIDE DEF i, bytes
  <2> QED
    BY <1>1, <1>3, <1>4 DEF PortState
<1> HIDE DEF i, bytes, queues, sizes
<1>7. [s EXCEPT !.queue = queues] \in PortState
  BY <1>6 DEF PortState
<1>8. [[s EXCEPT !.queue = queues] EXCEPT !.size = sizes] \in PortState
  BY <1>6, <1>7 DEF PortState
<1> QED
  BY <1>5, <1>8 DEF queues, sizes

LEMMA UrgentHead ==
  ASSUME TypeOK, NEW p \in Ports, NEW i \in Priorities, Urgent(port[p], i)
  PROVE  /\ Head(port[p].queue[i]) \in VLs
         /\ Tail(port[p].queue[i]) \in Seq(VLs)
BY DEF TypeOK, PortState, Urgent

LEMMA PopRCType ==
  ASSUME TypeOK, NEW p \in Ports, NEW i \in Priorities, Urgent(port[p], i), PopRC(p, i)
  PROVE  /\ buffer' \in [VLs -> BufferState]
         /\ gap' \in [VLs -> [Ports -> Nat]]
         /\ port' \in [Ports -> PortState]
<1> DEFINE v == Head(port[p].queue[i])
           bytes == (port[p].size[i] - Bytes[v]) % SizeMod
           rest == Tail(port[p].queue[i])
<1>1. v \in VLs /\ rest \in Seq(VLs)
  BY UrgentHead
<1>2. port[p].size[i] - Bytes[v] \in Int
  <2>1. port[p].size[i] \in 0 .. (SizeMod - 1)
    BY DEF TypeOK, PortState
  <2>2. Bytes[v] \in Nat
    BY <1>1, RcAssumption
  <2> HIDE DEF v
  <2> QED
    BY <2>1, <2>2, RcAssumption
<1>3. bytes \in 0 .. (SizeMod - 1)
  BY <1>2, SizeType
<1>4. Transmit(v, p)
  BY DEF PopRC
<1>5. port' = [port EXCEPT ![p] =
        [port[p] EXCEPT !.queue = [port[p].queue EXCEPT ![i] = rest],
                        !.size = [port[p].size EXCEPT ![i] = bytes],
                        !.mac = Ticks[v]]]
  BY ZenonT(40) DEF PopRC, TypeOK, PortState
<1>6. Ticks[v] \in Nat
  BY <1>1, RcAssumption
<1> DEFINE s == port[p]
           queues == [s.queue EXCEPT ![i] = rest]
           sizes == [s.size EXCEPT ![i] = bytes]
           ticks == Ticks[v]
<1>7. s \in PortState
  BY DEF TypeOK
<1>8. queues \in [Priorities -> Seq(VLs)] /\ sizes \in [Priorities -> 0 .. (SizeMod - 1)]
  <2> HIDE DEF v, bytes, rest, s
  <2> QED
    BY <1>1, <1>3, <1>7 DEF PortState
<1>9. ticks \in Nat
  BY <1>6
<1>10. port' = [port EXCEPT ![p] = [s EXCEPT !.queue = queues, !.size = sizes, !.mac = ticks]]
  BY <1>5, Zenon
<1> HIDE DEF s, queues, sizes, ticks
<1>11. [s EXCEPT !.queue = queues] \in PortState
  BY <1>7, <1>8 DEF PortState
<1>12. [[s EXCEPT !.queue = queues] EXCEPT !.size = sizes] \in PortState
  BY <1>8, <1>11 DEF PortState
<1>13. [[[s EXCEPT !.queue = queues] EXCEPT !.size = sizes] EXCEPT !.mac = ticks] \in PortState
  BY <1>9, <1>12 DEF PortState
<1>14. [s EXCEPT !.queue = queues, !.size = sizes, !.mac = ticks] \in PortState
  BY <1>13
<1>15. port' \in [Ports -> PortState]
  BY <1>10, <1>14 DEF TypeOK
<1> QED
  BY <1>1, <1>4, <1>15, TransmitType

-----------------------------------------------------------------------------
(* The types and LowerYields support each other: a request of the MAC is   *)
(* only counted when none is open.                                         *)
PortsOK == TypeOK /\ LowerYields

(* LowerYields of one port.                                                *)
Yields(s) ==
  /\ s.pending = 1 <=> s.mac = None
  /\ s.pending = 1 => s.lower = 0 /\ \A i \in Priorities : s.queue[i] = <<>>

(* One field of a record is changed at a time.                             *)
LEMMA AgeSet ==
  ASSUME NEW b \in BufferState, NEW a \in Int
  PROVE  [b EXCEPT !.age = a] \in BufferState
BY DEF BufferState

LEMMA ExpiredSet ==
  ASSUME NEW b \in BufferState
  PROVE  [b EXCEPT !.bagExpired = TRUE] \in BufferState
BY DEF BufferState

LEMMA TimerSet ==
  ASSUME NEW b \in BufferState, NEW t \in Nat \union {None}
  PROVE  [b EXCEPT !.timer = t] \in BufferState
BY DEF BufferState

LEMMA MacSet ==
  ASSUME NEW s \in PortState, NEW m \in Nat \union {None}
  PROVE  LET t == [s EXCEPT !.mac = m] IN
         /\ t \in PortState /\ t.mac = m
         /\ t.queue = s.queue /\ t.lower = s.lower /\ t.pending = s.pending
BY DEF PortState

LEMMA PendingSet ==
  ASSUME NEW s \in PortState, NEW n \in {0, 1}
  PROVE  LET t == [s EXCEPT !.pending = n] IN
         /\ t \in PortState /\ t.pending = n
         /\ t.queue = s.queue /\ t.lower = s.lower /\ t.mac = s.mac
BY DEF PortState

LEMMA LowerSet ==
  ASSUME NEW s \in PortState, NEW n \in Nat
  PROVE  LET t == [s EXCEPT !.lower = n] IN
         /\ t \in PortState /\ t.lower = n
         /\ t.queue = s.queue /\ t.pending = s.pending /\ t.mac = s.mac
BY DEF PortState

LEMMA PortStep ==
  ASSUME PortsOK, NEW p \in Ports, NEW s \in PortState, Yields(s),
         port' = [port EXCEPT ![p] = s]
  PROVE  port' \in [Ports -> PortState] /\ LowerYields'
<1>1. port' \in [Ports -> PortState] /\ port'[p] = s
  BY DEF PortsOK, TypeOK
<1>2. \A q \in Ports \ {p} : port'[q] = port[q]
  BY DEF PortsOK, TypeOK
<1>3. ASSUME NEW q \in Ports PROVE Yields(port'[q])
  <2>1. CASE q = p
    BY <1>1, <2>1
  <2>2. CASE q # p
    <3>1. Yields(port[q])
      BY DEF PortsOK, LowerYields, Yields
    <3> QED
      BY <3>1, <1>2, <2>2
  <2> QED
    BY <2>1, <2>2
<1> QED
  BY <1>1, <1>3 DEF LowerYields, Yields

LEMMA YieldsNow ==
  ASSUME PortsOK, NEW p \in Ports
  PROVE  port[p] \in PortState /\ Yields(port[p])
BY DEF PortsOK, TypeOK, LowerYields, Yields

LEMMA PortsKept ==
  ASSUME PortsOK, UNCHANGED port,
         buffer' \in [VLs -> BufferState], wire' \subseteq VLs \X Ports,
         UNCHANGED <<shift, gap>>
  PROVE  PortsOK'
BY DEF PortsOK, TypeOK, LowerYields

LEMMA InitPorts == Init => PortsOK
<1> SUFFICES ASSUME Init PROVE PortsOK
  OBVIOUS
<1>1. buffer \in [VLs -> BufferState]
  BY DEF Init, BufferState
<1> DEFINE s == [queue |-> [i \in Priorities |-> <<>>], size |-> [i \in Priorities |-> 0],
                 lower |-> 0, pending |-> 1, mac |-> None]
<1>2. s \in PortState /\ Yields(s)
  BY RcAssumption DEF PortState, Yields
<1>3. port = [p \in Ports |-> s]
  BY DEF Init
<1> HIDE DEF s
<1>4. port \in [Ports -> PortState] /\ \A p \in Ports : Yields(port[p])
  BY <1>2, <1>3
<1>5. gap \in [VLs -> [Ports -> Nat]]
  <2>1. gap = [v \in VLs |-> [p \in Ports |-> Bag[v]]]
    BY DEF Init
  <2> QED
    BY <2>1, RcAssumption
<1>6. wire \subseteq VLs \X Ports /\ shift \in Int
  <2>1. wire = {} /\ shift = 0
    BY DEF Init
  <2> QED
    BY <2>1
<1>7. LowerYields
  BY <1>4 DEF LowerYields, Yields
<1> QED
  BY <1>1, <1>4, <1>5, <1>6, <1>7 DEF PortsOK, TypeOK

LEMMA ArrivePorts ==
  ASSUME PortsOK, NEW v \in VLs, Arrive(v)
  PROVE  PortsOK'
<1>1. PICK fits \in BOOLEAN, onIn \in BOOLEAN :
        LET b == IF fits THEN [buffer[v] EXCEPT !.frames = Enqueued(v, @)] ELSE buffer[v] IN
        IF onIn /\ b.bagExpired /\ HasFrame(b) THEN Emit(v, b)
        ELSE buffer' = [buffer EXCEPT ![v] = b] /\ UNCHANGED wire
  BY DEF Arrive
<1> DEFINE b == IF fits THEN [buffer[v] EXCEPT !.frames = Enqueued(v, @)] ELSE buffer[v]
<1>2. b \in BufferState
  BY EnqueuedType DEF PortsOK, TypeOK, BufferState
<1>3. IF onIn /\ b.bagExpired /\ HasFrame(b) THEN Emit(v, b)
      ELSE buffer' = [buffer EXCEPT ![v] = b] /\ UNCHANGED wire
  BY <1>1
<1> HIDE DEF b
<1>4. buffer' \in [VLs -> BufferState] /\ wire' \subseteq VLs \X Ports
  BY <1>2, <1>3, EmitType DEF PortsOK, TypeOK
<1>5. UNCHANGED <<port, shift, gap>>
  BY DEF Arrive
<1> QED
  BY <1>4, <1>5, PortsKept

LEMMA BagExpiresPorts ==
  ASSUME PortsOK, NEW v \in VLs, BagExpires(v)
  PROVE  PortsOK'
<1> DEFINE b == [buffer[v] EXCEPT !.timer = None]
<1>1. b \in BufferState
  BY DEF PortsOK, TypeOK, BufferState
<1>2. IF HasFrame(b) THEN Emit(v, [b EXCEPT !.age = 0])
      ELSE buffer' = [buffer EXCEPT ![v] = [b EXCEPT !.bagExpired = TRUE]] /\ UNCHANGED wire
  BY DEF BagExpires
<1> HIDE DEF b
<1> DEFINE young == [b EXCEPT !.age = 0]
           expired == [b EXCEPT !.bagExpired = TRUE]
<1>3. young \in BufferState /\ expired \in BufferState
  BY <1>1, AgeSet, ExpiredSet
<1>4. HasFrame(b) => HasFrame(young)
  BY <1>1 DEF BufferState, HasFrame
<1> HIDE DEF young, expired
<1>5. buffer' \in [VLs -> BufferState] /\ wire' \subseteq VLs \X Ports
  <2>1. CASE HasFrame(b)
    <3>1. Emit(v, young)
      BY <1>2, <2>1 DEF young
    <3> QED
      BY <1>3, <1>4, <2>1, <3>1, EmitType DEF PortsOK
  <2>2. CASE ~HasFrame(b)
    <3>1. buffer' = [buffer EXCEPT ![v] = expired] /\ UNCHANGED wire
      BY <1>2, <2>2 DEF expired
    <3> QED
      BY <1>3, <3>1 DEF PortsOK, TypeOK
  <2> QED
    BY <2>1, <2>2
<1>6. UNCHANGED <<port, shift, gap>>
  BY DEF BagExpires
<1> QED
  BY <1>5, <1>6, PortsKept

LEMMA SwitchPorts ==
  ASSUME PortsOK, NEW v \in VLs, Switch(v)
  PROVE  PortsOK'
<1>1. buffer' \in [VLs -> BufferState]
  BY DEF Switch, PortsOK, TypeOK, BufferState
<1>2. UNCHANGED <<wire, port, shift, gap>>
  BY DEF Switch
<1> QED
  BY <1>1, <1>2, PortsKept DEF PortsOK, TypeOK

LEMMA EnqueueYields ==
  ASSUME NEW s \in PortState, NEW v \in VLs, Yields(s), s.pending # 1
  PROVE  Yields(Enqueue(v, s))
<1>1. Enqueue(v, s).pending = s.pending /\ Enqueue(v, s).mac = s.mac
  BY DEF Enqueue, PortState
<1> QED
  BY <1>1 DEF Yields

LEMMA FromBufferPorts ==
  ASSUME PortsOK, NEW v \in VLs, NEW p \in Ports, FromBuffer(v, p)
  PROVE  PortsOK'
<1>1. wire' \subseteq VLs \X Ports /\ shift' \in Int
  BY DEF PortsOK, TypeOK, FromBuffer
<1>2. port[p] \in PortState /\ Yields(port[p])
  BY YieldsNow
<1>3. CASE port[p].pending > 0
  <2>1. Transmit(v, p) /\ port' = [port EXCEPT ![p].pending = @ - 1, ![p].mac = Ticks[v]]
    BY <1>3 DEF FromBuffer
  <2>2. buffer' \in [VLs -> BufferState] /\ gap' \in [VLs -> [Ports -> Nat]]
    BY <2>1, TransmitType DEF PortsOK
  <2> DEFINE s == port[p]
             ticks == Ticks[v]
             u == [s EXCEPT !.pending = 0]
             t == [u EXCEPT !.mac = ticks]
  <2>3. s.pending = 1 /\ ticks \in Nat
    BY <1>2, <1>3, RcAssumption DEF PortState
  <2>4. port' = [port EXCEPT ![p] = t]
    <3>1. s.pending - 1 = 0
      BY <2>3
    <3>2. port' = [port EXCEPT ![p] = [s EXCEPT !.pending = s.pending - 1, !.mac = ticks]]
      BY <2>1, Zenon DEF PortsOK, TypeOK
    <3> QED
      BY <3>1, <3>2, Zenon
  <2>5. s \in PortState
    BY <1>2
  <2> HIDE DEF s, ticks
  <2>6. t \in PortState /\ t.pending = 0 /\ t.mac = ticks
    <3>1. u \in PortState /\ u.pending = 0
      BY <2>5, PendingSet
    <3> HIDE DEF u
    <3> QED
      BY <2>3, <3>1, MacSet
  <2> HIDE DEF t
  <2>7. Yields(t)
    BY <2>3, <2>6 DEF Yields, None
  <2>8. port' \in [Ports -> PortState] /\ LowerYields'
    BY <2>4, <2>6, <2>7, PortStep
  <2> QED
    BY <1>1, <2>2, <2>8 DEF PortsOK, TypeOK
<1>4. CASE ~(port[p].pending > 0)
  <2> DEFINE t == Enqueue(v, port[p])
  <2>1. port' = [port EXCEPT ![p] = t] /\ UNCHANGED <<buffer, gap>>
    BY <1>4 DEF FromBuffer
  <2>2. t \in PortState
    BY <1>2, EnqueueType
  <2>3. port[p].pending # 1
    BY <1>4
  <2>4. Yields(t)
    BY <1>2, <2>3, EnqueueYields
  <2> HIDE DEF t
  <2>5. port' \in [Ports -> PortState] /\ LowerYields'
    BY <2>1, <2>2, <2>4, PortStep
  <2> QED
    BY <1>1, <2>1, <2>5 DEF PortsOK, TypeOK
<1> QED
  BY <1>3, <1>4

LEMMA FromLowerPorts ==
  ASSUME PortsOK, NEW p \in Ports, FromLower(p)
  PROVE  PortsOK'
<1> DEFINE s == port[p]
<1>1. s \in PortState /\ Yields(s)
  BY YieldsNow
<1>2. UNCHANGED <<buffer, wire, shift, gap>>
  BY DEF FromLower
<1>3. CASE port[p].pending > 0
  <2> DEFINE u == [s EXCEPT !.pending = 0]
             t == [u EXCEPT !.mac = LowerTicks]
  <2>1. s.pending = 1
    BY <1>1, <1>3 DEF PortState
  <2>2. port' = [port EXCEPT ![p] = t]
    <3>1. s.pending - 1 = 0
      BY <2>1
    <3>2. port' = [port EXCEPT ![p] = [s EXCEPT !.pending = s.pending - 1, !.mac = LowerTicks]]
      BY <1>3, Zenon DEF FromLower, PortsOK, TypeOK
    <3> QED
      BY <3>1, <3>2, Zenon
  <2> HIDE DEF s
  <2>3. t \in PortState /\ t.pending = 0 /\ t.mac = LowerTicks
    <3>1. u \in PortState /\ u.pending = 0
      BY <1>1, PendingSet
    <3> HIDE DEF u
    <3> QED
      BY <3>1, MacSet, RcAssumption
  <2> HIDE DEF t
  <2>4. Yields(t)
    BY <2>3, RcAssumption DEF Yields, None
  <2>5. port' \in [Ports -> PortState] /\ LowerYields'
    BY <2>2, <2>3, <2>4, PortStep
  <2> QED
    BY <1>2, <2>5 DEF PortsOK, TypeOK
<1>4. CASE ~(port[p].pending > 0)
  <2> DEFINE t == [s EXCEPT !.lower = s.lower + 1]
  <2>1. port' = [port EXCEPT ![p] = t]
    BY <1>4, Zenon DEF FromLower, PortsOK, TypeOK
  <2>2. s.lower + 1 \in Nat
    BY <1>1 DEF PortState
  <2>3. t \in PortState /\ t.pending = s.pending /\ t.mac = s.mac
    BY <1>1, <2>2, LowerSet
  <2>4. s.pending # 1
    BY <1>4
  <2> HIDE DEF s, t
  <2>5. Yields(t)
    BY <1>1, <2>3, <2>4 DEF Yields
  <2>6. port' \in [Ports -> PortState] /\ LowerYields'
    BY <2>1, <2>3, <2>5, PortStep
  <2> QED
    BY <1>2, <2>6 DEF PortsOK, TypeOK
<1> QED
  BY <1>3, <1>4

(* When no priority is the first with frames, all queues are empty.        *)
LEMMA NoUrgent ==
  ASSUME NEW s, \A i \in Priorities : ~Urgent(s, i)
  PROVE  \A i \in Priorities : s.queue[i] = <<>>
<1> DEFINE busy == {i \in Priorities : s.queue[i] # <<>>}
<1>1. SUFFICES ASSUME busy # {} PROVE FALSE
  OBVIOUS
<1>2. busy \subseteq Nat
  BY RcAssumption DEF Priorities
<1>3. PICK i \in busy : \A j \in busy : i <= j
  <2>1. IsFiniteSet(Priorities)
    BY RcAssumption, FS_Interval DEF Priorities
  <2>2. IsFiniteSet(busy)
    BY <2>1, FS_Subset
  <2>3. busy \in SUBSET Int
    BY <1>2
  <2> HIDE DEF busy
  <2> QED
    BY <1>1, <2>2, <2>3, LeastInteger
<1>4. Urgent(s, i)
  BY <1>2, <1>3 DEF Urgent
<1> QED
  BY <1>4

LEMMA RequestPacketPorts ==
  ASSUME PortsOK, NEW p \in Ports, RequestPacket(p)
  PROVE  PortsOK'
<1> DEFINE s == port[p]
<1>1. s \in PortState /\ Yields(s)
  BY YieldsNow
<1>2. UNCHANGED <<wire, shift>> /\ s.mac = 0
  BY DEF RequestPacket
<1>3. s.pending = 0
  BY <1>1, <1>2 DEF PortState, Yields, None
<1>4. CASE \E i \in Priorities : Urgent(port[p], i)
  <2>1. PICK i \in Priorities : Urgent(port[p], i) /\ PopRC(p, i)
    BY <1>4 DEF RequestPacket
  <2>2. /\ buffer' \in [VLs -> BufferState] /\ gap' \in [VLs -> [Ports -> Nat]]
        /\ port' \in [Ports -> PortState]
    BY <2>1, PopRCType DEF PortsOK
  <2> DEFINE v == Head(port[p].queue[i])
  <2>3. v \in VLs /\ Ticks[v] \in Nat
    BY <2>1, UrgentHead, RcAssumption DEF PortsOK
  <2> DEFINE t == [s EXCEPT !.queue[i] = Tail(@), !.size[i] = (@ - Bytes[v]) % SizeMod,
                            !.mac = Ticks[v]]
  <2>4. port' = [port EXCEPT ![p] = t]
    BY <2>1, Zenon DEF PopRC, PortsOK, TypeOK
  <2>5. t.pending = s.pending /\ t.mac = Ticks[v]
    BY <1>1 DEF PortState
  <2>6. t = port'[p]
    BY <2>4 DEF PortsOK, TypeOK
  <2>7. t \in PortState
    BY <2>2, <2>6
  <2> HIDE DEF t, s, v
  <2>8. Yields(t)
    BY <1>3, <2>3, <2>5 DEF Yields, None
  <2>9. LowerYields'
    BY <2>4, <2>7, <2>8, PortStep
  <2> QED
    BY <1>2, <2>2, <2>9 DEF PortsOK, TypeOK
<1>5. CASE ~(\E i \in Priorities : Urgent(port[p], i)) /\ port[p].lower > 0
  <2> DEFINE u == [s EXCEPT !.lower = s.lower - 1]
             t == [u EXCEPT !.mac = LowerTicks]
  <2>1. PopLower(p)
    BY <1>5 DEF RequestPacket
  <2>2. port' = [port EXCEPT ![p] = t] /\ UNCHANGED <<buffer, gap>>
    BY <2>1 DEF PopLower, PortsOK, TypeOK
  <2>3. s.lower > 0
    BY <1>5
  <2> HIDE DEF s
  <2>4. t \in PortState /\ t.pending = s.pending /\ t.mac = LowerTicks
    <3>1. s.lower - 1 \in Nat
      BY <1>1, <2>3 DEF PortState
    <3>2. u \in PortState /\ u.pending = s.pending
      BY <1>1, <3>1, LowerSet
    <3> HIDE DEF u
    <3> QED
      BY <3>2, MacSet, RcAssumption
  <2> HIDE DEF t
  <2>5. Yields(t)
    BY <1>3, <2>4, RcAssumption DEF Yields, None
  <2>6. port' \in [Ports -> PortState] /\ LowerYields'
    BY <2>2, <2>4, <2>5, PortStep
  <2> QED
    BY <1>2, <2>2, <2>6 DEF PortsOK, TypeOK
<1>6. CASE ~(\E i \in Priorities : Urgent(port[p], i)) /\ ~(port[p].lower > 0)
  <2> DEFINE u == [s EXCEPT !.pending = s.pending + 1]
             t == [u EXCEPT !.mac = None]
  <2>1. port' = [port EXCEPT ![p] = t] /\ UNCHANGED <<buffer, gap>>
    BY <1>6 DEF RequestPacket, PortsOK, TypeOK
  <2>2. \A i \in Priorities : ~Urgent(s, i)
    BY <1>6
  <2>3. ~(s.lower > 0)
    BY <1>6
  <2> HIDE DEF s
  <2>4. \A i \in Priorities : s.queue[i] = <<>>
    BY <2>2, NoUrgent
  <2>5. /\ t \in PortState /\ t.pending = 1 /\ t.mac = None
        /\ t.lower = 0 /\ t.queue = s.queue
    <3>1. s.pending + 1 = 1 /\ s.lower = 0
      BY <1>1, <1>3, <2>3 DEF PortState
    <3>2. u \in PortState /\ u.pending = 1 /\ u.lower = s.lower /\ u.queue = s.queue
      BY <1>1, <3>1, PendingSet
    <3> HIDE DEF u
    <3> QED
      BY <3>1, <3>2, MacSet
  <2> HIDE DEF t
  <2>6. Yields(t)
    BY <2>4, <2>5 DEF Yields
  <2>7. port' \in [Ports -> PortState] /\ LowerYields'
    BY <2>1, <2>5, <2>6, PortStep
  <2> QED
    BY <1>2, <2>1, <2>7 DEF PortsOK, TypeOK
<1> QED
  BY <1>4, <1>5, <1>6

LEMMA ClockCorrectionPorts ==
  ASSUME PortsOK, NEW correction \in Corrections, ClockCorrection(correction)
  PROVE  PortsOK'
<1>1. correction \in Int
  BY RcAssumption
<1>2. ASSUME NEW v \in VLs
      PROVE  [buffer[v] EXCEPT !.age = AtMost(MaxAge(v), @ + correction)] \in BufferState
  <2> DEFINE b == buffer[v]
             a == AtMost(MaxAge(v), b.age + correction)
  <2>1. b \in BufferState
    BY DEF PortsOK, TypeOK
  <2> HIDE DEF b
  <2>2. a \in Int
    BY <1>1, <2>1, RcAssumption DEF BufferState, AtMost, MaxAge
  <2> HIDE DEF a
  <2>3. [b EXCEPT !.age = a] \in BufferState
    BY <2>1, <2>2, AgeSet
  <2> QED
    BY <2>3 DEF a, b
<1>3. buffer' \in [VLs -> BufferState]
  BY <1>2 DEF ClockCorrection
<1>4. UNCHANGED <<wire, port, gap>> /\ shift' = shift + correction
  BY DEF ClockCorrection
<1>5. shift' \in Int
  BY <1>1, <1>4 DEF PortsOK, TypeOK
<1> QED
  BY <1>3, <1>4, <1>5 DEF PortsOK, TypeOK, LowerYields

LEMMA TickPorts ==
  ASSUME PortsOK, Tick
  PROVE  PortsOK'
<1>1. ASSUME NEW v \in VLs
      PROVE  [buffer[v] EXCEPT !.timer = Down(@), !.age = AtMost(MaxAge(v), @ + 1)]
               \in BufferState
  <2> DEFINE b == buffer[v]
             t == Down(b.timer)
             a == AtMost(MaxAge(v), b.age + 1)
  <2>1. b \in BufferState /\ b.timer # 0
    BY DEF Tick, PortsOK, TypeOK
  <2> HIDE DEF b
  <2>2. t \in Nat \union {None}
    BY <2>1 DEF BufferState, Down, None
  <2>3. a \in Int
    BY <2>1, RcAssumption DEF BufferState, AtMost, MaxAge
  <2> HIDE DEF t, a
  <2>4. [b EXCEPT !.timer = t, !.age = a] \in BufferState
    BY <2>1, <2>2, <2>3 DEF BufferState
  <2> QED
    BY <2>4 DEF b, t, a
<1>2. buffer' \in [VLs -> BufferState]
  BY <1>1 DEF Tick
<1>3. ASSUME NEW p \in Ports
      PROVE  /\ [port[p] EXCEPT !.mac = Down(@)] \in PortState
             /\ Yields([port[p] EXCEPT !.mac = Down(@)])
  <2> DEFINE s == port[p]
             m == Down(s.mac)
             t == [s EXCEPT !.mac = m]
  <2>1. s \in PortState /\ Yields(s) /\ s.mac # 0
    BY YieldsNow DEF Tick
  <2> HIDE DEF s
  <2>2. m \in Nat \union {None} /\ (m = None <=> s.mac = None)
    BY <2>1 DEF PortState, Down, None
  <2> HIDE DEF m
  <2>3. /\ t \in PortState /\ t.mac = m /\ t.pending = s.pending
        /\ t.lower = s.lower /\ t.queue = s.queue
    BY <2>1, <2>2 DEF PortState
  <2> HIDE DEF t
  <2>4. t \in PortState /\ Yields(t)
    BY <2>1, <2>2, <2>3 DEF Yields
  <2> QED
    BY <2>4 DEF t, m, s
<1>4. port' = [p \in Ports |-> [port[p] EXCEPT !.mac = Down(@)]]
  BY DEF Tick
<1>5. port' \in [Ports -> PortState] /\ \A p \in Ports : Yields(port'[p])
  BY <1>3, <1>4
<1>6. gap' \in [VLs -> [Ports -> Nat]]
  <2>1. gap' = [v \in VLs |-> [p \in Ports |-> AtMost(Bag[v], gap[v][p] + 1)]]
    BY DEF Tick
  <2>2. ASSUME NEW v \in VLs, NEW p \in Ports PROVE AtMost(Bag[v], gap[v][p] + 1) \in Nat
    BY RcAssumption DEF PortsOK, TypeOK, AtMost
  <2> QED
    BY <2>1, <2>2
<1>7. UNCHANGED <<wire, shift>>
  BY DEF Tick
<1>8. LowerYields'
  BY <1>5 DEF LowerYields, Yields
<1> QED
  BY <1>2, <1>5, <1>6, <1>7, <1>8 DEF PortsOK, TypeOK

LEMMA PortsStep == PortsOK /\ [Next]_vars => PortsOK'
<1> SUFFICES ASSUME PortsOK, [Next]_vars PROVE PortsOK'
  OBVIOUS
<1>1. CASE \E v \in VLs : BagExpires(v)
  BY <1>1, BagExpiresPorts
<1>2. CASE \E v \in VLs, p \in Ports : FromBuffer(v, p)
  BY <1>2, FromBufferPorts
<1>3. CASE \E p \in Ports : RequestPacket(p)
  BY <1>3, RequestPacketPorts
<1>4. CASE Tick
  BY <1>4, TickPorts
<1>5. CASE \E v \in VLs : Arrive(v)
  BY <1>5, ArrivePorts
<1>6. CASE \E v \in Switched : Switch(v)
  BY <1>6, SwitchPorts, RcAssumption
<1>7. CASE \E p \in Ports : FromLower(p)
  BY <1>7, FromLowerPorts
<1>8. CASE \E correction \in Corrections : ClockCorrection(correction)
  BY <1>8, ClockCorrectionPorts
<1>9. CASE UNCHANGED vars
  BY <1>9 DEF vars, PortsOK, TypeOK, LowerYields
<1> QED
  BY <1>1, <1>2, <1>3, <1>4, <1>5, <1>6, <1>7, <1>8, <1>9 DEF Next, Progress

LEMMA PortsInvariant == Spec => []PortsOK
<1> QED
  BY InitPorts, PortsStep, PTL DEF Spec

(* Every variable keeps its type: no queue holds anything but frames of    *)
(* links, no counter leaves its range, and the MAC never has two requests  *)
(* open.                                                                   *)
THEOREM TypeCorrect == Spec => []TypeOK
BY PortsInvariant, PTL DEF PortsOK

(* A port passes a frame of a lower class on at once only when all its     *)
(* queues are empty, and its request is open exactly while its MAC is idle.*)
THEOREM LowerAlwaysYields == Spec => []LowerYields
BY PortsInvariant, PTL DEF PortsOK

-----------------------------------------------------------------------------
(* Which frames of lower classes a step starts.                            *)
NoneStarts == \A q \in Ports : ~(port'[q].lower < port[q].lower)

LEMMA LowerKept ==
  ASSUME PortsOK, NEW p \in Ports, NEW t,
         port' = [port EXCEPT ![p] = t], ~(t.lower < port[p].lower)
  PROVE  NoneStarts
<1> SUFFICES ASSUME NEW q \in Ports PROVE ~(port'[q].lower < port[q].lower)
  BY DEF NoneStarts
<1>1. port[q].lower \in Nat
  BY DEF PortsOK, TypeOK, PortState
<1>2. port'[q] = IF q = p THEN t ELSE port[q]
  BY DEF PortsOK, TypeOK
<1> QED
  BY <1>1, <1>2

LEMMA NothingStarts ==
  ASSUME PortsOK, UNCHANGED port
  PROVE  NoneStarts
BY DEF NoneStarts, PortsOK, TypeOK, PortState

LEMMA FromBufferStarts ==
  ASSUME PortsOK, NEW v \in VLs, NEW p \in Ports, FromBuffer(v, p)
  PROVE  NoneStarts
<1> DEFINE s == port[p]
<1>1. s \in PortState
  BY DEF PortsOK, TypeOK
<1>2. CASE port[p].pending > 0
  <2> DEFINE t == [s EXCEPT !.pending = s.pending - 1, !.mac = Ticks[v]]
  <2>1. port' = [port EXCEPT ![p] = t]
    BY <1>2 DEF FromBuffer, PortsOK, TypeOK
  <2>2. ~(t.lower < s.lower)
    BY <1>1 DEF PortState
  <2> HIDE DEF t
  <2> QED
    BY <2>1, <2>2, LowerKept
<1>3. CASE ~(port[p].pending > 0)
  <2>1. port' = [port EXCEPT ![p] = Enqueue(v, s)]
    BY <1>3 DEF FromBuffer, PortsOK, TypeOK
  <2>2. ~(Enqueue(v, s).lower < s.lower)
    BY <1>1 DEF Enqueue, PortState
  <2> QED
    BY <2>1, <2>2, LowerKept
<1> QED
  BY <1>2, <1>3

LEMMA FromLowerStarts ==
  ASSUME PortsOK, NEW p \in Ports, FromLower(p)
  PROVE  NoneStarts
<1> DEFINE s == port[p]
<1>1. s \in PortState
  BY DEF PortsOK, TypeOK
<1>2. s.lower \in Nat
  BY <1>1 DEF PortState
<1>3. CASE port[p].pending > 0
  <2> DEFINE t == [s EXCEPT !.pending = s.pending - 1, !.mac = LowerTicks]
  <2>1. port' = [port EXCEPT ![p] = t]
    BY <1>3 DEF FromLower, PortsOK, TypeOK
  <2>2. ~(t.lower < s.lower)
    BY <1>1 DEF PortState
  <2> HIDE DEF t
  <2> QED
    BY <2>1, <2>2, LowerKept
<1>4. CASE ~(port[p].pending > 0)
  <2> DEFINE t == [s EXCEPT !.lower = s.lower + 1]
  <2>1. port' = [port EXCEPT ![p] = t]
    BY <1>4, Zenon DEF FromLower, PortsOK, TypeOK
  <2>2. ~(t.lower < s.lower)
    BY <1>1, <1>2 DEF PortState
  <2> HIDE DEF t
  <2> QED
    BY <2>1, <2>2, LowerKept
<1> QED
  BY <1>3, <1>4

LEMMA TickStarts ==
  ASSUME PortsOK, Tick
  PROVE  NoneStarts
<1> SUFFICES ASSUME NEW q \in Ports PROVE ~(port'[q].lower < port[q].lower)
  BY DEF NoneStarts
<1>1. port[q] \in PortState
  BY DEF PortsOK, TypeOK
<1>2. port'[q] = [port[q] EXCEPT !.mac = Down(port[q].mac)]
  BY DEF Tick
<1> QED
  BY <1>1, <1>2 DEF PortState

(* A port that a lower frame starts from has no frames queued: its MAC     *)
(* asked for a frame and none was the first in a queue.                    *)
LEMMA RequestPacketStarts ==
  ASSUME PortsOK, NEW p \in Ports, RequestPacket(p), NEW q \in Ports,
         port'[q].lower < port[q].lower
  PROVE  \A i \in Priorities : port[q].queue[i] = <<>>
<1> DEFINE s == port[p]
<1>1. s \in PortState
  BY DEF PortsOK, TypeOK
<1>2. CASE \E i \in Priorities : Urgent(port[p], i)
  <2>1. PICK i \in Priorities : PopRC(p, i)
    BY <1>2 DEF RequestPacket
  <2> DEFINE v == Head(port[p].queue[i])
             t == [s EXCEPT !.queue[i] = Tail(@), !.size[i] = (@ - Bytes[v]) % SizeMod,
                            !.mac = Ticks[v]]
  <2>2. port' = [port EXCEPT ![p] = t]
    BY <2>1, Zenon DEF PopRC, PortsOK, TypeOK
  <2>3. ~(t.lower < s.lower)
    BY <1>1 DEF PortState
  <2> HIDE DEF t
  <2>4. NoneStarts
    BY <2>2, <2>3, LowerKept
  <2> QED
    BY <2>4 DEF NoneStarts
<1>3. CASE ~(\E i \in Priorities : Urgent(port[p], i))
  <2>1. \A i \in Priorities : port[p].queue[i] = <<>>
    BY <1>3, NoUrgent
  <2>2. port'[q] = port[q] \/ q = p
    BY <1>3 DEF RequestPacket, PopLower, PortsOK, TypeOK
  <2>3. port[q].lower \in Nat
    BY DEF PortsOK, TypeOK, PortState
  <2>4. q = p
    BY <2>2, <2>3
  <2> QED
    BY <2>1, <2>4
<1> QED
  BY <1>2, <1>3

LEMMA LowerStartsStep ==
  ASSUME PortsOK, [Next]_vars, NEW q \in Ports, port'[q].lower < port[q].lower
  PROVE  \A i \in Priorities : port[q].queue[i] = <<>>
<1>1. ~NoneStarts
  BY DEF NoneStarts
<1>2. CASE \E p \in Ports : RequestPacket(p)
  BY <1>2, RequestPacketStarts
<1>3. CASE \/ \E v \in VLs : BagExpires(v)
           \/ \E v \in VLs : Arrive(v)
           \/ \E v \in Switched : Switch(v)
           \/ \E correction \in Corrections : ClockCorrection(correction)
           \/ UNCHANGED vars
  <2>1. ASSUME NEW v \in VLs, BagExpires(v) PROVE UNCHANGED port
    BY <2>1 DEF BagExpires
  <2>2. ASSUME NEW v \in VLs, Arrive(v) PROVE UNCHANGED port
    BY <2>2 DEF Arrive
  <2>3. ASSUME NEW v \in Switched, Switch(v) PROVE UNCHANGED port
    BY <2>3 DEF Switch
  <2>4. ASSUME NEW correction \in Corrections, ClockCorrection(correction)
        PROVE UNCHANGED port
    BY <2>4 DEF ClockCorrection
  <2>5. UNCHANGED vars => UNCHANGED port
    BY DEF vars
  <2>6. UNCHANGED port
    BY <1>3, <2>1, <2>2, <2>3, <2>4, <2>5
  <2> QED
    BY <1>1, <2>6, NothingStarts
<1>4. CASE \E v \in VLs, p \in Ports : FromBuffer(v, p)
  BY <1>1, <1>4, FromBufferStarts
<1>5. CASE \E p \in Ports : FromLower(p)
  BY <1>1, <1>5, FromLowerStarts
<1>6. CASE Tick
  BY <1>1, <1>6, TickStarts
<1> QED
  BY <1>2, <1>3, <1>4, <1>5, <1>6, Zenon DEF Next, Progress

(* No frame of a lower class that waits in a port starts before all its    *)
(* rate-constrained queues are empty.                                      *)
THEOREM LowerNeverOvertakes == Spec => LowerStartsAlone
<1>1. PortsOK /\ [Next]_vars =>
        [\A p \in Ports : port'[p].lower < port[p].lower =>
           \A i \in Priorities : port[p].queue[i] = <<>>]_vars
  BY LowerStartsStep
<1> QED
  BY <1>1, PortsInvariant, PTL DEF Spec, LowerStartsAlone

-----------------------------------------------------------------------------
(* What the queues of a port hold.                                         *)
At(q, u) == \E n \in DOMAIN q : q[n] = u

Distinct(q) == \A n, m \in DOMAIN q : q[n] = q[m] => n = m

Holds(s, u) == \E i \in Priorities : At(s.queue[i], u)

(* No frame is in the queues of the port twice.                            *)
Clean(s) ==
  /\ \A i \in Priorities : Distinct(s.queue[i])
  /\ \A i, j \in Priorities, u \in VLs :
       At(s.queue[i], u) /\ At(s.queue[j], u) => i = j

LEMMA AppendAt ==
  ASSUME NEW q \in Seq(VLs), NEW v \in VLs
  PROVE  /\ \A u \in VLs : At(Append(q, v), u) <=> At(q, u) \/ u = v
         /\ Distinct(q) /\ ~At(q, v) => Distinct(Append(q, v))
<1>1. /\ DOMAIN Append(q, v) = DOMAIN q \union {Len(q) + 1}
      /\ Append(q, v)[Len(q) + 1] = v
      /\ \A n \in DOMAIN q : Append(q, v)[n] = q[n]
      /\ Len(q) + 1 \notin DOMAIN q
  OBVIOUS
<1>2. ASSUME NEW u \in VLs PROVE At(Append(q, v), u) <=> At(q, u) \/ u = v
  BY <1>1 DEF At
<1>3. ASSUME Distinct(q), ~At(q, v) PROVE Distinct(Append(q, v))
  BY <1>1, <1>3 DEF At, Distinct
<1> QED
  BY <1>2, <1>3

LEMMA TailAt ==
  ASSUME NEW q \in Seq(VLs), q # <<>>, Distinct(q)
  PROVE  /\ \A u \in VLs : At(Tail(q), u) <=> At(q, u) /\ u # Head(q)
         /\ Distinct(Tail(q))
         /\ At(q, Head(q))
<1>1. /\ Len(q) \in Nat \ {0}
      /\ DOMAIN q = 1 .. Len(q)
      /\ DOMAIN Tail(q) = 1 .. (Len(q) - 1)
      /\ \A n \in 1 .. (Len(q) - 1) : Tail(q)[n] = q[n + 1]
      /\ Head(q) = q[1]
  OBVIOUS
<1>2. ASSUME NEW u \in VLs, At(Tail(q), u) PROVE At(q, u) /\ u # Head(q)
  <2>1. PICK n \in 1 .. (Len(q) - 1) : q[n + 1] = u
    BY <1>1, <1>2 DEF At
  <2>2. n + 1 \in DOMAIN q /\ 1 \in DOMAIN q /\ n + 1 # 1
    BY <1>1
  <2> QED
    BY <1>1, <2>1, <2>2 DEF At, Distinct
<1>3. ASSUME NEW u \in VLs, At(q, u), u # Head(q) PROVE At(Tail(q), u)
  <2>1. PICK n \in 1 .. Len(q) : q[n] = u
    BY <1>1, <1>3 DEF At
  <2>2. n # 1
    BY <1>1, <1>3, <2>1
  <2>3. n - 1 \in 1 .. (Len(q) - 1) /\ (n - 1) + 1 = n
    BY <1>1, <2>2
  <2>4. Tail(q)[n - 1] = u
    BY <1>1, <2>1, <2>3
  <2> QED
    BY <1>1, <2>3, <2>4 DEF At
<1>4. Distinct(Tail(q))
  <2> SUFFICES ASSUME NEW n \in 1 .. (Len(q) - 1), NEW m \in 1 .. (Len(q) - 1),
                      Tail(q)[n] = Tail(q)[m]
               PROVE  n = m
    BY <1>1 DEF Distinct
  <2>1. n + 1 \in DOMAIN q /\ m + 1 \in DOMAIN q /\ q[n + 1] = q[m + 1]
    BY <1>1
  <2>2. n + 1 = m + 1
    BY <2>1 DEF Distinct
  <2> QED
    BY <2>2
<1>5. At(q, Head(q))
  BY <1>1 DEF At
<1> QED
  BY <1>2, <1>3, <1>4, <1>5

LEMMA EnqueueClean ==
  ASSUME NEW s \in PortState, NEW v \in VLs, Clean(s), ~Holds(s, v)
  PROVE  /\ Clean(Enqueue(v, s))
         /\ \A u \in VLs : Holds(Enqueue(v, s), u) <=> Holds(s, u) \/ u = v
<1> DEFINE i == QueueOf(v)
           q == s.queue[i]
           t == Enqueue(v, s)
<1>1. i \in Priorities
  BY QueueOfType
<1>2. q \in Seq(VLs) /\ Append(q, v) \in Seq(VLs)
  BY <1>1 DEF PortState
<1>3. t.queue = [s.queue EXCEPT ![i] = Append(q, v)]
  <2> DEFINE queues == [s.queue EXCEPT ![i] = Append(q, v)]
             sizes == [s.size EXCEPT ![i] = IF Priority[v] \in Priorities
                                             THEN (s.size[i] + Bytes[v]) % SizeMod
                                             ELSE s.size[i]]
  <2>1. t = [s EXCEPT !.queue = queues, !.size = sizes]
    BY Zenon DEF Enqueue, PortState
  <2> HIDE DEF i, q, t, queues, sizes
  <2>2. [s EXCEPT !.queue = queues, !.size = sizes].queue = queues
    BY DEF PortState
  <2> QED
    BY <2>1, <2>2 DEF queues
<1> HIDE DEF i, t
<1>4. t.queue[i] = Append(q, v) /\ \A j \in Priorities \ {i} : t.queue[j] = s.queue[j]
  <2> DEFINE a == Append(q, v)
             queues == s.queue
  <2>1. queues \in [Priorities -> Seq(VLs)] /\ t.queue = [queues EXCEPT ![i] = a]
    BY <1>3 DEF PortState
  <2> HIDE DEF q, a, queues
  <2>2. t.queue[i] = a /\ \A j \in Priorities \ {i} : t.queue[j] = queues[j]
    BY <1>1, <2>1
  <2> QED
    BY <2>2 DEF a, queues
<1>5. Distinct(q) /\ ~At(q, v)
  BY <1>1 DEF Clean, Holds
<1> HIDE DEF q
<1>6. \A u \in VLs : At(t.queue[i], u) <=> At(q, u) \/ u = v
  BY <1>2, <1>4, AppendAt
<1>7. Distinct(t.queue[i])
  BY <1>2, <1>4, <1>5, AppendAt
<1>8. \A j \in Priorities \ {i} : \A u : At(t.queue[j], u) <=> At(s.queue[j], u)
  BY <1>4
<1>9. \A u \in VLs : Holds(t, u) <=> Holds(s, u) \/ u = v
  BY <1>1, <1>6, <1>8 DEF Holds, q
<1>10. Clean(t)
  <2>1. \A j \in Priorities : Distinct(t.queue[j])
    BY <1>4, <1>7 DEF Clean
  <2>2. ASSUME NEW j \in Priorities, NEW k \in Priorities, NEW u \in VLs,
               At(t.queue[j], u), At(t.queue[k], u)
        PROVE  j = k
    <3>1. CASE u = v
      <4>1. \A l \in Priorities \ {i} : ~At(t.queue[l], u)
        BY <1>8, <3>1 DEF Holds
      <4> QED
        BY <2>2, <4>1
    <3>2. CASE u # v
      <4>1. At(s.queue[j], u) /\ At(s.queue[k], u)
        BY <1>6, <1>8, <2>2, <3>2 DEF q
      <4> QED
        BY <4>1 DEF Clean
    <3> QED
      BY <3>1, <3>2
  <2> QED
    BY <2>1, <2>2 DEF Clean
<1> QED
  BY <1>9, <1>10 DEF t

LEMMA PopClean ==
  ASSUME NEW s \in PortState, NEW t, NEW i \in Priorities, Clean(s), s.queue[i] # <<>>,
         t.queue = [s.queue EXCEPT ![i] = Tail(s.queue[i])]
  PROVE  /\ Clean(t)
         /\ \A u \in VLs : Holds(t, u) <=> Holds(s, u) /\ u # Head(s.queue[i])
         /\ Holds(s, Head(s.queue[i]))
<1> DEFINE q == s.queue[i]
<1>1. q \in Seq(VLs) /\ q # <<>> /\ Tail(q) \in Seq(VLs) /\ Head(q) \in VLs
  BY DEF PortState
<1>2. t.queue[i] = Tail(q) /\ \A j \in Priorities \ {i} : t.queue[j] = s.queue[j]
  <2> DEFINE a == Tail(q)
             queues == s.queue
  <2>1. queues \in [Priorities -> Seq(VLs)] /\ t.queue = [queues EXCEPT ![i] = a]
    BY DEF PortState
  <2> HIDE DEF q, a, queues
  <2>2. t.queue[i] = a /\ \A j \in Priorities \ {i} : t.queue[j] = queues[j]
    BY <2>1
  <2> QED
    BY <2>2 DEF a, queues
<1>3. Distinct(q)
  BY DEF Clean
<1> HIDE DEF q
<1> DEFINE rest == Tail(q)
<1>4. /\ \A u \in VLs : At(rest, u) <=> At(q, u) /\ u # Head(q)
      /\ Distinct(rest) /\ At(q, Head(q))
  BY <1>1, <1>3, TailAt, Zenon
<1>5. t.queue[i] = rest
  BY <1>2
<1> HIDE DEF rest
<1>6. \A j \in Priorities \ {i} : ~At(s.queue[j], Head(q))
  BY <1>1, <1>4 DEF Clean, q
<1>7. \A u \in VLs : Holds(t, u) <=> Holds(s, u) /\ u # Head(q)
  <2>1. ASSUME NEW u \in VLs, Holds(t, u) PROVE Holds(s, u) /\ u # Head(q)
    <3>1. PICK j \in Priorities : At(t.queue[j], u)
      BY <2>1 DEF Holds
    <3>2. CASE j = i
      BY <1>4, <1>5, <3>1, <3>2 DEF Holds, q
    <3>3. CASE j # i
      <4>1. At(s.queue[j], u)
        BY <1>2, <3>1, <3>3
      <4> QED
        BY <1>6, <3>3, <4>1 DEF Holds
    <3> QED
      BY <3>2, <3>3
  <2>2. ASSUME NEW u \in VLs, Holds(s, u), u # Head(q) PROVE Holds(t, u)
    <3>1. PICK j \in Priorities : At(s.queue[j], u)
      BY <2>2 DEF Holds
    <3>2. At(t.queue[j], u)
      BY <1>2, <1>4, <1>5, <2>2, <3>1 DEF q
    <3> QED
      BY <3>2 DEF Holds
  <2> QED
    BY <2>1, <2>2
<1>8. Clean(t)
  <2>1. \A j \in Priorities : Distinct(t.queue[j])
    BY <1>2, <1>4, <1>5 DEF Clean
  <2>2. \A j \in Priorities, u \in VLs : At(t.queue[j], u) => At(s.queue[j], u)
    BY <1>2, <1>4, <1>5 DEF q
  <2> QED
    BY <2>1, <2>2 DEF Clean
<1> QED
  BY <1>4, <1>7, <1>8 DEF Holds, q

-----------------------------------------------------------------------------
(* The inductive invariant.  Paced says what the history of the port is    *)
(* worth in each phase of the link: the gap so far and the time the timer  *)
(* still has add up to the gap less the jitter.                            *)
Paced(v) ==
  \A p \in Dest[v] :
    /\ buffer[v].bagExpired => gap[v][p] + Jitter[v] >= Bag[v]
    /\ buffer[v].timer # None => gap[v][p] + buffer[v].timer + Jitter[v] >= Bag[v]
    /\ Outstanding(v, p) => gap[v][p] + Jitter[v] >= Bag[v]

LinksOK == \A v \in VLs : InPhase(v) /\ Paced(v)

(* NoSecondFrame of every port, said of its record.                        *)
Clear ==
  \A p \in Ports : /\ Clean(port[p])
                   /\ \A v \in VLs : ~(<<v, p>> \in wire /\ Holds(port[p], v))

IInv == PortsOK /\ LinksOK /\ Clear

LEMMA Lookup ==
  ASSUME NEW v, NEW p
  PROVE  /\ Outstanding(v, p) <=> <<v, p>> \in wire \/ Holds(port[p], v)
         /\ Outstanding(v, p)' <=> <<v, p>> \in wire' \/ Holds(port'[p], v)
BY DEF Outstanding, Waits, Holds, At

LEMMA DestFinite ==
  ASSUME NEW v \in VLs
  PROVE  /\ Dest[v] \subseteq Ports /\ Dest[v] # {} /\ IsFiniteSet(Dest[v])
         /\ Cardinality(Dest[v]) \in Nat
         /\ IsFiniteSet(PortsAhead(v)) /\ Cardinality(PortsAhead(v)) \in Nat
<1>1. Dest[v] \subseteq Ports /\ Dest[v] # {} /\ PortsAhead(v) \subseteq Ports
  BY RcAssumption DEF PortsAhead
<1>2. IsFiniteSet(Dest[v]) /\ IsFiniteSet(PortsAhead(v))
  BY <1>1, RcAssumption, FS_Subset
<1> QED
  BY <1>1, <1>2, FS_CardinalityType

(* A link of which nothing changes but its frames, its age or "enabled".   *)
LEMMA PhaseKept ==
  ASSUME LinksOK, UNCHANGED gap, NEW u \in VLs,
         buffer'[u].bagExpired = buffer[u].bagExpired,
         buffer'[u].timer = buffer[u].timer,
         buffer'[u].numReset = buffer[u].numReset,
         \A q \in Ports : Outstanding(u, q)' <=> Outstanding(u, q)
  PROVE  InPhase(u)' /\ Paced(u)'
<1>1. PortsAhead(u)' = PortsAhead(u)
  BY DEF PortsAhead
<1>2. InPhase(u)'
  BY <1>1 DEF LinksOK, InPhase
<1>3. Dest[u] \subseteq Ports
  BY DestFinite
<1>4. Paced(u)'
  BY <1>3 DEF LinksOK, Paced
<1> QED
  BY <1>2, <1>4

LEMMA WaitsKept ==
  ASSUME LinksOK, UNCHANGED <<wire, port, gap>>, NEW u \in VLs,
         buffer'[u].bagExpired = buffer[u].bagExpired,
         buffer'[u].timer = buffer[u].timer,
         buffer'[u].numReset = buffer[u].numReset
  PROVE  InPhase(u)' /\ Paced(u)'
<1>1. \A q \in Ports : Outstanding(u, q)' <=> Outstanding(u, q)
  BY Lookup
<1> QED
  BY <1>1, PhaseKept

LEMMA ResetBagFields ==
  ASSUME TypeOK, NEW v \in VLs
  PROVE  LET b == buffer[v]
             r == ResetBag(v)
         IN
         /\ r.numReset = b.numReset + 1
         /\ r.bagExpired = b.bagExpired
         /\ IF b.numReset + 1 # Cardinality(Dest[v])
            THEN r.timer = b.timer
            ELSE r.timer \in Nat /\ r.timer + Jitter[v] >= Bag[v]
<1> DEFINE b == buffer[v]
           d == Delay(v, b.age)
           t == IF b.numReset + 1 # Cardinality(Dest[v]) THEN b.timer
                ELSE IF Bag[v] < d THEN 0 ELSE Bag[v] - d
<1>1. d \in Nat /\ d <= Jitter[v]
  <2>1. b.age \in Int /\ Jitter[v] \in Nat
    BY RcAssumption DEF TypeOK, BufferState
  <2> HIDE DEF b
  <2> QED
    BY <2>1 DEF Delay
<1>2. ResetBag(v) = [[b EXCEPT !.numReset = b.numReset + 1] EXCEPT !.timer = t]
  BY Zenon DEF ResetBag
<1>3. b \in BufferState
  BY DEF TypeOK
<1> HIDE DEF b, d
<1>4. b.numReset + 1 = Cardinality(Dest[v]) => t \in Nat /\ t + Jitter[v] >= Bag[v]
  BY <1>1, RcAssumption
<1> DEFINE n == b.numReset + 1
           u == [b EXCEPT !.numReset = n]
<1>5. u.numReset = n /\ u.bagExpired = b.bagExpired /\ u \in BufferState
  <2>1. n \in Nat
    BY <1>3 DEF BufferState
  <2> HIDE DEF n
  <2> QED
    BY <1>3, <2>1 DEF BufferState
<1>6. b.numReset + 1 # Cardinality(Dest[v]) => t = b.timer
  OBVIOUS
<1> HIDE DEF t, u
<1>7. LET r == [u EXCEPT !.timer = t] IN
      r.numReset = u.numReset /\ r.bagExpired = u.bagExpired /\ r.timer = t
  BY <1>5 DEF BufferState
<1>8. ResetBag(v) = [u EXCEPT !.timer = t]
  BY <1>2 DEF u
<1> QED
  BY <1>4, <1>5, <1>6, <1>7, <1>8 DEF b

(* A frame that was ahead of a port starts there: the count of the resets  *)
(* goes on, or the gap starts.                                             *)
LEMMA StartStep ==
  ASSUME TypeOK, LinksOK, NEW v \in VLs, NEW p \in Ports, Outstanding(v, p), Transmit(v, p),
         \A u \in VLs, q \in Ports :
           Outstanding(u, q)' <=> Outstanding(u, q) /\ ~(u = v /\ q = p)
  PROVE  LinksOK'
<1>1. buffer' = [buffer EXCEPT ![v] = ResetBag(v)] /\ gap' = [gap EXCEPT ![v][p] = 0]
  BY DEF Transmit
<1>2. ASSUME NEW u \in VLs, u # v PROVE InPhase(u)' /\ Paced(u)'
  <2>1. buffer'[u] = buffer[u] /\ gap'[u] = gap[u]
    BY <1>1, <1>2 DEF TypeOK
  <2>2. \A q \in Ports : Outstanding(u, q)' <=> Outstanding(u, q)
    BY <1>2
  <2>3. PortsAhead(u)' = PortsAhead(u)
    BY <2>2 DEF PortsAhead
  <2>4. InPhase(u)'
    BY <2>1, <2>3 DEF LinksOK, InPhase
  <2>5. Paced(u)'
    BY <2>1, <2>2, DestFinite DEF LinksOK, Paced
  <2> QED
    BY <2>4, <2>5
<1> DEFINE b == buffer[v]
           r == ResetBag(v)
           dest == Cardinality(Dest[v])
           ahead == PortsAhead(v)
<1>3. p \in ahead
  BY DEF PortsAhead
<1>4. /\ ~b.bagExpired /\ b.timer = None
      /\ ahead \subseteq Dest[v] /\ b.numReset + Cardinality(ahead) = dest
  BY <1>3 DEF LinksOK, InPhase
<1>5. PortsAhead(v)' = ahead \ {p}
  BY DEF PortsAhead
<1>6. /\ IsFiniteSet(ahead \ {p})
      /\ Cardinality(ahead \ {p}) = Cardinality(ahead) - 1
      /\ Cardinality(ahead) \in Nat /\ Cardinality(ahead \ {p}) \in Nat
      /\ dest \in Nat
  BY <1>3, DestFinite, FS_RemoveElement, FS_CardinalityType
<1>7. buffer'[v] = r
  BY <1>1 DEF TypeOK
<1>8. /\ r.numReset = b.numReset + 1
      /\ r.bagExpired = b.bagExpired
      /\ IF b.numReset + 1 # dest THEN r.timer = b.timer
         ELSE r.timer \in Nat /\ r.timer + Jitter[v] >= Bag[v]
  BY ResetBagFields
<1>9. b.numReset \in Nat
  BY DEF TypeOK, BufferState
<1>10. /\ \A q \in Ports : gap'[v][q] \in Nat
       /\ \A q \in Ports \ {p} : gap'[v][q] = gap[v][q]
  BY <1>1 DEF TypeOK
<1>11. r.numReset + Cardinality(ahead \ {p}) = dest
  BY <1>4, <1>6, <1>8, <1>9
<1>12. CASE b.numReset + 1 # dest
  <2>1. ahead \ {p} # {}
    <3>1. Cardinality(ahead \ {p}) # 0
      BY <1>4, <1>6, <1>9, <1>12
    <3> QED
      BY <3>1, FS_EmptySet
  <2>2. r.timer = None /\ ~r.bagExpired
    BY <1>4, <1>8, <1>12
  <2>3. InPhase(v)'
    BY <1>4, <1>5, <1>7, <1>11, <2>1, <2>2 DEF InPhase
  <2>4. ASSUME NEW q \in Dest[v], Outstanding(v, q)' PROVE gap'[v][q] + Jitter[v] >= Bag[v]
    <3>1. q \in Ports \ {p} /\ Outstanding(v, q)
      BY <2>4, DestFinite
    <3> QED
      BY <1>10, <3>1 DEF LinksOK, Paced
  <2>5. Paced(v)'
    BY <1>7, <2>2, <2>4 DEF Paced
  <2> QED
    BY <2>3, <2>5, <1>2 DEF LinksOK
<1>13. CASE b.numReset + 1 = dest
  <2>1. ahead \ {p} = {}
    <3>1. Cardinality(ahead \ {p}) = 0
      BY <1>4, <1>6, <1>9, <1>13
    <3> QED
      BY <1>6, <3>1, FS_EmptySet
  <2>2. r.timer \in Nat /\ r.timer + Jitter[v] >= Bag[v] /\ ~r.bagExpired
    BY <1>4, <1>8, <1>13
  <2>3. r.timer # None
    BY <2>2 DEF None
  <2>4. InPhase(v)'
    BY <1>5, <1>7, <2>1, <2>2, <2>3 DEF InPhase
  <2>5. \A q \in Dest[v] : ~Outstanding(v, q)'
    BY <1>5, <2>1, DestFinite DEF PortsAhead
  <2>6. ASSUME NEW q \in Dest[v] PROVE gap'[v][q] + r.timer + Jitter[v] >= Bag[v]
    <3>1. gap'[v][q] \in Nat
      BY <1>10, DestFinite
    <3>2. Bag[v] \in Nat /\ Jitter[v] \in Nat
      BY RcAssumption
    <3> HIDE DEF r
    <3> QED
      BY <2>2, <3>1, <3>2
  <2>7. Paced(v)'
    BY <1>7, <2>2, <2>5, <2>6 DEF Paced
  <2> QED
    BY <2>4, <2>7, <1>2 DEF LinksOK
<1> QED
  BY <1>12, <1>13

(* The buffer sends a frame to all its ports after its gap.                *)
LEMMA EmitStep ==
  ASSUME IInv, NEW v \in VLs, NEW b \in BufferState, Emit(v, b), UNCHANGED <<port, gap>>,
         b.timer = None, PortsAhead(v) = {},
         \A p \in Dest[v] : gap[v][p] + Jitter[v] >= Bag[v]
  PROVE  LinksOK' /\ Clear'
<1> DEFINE c == [[[b EXCEPT !.frames = Dequeued(v, b.frames)] EXCEPT !.bagExpired = FALSE]
                  EXCEPT !.numReset = 0]
<1>1. buffer' = [buffer EXCEPT ![v] = c] /\ wire' = wire \union ({v} \X Dest[v])
  BY DEF Emit
<1>2. c.bagExpired = FALSE /\ c.numReset = 0 /\ c.timer = None
  BY DEF BufferState
<1> HIDE DEF c
<1>3. /\ buffer'[v] = c
      /\ \A u \in VLs \ {v} : buffer'[u] = buffer[u]
  BY <1>1 DEF IInv, PortsOK, TypeOK
<1>4. \A u \in VLs \ {v}, q \in Ports : Outstanding(u, q)' <=> Outstanding(u, q)
  BY <1>1, Lookup
<1>5. \A u \in VLs \ {v} : InPhase(u)' /\ Paced(u)'
  BY <1>3, <1>4, PhaseKept DEF IInv
<1>6. \A q \in Ports : ~Outstanding(v, q)
  BY DEF PortsAhead
<1>7. \A q \in Ports : Outstanding(v, q)' <=> q \in Dest[v]
  BY <1>1, <1>6, Lookup
<1>8. PortsAhead(v)' = Dest[v]
  BY <1>7, DestFinite DEF PortsAhead
<1>9. InPhase(v)'
  BY <1>2, <1>3, <1>8, DestFinite DEF InPhase
<1>10. Paced(v)'
  BY <1>2, <1>3 DEF Paced
<1>11. LinksOK'
  BY <1>5, <1>9, <1>10 DEF LinksOK
<1>12. Clear'
  <2> SUFFICES ASSUME NEW p \in Ports, NEW u \in VLs, <<u, p>> \in wire', Holds(port[p], u)
               PROVE  FALSE
    BY DEF IInv, Clear
  <2>1. <<u, p>> \notin wire
    BY DEF IInv, Clear
  <2>2. u = v
    BY <1>1, <2>1
  <2> QED
    BY <1>6, <2>2, Lookup
<1> QED
  BY <1>11, <1>12

LEMMA ArriveLinks ==
  ASSUME IInv, NEW v \in VLs, Arrive(v)
  PROVE  LinksOK' /\ Clear'
<1>1. PICK fits \in BOOLEAN, onIn \in BOOLEAN :
        LET b == IF fits THEN [buffer[v] EXCEPT !.frames = Enqueued(v, @)] ELSE buffer[v] IN
        IF onIn /\ b.bagExpired /\ HasFrame(b) THEN Emit(v, b)
        ELSE buffer' = [buffer EXCEPT ![v] = b] /\ UNCHANGED wire
  BY DEF Arrive
<1> DEFINE b == IF fits THEN [buffer[v] EXCEPT !.frames = Enqueued(v, @)] ELSE buffer[v]
<1>2. /\ b \in BufferState
      /\ b.bagExpired = buffer[v].bagExpired /\ b.timer = buffer[v].timer
      /\ b.numReset = buffer[v].numReset
  BY EnqueuedType DEF IInv, PortsOK, TypeOK, BufferState
<1>3. IF onIn /\ b.bagExpired /\ HasFrame(b) THEN Emit(v, b)
      ELSE buffer' = [buffer EXCEPT ![v] = b] /\ UNCHANGED wire
  BY <1>1
<1> HIDE DEF b
<1>4. UNCHANGED <<port, shift, gap>>
  BY DEF Arrive
<1>5. CASE onIn /\ b.bagExpired /\ HasFrame(b)
  <2>1. Emit(v, b)
    BY <1>3, <1>5
  <2>2. b.timer = None /\ PortsAhead(v) = {}
    BY <1>2, <1>5 DEF IInv, LinksOK, InPhase
  <2>3. \A p \in Dest[v] : gap[v][p] + Jitter[v] >= Bag[v]
    BY <1>2, <1>5 DEF IInv, LinksOK, Paced
  <2> QED
    BY <1>2, <1>4, <2>1, <2>2, <2>3, EmitStep
<1>6. CASE ~(onIn /\ b.bagExpired /\ HasFrame(b))
  <2>1. buffer' = [buffer EXCEPT ![v] = b] /\ UNCHANGED wire
    BY <1>3, <1>6
  <2>2. ASSUME NEW u \in VLs PROVE InPhase(u)' /\ Paced(u)'
    <3>1. /\ buffer'[u].bagExpired = buffer[u].bagExpired
          /\ buffer'[u].timer = buffer[u].timer
          /\ buffer'[u].numReset = buffer[u].numReset
      BY <1>2, <2>1 DEF IInv, PortsOK, TypeOK
    <3> QED
      BY <1>4, <2>1, <3>1, WaitsKept DEF IInv
  <2> QED
    BY <1>4, <2>1, <2>2 DEF IInv, LinksOK, Clear
<1> QED
  BY <1>5, <1>6

LEMMA BagExpiresLinks ==
  ASSUME IInv, NEW v \in VLs, BagExpires(v)
  PROVE  LinksOK' /\ Clear'
<1> DEFINE b == [buffer[v] EXCEPT !.timer = None]
<1>1. /\ b \in BufferState /\ b.timer = None
      /\ b.bagExpired = buffer[v].bagExpired /\ b.numReset = buffer[v].numReset
  BY DEF IInv, PortsOK, TypeOK, BufferState
<1>2. IF HasFrame(b) THEN Emit(v, [b EXCEPT !.age = 0])
      ELSE buffer' = [buffer EXCEPT ![v] = [b EXCEPT !.bagExpired = TRUE]] /\ UNCHANGED wire
  BY DEF BagExpires
<1>3. buffer[v].timer = 0 /\ UNCHANGED <<port, shift, gap>>
  BY DEF BagExpires
<1>4. PortsAhead(v) = {}
  BY <1>3 DEF IInv, LinksOK, InPhase, None
<1>5. \A p \in Dest[v] : gap[v][p] + Jitter[v] >= Bag[v]
  <2> SUFFICES ASSUME NEW p \in Dest[v] PROVE gap[v][p] + Jitter[v] >= Bag[v]
    OBVIOUS
  <2>1. gap[v][p] + 0 + Jitter[v] >= Bag[v]
    BY <1>3 DEF IInv, LinksOK, Paced, None
  <2>2. gap[v][p] \in Nat
    BY DestFinite DEF IInv, PortsOK, TypeOK
  <2> QED
    BY <2>1, <2>2
<1> HIDE DEF b
<1> DEFINE young == [b EXCEPT !.age = 0]
           expired == [b EXCEPT !.bagExpired = TRUE]
<1>6. young \in BufferState /\ young.timer = None /\ (HasFrame(b) => HasFrame(young))
  <2>1. young \in BufferState
    BY <1>1, AgeSet
  <2> QED
    BY <1>1, <2>1 DEF BufferState, HasFrame
<1>7. expired.bagExpired = TRUE /\ expired.timer = None
  BY <1>1 DEF BufferState
<1> HIDE DEF young, expired
<1>8. CASE HasFrame(b)
  <2>1. Emit(v, young)
    BY <1>2, <1>8 DEF young
  <2> QED
    BY <1>3, <1>4, <1>5, <1>6, <2>1, EmitStep
<1>9. CASE ~HasFrame(b)
  <2>1. buffer' = [buffer EXCEPT ![v] = expired] /\ UNCHANGED wire
    BY <1>2, <1>9 DEF expired
  <2>2. /\ buffer'[v] = expired
        /\ \A u \in VLs \ {v} : buffer'[u] = buffer[u]
    BY <2>1 DEF IInv, PortsOK, TypeOK
  <2>3. \A u \in VLs \ {v} : InPhase(u)' /\ Paced(u)'
    BY <1>3, <2>1, <2>2, WaitsKept DEF IInv
  <2>4. \A u \in VLs, q \in Ports : Outstanding(u, q)' <=> Outstanding(u, q)
    BY <1>3, <2>1, Lookup
  <2>5. PortsAhead(v)' = {}
    BY <1>4, <2>4 DEF PortsAhead
  <2>6. InPhase(v)'
    BY <1>7, <2>2, <2>5 DEF InPhase
  <2>7. Paced(v)'
    BY <1>3, <1>5, <1>7, <2>2 DEF Paced
  <2> QED
    BY <1>3, <2>1, <2>3, <2>6, <2>7 DEF IInv, LinksOK, Clear
<1> QED
  BY <1>8, <1>9

LEMMA SwitchLinks ==
  ASSUME IInv, NEW v \in VLs, Switch(v)
  PROVE  LinksOK' /\ Clear'
<1>1. UNCHANGED <<wire, port, shift, gap>>
  BY DEF Switch
<1>2. ASSUME NEW u \in VLs PROVE InPhase(u)' /\ Paced(u)'
  <2>1. /\ buffer'[u].bagExpired = buffer[u].bagExpired
        /\ buffer'[u].timer = buffer[u].timer
        /\ buffer'[u].numReset = buffer[u].numReset
    BY DEF Switch, IInv, PortsOK, TypeOK, BufferState
  <2> QED
    BY <1>1, <2>1, WaitsKept DEF IInv
<1> QED
  BY <1>1, <1>2 DEF IInv, LinksOK, Clear

LEMMA ClockCorrectionLinks ==
  ASSUME IInv, NEW correction \in Corrections, ClockCorrection(correction)
  PROVE  LinksOK' /\ Clear'
<1>1. UNCHANGED <<wire, port, gap>>
  BY DEF ClockCorrection
<1>2. ASSUME NEW u \in VLs PROVE InPhase(u)' /\ Paced(u)'
  <2> DEFINE a == AtMost(MaxAge(u), buffer[u].age + correction)
  <2>1. buffer'[u] = [buffer[u] EXCEPT !.age = a]
    BY DEF ClockCorrection
  <2> HIDE DEF a
  <2>2. /\ buffer'[u].bagExpired = buffer[u].bagExpired
        /\ buffer'[u].timer = buffer[u].timer
        /\ buffer'[u].numReset = buffer[u].numReset
    BY <2>1 DEF IInv, PortsOK, TypeOK, BufferState
  <2> QED
    BY <1>1, <2>2, WaitsKept DEF IInv
<1> QED
  BY <1>1, <1>2 DEF IInv, LinksOK, Clear

LEMMA FromBufferLinks ==
  ASSUME IInv, NEW v \in VLs, NEW p \in Ports, FromBuffer(v, p)
  PROVE  LinksOK' /\ Clear'
<1>1. <<v, p>> \in wire /\ wire' = wire \ {<<v, p>>}
  BY DEF FromBuffer
<1>2. port[p] \in PortState /\ Clean(port[p]) /\ ~Holds(port[p], v)
  BY <1>1, YieldsNow DEF IInv, Clear
<1>3. Outstanding(v, p)
  BY <1>1, Lookup
<1>4. CASE port[p].pending > 0
  <2>1. Transmit(v, p) /\ port' = [port EXCEPT ![p].pending = @ - 1, ![p].mac = Ticks[v]]
    BY <1>4 DEF FromBuffer
  <2>2. \A q \in Ports : port'[q].queue = port[q].queue
    BY <2>1 DEF IInv, PortsOK, TypeOK, PortState
  <2>3. \A q \in Ports : /\ Clean(port'[q])
                         /\ \A u : Holds(port'[q], u) <=> Holds(port[q], u)
    BY <2>2 DEF Clean, Holds, IInv, Clear
  <2>4. \A u \in VLs, q \in Ports :
          Outstanding(u, q)' <=> Outstanding(u, q) /\ ~(u = v /\ q = p)
    BY <1>1, <1>2, <2>3, Lookup
  <2>5. LinksOK'
    BY <1>3, <2>1, <2>4, StartStep DEF IInv, PortsOK
  <2>6. Clear'
    BY <1>1, <2>3 DEF IInv, Clear
  <2> QED
    BY <2>5, <2>6
<1>5. CASE ~(port[p].pending > 0)
  <2> DEFINE t == Enqueue(v, port[p])
  <2>1. port' = [port EXCEPT ![p] = t] /\ UNCHANGED <<buffer, gap>>
    BY <1>5 DEF FromBuffer
  <2>2. Clean(t) /\ \A u \in VLs : Holds(t, u) <=> Holds(port[p], u) \/ u = v
    BY <1>2, EnqueueClean
  <2> HIDE DEF t
  <2>3. port'[p] = t /\ \A q \in Ports \ {p} : port'[q] = port[q]
    BY <2>1 DEF IInv, PortsOK, TypeOK
  <2>4. \A u \in VLs, q \in Ports : Outstanding(u, q)' <=> Outstanding(u, q)
    <3> SUFFICES ASSUME NEW u \in VLs, NEW q \in Ports
                 PROVE  Outstanding(u, q)' <=> Outstanding(u, q)
      OBVIOUS
    <3>1. CASE q = p
      BY <1>1, <2>2, <2>3, <3>1, Lookup
    <3>2. CASE q # p
      BY <1>1, <2>3, <3>2, Lookup
    <3> QED
      BY <3>1, <3>2
  <2>5. LinksOK'
    BY <2>1, <2>4, PhaseKept DEF IInv, LinksOK
  <2>6. ASSUME NEW q \in Ports
        PROVE  Clean(port'[q]) /\ \A u \in VLs : ~(<<u, q>> \in wire' /\ Holds(port'[q], u))
    <3>1. CASE q = p
      BY <1>1, <2>2, <2>3, <3>1 DEF IInv, Clear
    <3>2. CASE q # p
      BY <1>1, <2>3, <3>2 DEF IInv, Clear
    <3> QED
      BY <3>1, <3>2
  <2> QED
    BY <2>5, <2>6 DEF Clear
<1> QED
  BY <1>4, <1>5

(* A step that changes no queue, no buffer and nothing on the wire.        *)
LEMMA QueuesStay ==
  ASSUME IInv, UNCHANGED <<buffer, wire, gap>>,
         \A q \in Ports : port'[q].queue = port[q].queue
  PROVE  LinksOK' /\ Clear'
<1>1. \A q \in Ports : /\ Clean(port'[q])
                       /\ \A u : Holds(port'[q], u) <=> Holds(port[q], u)
  BY DEF Clean, Holds, IInv, Clear
<1>2. \A u \in VLs, q \in Ports : Outstanding(u, q)' <=> Outstanding(u, q)
  BY <1>1, Lookup
<1>3. LinksOK'
  BY <1>2, PhaseKept DEF IInv, LinksOK
<1>4. Clear'
  BY <1>1 DEF IInv, Clear
<1> QED
  BY <1>3, <1>4

LEMMA FromLowerLinks ==
  ASSUME IInv, NEW p \in Ports, FromLower(p)
  PROVE  LinksOK' /\ Clear'
<1>1. \A q \in Ports : port'[q].queue = port[q].queue
  BY DEF FromLower, IInv, PortsOK, TypeOK, PortState
<1>2. UNCHANGED <<buffer, wire, shift, gap>>
  BY DEF FromLower
<1> QED
  BY <1>1, <1>2, QueuesStay

LEMMA RequestPacketLinks ==
  ASSUME IInv, NEW p \in Ports, RequestPacket(p)
  PROVE  LinksOK' /\ Clear'
<1>1. UNCHANGED <<wire, shift>>
  BY DEF RequestPacket
<1>2. CASE \E i \in Priorities : Urgent(port[p], i)
  <2>1. PICK i \in Priorities : Urgent(port[p], i) /\ PopRC(p, i)
    BY <1>2 DEF RequestPacket
  <2> DEFINE s == port[p]
             v == Head(s.queue[i])
             queues == [s.queue EXCEPT ![i] = Tail(s.queue[i])]
             sizes == [s.size EXCEPT ![i] = (s.size[i] - Bytes[v]) % SizeMod]
             ticks == Ticks[v]
             t == [[[s EXCEPT !.queue = queues] EXCEPT !.size = sizes] EXCEPT !.mac = ticks]
  <2>2. port' = [port EXCEPT ![p] = t]
    BY <2>1, Zenon DEF PopRC, IInv, PortsOK, TypeOK
  <2>3. v \in VLs /\ s.queue[i] # <<>> /\ Transmit(v, p)
    BY <2>1, UrgentHead DEF PopRC, Urgent, IInv, PortsOK
  <2>4. s \in PortState /\ Clean(s)
    BY YieldsNow DEF IInv, Clear
  <2>5. t.queue = queues
    <3> HIDE DEF s, v, queues, sizes, ticks
    <3> QED
      BY <2>4 DEF PortState
  <2> HIDE DEF t
  <2>6. /\ Clean(t)
        /\ \A u \in VLs : Holds(t, u) <=> Holds(s, u) /\ u # v
        /\ Holds(s, v)
    BY <2>3, <2>4, <2>5, PopClean
  <2> HIDE DEF v
  <2>7. port'[p] = t /\ \A q \in Ports \ {p} : port'[q] = port[q]
    BY <2>2 DEF IInv, PortsOK, TypeOK
  <2>8. Outstanding(v, p) /\ <<v, p>> \notin wire
    BY <2>3, <2>6, Lookup DEF IInv, Clear
  <2>9. ASSUME NEW u \in VLs, NEW q \in Ports
        PROVE  Outstanding(u, q)' <=> Outstanding(u, q) /\ ~(u = v /\ q = p)
    <3>1. CASE q = p
      BY <1>1, <2>6, <2>7, <2>8, <3>1, Lookup
    <3>2. CASE q # p
      BY <1>1, <2>7, <3>2, Lookup
    <3> QED
      BY <3>1, <3>2
  <2>10. LinksOK'
    BY <2>3, <2>8, <2>9, StartStep DEF IInv, PortsOK
  <2>11. ASSUME NEW q \in Ports
         PROVE  Clean(port'[q]) /\ \A u \in VLs : ~(<<u, q>> \in wire' /\ Holds(port'[q], u))
    <3>1. CASE q = p
      BY <1>1, <2>6, <2>7, <3>1 DEF IInv, Clear
    <3>2. CASE q # p
      BY <1>1, <2>7, <3>2 DEF IInv, Clear
    <3> QED
      BY <3>1, <3>2
  <2> QED
    BY <2>10, <2>11 DEF Clear
<1>3. CASE ~(\E i \in Priorities : Urgent(port[p], i))
  <2>1. UNCHANGED <<buffer, gap>>
    BY <1>3 DEF RequestPacket, PopLower
  <2>2. \A q \in Ports : port'[q].queue = port[q].queue
    <3>1. CASE port[p].lower > 0
      <4>1. PopLower(p)
        BY <1>3, <3>1 DEF RequestPacket
      <4> QED
        BY <4>1 DEF PopLower, IInv, PortsOK, TypeOK, PortState
    <3>2. CASE ~(port[p].lower > 0)
      <4>1. port' = [port EXCEPT ![p].pending = @ + 1, ![p].mac = None]
        BY <1>3, <3>2 DEF RequestPacket
      <4> QED
        BY <4>1 DEF IInv, PortsOK, TypeOK, PortState
    <3> QED
      BY <3>1, <3>2
  <2> QED
    BY <1>1, <2>1, <2>2, QueuesStay
<1> QED
  BY <1>2, <1>3

LEMMA TickLinks ==
  ASSUME IInv, Tick
  PROVE  LinksOK' /\ Clear'
<1>1. UNCHANGED <<wire, shift>> /\ \A v \in VLs : buffer[v].timer # 0
  BY DEF Tick
<1>2. \A q \in Ports : port'[q].queue = port[q].queue
  BY DEF Tick, IInv, PortsOK, TypeOK, PortState
<1>3. \A q \in Ports : /\ Clean(port'[q])
                       /\ \A u : Holds(port'[q], u) <=> Holds(port[q], u)
  BY <1>2 DEF Clean, Holds, IInv, Clear
<1>4. \A u \in VLs, q \in Ports : Outstanding(u, q)' <=> Outstanding(u, q)
  BY <1>1, <1>3, Lookup
<1>5. ASSUME NEW v \in VLs PROVE InPhase(v)' /\ Paced(v)'
  <2> DEFINE b == buffer[v]
             a == AtMost(MaxAge(v), b.age + 1)
             d == Down(b.timer)
             c == [[b EXCEPT !.timer = d] EXCEPT !.age = a]
  <2>1. buffer'[v] = c
    BY DEF Tick
  <2>2. b \in BufferState /\ b.timer # 0
    BY <1>1 DEF IInv, PortsOK, TypeOK
  <2> HIDE DEF b
  <2>3. d = None <=> b.timer = None
    BY <2>2 DEF BufferState, Down, None
  <2>4. b.timer # None => b.timer \in Nat /\ d = b.timer - 1
    BY <2>2 DEF BufferState, Down
  <2> HIDE DEF d, a
  <2>5. c.timer = d /\ c.bagExpired = b.bagExpired /\ c.numReset = b.numReset
    BY <2>2 DEF BufferState
  <2> HIDE DEF c
  <2>6. PortsAhead(v)' = PortsAhead(v)
    BY <1>4 DEF PortsAhead
  <2>7. InPhase(v)
    BY DEF IInv, LinksOK
  <2>8. InPhase(v)'
    BY <2>1, <2>3, <2>5, <2>6, <2>7 DEF InPhase, b
  <2>9. ASSUME NEW p \in Dest[v]
        PROVE  /\ c.bagExpired => gap'[v][p] + Jitter[v] >= Bag[v]
               /\ c.timer # None => gap'[v][p] + c.timer + Jitter[v] >= Bag[v]
               /\ Outstanding(v, p)' => gap'[v][p] + Jitter[v] >= Bag[v]
    <3>1. p \in Ports /\ gap[v][p] \in Nat /\ Jitter[v] \in Nat /\ Bag[v] \in Nat
      BY DestFinite, RcAssumption DEF IInv, PortsOK, TypeOK
    <3>2. gap'[v][p] = AtMost(Bag[v], gap[v][p] + 1)
      BY <3>1 DEF Tick
    <3>3. /\ gap'[v][p] \in Nat
          /\ gap'[v][p] = gap[v][p] + 1 \/ gap'[v][p] = Bag[v]
      BY <3>1, <3>2 DEF AtMost
    <3>4. /\ b.bagExpired => gap[v][p] + Jitter[v] >= Bag[v]
          /\ b.timer # None => gap[v][p] + b.timer + Jitter[v] >= Bag[v]
          /\ Outstanding(v, p) => gap[v][p] + Jitter[v] >= Bag[v]
      BY DEF IInv, LinksOK, Paced, b
    <3>5. c.bagExpired => gap'[v][p] + Jitter[v] >= Bag[v]
      BY <2>5, <3>1, <3>3, <3>4
    <3>6. c.timer # None => gap'[v][p] + c.timer + Jitter[v] >= Bag[v]
      <4> SUFFICES ASSUME c.timer # None
                   PROVE  gap'[v][p] + c.timer + Jitter[v] >= Bag[v]
        OBVIOUS
      <4>1. b.timer \in Nat \ {0} /\ c.timer = b.timer - 1 /\ b.timer # None
        BY <2>2, <2>3, <2>4, <2>5
      <4> QED
        BY <3>1, <3>3, <3>4, <4>1
    <3>7. Outstanding(v, p)' => gap'[v][p] + Jitter[v] >= Bag[v]
      BY <1>4, <3>1, <3>3, <3>4
    <3> QED
      BY <3>5, <3>6, <3>7
  <2>10. Paced(v)'
    BY <2>1, <2>9 DEF Paced
  <2> QED
    BY <2>8, <2>10
<1>6. Clear'
  BY <1>1, <1>3 DEF IInv, Clear
<1> QED
  BY <1>5, <1>6 DEF LinksOK

LEMMA InitLinks == Init => LinksOK /\ Clear
<1> SUFFICES ASSUME Init PROVE LinksOK /\ Clear
  OBVIOUS
<1>1. /\ wire = {}
      /\ \A p \in Ports : port[p].queue = [i \in Priorities |-> <<>>]
      /\ \A v \in VLs : buffer[v].bagExpired /\ buffer[v].timer = None
      /\ \A v \in VLs, p \in Ports : gap[v][p] = Bag[v]
  BY DEF Init
<1>2. \A p \in Ports, i \in Priorities : DOMAIN port[p].queue[i] = {}
  BY <1>1
<1>3. \A p \in Ports : \A u : ~Holds(port[p], u)
  BY <1>2 DEF Holds, At
<1>4. \A p \in Ports : Clean(port[p])
  BY <1>2 DEF Clean, Distinct, At
<1>5. \A v \in VLs, p \in Ports : ~Outstanding(v, p)
  BY <1>1, <1>3, Lookup
<1>6. \A v \in VLs : PortsAhead(v) = {}
  BY <1>5 DEF PortsAhead
<1>7. \A v \in VLs : InPhase(v)
  BY <1>1, <1>6 DEF InPhase
<1>8. \A v \in VLs : Paced(v)
  BY <1>1, DestFinite, RcAssumption DEF Paced
<1> QED
  BY <1>1, <1>4, <1>7, <1>8 DEF LinksOK, Clear

LEMMA IInvStep == IInv /\ [Next]_vars => IInv'
<1> SUFFICES ASSUME IInv, [Next]_vars PROVE IInv'
  OBVIOUS
<1>1. PortsOK'
  BY PortsStep DEF IInv
<1>2. LinksOK' /\ Clear'
  <2>1. CASE \E v \in VLs : BagExpires(v)
    BY <2>1, BagExpiresLinks
  <2>2. CASE \E v \in VLs, p \in Ports : FromBuffer(v, p)
    BY <2>2, FromBufferLinks
  <2>3. CASE \E p \in Ports : RequestPacket(p)
    BY <2>3, RequestPacketLinks
  <2>4. CASE Tick
    BY <2>4, TickLinks
  <2>5. CASE \E v \in VLs : Arrive(v)
    BY <2>5, ArriveLinks
  <2>6. CASE \E v \in Switched : Switch(v)
    BY <2>6, SwitchLinks, RcAssumption
  <2>7. CASE \E p \in Ports : FromLower(p)
    BY <2>7, FromLowerLinks
  <2>8. CASE \E correction \in Corrections : ClockCorrection(correction)
    BY <2>8, ClockCorrectionLinks
  <2>9. CASE UNCHANGED vars
    <3>1. UNCHANGED <<buffer, wire, port, gap>>
      BY <2>9 DEF vars
    <3> QED
      BY <3>1, QueuesStay
  <2> QED
    BY <2>1, <2>2, <2>3, <2>4, <2>5, <2>6, <2>7, <2>8, <2>9 DEF Next, Progress
<1> QED
  BY <1>1, <1>2 DEF IInv

LEMMA IInvariant == Spec => []IInv
<1>1. Init => IInv
  BY InitPorts, InitLinks DEF IInv
<1> QED
  BY <1>1, IInvStep, PTL DEF Spec

(* numReset counts exactly the ports that the frame has passed: no gap of  *)
(* a link starts before the frame has left the last port, every gap        *)
(* starts, and no port ever has two frames of one link.                    *)
THEOREM OneFrameAtATime == Spec => []OneFramePerGap
<1>1. IInv => OneFramePerGap
  <2> SUFFICES ASSUME IInv PROVE OneFramePerGap
    OBVIOUS
  <2>1. ASSUME NEW p \in Ports PROVE NoSecondFrame(p)
    <3>1. Clean(port[p]) /\ \A v \in VLs : ~(<<v, p>> \in wire /\ Holds(port[p], v))
      BY DEF IInv, Clear
    <3>2. ASSUME NEW i \in Priorities, NEW j \in Priorities,
                 NEW n \in DOMAIN port[p].queue[i], NEW m \in DOMAIN port[p].queue[j],
                 port[p].queue[i][n] = port[p].queue[j][m]
          PROVE  i = j /\ n = m
      <4>1. port[p].queue[i][n] \in VLs
        BY DEF IInv, PortsOK, TypeOK, PortState
      <4>2. i = j
        BY <3>1, <3>2, <4>1 DEF Clean, At
      <4> QED
        BY <3>1, <3>2, <4>2 DEF Clean, Distinct
    <3>3. \A v \in VLs : ~(<<v, p>> \in wire /\ Waits(v, p))
      BY <3>1 DEF Waits, Holds, At
    <3> QED
      BY <3>2, <3>3 DEF NoSecondFrame
  <2> QED
    BY <2>1 DEF IInv, LinksOK, OneFramePerGap
<1> QED
  BY <1>1, IInvariant, PTL

(* However long frames wait in the ports and however the clock is          *)
(* corrected, at every port two frames of a link start at least the gap    *)
(* less the jitter apart.                                                  *)
THEOREM PortsArePaced == Spec => PacedPorts
<1>1. IInv /\ [Next]_vars =>
        [\A v \in VLs, p \in Ports : Starts(v, p) => gap[v][p] + Jitter[v] >= Bag[v]]_vars
  <2> SUFFICES ASSUME IInv, NEW v \in VLs, NEW p \in Ports, Outstanding(v, p)
               PROVE  gap[v][p] + Jitter[v] >= Bag[v]
    BY DEF Starts
  <2>1. p \in Dest[v]
    BY DEF IInv, LinksOK, InPhase, PortsAhead
  <2> QED
    BY <2>1 DEF IInv, LinksOK, Paced
<1> QED
  BY <1>1, IInvariant, PTL DEF Spec, PacedPorts

-----------------------------------------------------------------------------
(* The cached sizes.  TotalBytes is recursive; ByteSum is the same sum over *)
(* the positions of a queue, which the lemmas about finite sums know.       *)
Weight(q) == [n \in 1 .. Len(q) |-> Bytes[q[n]]]

ByteSum(q) == Total(Weight(q), 1 .. Len(q))

LEMMA Positions ==
  ASSUME NEW q \in Seq(VLs)
  PROVE  /\ Len(q) \in Nat /\ IsFiniteSet(1 .. Len(q))
         /\ DOMAIN Weight(q) = 1 .. Len(q)
         /\ \A n \in 1 .. Len(q) : q[n] \in VLs /\ Weight(q)[n] \in Nat /\ Weight(q)[n] = Bytes[q[n]]
<1>1. Len(q) \in Nat /\ DOMAIN q = 1 .. Len(q)
  OBVIOUS
<1>2. IsFiniteSet(1 .. Len(q))
  BY <1>1, FS_Interval
<1>3. \A n \in 1 .. Len(q) : q[n] \in VLs
  BY <1>1
<1> QED
  BY <1>1, <1>2, <1>3, RcAssumption DEF Weight

LEMMA ByteSumNat ==
  ASSUME NEW q \in Seq(VLs)
  PROVE  ByteSum(q) \in Nat
<1> DEFINE S == 1 .. Len(q)
           w == Weight(q)
<1>1. IsFiniteSet(S) /\ \A n \in S : w[n] \in Nat
  BY Positions
<1>2. S \in SUBSET S
  OBVIOUS
<1> HIDE DEF S, w
<1>3. Total(w, S) \in Nat
  BY <1>1, <1>2, TotalSubset
<1> QED
  BY <1>3 DEF ByteSum, S, w

LEMMA ByteSumHead ==
  ASSUME NEW q \in Seq(VLs), q # <<>>
  PROVE  ByteSum(q) = Bytes[Head(q)] + ByteSum(Tail(q))
<1> DEFINE R == 1 .. Len(q)
           S == 1 .. Len(Tail(q))
           v == Weight(q)
           w == Weight(Tail(q))
           f == [n \in S |-> n + 1]
<1>1. /\ Len(q) \in Nat \ {0} /\ Tail(q) \in Seq(VLs) /\ Len(Tail(q)) = Len(q) - 1
      /\ Head(q) = q[1] /\ \A n \in S : Tail(q)[n] = q[n + 1]
  OBVIOUS
<1>2. /\ IsFiniteSet(R) /\ \A n \in R : v[n] \in Int /\ v[n] = Bytes[q[n]]
      /\ IsFiniteSet(S) /\ \A n \in S : w[n] \in Int /\ w[n] = Bytes[Tail(q)[n]]
  <2>1. IsFiniteSet(R) /\ \A n \in R : v[n] \in Int /\ v[n] = Bytes[q[n]]
    BY Positions
  <2>2. IsFiniteSet(S) /\ \A n \in S : w[n] \in Nat /\ w[n] = Bytes[Tail(q)[n]]
    BY <1>1, Positions
  <2> QED
    BY <2>1, <2>2
<1>3. /\ f \in [S -> R] /\ 1 \in R /\ {f[n] : n \in S} = R \ {1}
      /\ \A n \in S : f[n] = n + 1 /\ f[n] \in R
  <2>1. f \in [S -> R] /\ 1 \in R /\ \A n \in S : f[n] = n + 1 /\ f[n] \in R
    BY <1>1
  <2>2. \A m \in R \ {1} : m - 1 \in S /\ f[m - 1] = m
    BY <1>1
  <2>3. \A n \in S : f[n] \in R \ {1}
    BY <1>1
  <2> HIDE DEF f, R, S
  <2>4. {f[n] : n \in S} = R \ {1}
    BY <2>2, <2>3
  <2> QED
    BY <2>1, <2>4
<1>4. \A n \in S : w[n] = v[f[n]]
  BY <1>1, <1>2, <1>3
<1>5. \A m, n \in S : f[m] = f[n] => m = n
  BY <1>1
<1>6. v[1] = Bytes[Head(q)]
  BY <1>1, <1>2, <1>3
<1> HIDE DEF R, S, v, w, f
<1>7. Total(v, R) = v[1] + Total(v, R \ {1})
  <2>1. R \in SUBSET R /\ IsFiniteSet(R) /\ 1 \in R
    BY <1>2, <1>3
  <2>2. \A n \in R : v[n] \in Int
    BY <1>2
  <2> QED
    BY <2>1, <2>2, TotalRemove
<1>8. Total(w, S) = Total(v, {f[n] : n \in S})
  BY <1>2, <1>3, <1>4, <1>5, TotalRenamed
<1> QED
  BY <1>3, <1>6, <1>7, <1>8 DEF ByteSum, R, S, v, w

LEMMA ByteSumAppend ==
  ASSUME NEW q \in Seq(VLs), NEW u \in VLs
  PROVE  ByteSum(Append(q, u)) = ByteSum(q) + Bytes[u]
<1> DEFINE R == 1 .. Len(Append(q, u))
           S == 1 .. Len(q)
           last == Len(q) + 1
           v == Weight(Append(q, u))
           w == Weight(q)
           f == [n \in S |-> n]
<1>1. /\ Len(q) \in Nat /\ Append(q, u) \in Seq(VLs) /\ Len(Append(q, u)) = Len(q) + 1
      /\ Append(q, u)[last] = u /\ \A n \in S : Append(q, u)[n] = q[n]
  OBVIOUS
<1>2. /\ IsFiniteSet(R) /\ \A n \in R : v[n] \in Int /\ v[n] = Bytes[Append(q, u)[n]]
      /\ IsFiniteSet(S) /\ \A n \in S : w[n] \in Int /\ w[n] = Bytes[q[n]]
  <2>1. IsFiniteSet(S) /\ \A n \in S : w[n] \in Int /\ w[n] = Bytes[q[n]]
    BY Positions
  <2>2. IsFiniteSet(R) /\ \A n \in R : v[n] \in Nat /\ v[n] = Bytes[Append(q, u)[n]]
    BY <1>1, Positions
  <2> QED
    BY <2>1, <2>2
<1>3. /\ last \in R /\ S = R \ {last}
      /\ f \in [S -> R] /\ \A n \in S : f[n] = n
  BY <1>1
<1>4. \A n \in S : w[n] = v[f[n]]
  BY <1>1, <1>2, <1>3
<1>5. v[last] = Bytes[u] /\ Bytes[u] \in Nat
  BY <1>1, <1>2, <1>3, RcAssumption
<1> HIDE DEF R, S, v, w, f, last
<1>6. {f[n] : n \in S} = S
  BY <1>3
<1>7. Total(v, R) = v[last] + Total(v, R \ {last})
  <2>1. R \in SUBSET R /\ IsFiniteSet(R) /\ last \in R
    BY <1>2, <1>3
  <2>2. \A n \in R : v[n] \in Int
    BY <1>2
  <2> QED
    BY <2>1, <2>2, TotalRemove
<1>8. Total(w, S) = Total(v, {f[n] : n \in S})
  <2>1. \A m, n \in S : f[m] = f[n] => m = n
    BY <1>3
  <2>2. /\ IsFiniteSet(S) /\ \A n \in S : w[n] \in Int
        /\ IsFiniteSet(R) /\ \A n \in R : v[n] \in Int
        /\ f \in [S -> R]
    BY <1>2, <1>3
  <2> QED
    BY <1>4, <2>1, <2>2, TotalRenamed
<1>9. ByteSum(q) \in Nat /\ ByteSum(q) = Total(w, S) /\ ByteSum(Append(q, u)) = Total(v, R)
  <2>1. ByteSum(q) \in Nat
    BY ByteSumNat
  <2> QED
    BY <2>1 DEF ByteSum, R, S, v, w
<1>10. Total(v, R \ {last}) = Total(w, S)
  BY <1>3, <1>6, <1>8
<1> QED
  BY <1>5, <1>7, <1>9, <1>10

(* TotalBytes is that sum.                                                 *)
LEMMA TotalBytesIsByteSum ==
  ASSUME NEW q \in Seq(VLs)
  PROVE  TotalBytes[q] = ByteSum(q)
<1> DEFINE Is(f) == f = [r \in Seq(VLs) |-> IF r = <<>> THEN 0 ELSE Bytes[Head(r)] + f[Tail(r)]]
           g == [r \in Seq(VLs) |-> ByteSum(r)]
           P == {n \in Nat : \A r \in Seq(VLs) : Len(r) = n => TotalBytes[r] = ByteSum(r)}
<1>1. ByteSum(<<>>) = 0
  <2>1. Len(<<>>) = 0 /\ 1 .. 0 = {}
    OBVIOUS
  <2>2. Total(Weight(<<>>), {}) = 0
    BY FS_EmptySet, TotalRemove
  <2> QED
    BY <2>1, <2>2 DEF ByteSum
<1>2. Is(g)
  <2>1. ASSUME NEW r \in Seq(VLs) PROVE g[r] = IF r = <<>> THEN 0 ELSE Bytes[Head(r)] + g[Tail(r)]
    <3>1. CASE r = <<>>
      BY <1>1, <3>1
    <3>2. CASE r # <<>>
      <4>1. Tail(r) \in Seq(VLs)
        BY <3>2
      <4> QED
        BY <3>2, <4>1, ByteSumHead
    <3> QED
      BY <3>1, <3>2
  <2>2. g = [r \in Seq(VLs) |-> g[r]]
    OBVIOUS
  <2> HIDE DEF g
  <2> QED
    BY <2>1, <2>2
<1>3. Is(TotalBytes)
  <2>1. TotalBytes = CHOOSE f : Is(f)
    BY DEF TotalBytes
  <2> HIDE DEF Is, g
  <2> QED
    BY <1>2, <2>1
<1>4. \A r \in Seq(VLs) : TotalBytes[r] = IF r = <<>> THEN 0 ELSE Bytes[Head(r)] + TotalBytes[Tail(r)]
  BY <1>3
<1> HIDE DEF Is, g
<1>5. 0 \in P
  <2>1. \A r \in Seq(VLs) : Len(r) = 0 => r = <<>>
    OBVIOUS
  <2> QED
    BY <1>1, <1>4, <2>1
<1>6. ASSUME NEW n \in Nat, n \in P PROVE n + 1 \in P
  <2>1. ASSUME NEW r \in Seq(VLs), Len(r) = n + 1 PROVE TotalBytes[r] = ByteSum(r)
    <3>1. r # <<>> /\ Tail(r) \in Seq(VLs) /\ Len(Tail(r)) = n
      BY <2>1
    <3>2. TotalBytes[Tail(r)] = ByteSum(Tail(r))
      BY <1>6, <3>1
    <3> QED
      BY <1>4, <3>1, <3>2, ByteSumHead
  <2> QED
    BY <2>1
<1>7. Nat \subseteq P
  <2> HIDE DEF P
  <2> QED
    BY <1>5, <1>6, InductionOnNat
<1>8. Len(q) \in Nat
  OBVIOUS
<1> QED
  BY <1>7, <1>8

(* All links are counted, and all their frames together fit in size_t.     *)
RoomForBytes ==
  /\ IsFiniteSet(VLs)
  /\ \A v \in VLs : Priority[v] \in Priorities
  /\ MapThenSumSet(LAMBDA v : Bytes[v], VLs) < SizeMod

(* A queue never holds a link twice, so its bytes fit.                     *)
LEMMA DistinctFits ==
  ASSUME RoomForBytes, NEW q \in Seq(VLs), Distinct(q)
  PROVE  ByteSum(q) \in 0 .. (SizeMod - 1)
<1> DEFINE S == 1 .. Len(q)
           w == Weight(q)
           Image == {q[n] : n \in S}
<1>1. /\ IsFiniteSet(S) /\ \A n \in S : w[n] \in Int /\ w[n] = Bytes[q[n]] /\ q[n] \in VLs
      /\ q \in [S -> VLs]
  BY Positions
<1>2. \A m, n \in S : q[m] = q[n] => m = n
  BY DEF Distinct
<1>3. IsFiniteSet(VLs) /\ \A v \in VLs : Bytes[v] \in Nat /\ Bytes[v] \in Int
  BY RcAssumption DEF RoomForBytes
<1>4. Image \in SUBSET VLs
  BY <1>1
<1> HIDE DEF S, w
<1>5. Total(w, S) = Total(Bytes, Image)
  BY <1>1, <1>2, <1>3, TotalRenamed
<1> HIDE DEF Image
<1>6. Total(Bytes, Image) <= Total(Bytes, VLs)
  BY <1>3, <1>4, TotalSubset
<1>7. Total(Bytes, VLs) < SizeMod
  BY SumSetIsTotal DEF RoomForBytes
<1>8. Total(Bytes, VLs) \in Nat
  <2>1. VLs \in SUBSET VLs
    OBVIOUS
  <2> QED
    BY <1>3, <2>1, TotalSubset
<1>9. ByteSum(q) \in Nat /\ ByteSum(q) = Total(w, S)
  BY ByteSumNat DEF ByteSum, S, w
<1> QED
  BY <1>5, <1>6, <1>7, <1>8, <1>9, RcAssumption

(* QueueSizeCached of one port.                                            *)
Sized(s) == \A i \in Priorities : s.size[i] = ByteSum(s.queue[i])

LEMMA SizedIsCached ==
  ASSUME TypeOK
  PROVE  QueueSizeCached <=> \A p \in Ports : Sized(port[p])
<1>1. \A p \in Ports, i \in Priorities : port[p].queue[i] \in Seq(VLs)
  BY DEF TypeOK, PortState
<1> QED
  BY <1>1, TotalBytesIsByteSum DEF QueueSizeCached, Sized

(* A queue that changes, with its size.                                    *)
LEMMA SizedChange ==
  ASSUME NEW s \in PortState, Sized(s), NEW i \in Priorities, NEW q, NEW n, n = ByteSum(q),
         NEW t, t.queue = [s.queue EXCEPT ![i] = q], t.size = [s.size EXCEPT ![i] = n]
  PROVE  Sized(t)
BY DEF Sized, PortState

LEMMA EnqueueSized ==
  ASSUME RoomForBytes, NEW s \in PortState, Sized(s), Clean(s), NEW v \in VLs, ~Holds(s, v)
  PROVE  Sized(Enqueue(v, s))
<1> DEFINE i == QueueOf(v)
           q == s.queue[i]
           a == Append(q, v)
           n == (s.size[i] + Bytes[v]) % SizeMod
           t == Enqueue(v, s)
<1>1. i \in Priorities /\ Priority[v] \in Priorities
  BY QueueOfType DEF RoomForBytes
<1>2. q \in Seq(VLs) /\ a \in Seq(VLs) /\ Distinct(q) /\ ~At(q, v)
  BY <1>1 DEF PortState, Clean, Holds
<1>3. t = [s EXCEPT !.queue = [s.queue EXCEPT ![i] = a], !.size = [s.size EXCEPT ![i] = n]]
  BY <1>1, Zenon DEF Enqueue, PortState
<1>4. s.size[i] = ByteSum(q)
  BY <1>1 DEF Sized
<1> DEFINE queues == [s.queue EXCEPT ![i] = a]
           sizes == [s.size EXCEPT ![i] = n]
<1>5. n = ByteSum(a)
  <2> HIDE DEF q
  <2>1. Distinct(a)
    BY <1>2, AppendAt
  <2>2. ByteSum(a) \in 0 .. (SizeMod - 1)
    BY <1>2, <2>1, DistinctFits
  <2>3. ByteSum(a) = s.size[i] + Bytes[v]
    BY <1>2, <1>4, ByteSumAppend
  <2> HIDE DEF a, i
  <2> QED
    BY <2>2, <2>3, RcAssumption
<1>6. t.queue = queues /\ t.size = sizes
  <2>1. t = [s EXCEPT !.queue = queues, !.size = sizes]
    BY <1>3
  <2> HIDE DEF queues, sizes, t, i, n, a, q
  <2> QED
    BY <2>1 DEF PortState
<1>7. t.queue = [s.queue EXCEPT ![i] = a] /\ t.size = [s.size EXCEPT ![i] = n]
  BY <1>6
<1> HIDE DEF t, n, a, i
<1> QED
  BY <1>1, <1>5, <1>7, SizedChange DEF t

LEMMA PopSized ==
  ASSUME RoomForBytes, NEW s \in PortState, Sized(s), Clean(s), NEW i \in Priorities,
         s.queue[i] # <<>>, NEW t,
         t.queue = [s.queue EXCEPT ![i] = Tail(s.queue[i])],
         t.size = [s.size EXCEPT ![i] = (s.size[i] - Bytes[Head(s.queue[i])]) % SizeMod]
  PROVE  Sized(t)
<1> DEFINE q == s.queue[i]
           rest == Tail(q)
           bytes == Bytes[Head(q)]
           n == (s.size[i] - bytes) % SizeMod
<1>1. q \in Seq(VLs) /\ q # <<>> /\ rest \in Seq(VLs) /\ Head(q) \in VLs /\ Distinct(q)
  BY DEF PortState, Clean
<1>2. s.size[i] = ByteSum(q)
  BY DEF Sized
<1>3. bytes \in Nat
  BY <1>1, RcAssumption
<1>4. t.queue = [s.queue EXCEPT ![i] = rest] /\ t.size = [s.size EXCEPT ![i] = n]
  OBVIOUS
<1> HIDE DEF q
<1>5. n = ByteSum(rest)
  <2>1. ByteSum(q) = bytes + ByteSum(rest)
    BY <1>1, ByteSumHead
  <2>2. Distinct(rest)
    BY <1>1, TailAt
  <2>3. ByteSum(rest) \in 0 .. (SizeMod - 1)
    BY <1>1, <2>2, DistinctFits
  <2> HIDE DEF rest, bytes
  <2>4. s.size[i] - bytes = ByteSum(rest)
    BY <1>2, <1>3, <2>1, <2>3, RcAssumption
  <2>5. ByteSum(rest) % SizeMod = ByteSum(rest)
    BY <2>3, SmallRemainder, RcAssumption
  <2> QED
    BY <2>4, <2>5
<1> HIDE DEF rest, n, bytes
<1> QED
  BY <1>4, <1>5, SizedChange

LEMMA SizedStep ==
  ASSUME RoomForBytes, IInv, \A p \in Ports : Sized(port[p]), [Next]_vars
  PROVE  \A p \in Ports : Sized(port'[p])
<1>1. ASSUME \A p \in Ports : port'[p].queue = port[p].queue /\ port'[p].size = port[p].size
      PROVE  \A p \in Ports : Sized(port'[p])
  BY <1>1 DEF Sized
<1>2. port \in [Ports -> PortState]
  BY DEF IInv, PortsOK, TypeOK
<1>3. CASE UNCHANGED port
  BY <1>1, <1>3
<1>4. CASE Tick
  <2>1. ASSUME NEW p \in Ports PROVE port'[p].queue = port[p].queue /\ port'[p].size = port[p].size
    <3>1. port'[p] = [port[p] EXCEPT !.mac = Down(@)] /\ port[p] \in PortState
      BY <1>2, <1>4 DEF Tick
    <3> QED
      BY <3>1 DEF PortState
  <2> QED
    BY <1>1, <2>1
<1>5. ASSUME NEW p \in Ports, FromLower(p)
      PROVE  \A q \in Ports : Sized(port'[q])
  <2>1. \A q \in Ports : port'[q].queue = port[q].queue /\ port'[q].size = port[q].size
    BY <1>2, <1>5 DEF FromLower, PortState
  <2> QED
    BY <1>1, <2>1
<1>6. ASSUME NEW v \in VLs, NEW p \in Ports, FromBuffer(v, p)
      PROVE  \A q \in Ports : Sized(port'[q])
  <2>1. CASE port[p].pending > 0
    <3>1. port' = [port EXCEPT ![p].pending = @ - 1, ![p].mac = Ticks[v]]
      BY <1>6, <2>1 DEF FromBuffer
    <3>2. \A q \in Ports : port'[q].queue = port[q].queue /\ port'[q].size = port[q].size
      BY <1>2, <3>1 DEF PortState
    <3> QED
      BY <1>1, <3>2
  <2>2. CASE ~(port[p].pending > 0)
    <3>1. port' = [port EXCEPT ![p] = Enqueue(v, port[p])]
      BY <1>6, <2>2 DEF FromBuffer
    <3>2. Clean(port[p]) /\ ~Holds(port[p], v) /\ port[p] \in PortState
      BY <1>2, <1>6 DEF FromBuffer, IInv, Clear
    <3>3. Sized(Enqueue(v, port[p]))
      BY <3>2, EnqueueSized
    <3> QED
      BY <1>2, <3>1, <3>3
  <2> QED
    BY <2>1, <2>2
<1>7. ASSUME NEW p \in Ports, RequestPacket(p)
      PROVE  \A q \in Ports : Sized(port'[q])
  <2>1. CASE \E i \in Priorities : Urgent(port[p], i)
    <3>1. PICK i \in Priorities : Urgent(port[p], i) /\ PopRC(p, i)
      BY <1>7, <2>1 DEF RequestPacket
    <3> DEFINE s == port[p]
               v == Head(s.queue[i])
               queues == [s.queue EXCEPT ![i] = Tail(s.queue[i])]
               sizes == [s.size EXCEPT ![i] = (s.size[i] - Bytes[v]) % SizeMod]
               ticks == Ticks[v]
               t == [[[s EXCEPT !.queue = queues] EXCEPT !.size = sizes] EXCEPT !.mac = ticks]
    <3>2. port' = [port EXCEPT ![p] = t]
      BY <3>1, Zenon DEF PopRC, IInv, PortsOK, TypeOK
    <3>3. s \in PortState /\ s.queue[i] # <<>> /\ Clean(s)
      BY <1>2, <3>1 DEF Urgent, IInv, Clear
    <3>4. t.queue = queues /\ t.size = sizes
      <4> HIDE DEF s, v, queues, sizes, ticks
      <4> QED
        BY <3>3 DEF PortState
    <3>5. /\ t.queue = [s.queue EXCEPT ![i] = Tail(s.queue[i])]
          /\ t.size = [s.size EXCEPT ![i] = (s.size[i] - Bytes[Head(s.queue[i])]) % SizeMod]
      BY <3>4
    <3> HIDE DEF t, queues, sizes, ticks, v
    <3>6. Sized(t)
      BY <3>3, <3>5, PopSized
    <3> QED
      BY <1>2, <3>2, <3>6
  <2>2. CASE ~(\E i \in Priorities : Urgent(port[p], i))
    <3>1. \/ PopLower(p)
          \/ port' = [port EXCEPT ![p].pending = @ + 1, ![p].mac = None]
      BY <1>7, <2>2 DEF RequestPacket
    <3>2. \A q \in Ports : port'[q].queue = port[q].queue /\ port'[q].size = port[q].size
      <4>1. CASE PopLower(p)
        BY <1>2, <4>1 DEF PopLower, PortState
      <4>2. CASE port' = [port EXCEPT ![p].pending = @ + 1, ![p].mac = None]
        BY <1>2, <4>2 DEF PortState
      <4> QED
        BY <3>1, <4>1, <4>2
    <3> QED
      BY <1>1, <3>2
  <2> QED
    BY <2>1, <2>2
<1> QED
  BY <1>3, <1>4, <1>5, <1>6, <1>7
     DEF Next, Progress, vars, BagExpires, Arrive, Switch, ClockCorrection

(* "caches queue size in bytes": when every link has a queue of its        *)
(* priority, the size that a queue caches is that of its frames, whatever  *)
(* the order of arrivals and transmissions; it cannot overflow, because no *)
(* link is in a queue twice.                                               *)
THEOREM SizesAreCached ==
  ASSUME RoomForBytes
  PROVE  Spec => []QueueSizeCached
<1>1. Init => IInv /\ QueueSizeCached
  <2> SUFFICES ASSUME Init PROVE IInv /\ QueueSizeCached
    OBVIOUS
  <2>1. IInv
    BY InitPorts, InitLinks DEF IInv
  <2>2. ASSUME NEW p \in Ports PROVE Sized(port[p])
    <3>1. \A i \in Priorities : port[p].queue[i] = <<>> /\ port[p].size[i] = 0
      <4> DEFINE queues == [i \in Priorities |-> <<>>]
                 sizes == [i \in Priorities |-> 0]
      <4>1. port[p] = [queue |-> queues, size |-> sizes, lower |-> 0, pending |-> 1, mac |-> None]
        BY DEF Init
      <4>2. \A i \in Priorities : queues[i] = <<>> /\ sizes[i] = 0
        OBVIOUS
      <4> HIDE DEF queues, sizes
      <4>3. port[p].queue = queues /\ port[p].size = sizes
        BY <4>1
      <4> QED
        BY <4>2, <4>3
    <3>2. ByteSum(<<>>) = 0
      <4>2. Len(<<>>) = 0 /\ 1 .. 0 = {}
        OBVIOUS
      <4>3. Total(Weight(<<>>), {}) = 0
        BY FS_EmptySet, TotalRemove
      <4> QED
        BY <4>2, <4>3 DEF ByteSum
    <3> QED
      BY <3>1, <3>2 DEF Sized
  <2> QED
    BY <2>1, <2>2, SizedIsCached DEF IInv, PortsOK
<1>2. IInv /\ QueueSizeCached /\ [Next]_vars => (IInv /\ QueueSizeCached)'
  <2> SUFFICES ASSUME IInv, QueueSizeCached, [Next]_vars PROVE (IInv /\ QueueSizeCached)'
    OBVIOUS
  <2>1. IInv'
    BY IInvStep
  <2>2. \A p \in Ports : Sized(port[p])
    BY SizedIsCached DEF IInv, PortsOK
  <2>3. \A p \in Ports : Sized(port'[p])
    BY <2>2, SizedStep
  <2>4. ASSUME NEW p \in Ports, NEW i \in Priorities
        PROVE  port'[p].size[i] = TotalBytes[port'[p].queue[i]]
    <3>1. port'[p].queue[i] \in Seq(VLs)
      BY <2>1 DEF IInv, PortsOK, TypeOK, PortState
    <3> QED
      BY <2>3, <3>1, TotalBytesIsByteSum DEF Sized
  <2> QED
    BY <2>1, <2>4 DEF QueueSizeCached
<1> QED
  BY <1>1, <1>2, PTL DEF Spec
=============================================================================
