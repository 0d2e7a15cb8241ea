----------------------------- MODULE RcTraffic -----------------------------
(***************************************************************************)
(* Rate-constrained traffic: the buffer of each virtual link (RCBuffer,    *)
(* as a queue or as a double buffer) hands its frames to the shapers       *)
(* (RCShaper) of several ports and starts the next bandwidth allocation    *)
(* gap (BAG) when the last of them has passed the frame to its MAC.        *)
(*                                                                         *)
(* Time is relative: what the code keeps as tick counts are here the ticks *)
(* that are left (timer, mac) or have passed (age of lastSent, gap).  A    *)
(* clock correction moves lastSent against the clock and leaves the timer  *)
(* alone: Timer's TimerOnTime shows that a timer expires after the real    *)
(* ticks it was set for.                                                   *)
(***************************************************************************)
EXTENDS Integers, Sequences, FiniteSets

CONSTANTS
  VLs, Ports,
  NumPriorities,     \* numRCpriority
  LowerTicks,        \* ticks that a frame of a lower class occupies a port
  SizeMod,           \* range of size_t
  Corrections, MaxShift, \* clock corrections, bound on their sum
  MaxLower           \* bound on the frames of lower classes in a port

CONSTANTS          \* functions of the virtual link:
  Dest,            \* the ports of destination_gates
  Bag, Jitter,     \* in ticks
  Priority,
  Capacity,        \* size of its queue
  Ticks, Bytes,    \* ticks that a frame occupies a port, its length
  DoubleBuffer,    \* the links with an RCDoubleBuffer
  DropNew,         \* the links whose queue drops the new frame
  Switched         \* the links whose "enabled" changes at run time

Priorities == 0 .. (NumPriorities - 1)

ASSUME RcAssumption ==
  /\ IsFiniteSet(Ports)
  /\ NumPriorities \in Nat \ {0}
  /\ LowerTicks \in Nat
  /\ SizeMod \in Nat \ {0}
  /\ Corrections \subseteq Int
  /\ MaxShift \in Nat
  /\ MaxLower \in Nat
  /\ Dest \in [VLs -> (SUBSET Ports) \ {{}}]
  /\ Bag \in [VLs -> Nat]
  /\ Jitter \in [VLs -> Nat]
  /\ Priority \in [VLs -> Int]
  /\ Capacity \in [VLs -> Nat \ {0}]
  /\ Ticks \in [VLs -> Nat]
  /\ Bytes \in [VLs -> Nat]
  /\ Switched \subseteq VLs

VARIABLES
  buffer,   \* RCBuffer of each virtual link
  wire,     \* <<link, port>>: frames sent by sendDirect in this instant
  port,     \* the shaper and the MAC of each port
  shift,    \* the sum of the clock corrections
  gap       \* history: ticks since the link's last frame started at the port

vars == <<buffer, wire, port, shift, gap>>

None == -1

AtMost(limit, n) == IF n > limit THEN limit ELSE n

Init ==
  /\ buffer = [v \in VLs |-> [frames |-> 0, enabled |-> TRUE, bagExpired |-> TRUE,
                              numReset |-> 0, timer |-> None, age |-> 0]]
  /\ wire = {}
  /\ port = [p \in Ports |->
       [queue |-> [i \in Priorities |-> <<>>], size |-> [i \in Priorities |-> 0],
        lower |-> 0, pending |-> 1, mac |-> None]]
  /\ shift = 0
  /\ gap = [v \in VLs |-> [p \in Ports |-> Bag[v]]]
-----------------------------------------------------------------------------
(* The bandwidth allocation gap.                                           *)

(* Mutant: a frame that was delayed for long shortens the gap without end. *)
Delay_NoLimit(v, age) == age

(* The difference of two uint64_t, at most the jitter.                     *)
Delay(v, age) == IF age \in 0 .. Jitter[v] THEN age ELSE Jitter[v]

(* Mutant: the first port starts the gap.                                  *)
ResetBag_FirstPort(v) ==
  LET b == buffer[v] IN
  [b EXCEPT !.numReset = @ + 1,
            !.timer = IF Bag[v] < Delay(v, b.age) THEN 0 ELSE Bag[v] - Delay(v, b.age)]

ResetBag(v) ==
  LET b == buffer[v] IN
  [b EXCEPT !.numReset = @ + 1,
            !.timer = IF b.numReset + 1 # Cardinality(Dest[v]) THEN @
                      ELSE IF Bag[v] < Delay(v, b.age) THEN 0
                      ELSE Bag[v] - Delay(v, b.age)]
-----------------------------------------------------------------------------
(* RCBuffer.                                                               *)

HasFrame(b) == b.enabled /\ b.frames > 0   \* getFrame

Dequeued(v, frames) == IF v \in DoubleBuffer THEN frames ELSE frames - 1

Enqueued(v, frames) ==
  IF v \in DoubleBuffer THEN 1
  ELSE IF frames < Capacity[v] THEN frames + 1
  ELSE frames   \* the oldest or the new one is dropped

Emit(v, b) ==
  /\ buffer' = [buffer EXCEPT ![v] = [b EXCEPT !.frames = Dequeued(v, @),
                                               !.bagExpired = FALSE,
                                               !.numReset = 0]]
  /\ wire' = wire \union ({v} \X Dest[v])

(* A frame arrives on "in".  One that is too long is not stored; one that  *)
(* was dropped is deleted and then asked for its gate (undefined).         *)
Arrive(v) ==
  /\ \E fits, onIn \in BOOLEAN :
       LET full == v \notin DoubleBuffer /\ buffer[v].frames >= Capacity[v]
           b == IF fits THEN [buffer[v] EXCEPT !.frames = Enqueued(v, @)]
                        ELSE buffer[v]
       IN
       /\ ~onIn => fits /\ full /\ v \in DropNew
       /\ IF onIn /\ b.bagExpired /\ HasFrame(b)
          THEN Emit(v, b)
          ELSE /\ buffer' = [buffer EXCEPT ![v] = b]
               /\ UNCHANGED wire
  /\ UNCHANGED <<port, shift, gap>>

(* Mutant: a gap that ends without a frame is not remembered.              *)
BagExpires_Forgotten(v) ==
  /\ buffer[v].timer = 0
  /\ LET b == [buffer[v] EXCEPT !.timer = None] IN
     IF HasFrame(b)
     THEN Emit(v, [b EXCEPT !.age = 0])
     ELSE /\ buffer' = [buffer EXCEPT ![v] = b]
          /\ UNCHANGED wire
  /\ UNCHANGED <<port, shift, gap>>

(* The SchedulerTimerEvent arrives.                                        *)
BagExpires(v) ==
  /\ buffer[v].timer = 0
  /\ LET b == [buffer[v] EXCEPT !.timer = None] IN
     IF HasFrame(b)
     THEN Emit(v, [b EXCEPT !.age = 0])
     ELSE /\ buffer' = [buffer EXCEPT ![v] = [b EXCEPT !.bagExpired = TRUE]]
          /\ UNCHANGED wire
  /\ UNCHANGED <<port, shift, gap>>

Switch(v) ==
  /\ buffer' = [buffer EXCEPT ![v].enabled = ~@]
  /\ UNCHANGED <<wire, port, shift, gap>>
-----------------------------------------------------------------------------
(* RCShaper and the MAC behind it.                                         *)

Transmit(v, p) ==
  /\ buffer' = [buffer EXCEPT ![v] = ResetBag(v)]
  /\ gap' = [gap EXCEPT ![v][p] = 0]

QueueOf(v) == IF Priority[v] \in Priorities THEN Priority[v] ELSE 0

(* Mutant: the size of the queue is not updated.                           *)
Enqueue_NoSize(v, s) == [s EXCEPT !.queue[QueueOf(v)] = Append(@, v)]

(* A frame with a priority out of range goes to queue 0, uncounted.        *)
Enqueue(v, s) ==
  [s EXCEPT !.queue[QueueOf(v)] = Append(@, v),
            !.size[QueueOf(v)] =
              IF Priority[v] \in Priorities THEN (@ + Bytes[v]) % SizeMod ELSE @]

(* Mutant: the request of the MAC is not used up.                          *)
FromBuffer_RequestKept(v, p) ==
  /\ <<v, p>> \in wire
  /\ wire' = wire \ {<<v, p>>}
  /\ IF port[p].pending > 0
     THEN /\ Transmit(v, p)
          /\ port' = [port EXCEPT ![p].mac = Ticks[v]]
     ELSE /\ port' = [port EXCEPT ![p] = Enqueue(v, @)]
          /\ UNCHANGED <<buffer, gap>>
  /\ UNCHANGED shift

FromBuffer(v, p) ==
  /\ <<v, p>> \in wire
  /\ wire' = wire \ {<<v, p>>}
  /\ IF port[p].pending > 0
     THEN /\ Transmit(v, p)
          /\ port' = [port EXCEPT ![p].pending = @ - 1, ![p].mac = Ticks[v]]
     ELSE /\ port' = [port EXCEPT ![p] = Enqueue(v, @)]
          /\ UNCHANGED <<buffer, gap>>
  /\ UNCHANGED shift

(* A frame that is not rate-constrained.                                   *)
FromLower(p) ==
  /\ port[p].lower < MaxLower
  /\ port' = IF port[p].pending > 0
             THEN [port EXCEPT ![p].pending = @ - 1, ![p].mac = LowerTicks]
             ELSE [port EXCEPT ![p].lower = @ + 1]
  /\ UNCHANGED <<buffer, wire, shift, gap>>

(* The first priority that has frames waiting.                             *)
Urgent(s, i) == /\ s.queue[i] # <<>>
                /\ \A j \in Priorities : j < i => s.queue[j] = <<>>

PopRC(p, i) ==
  LET s == port[p]
      v == Head(s.queue[i])
  IN
  /\ Transmit(v, p)
  /\ port' = [port EXCEPT ![p].queue[i] = Tail(@),
                          ![p].size[i] = (@ - Bytes[v]) % SizeMod,
                          ![p].mac = Ticks[v]]

PopLower(p) ==
  /\ port' = [port EXCEPT ![p].lower = @ - 1, ![p].mac = LowerTicks]
  /\ UNCHANGED <<buffer, gap>>

(* Mutant: the lower classes are asked first.                              *)
RequestPacket_LowerFirst(p) ==
  /\ port[p].mac = 0
  /\ IF port[p].lower > 0 THEN PopLower(p)
     ELSE IF \E i \in Priorities : Urgent(port[p], i)
     THEN \E i \in Priorities : Urgent(port[p], i) /\ PopRC(p, i)
     ELSE /\ port' = [port EXCEPT ![p].pending = @ + 1, ![p].mac = None]
          /\ UNCHANGED <<buffer, gap>>
  /\ UNCHANGED <<wire, shift>>

(* The MAC has sent its frame and asks for the next one: requestPacket.    *)
RequestPacket(p) ==
  /\ port[p].mac = 0
  /\ IF \E i \in Priorities : Urgent(port[p], i)
     THEN \E i \in Priorities : Urgent(port[p], i) /\ PopRC(p, i)
     ELSE IF port[p].lower > 0 THEN PopLower(p)
     ELSE /\ port' = [port EXCEPT ![p].pending = @ + 1, ![p].mac = None]
          /\ UNCHANGED <<buffer, gap>>
  /\ UNCHANGED <<wire, shift>>
-----------------------------------------------------------------------------
(* Time.                                                                   *)

(* Ages from this one on make no difference: the delay is the jitter.      *)
MaxAge(v) == Jitter[v] + 2 * MaxShift + 1

ClockCorrection(correction) ==
  /\ shift + correction \in -MaxShift .. MaxShift
  /\ shift' = shift + correction
  /\ buffer' = [v \in VLs |-> [buffer[v] EXCEPT !.age = AtMost(MaxAge(v), @ + correction)]]
  /\ UNCHANGED <<wire, port, gap>>

Down(n) == IF n = None THEN None ELSE n - 1

Tick ==
  /\ wire = {}
  /\ \A v \in VLs : buffer[v].timer # 0
  /\ \A p \in Ports : port[p].mac # 0
  /\ buffer' = [v \in VLs |-> [buffer[v] EXCEPT !.timer = Down(@),
                                                !.age = AtMost(MaxAge(v), @ + 1)]]
  /\ port' = [p \in Ports |-> [port[p] EXCEPT !.mac = Down(@)]]
  /\ gap' = [v \in VLs |-> [p \in Ports |-> AtMost(Bag[v], gap[v][p] + 1)]]
  /\ UNCHANGED <<wire, shift>>

(* What the event loop of the simulation does in any case.                 *)
Progress ==
  \/ \E v \in VLs : BagExpires(v)
  \/ \E v \in VLs, p \in Ports : FromBuffer(v, p)
  \/ \E p \in Ports : RequestPacket(p)
  \/ Tick

Next ==
  \/ Progress
  \/ \E v \in VLs : Arrive(v)
  \/ \E v \in Switched : Switch(v)
  \/ \E p \in Ports : FromLower(p)
  \/ \E correction \in Corrections : ClockCorrection(correction)

Spec == Init /\ [][Next]_vars

(* The buffers stay enabled, the clock is not corrected.                   *)
Undisturbed ==
  \/ Progress
  \/ \E v \in VLs : Arrive(v)
  \/ \E p \in Ports : FromLower(p)

(* Every event of an instant is handled before time goes on.               *)
FairSpec ==
  /\ Init
  /\ [][Undisturbed]_vars
  /\ WF_vars(Tick)
  /\ \A v \in VLs : WF_vars(BagExpires(v))
  /\ \A v \in VLs, p \in Ports : WF_vars(FromBuffer(v, p))
  /\ \A p \in Ports : WF_vars(RequestPacket(p))
-----------------------------------------------------------------------------
(***************************************************************************)
(* Properties.                                                             *)
(***************************************************************************)

BufferState ==
  [frames : Nat, enabled : BOOLEAN, bagExpired : BOOLEAN, numReset : Nat,
   timer : Nat \union {None}, age : Int]

PortState ==
  [queue : [Priorities -> Seq(VLs)], size : [Priorities -> 0 .. (SizeMod - 1)],
   lower : Nat, pending : {0, 1}, mac : Nat \union {None}]

(* Everything keeps its type; the MAC never has two requests open.         *)
TypeOK ==
  /\ buffer \in [VLs -> BufferState]
  /\ wire \subseteq VLs \X Ports
  /\ port \in [Ports -> PortState]
  /\ shift \in Int
  /\ gap \in [VLs -> [Ports -> Nat]]

Waits(v, p) ==
  \E i \in Priorities : \E n \in DOMAIN port[p].queue[i] : port[p].queue[i][n] = v

(* The frame of the link is on its way to the port or waits there.         *)
Outstanding(v, p) == <<v, p>> \in wire \/ Waits(v, p)

PortsAhead(v) == {p \in Ports : Outstanding(v, p)}

(* A link is in one of three phases: its gap has expired, its gap is       *)
(* running, or one frame is still ahead of some ports.                     *)
InPhase(v) ==
  IF buffer[v].bagExpired \/ buffer[v].timer # None
  THEN /\ ~(buffer[v].bagExpired /\ buffer[v].timer # None)
       /\ PortsAhead(v) = {}
  ELSE /\ PortsAhead(v) # {}
       /\ PortsAhead(v) \subseteq Dest[v]
       /\ buffer[v].numReset + Cardinality(PortsAhead(v)) = Cardinality(Dest[v])

NoSecondFrame(p) ==
  /\ \A v \in VLs : ~(<<v, p>> \in wire /\ Waits(v, p))
  /\ \A i, j \in Priorities :
       \A n \in DOMAIN port[p].queue[i], m \in DOMAIN port[p].queue[j] :
         port[p].queue[i][n] = port[p].queue[j][m] => i = j /\ n = m

(* numReset counts exactly the ports that the frame has passed: no gap     *)
(* starts before the last port, every gap starts, and no port ever has two *)
(* frames of one link.                                                     *)
OneFramePerGap ==
  /\ \A v \in VLs : InPhase(v)
  /\ \A p \in Ports : NoSecondFrame(p)

Starts(v, p) == Outstanding(v, p) /\ ~Outstanding(v, p)'

(* "Subtract delay from bag to allow frames to keep up their bandwidth":   *)
(* however long the frames wait in the ports and however the clock is      *)
(* corrected, at every port the frames of a link start at least the gap    *)
(* less the jitter apart.                                                  *)
PacedPorts ==
  [][\A v \in VLs, p \in Ports :
       Starts(v, p) => gap[v][p] + Jitter[v] >= Bag[v]]_vars

(* "The RCShaper only allows lower priorities to transmit when there are   *)
(* no RC messages queued": it passes a lower frame on at once when the MAC *)
(* is idle, and then all queues are empty.                                 *)
LowerYields ==
  \A p \in Ports :
    /\ port[p].pending = 1 <=> port[p].mac = None
    /\ port[p].pending = 1 =>
         port[p].lower = 0 /\ \A i \in Priorities : port[p].queue[i] = <<>>

(* The other half: no queued lower frame starts before one that is         *)
(* rate-constrained.                                                       *)
LowerStartsAlone ==
  [][\A p \in Ports : port'[p].lower < port[p].lower =>
       \A i \in Priorities : port[p].queue[i] = <<>>]_vars

TotalBytes[q \in Seq(VLs)] ==
  IF q = <<>> THEN 0 ELSE Bytes[Head(q)] + TotalBytes[Tail(q)]

(* "caches queue size in bytes": the size is that of the frames queued.    *)
QueueSizeCached ==
  \A p \in Ports, i \in Priorities : port[p].size[i] = TotalBytes[port[p].queue[i]]

(* Every frame that is stored leaves the buffer, and every gap ends: no    *)
(* link waits for a reset or a timer that does not come.                   *)
EveryFrameLeaves ==
  \A v \in VLs : /\ buffer[v].frames > 0 ~> wire \intersect ({v} \X Ports) # {}
                 /\ ~buffer[v].bagExpired ~> buffer[v].timer = 0
=============================================================================
