------------------------------- MODULE TTPort -------------------------------
(***************************************************************************)
(* The way of time-triggered frames through a switch to its egress port:   *)
(* TTIncomings that drop what comes outside its receive window and hold    *)
(* the rest to its permanence point, TTBuffers that the Timer wakes at     *)
(* their send windows, the TTShaper that keeps the port free for them, and *)
(* below it the classes PCF, rate-constrained and best effort              *)
(* (TT_PCF_RC_BE_Shaper), which share the rest.                            *)
(*                                                                         *)
(* Time is relative to the clock of the node: a tick count of the code is  *)
(* here that count less the clock, so time and corrections subtract from   *)
(* all of them.  The shaper's map of TTBuffers is the function from buffer *)
(* to key, begin() the buffer with the least key.  Its ttQueue always is   *)
(* empty: a frame that would be put there raises an exception first.       *)
(***************************************************************************)
EXTENDS Integers, Sequences, FiniteSets

CONSTANTS
  Buffers,
  Cycle, SendWindowStart, TTTicks,  \* of each buffer; ticks its frame takes
  CommonCycle,                      \* a multiple of all cycles
  ReceiveStart, ReceiveEnd, Pit, \* of the TTIncoming before each buffer: its
                                 \* window and permanence point, or -1
  DoubleBuffer, Capacity, \* the buffers that keep one frame; size of the others
  Frames,                           \* frames of the lower classes
  Class, Ticks,                     \* class of a frame, ticks it takes
  SafetyMargin, AllowedEventDelay,
  Corrections,                      \* clock corrections
  CorrectionGap,                    \* ticks from one correction to the next
  SyncInWindow, \* a correction may come between an event and its buffer
  Switched,     \* the buffers whose "enabled" changes at run time
  MaxQueue      \* bound on the frames of a class that wait

Classes == 1 .. 3   \* PCF, rate-constrained, best effort

ASSUME TTPortAssumption ==
  /\ Buffers # {} /\ IsFiniteSet(Buffers)
  /\ Cycle \in [Buffers -> Nat \ {0}]
  /\ SendWindowStart \in [Buffers -> Nat]
  /\ \A b \in Buffers : SendWindowStart[b] < Cycle[b]
  /\ \A a, b \in Buffers : SendWindowStart[a] = SendWindowStart[b] => a = b
  /\ CommonCycle \in Nat \ {0}
  /\ \A b \in Buffers : {ReceiveStart[b], ReceiveEnd[b], Pit[b]} \subseteq -1 .. Cycle[b]
  /\ DoubleBuffer \subseteq Buffers
  /\ Capacity \in [Buffers -> Nat \ {0}]
  /\ \A b \in Buffers : CommonCycle % Cycle[b] = 0
  /\ TTTicks \in [Buffers -> Nat \ {0}]
  /\ Class \in [Frames -> Classes]
  /\ Ticks \in [Frames -> Nat \ {0}]
  /\ SafetyMargin \in Nat
  /\ AllowedEventDelay \in Int
  /\ Corrections \subseteq Int
  /\ CorrectionGap \in Nat \ {0}
  /\ SyncInWindow \in BOOLEAN
  /\ Switched \subseteq Buffers /\ Cardinality(Switched) <= 1
  /\ MaxQueue \in Nat

(* What the properties rely on, beyond what the modules check themselves.  *)

(* A tick at which the send window of b starts.                            *)
Slot(b, tick) == (tick - SendWindowStart[b]) % Cycle[b] = 0

(* The windows of a port do not overlap, by a safety margin.               *)
Separated ==
  \A a, b \in Buffers :
    \A tick \in 0 .. (CommonCycle - 1), n \in 0 .. (TTTicks[a] + SafetyMargin) :
      Slot(a, tick) /\ Slot(b, tick + n) => a = b /\ n = 0

(* No send window lies between the receive window and the permanence       *)
(* point, or nearer to them than a safety margin.                          *)
ReceivedApart ==
  \A b \in Buffers : Pit[b] > 0 =>
    /\ 0 < ReceiveEnd[b] /\ ReceiveEnd[b] <= Pit[b]
    /\ \A tick \in (ReceiveStart[b] - SafetyMargin) .. (Pit[b] + SafetyMargin) : ~Slot(b, tick)

(* The safety margin is "set according to maximum clock correction", and   *)
(* an event that a correction jumps over is not too late to be sent.       *)
Gradual ==
  /\ Corrections \subseteq (-SafetyMargin) .. SafetyMargin
  /\ AllowedEventDelay < 0 \/ SafetyMargin < AllowedEventDelay
  /\ SafetyMargin <= CorrectionGap
  /\ \A b \in Buffers : TTTicks[b] < CorrectionGap
  /\ \A f \in Frames : Ticks[f] < CorrectionGap

Undisturbed == Switched = {} /\ ~SyncInWindow

WellScheduled == Separated /\ ReceivedApart /\ Gradual /\ Undisturbed

VARIABLES
  clock,  \* the ticks of the clock within CommonCycle
  tt,     \* of each buffer: its event in the timer, its nextAction, its key
  inc,    \* of each TTIncoming: whether it holds a frame, its event in the
          \* timer, whether a frame has arrived in this tick
  stored, \* how many frames each buffer has
  fes,    \* messages with no delay, in order: <<kind, buffer>>
  port,   \* queues and framesRequested of the shaper, the MAC
  calm,   \* ticks since the last correction
  error   \* the exception that ended the simulation

vars == <<clock, tt, inc, stored, fes, port, calm, error>>

None == "none"

(* A buffer registers its first window with the timer and at the shaper.   *)
Registered(b) ==
  [fire |-> SendWindowStart[b], inTimer |-> TRUE, next |-> SendWindowStart[b],
   key |-> SendWindowStart[b], enabled |-> TRUE]

Init ==
  /\ clock = 0
  /\ tt = [b \in Buffers |-> Registered(b)]
  /\ inc = [b \in Buffers |-> [held |-> FALSE, inTimer |-> FALSE, fire |-> 0,
                               arrived |-> FALSE]]
  /\ stored = [b \in Buffers |-> 0]
  /\ fes = <<>>
  /\ port = [queue |-> [c \in Classes |-> <<>>], pending |-> 1, mac |-> 0]
  /\ calm = CorrectionGap
  /\ error = None
-----------------------------------------------------------------------------
Coming(message) == \E i \in DOMAIN fes : fes[i] = message

(* The timer, which sends its events in the order of their ticks.          *)

Due(tick) ==
  /\ tick <= 0
  /\ \A b \in Buffers : /\ tt[b].inTimer => tick <= tt[b].fire
                        /\ inc[b].inTimer => tick <= inc[b].fire

TimerFires(b) ==
  \/ /\ tt[b].inTimer /\ Due(tt[b].fire)
     /\ tt' = [tt EXCEPT ![b].inTimer = FALSE]
     /\ fes' = Append(fes, <<"event", b>>)
     /\ UNCHANGED <<clock, inc, stored, port, calm, error>>
  \/ /\ inc[b].inTimer /\ Due(inc[b].fire)
     /\ inc' = [inc EXCEPT ![b].inTimer = FALSE, ![b].fire = 0]
     /\ fes' = Append(fes, <<"pit", b>>)
     /\ UNCHANGED <<clock, tt, stored, port, calm, error>>

(* getTicks() of the period of the buffer and of its TTIncoming.           *)
InCycle(b) == clock % Cycle[b]

(* The ticks that registerEvent waits for a point of the cycle.            *)
Wait(b, point, nextCycle) ==
  LET distance == point - InCycle(b)
  IN  IF distance < 0 \/ (distance = 0 /\ nextCycle)
      THEN Cycle[b] + distance ELSE distance
-----------------------------------------------------------------------------
(* The TTIncomings.                                                        *)

(* Mutant: frames that are too late are taken.                             *)
InReceiveWindow_NoEnd(b) == ReceiveStart[b] > 0 => InCycle(b) >= ReceiveStart[b]

InReceiveWindow(b) ==
  /\ ReceiveStart[b] > 0 => InCycle(b) >= ReceiveStart[b]
  /\ ReceiveEnd[b] > 0 => InCycle(b) <= ReceiveEnd[b]

(* A frame from the link, which carries at most one in a tick; outside its *)
(* window, or while another one is held, it is dropped.                    *)
Arrives(b) ==
  /\ ~inc[b].arrived
  /\ ~inc[b].held /\ InReceiveWindow(b)
  /\ LET wait == Wait(b, Pit[b], FALSE) IN
     IF Pit[b] > 0
     THEN /\ inc' = [inc EXCEPT ![b] = [held |-> TRUE, inTimer |-> wait > 0, fire |-> wait,
                                        arrived |-> TRUE]]
          /\ fes' = IF wait > 0 THEN fes ELSE Append(fes, <<"pit", b>>)
     ELSE /\ fes' = Append(fes, <<"in", b>>)
          /\ inc' = [inc EXCEPT ![b].arrived = TRUE]
  /\ UNCHANGED <<clock, tt, stored, port, calm, error>>

(* The permanence point: the frame goes to the buffer.                     *)
PermanencePoint(b) ==
  /\ fes # <<>> /\ Head(fes) = <<"pit", b>>
  /\ IF inc[b].held
     THEN /\ inc' = [inc EXCEPT ![b].held = FALSE]
          /\ fes' = Append(Tail(fes), <<"in", b>>)
          /\ UNCHANGED error
     ELSE /\ error' = "no frame"
          /\ fes' = Tail(fes)
          /\ UNCHANGED inc
  /\ UNCHANGED <<clock, tt, stored, port, calm>>
-----------------------------------------------------------------------------
(* The TTBuffers.                                                          *)

(* A double buffer overwrites its frame, a full queue drops the first or   *)
(* the new one.                                                            *)
Enqueue(b) ==
  /\ fes # <<>> /\ Head(fes) = <<"in", b>>
  /\ fes' = Tail(fes)
  /\ stored' = [stored EXCEPT ![b] =
       IF b \in DoubleBuffer THEN 1
       ELSE IF stored[b] < Capacity[b] THEN stored[b] + 1 ELSE stored[b]]
  /\ UNCHANGED <<clock, tt, inc, port, calm, error>>

(* A double buffer keeps what it sends.                                    *)
Dequeued(b) ==
  IF b \in DoubleBuffer \/ stored[b] = 0 THEN stored
  ELSE [stored EXCEPT ![b] = stored[b] - 1]

(* Mutant: the next window is counted from this event, late as it may be.  *)
NextWindow_FromNow(b) == Cycle[b]

NextWindow(b) == Wait(b, SendWindowStart[b], TRUE)

(* The event reaches its buffer, which sends a frame or that it has none.  *)
BufferSends(b) ==
  /\ fes # <<>> /\ Head(fes) = <<"event", b>>
  /\ IF tt[b].enabled
     THEN /\ fes' = Append(Tail(fes), <<IF stored[b] > 0 THEN "frame" ELSE "empty", b>>)
          /\ stored' = Dequeued(b)
     ELSE /\ fes' = Tail(fes)
          /\ UNCHANGED stored
  /\ tt' = [tt EXCEPT ![b].inTimer = TRUE, ![b].fire = NextWindow(b),
                      ![b].next = NextWindow(b)]
  /\ UNCHANGED <<clock, inc, port, calm, error>>

Switch(b) ==
  /\ tt' = [tt EXCEPT ![b].enabled = ~tt[b].enabled]
  /\ UNCHANGED <<clock, inc, stored, fes, port, calm, error>>
-----------------------------------------------------------------------------
(* The shaper.                                                             *)

(* begin() of the map.                                                     *)
IsFirst(b) == \A o \in Buffers : tt[b].key <= tt[o].key

(* Mutant: without the safety margin.                                      *)
IsTransmissionAllowed_NoMargin(f, keys) ==
  \A b \in Buffers : Ticks[f] < keys[b]

IsTransmissionAllowed(f, keys) ==
  \A b \in Buffers : Ticks[f] + SafetyMargin < keys[b]

Keys == [b \in Buffers |-> tt[b].key]

Front(c) ==
  /\ port.queue[c] # <<>>
  /\ \A d \in Classes : d < c => port.queue[d] = <<>>

CanPop(c, keys) ==
  Front(c) /\ IsTransmissionAllowed(Head(port.queue[c]), keys)

(* The port with an open request: the first frame is sent if it may be.    *)
Pop(keys) ==
  IF \E c \in Classes : CanPop(c, keys)
  THEN \E c \in Classes :
         /\ CanPop(c, keys)
         /\ port' = [queue |-> [port.queue EXCEPT ![c] = Tail(port.queue[c])],
                     pending |-> 0, mac |-> Ticks[Head(port.queue[c])]]
  ELSE port' = [port EXCEPT !.pending = 1]

Fail(kind) ==
  /\ error' = kind
  /\ UNCHANGED <<tt, port>>

(* Mutant: a buffer without a frame does not free the port.                *)
TTinEmpty_Ignored(b) == port' = port

(* A buffer has nothing to send: a lower frame may use the time.           *)
TTinEmpty(b) ==
  IF port.pending > 0
  THEN Pop([Keys EXCEPT ![b] = tt[b].next])
  ELSE UNCHANGED port

(* Mutant: the buffer keeps its place in the map.                          *)
FromTTBuffer_NotRegistered(b) ==
  /\ fes # <<>> /\ Head(fes) \in {"frame", "empty"} \X {b}
  /\ fes' = Tail(fes)
  /\ IF ~IsFirst(b) THEN Fail("unexpected")
     ELSE IF Head(fes)[1] = "empty"
     THEN TTinEmpty(b) /\ UNCHANGED <<tt, error>>
     ELSE IF port.pending > 0
     THEN /\ port' = [port EXCEPT !.pending = port.pending - 1, !.mac = TTTicks[b]]
          /\ UNCHANGED <<tt, error>>
     ELSE Fail("delayed")
  /\ UNCHANGED <<clock, inc, stored, calm>>

(* A frame or an empty message arrives on TTin.                            *)
FromTTBuffer(b) ==
  /\ fes # <<>> /\ Head(fes) \in {"frame", "empty"} \X {b}
  /\ fes' = Tail(fes)
  /\ IF ~IsFirst(b) THEN Fail("unexpected")
     ELSE IF \E o \in Buffers \ {b} : tt[o].key = tt[b].next
     THEN Fail("same window")
     ELSE IF Head(fes)[1] = "frame" /\ port.pending = 0
     THEN Fail("delayed")
     ELSE /\ tt' = [tt EXCEPT ![b].key = tt[b].next]
          /\ IF Head(fes)[1] = "empty"
             THEN TTinEmpty(b)
             ELSE port' = [port EXCEPT !.pending = port.pending - 1,
                                       !.mac = TTTicks[b]]
          /\ UNCHANGED error
  /\ UNCHANGED <<clock, inc, stored, calm>>

FromLower(f) ==
  /\ Len(port.queue[Class[f]]) < MaxQueue
  /\ port' =
       IF port.pending > 0 /\ IsTransmissionAllowed(f, Keys)
       THEN [port EXCEPT !.pending = port.pending - 1, !.mac = Ticks[f]]
       ELSE [port EXCEPT !.queue[Class[f]] = Append(port.queue[Class[f]], f)]
  /\ UNCHANGED <<clock, tt, inc, stored, fes, calm, error>>

(* The MAC has sent its frame and asks for the next one.                   *)
RequestPacket ==
  /\ port.pending = 0 /\ port.mac = 0
  /\ Pop(Keys)
  /\ UNCHANGED <<clock, tt, inc, stored, fes, calm, error>>
-----------------------------------------------------------------------------
(* Time.                                                                   *)

(* How far a key may lie in the past before it makes no difference.        *)
Oldest == -2 * CommonCycle

After(key, n) == IF key - n < Oldest THEN Oldest ELSE key - n

Down(t, n) ==
  [t EXCEPT !.fire = t.fire - n, !.next = After(t.next, n), !.key = After(t.key, n)]

(* An event the correction jumps over is sent at once if it is not too     *)
(* late, and else moved by whole cycles.                                   *)
Jumped(b, fire) ==
  IF fire >= 0 \/ AllowedEventDelay < 0 \/ -fire < AllowedEventDelay
  THEN fire ELSE fire % Cycle[b]

ClockCorrection(correction) ==
  /\ calm = CorrectionGap
  /\ fes = <<>> \/ SyncInWindow
  /\ calm' = 0
  /\ clock' = (clock + correction) % CommonCycle
  /\ tt' = [b \in Buffers |->
       LET t == Down(tt[b], correction) IN
       [t EXCEPT !.fire = IF t.inTimer THEN Jumped(b, t.fire) ELSE t.fire]]
  /\ inc' = [b \in Buffers |->
       IF inc[b].inTimer
       THEN [inc[b] EXCEPT !.fire = Jumped(b, inc[b].fire - correction)]
       ELSE inc[b]]
  /\ UNCHANGED <<stored, fes, port, error>>

Tick ==
  /\ fes = <<>>
  /\ \A b \in Buffers : tt[b].fire > 0 /\ (inc[b].inTimer => inc[b].fire > 0)
  /\ port.mac > 0 \/ port.pending > 0
  /\ clock' = (clock + 1) % CommonCycle
  /\ tt' = [b \in Buffers |-> Down(tt[b], 1)]
  /\ inc' = [b \in Buffers |->
       [inc[b] EXCEPT !.arrived = FALSE,
                      !.fire = IF inc[b].inTimer THEN inc[b].fire - 1 ELSE 0]]
  /\ port' = [port EXCEPT !.mac = IF port.mac > 0 THEN port.mac - 1 ELSE 0]
  /\ calm' = IF calm < CorrectionGap THEN calm + 1 ELSE calm
  /\ UNCHANGED <<stored, fes, error>>

(* The steps of an instant, one message after the other.                   *)
Handles(b) ==
  \/ TimerFires(b)
  \/ PermanencePoint(b)
  \/ Enqueue(b)
  \/ BufferSends(b)
  \/ FromTTBuffer(b)

Next ==
  /\ error = None
  /\ \/ \E b \in Buffers : Arrives(b) \/ Handles(b)
     \/ \E b \in Switched : Switch(b)
     \/ \E f \in Frames : FromLower(f)
     \/ RequestPacket
     \/ \E correction \in Corrections : ClockCorrection(correction)
     \/ Tick

Spec == Init /\ [][Next]_vars

(* Every event of an instant is handled before time goes on.               *)
FairSpec ==
  /\ Spec
  /\ WF_vars(error = None /\ Tick)
  /\ WF_vars(error = None /\ RequestPacket)
  /\ \A b \in Buffers : WF_vars(error = None /\ Handles(b))
-----------------------------------------------------------------------------
(***************************************************************************)
(* Properties.                                                             *)
(***************************************************************************)

(* Everything keeps its type; the MAC never has two requests open, and has *)
(* one exactly when it sends nothing and has asked.                        *)
TypeOK ==
  /\ clock \in 0 .. (CommonCycle - 1)
  /\ tt \in [Buffers -> [fire : Int, inTimer : BOOLEAN, next : Int, key : Int,
                         enabled : BOOLEAN]]
  /\ inc \in [Buffers -> [held : BOOLEAN, inTimer : BOOLEAN, fire : Int,
                      arrived : BOOLEAN]]
  /\ \A b \in Buffers : inc[b].inTimer => inc[b].held
  /\ stored \in [Buffers -> Nat]
  /\ \A b \in Buffers : stored[b] <= IF b \in DoubleBuffer THEN 1 ELSE Capacity[b]
  /\ fes \in Seq({"event", "pit", "in", "frame", "empty"} \X Buffers)
  /\ port \in [queue : [Classes -> Seq(Frames)], pending : {0, 1}, mac : Nat]
  /\ port.pending = 1 => port.mac = 0
  /\ calm \in 0 .. CorrectionGap
  /\ error \in {None, "no frame", "unexpected", "same window", "delayed"}

(* "Time-triggered messages are send immediately": with a safety margin    *)
(* "set according to maximum clock correction" they come in the order of   *)
(* the map and find the port idle; none of the exceptions is raised.       *)
NoException == error = None

(* "The map is ordered by sendwindow": the buffer the shaper expects is    *)
(* the one that the timer wakes next, or whose message is on its way.      *)
FirstIsNext ==
  LET coming == {i \in DOMAIN fes : fes[i][1] \in {"event", "frame", "empty"}} IN
  \A b \in Buffers : IsFirst(b) =>
    IF coming = {} THEN \A o \in Buffers : tt[b].fire <= tt[o].fire
    ELSE \E i \in coming : fes[i][2] = b /\ \A j \in coming : i <= j

(* The port is well-formed (a request is open only while the MAC is idle), *)
(* its map of windows agrees with the timer, and no time-triggered frame   *)
(* comes out of turn or finds the port busy.                               *)
InOrder == TypeOK /\ FirstIsNext /\ NoException

(* A frame that was taken in its window is in the buffer when the buffer   *)
(* sends, however the clock is corrected between the two: it leaves in the *)
(* cycle of its permanence point.  And what the TTIncoming holds, its      *)
(* event is on the way for, else every later frame would be dropped.       *)
SentInItsCycle ==
  \A b \in Buffers : Pit[b] > 0 =>
    /\ inc[b].held => inc[b].inTimer \/ Coming(<<"pit", b>>)
    /\ (fes # <<>> /\ Head(fes) = <<"event", b>>) =>
         ~inc[b].held /\ ~Coming(<<"in", b>>)

(* "send its Message in conformance with the send window": a buffer sends  *)
(* when its window has started, at most a safety margin ago.               *)
SentInWindow ==
  \A b \in Buffers :
    fes # <<>> /\ Head(fes) = <<"event", b>> =>
      (clock - SendWindowStart[b]) % Cycle[b] <= SafetyMargin

(* The port is idle with frames waiting only when the first of them would  *)
(* not fit before the next window (or a correction has just made room).    *)
IdleOnlyWhenBlocked ==
  port.pending = 1 /\ fes = <<>> =>
    \A c \in Classes : Front(c) =>
      \E b \in Buffers :
        Ticks[Head(port.queue[c])] + SafetyMargin + SafetyMargin >= tt[b].key

(* "lower priority frames are delayed if they do not fit in the gap until  *)
(* the next time-triggered message": delayed, but when no more frames come *)
(* all that wait are sent.                                                 *)
QueuesDrain ==
  <>[][\A f \in Frames : ~FromLower(f)]_vars
    => []<>(\A c \in Classes : port.queue[c] = <<>>)

=============================================================================
