---------------------------- MODULE TTPort_proofs ----------------------------
(***************************************************************************)
(* Proofs about TTPort for all buffers, schedules, frames, corrections and *)
(* lengths of frames: when the windows are apart by a safety margin, they  *)
(* are met in order and find the port idle.                                *)
(***************************************************************************)
EXTENDS TTPort, IntegerLemmas, TLAPS

(* The constants of one buffer.                                            *)
LEMMA Constants ==
  ASSUME NEW b \in Buffers
  PROVE  /\ Cycle[b] \in Nat \ {0} /\ SendWindowStart[b] \in Nat
         /\ SendWindowStart[b] < Cycle[b]
         /\ TTTicks[b] \in Nat \ {0} /\ SafetyMargin \in Nat
         /\ CommonCycle \in Nat \ {0} /\ CorrectionGap \in Nat \ {0}
         /\ Pit[b] \in Int /\ ReceiveStart[b] \in Int /\ ReceiveEnd[b] \in Int
         /\ Capacity[b] \in Nat \ {0}
  BY TTPortAssumption

-----------------------------------------------------------------------------
(* Windows.  Ticks are relative to the clock, which goes round the common  *)
(* cycle; the start of a window is where it was.                           *)

LEMMA CommonCycleIs ==
  ASSUME NEW b \in Buffers
  PROVE  \E k \in Int : CommonCycle = Cycle[b] * k
<1> DEFINE d == Cycle[b]
           q == CommonCycle \div d
<1>1. d \in Nat \ {0} /\ CommonCycle \in Int /\ (CommonCycle % d) = 0
  BY TTPortAssumption
<1> HIDE DEF d
<1>2. q \in Int /\ CommonCycle = d * q + (CommonCycle % d)
  BY <1>1, QuotientAndRemainder
<1> HIDE DEF q
<1>3. d * q \in Int
  BY <1>1, <1>2
<1>4. CommonCycle = d * q
  BY <1>1, <1>2, <1>3
<1> QED
  BY <1>2, <1>4 DEF d

(* Whole cycles do not move a window.                                      *)
LEMMA SlotInCycles ==
  ASSUME NEW b \in Buffers, NEW tick \in Int, NEW k \in Int
  PROVE  Slot(b, tick + Cycle[b] * k) <=> Slot(b, tick)
<1> DEFINE d == Cycle[b]
           a == tick - SendWindowStart[b]
           w == d * k
<1>1. d \in Nat \ {0} /\ a \in Int /\ SendWindowStart[b] \in Int
  BY Constants
<1>2. w \in Int
  <2> HIDE DEF d
  <2> QED
    BY <1>1
<1>3. ((a + d * k) % d) = (a % d)
  <2> HIDE DEF a, d
  <2> QED
    BY <1>1, RemainderAdds
<1>4. (tick + d * k) - SendWindowStart[b] = a + d * k
  <2>1. (tick + w) - SendWindowStart[b] = a + w
    <3> HIDE DEF w
    <3> QED
      BY <1>1, <1>2
  <2> QED
    BY <2>1
<1> QED
  BY <1>3, <1>4 DEF Slot

LEMMA SlotMoves ==
  ASSUME NEW b \in Buffers, NEW x \in Int, NEW y \in Int
  PROVE  /\ (x % CommonCycle) \in 0 .. (CommonCycle - 1)
         /\ Slot(b, (x % CommonCycle) + y) <=> Slot(b, x + y)
<1> DEFINE d == Cycle[b]
           q == x \div CommonCycle
           r == x % CommonCycle
<1>0. CommonCycle \in Nat \ {0} /\ d \in Nat \ {0}
  BY Constants
<1>1. r \in 0 .. (CommonCycle - 1) /\ q \in Int /\ x = CommonCycle * q + r
  BY <1>0, QuotientAndRemainder
<1>2. PICK k \in Int : CommonCycle = d * k
  BY CommonCycleIs
<1> HIDE DEF q, r, d
<1> DEFINE m == k * q
<1>3. m \in Int /\ CommonCycle * q = d * m
  BY <1>0, <1>1, <1>2, SMT
<1> HIDE DEF m
<1> DEFINE w == d * m
<1>4. w \in Int /\ CommonCycle * q = w
  BY <1>0, <1>3
<1>5. x + y = (r + y) + w
  <2> DEFINE v == CommonCycle * q
  <2>1. x = v + r /\ v = w
    BY <1>1, <1>4
  <2> HIDE DEF v, w
  <2> QED
    BY <1>0, <1>1, <1>4, <2>1
<1>6. Slot(b, (r + y) + d * m) <=> Slot(b, r + y)
  <2>1. r + y \in Int
    BY <1>0, <1>1
  <2> QED
    BY <1>3, <2>1, SlotInCycles DEF d
<1> QED
  BY <1>1, <1>5, <1>6 DEF r

(* Two windows are the same or apart.                                      *)
LEMMA Apart ==
  ASSUME Separated, NEW a \in Buffers, NEW b \in Buffers, NEW x \in Int, NEW y \in Int,
         Slot(a, x), Slot(b, y), x <= y, y - x <= TTTicks[a] + SafetyMargin
  PROVE  a = b /\ x = y
<1> DEFINE r == x % CommonCycle
           n == y - x
<1>1. n \in 0 .. (TTTicks[a] + SafetyMargin)
  BY Constants
<1>2. r \in 0 .. (CommonCycle - 1) /\ (Slot(a, r + 0) <=> Slot(a, x + 0))
  BY SlotMoves
<1>3. Slot(b, r + n) <=> Slot(b, x + n)
  BY SlotMoves
<1>4. x + 0 = x /\ r + 0 = r /\ x + n = y
  BY <1>2, Constants
<1> HIDE DEF r, n
<1>5. a = b /\ n = 0
  BY <1>1, <1>2, <1>3, <1>4 DEF Separated
<1> QED
  BY <1>4, <1>5

(* What registerEvent() returns is the next window.                        *)
LEMMA NextWindowIs ==
  ASSUME NEW b \in Buffers, clock \in Int
  PROVE  /\ InCycle(b) \in 0 .. (Cycle[b] - 1)
         /\ NextWindow(b) \in Nat \ {0} /\ Slot(b, clock + NextWindow(b))
         /\ \A y \in Int : Slot(b, InCycle(b) + y) <=> Slot(b, clock + y)
<1> DEFINE d == Cycle[b]
           q == clock \div d
           r == clock % d
           S == SendWindowStart[b]
           distance == S - r
<1>0. d \in Nat \ {0} /\ S \in Nat /\ S < d
  BY Constants
<1>1. r \in 0 .. (d - 1) /\ q \in Int /\ clock = d * q + r
  <2> HIDE DEF d
  <2> QED
    BY <1>0, QuotientAndRemainder
<1>2. InCycle(b) = r /\ NextWindow(b) = IF distance <= 0 THEN d + distance ELSE distance
  <2>1. r \in Int /\ S \in Int
    BY <1>0, <1>1
  <2> QED
    BY <2>1 DEF InCycle, NextWindow, Wait
<1> HIDE DEF q, r, d
<1>3. distance \in Int /\ d + distance > 0
  BY <1>0, <1>1
<1> DEFINE w == d * q
<1>4. w \in Int /\ w + d = d * (q + 1) /\ clock = w + r
  <2>1. w \in Int /\ w + d = d * (q + 1)
    <3> QED
      BY <1>0, <1>1, SMT
  <2> QED
    BY <1>1, <2>1
<1>5. \A y \in Int : Slot(b, r + y) <=> Slot(b, clock + y)
  <2> TAKE y \in Int
  <2>1. clock + y = (r + y) + w
    <3> HIDE DEF w
    <3> QED
      BY <1>1, <1>4
  <2>2. Slot(b, (r + y) + d * q) <=> Slot(b, r + y)
    <3>1. r + y \in Int
      BY <1>0, <1>1
    <3> QED
      BY <1>1, <3>1, SlotInCycles DEF d
  <2> QED
    BY <2>1, <2>2
<1>6. Slot(b, S)
  <2>1. S - S = 0 /\ (0 % d) = 0
    BY <1>0, SmallRemainder
  <2> QED
    BY <2>1 DEF Slot, d
<1>7. Slot(b, clock + distance) /\ Slot(b, clock + (d + distance))
  <2>1. clock + distance = S + w
    <3> HIDE DEF w
    <3> QED
      BY <1>0, <1>1, <1>4
  <2>2. clock + (d + distance) = S + d * (q + 1)
    <3> HIDE DEF w
    <3>1. w \in Int /\ clock = w + r /\ r \in Int
      BY <1>1, <1>4
    <3>2. clock + (d + distance) = S + (w + d)
      BY <1>0, <3>1
    <3> QED
      BY <1>4, <3>2
  <2>3. q + 1 \in Int /\ S \in Int
    BY <1>0, <1>1
  <2>4. Slot(b, S + d * q) /\ Slot(b, S + d * (q + 1))
    BY <1>1, <1>6, <2>3, SlotInCycles DEF d
  <2> QED
    BY <2>1, <2>2, <2>4
<1> HIDE DEF distance, w
<1>8. NextWindow(b) \in Nat \ {0}
  BY <1>0, <1>2, <1>3
<1> QED
  BY <1>1, <1>2, <1>5, <1>7, <1>8 DEF d

(* A window that is due is as late as its event.                           *)
LEMMA LateInWindow ==
  ASSUME NEW b \in Buffers, clock \in Int, NEW key \in Int, key <= 0, key >= -SafetyMargin,
         Slot(b, clock + key)
  PROVE  ((clock - SendWindowStart[b]) % Cycle[b]) <= SafetyMargin
<1> DEFINE d == Cycle[b]
           a == (clock + key) - SendWindowStart[b]
           q == a \div d
           late == -key
<1>0. d \in Nat \ {0} /\ a \in Int /\ late \in Nat /\ late <= SafetyMargin
      /\ SafetyMargin \in Nat /\ SendWindowStart[b] \in Int
  BY Constants
<1>1. (a % d) = 0
  BY DEF Slot
<1>2. q \in Int /\ a = d * q + (a % d)
  <2> HIDE DEF a, d
  <2> QED
    BY <1>0, QuotientAndRemainder
<1> DEFINE w == d * q
<1>3. w \in Int /\ a = w
  <2> HIDE DEF a, d, q
  <2>1. d * q \in Int
    BY <1>0, <1>2
  <2> QED
    BY <1>1, <1>2, <2>1
<1>4. clock - SendWindowStart[b] = late + w
  <2> HIDE DEF w
  <2> QED
    BY <1>0, <1>3
<1> HIDE DEF q
<1>5. ((late + d * q) % d) = (late % d)
  <2>1. late \in Int /\ d \in Nat \ {0} /\ q \in Int
    BY <1>0, <1>2
  <2> HIDE DEF d, late
  <2> QED
    BY <2>1, RemainderAdds
<1>6. (late % d) <= late /\ (late % d) \in Int
  <2>1. late \in Nat /\ d \in Nat \ {0}
    BY <1>0
  <2> HIDE DEF d, late
  <2>2. (late % d) \in 0 .. (d - 1)
    BY <2>1, Remainder
  <2> QED
    BY <2>1, <2>2, RemainderAtMost
<1> HIDE DEF late
<1>7. ((clock - SendWindowStart[b]) % d) = (late % d)
  BY <1>4, <1>5
<1> QED
  BY <1>0, <1>6, <1>7

-----------------------------------------------------------------------------
(* Messages under way.                                                     *)

In(s, m) == \E i \in DOMAIN s : s[i] = m

(* At most one message of s is in K.                                       *)
OneOf(s, K) == \A i, j \in DOMAIN s : s[i] \in K /\ s[j] \in K => i = j

Messages == {"event", "pit", "in", "frame", "empty"} \X Buffers

LEMMA Appended ==
  ASSUME NEW s \in Seq(Messages), NEW m \in Messages
  PROVE  /\ Append(s, m) \in Seq(Messages)
         /\ \A x : In(Append(s, m), x) <=> In(s, x) \/ x = m
         /\ \A K : OneOf(s, K) /\ (m \in K => \A x \in K : ~In(s, x)) => OneOf(Append(s, m), K)
<1>1. /\ Append(s, m) \in Seq(Messages)
      /\ DOMAIN Append(s, m) = DOMAIN s \union {Len(s) + 1}
      /\ Append(s, m)[Len(s) + 1] = m
      /\ \A i \in DOMAIN s : Append(s, m)[i] = s[i]
  OBVIOUS
<1> DEFINE t == Append(s, m)
<1> HIDE DEF t
<1>2. \A x : In(t, x) <=> In(s, x) \/ x = m
  BY <1>1 DEF In, t
<1>3. \A K : OneOf(s, K) /\ (m \in K => \A x \in K : ~In(s, x)) => OneOf(t, K)
  <2> SUFFICES ASSUME NEW K, OneOf(s, K), m \in K => \A x \in K : ~In(s, x),
                      NEW i \in DOMAIN t, NEW j \in DOMAIN t, t[i] \in K, t[j] \in K
               PROVE  i = j
    BY DEF OneOf
  <2>1. i \in DOMAIN s \/ i = Len(s) + 1
    BY <1>1 DEF t
  <2>2. j \in DOMAIN s \/ j = Len(s) + 1
    BY <1>1 DEF t
  <2>3. ASSUME NEW k \in DOMAIN s, t[k] \in K, t[Len(s) + 1] \in K PROVE FALSE
    <3>1. t[k] = s[k] /\ m \in K
      BY <1>1, <2>3 DEF t
    <3> QED
      BY <2>3, <3>1 DEF In
  <2>4. CASE i \in DOMAIN s /\ j \in DOMAIN s
    BY <1>1, <2>4 DEF OneOf, t
  <2> QED
    BY <2>1, <2>2, <2>3, <2>4
<1> QED
  BY <1>1, <1>2, <1>3 DEF t

LEMMA HeadTaken ==
  ASSUME NEW s \in Seq(Messages), s # <<>>
  PROVE  /\ Tail(s) \in Seq(Messages) /\ Head(s) \in Messages /\ In(s, Head(s))
         /\ \A x : In(Tail(s), x) => In(s, x)
         /\ \A x : In(s, x) => In(Tail(s), x) \/ x = Head(s)
         /\ \A K : OneOf(s, K) => OneOf(Tail(s), K) /\ (Head(s) \in K => \A x \in K : ~In(Tail(s), x))
<1>1. /\ Len(s) \in Nat \ {0} /\ DOMAIN s = 1 .. Len(s)
      /\ Tail(s) \in Seq(Messages) /\ Head(s) \in Messages /\ Head(s) = s[1]
      /\ DOMAIN Tail(s) = 1 .. (Len(s) - 1)
      /\ \A i \in 1 .. (Len(s) - 1) : Tail(s)[i] = s[i + 1]
  OBVIOUS
<1> DEFINE t == Tail(s)
           h == Head(s)
<1> HIDE DEF t, h
<1>2. ASSUME NEW i \in DOMAIN t PROVE i \in Int /\ i + 1 \in DOMAIN s /\ i + 1 # 1 /\ t[i] = s[i + 1]
  BY <1>1 DEF t
<1>3. In(s, h)
  BY <1>1 DEF In, h
<1>4. \A x : In(t, x) => In(s, x)
  BY <1>2 DEF In
<1>5. \A x : In(s, x) => In(t, x) \/ x = h
  <2> SUFFICES ASSUME NEW i \in DOMAIN s, s[i] # h PROVE In(t, s[i])
    BY DEF In
  <2>1. i - 1 \in 1 .. (Len(s) - 1) /\ (i - 1) + 1 = i
    BY <1>1 DEF h
  <2>2. i - 1 \in DOMAIN t /\ t[i - 1] = s[i]
    BY <1>1, <2>1 DEF t
  <2> QED
    BY <2>2 DEF In
<1>6. \A K : OneOf(s, K) => OneOf(t, K) /\ (h \in K => \A x \in K : ~In(t, x))
  <2> SUFFICES ASSUME NEW K, OneOf(s, K) PROVE OneOf(t, K) /\ (h \in K => \A x \in K : ~In(t, x))
    OBVIOUS
  <2>1. OneOf(t, K)
    <3> SUFFICES ASSUME NEW i \in DOMAIN t, NEW j \in DOMAIN t, t[i] \in K, t[j] \in K PROVE i = j
      BY DEF OneOf
    <3>1. i + 1 = j + 1 /\ i \in Int /\ j \in Int
      BY <1>2 DEF OneOf
    <3> QED
      BY <3>1
  <2>2. ASSUME h \in K, NEW i \in DOMAIN t, t[i] \in K PROVE FALSE
    <3>1. 1 \in DOMAIN s /\ s[1] \in K /\ i + 1 \in DOMAIN s /\ s[i + 1] \in K /\ i + 1 # 1
      BY <1>1, <1>2, <2>2 DEF h
    <3> QED
      BY <3>1 DEF OneOf
  <2> QED
    BY <2>1, <2>2 DEF In
<1> QED
  BY <1>1, <1>3, <1>4, <1>5, <1>6 DEF t, h

LEMMA NoneIn == \A x : ~In(<<>>, x)
  BY DEF In

-----------------------------------------------------------------------------
(***************************************************************************)
(* The inductive invariant.  One window at a time is being met; its key is *)
(* at the clock or has just been jumped over, and every other one is ahead *)
(* of it, by more than its frame and a safety margin.                      *)
(***************************************************************************)
WindowMessages == {"event", "frame", "empty"} \X Buffers

(* The shaper has not yet seen the message of b.                           *)
Under(b, s) == In(s, <<"frame", b>>) \/ In(s, <<"empty", b>>)

(* The buffer b, with w in the timer and at the shaper.                    *)
OnTime(b, w, time, since, s) ==
  /\ w.enabled
  /\ Slot(b, time + w.key) /\ Slot(b, time + w.fire)
  /\ w.key >= -SafetyMargin /\ (w.key < 0 => since = 0)
  /\ w.next = w.fire
  /\ w.inTimer <=> ~In(s, <<"event", b>>)
  /\ In(s, <<"event", b>>) => w.key <= 0
  /\ Under(b, s) => w.key <= 0 /\ w.fire > 0
  /\ ~Under(b, s) => w.key = w.fire

(* The TTIncoming before b: the window of a frame that it holds, or that   *)
(* is on its way to the buffer, has not come.                              *)
InTime(b, i, w, since, s) ==
  /\ OneOf(s, {<<"pit", b>>})
  /\ In(s, <<"pit", b>>) => i.held /\ ~i.inTimer
  /\ i.held => Pit[b] > 0 /\ (i.inTimer \/ In(s, <<"pit", b>>))
  /\ i.inTimer => /\ i.fire >= -SafetyMargin /\ (i.fire < 0 => since = 0)
                  /\ w.fire > i.fire + SafetyMargin
  /\ Pit[b] > 0 /\ (In(s, <<"pit", b>>) \/ In(s, <<"in", b>>)) =>
       w.fire > 0 /\ ~In(s, <<"event", b>>)

(* What is sent ends before the next window; a safety margin before, as    *)
(* long as the clock has not been corrected since it was started.          *)
Slack(p, since) == IF since + p.mac >= CorrectionGap THEN SafetyMargin ELSE 0

PortFree(p, since, w) ==
  /\ p.mac < CorrectionGap
  /\ p.pending = 0 => \A b \in Buffers : p.mac + Slack(p, since) < w[b].key

(* An open request waits because a window is near, or was before the last  *)
(* correction.                                                             *)
Recent(since) == IF since < SafetyMargin THEN SafetyMargin - since ELSE 0

Blocked(p, since, w) ==
  p.pending = 1 =>
    \A c \in Classes :
      p.queue[c] # <<>> /\ (\A d \in Classes : d < c => p.queue[d] = <<>>)
        => \E b \in Buffers :
             Ticks[Head(p.queue[c])] + SafetyMargin + Recent(since) >= w[b].key

IInv ==
  /\ TypeOK
  /\ error = None
  /\ OneOf(fes, WindowMessages)
  /\ \A b \in Buffers : /\ OnTime(b, tt[b], clock, calm, fes)
                        /\ InTime(b, inc[b], tt[b], calm, fes)
  /\ PortFree(port, calm, tt)
  /\ Blocked(port, calm, tt)

Windows == [fire : Int, inTimer : BOOLEAN, next : Int, key : Int, enabled : BOOLEAN]
Holders == [held : BOOLEAN, inTimer : BOOLEAN, fire : Int, arrived : BOOLEAN]

(* The types of the parts.                                                 *)
LEMMA Types ==
  ASSUME TypeOK
  PROVE  /\ clock \in 0 .. (CommonCycle - 1) /\ clock \in Int
         /\ tt \in [Buffers -> Windows] /\ inc \in [Buffers -> Holders]
         /\ fes \in Seq(Messages)
         /\ port \in [queue : [Classes -> Seq(Frames)], pending : {0, 1}, mac : Nat]
         /\ calm \in 0 .. CorrectionGap /\ calm \in Nat /\ CorrectionGap \in Nat \ {0}
         /\ SafetyMargin \in Nat
<1>1. /\ fes \in Seq(Messages) /\ tt \in [Buffers -> Windows] /\ inc \in [Buffers -> Holders]
      /\ clock \in 0 .. (CommonCycle - 1)
      /\ port \in [queue : [Classes -> Seq(Frames)], pending : {0, 1}, mac : Nat]
      /\ calm \in 0 .. CorrectionGap
  BY DEF TypeOK, Messages, Windows, Holders
<1>2. CommonCycle \in Nat /\ CorrectionGap \in Nat \ {0} /\ SafetyMargin \in Nat
  BY TTPortAssumption
<1> HIDE DEF Windows, Holders, Messages
<1> QED
  BY <1>1, <1>2

LEMMA InitIInv == WellScheduled /\ Init => IInv
<1> SUFFICES ASSUME WellScheduled, Init PROVE IInv
  OBVIOUS
<1>1. /\ fes = <<>> /\ clock = 0 /\ calm = CorrectionGap /\ error = None
      /\ tt = [b \in Buffers |-> Registered(b)]
      /\ inc = [b \in Buffers |-> [held |-> FALSE, inTimer |-> FALSE, fire |-> 0,
                                   arrived |-> FALSE]]
      /\ stored = [b \in Buffers |-> 0]
      /\ port = [queue |-> [c \in Classes |-> <<>>], pending |-> 1, mac |-> 0]
  BY DEF Init
<1>2. \A b \in Buffers : Slot(b, 0 + SendWindowStart[b])
  <2> TAKE b \in Buffers
  <2>1. (0 + SendWindowStart[b]) - SendWindowStart[b] = 0 /\ (0 % Cycle[b]) = 0
    BY Constants, SmallRemainder
  <2> QED
    BY <2>1 DEF Slot
<1>3. TypeOK
  <2>1. tt \in [Buffers -> Windows]
    BY <1>1, Constants DEF Registered, Windows
  <2>2. inc \in [Buffers -> Holders]
    BY <1>1 DEF Holders
  <2>3. /\ stored \in [Buffers -> Nat]
        /\ \A b \in Buffers : stored[b] <= IF b \in DoubleBuffer THEN 1 ELSE Capacity[b]
    BY <1>1, Constants
  <2>4. fes \in Seq({"event", "pit", "in", "frame", "empty"} \X Buffers)
    BY <1>1
  <2>5. clock \in 0 .. (CommonCycle - 1) /\ calm \in 0 .. CorrectionGap
    BY <1>1, TTPortAssumption
  <2>6. port \in [queue : [Classes -> Seq(Frames)], pending : {0, 1}, mac : Nat]
    <3>1. [c \in Classes |-> <<>>] \in [Classes -> Seq(Frames)]
      OBVIOUS
    <3> QED
      BY <1>1, <3>1
  <2>7. /\ \A b \in Buffers : inc[b].inTimer => inc[b].held
        /\ port.pending = 1 => port.mac = 0
        /\ error \in {None, "no frame", "unexpected", "same window", "delayed"}
    BY <1>1
  <2> QED
    BY <2>1, <2>2, <2>3, <2>4, <2>5, <2>6, <2>7 DEF TypeOK, Windows, Holders
<1>4. OneOf(fes, WindowMessages)
  BY <1>1 DEF OneOf
<1>5. ASSUME NEW b \in Buffers PROVE OnTime(b, tt[b], clock, calm, fes)
  <2>1. SendWindowStart[b] \in Nat /\ SafetyMargin \in Nat
    BY Constants
  <2> QED
    BY <1>1, <1>2, <2>1, NoneIn DEF OnTime, Under, Registered
<1>6. ASSUME NEW b \in Buffers PROVE InTime(b, inc[b], tt[b], calm, fes)
  <2>1. OneOf(fes, {<<"pit", b>>})
    BY <1>1 DEF OneOf
  <2> QED
    BY <1>1, <2>1, NoneIn DEF InTime
<1>7. PortFree(port, calm, tt) /\ Blocked(port, calm, tt)
  BY <1>1, TTPortAssumption DEF PortFree, Blocked
<1> QED
  BY <1>1, <1>3, <1>4, <1>5, <1>6, <1>7 DEF IInv

-----------------------------------------------------------------------------
(* What the invariant says of a moment.                                    *)

LEMMA OneMessage ==
  ASSUME NEW s, NEW K, OneOf(s, K), NEW x \in K, NEW y \in K, In(s, x), In(s, y)
  PROVE  x = y
BY DEF OneOf, In

(* While the event of a window is under way, no other message of a window  *)
(* is.                                                                     *)
LEMMA EventAlone ==
  ASSUME NEW s, OneOf(s, WindowMessages), NEW b \in Buffers, In(s, <<"event", b>>)
  PROVE  ~Under(b, s)
<1>1. /\ <<"event", b>> \in WindowMessages /\ <<"frame", b>> \in WindowMessages
      /\ <<"empty", b>> \in WindowMessages
      /\ <<"event", b>> # <<"frame", b>> /\ <<"event", b>> # <<"empty", b>>
  BY DEF WindowMessages
<1> QED
  BY <1>1, OneMessage DEF Under

(* The parts of the invariant that speak of b look at these messages only. *)
LEMMA KeptOnTime ==
  ASSUME NEW b, NEW w, NEW time, NEW since, NEW s, NEW t, OnTime(b, w, time, since, s),
         In(t, <<"event", b>>) <=> In(s, <<"event", b>>),
         In(t, <<"frame", b>>) <=> In(s, <<"frame", b>>),
         In(t, <<"empty", b>>) <=> In(s, <<"empty", b>>)
  PROVE  OnTime(b, w, time, since, t)
BY DEF OnTime, Under

LEMMA KeptInTime ==
  ASSUME NEW b, NEW i, NEW w, NEW since, NEW s, NEW t, InTime(b, i, w, since, s),
         In(t, <<"event", b>>) => In(s, <<"event", b>>),
         In(t, <<"pit", b>>) <=> In(s, <<"pit", b>>),
         In(t, <<"in", b>>) => In(s, <<"in", b>>),
         OneOf(t, {<<"pit", b>>})
  PROVE  InTime(b, i, w, since, t)
BY DEF InTime

(* Two windows that are due are the same.                                  *)
LEMMA BothDue ==
  ASSUME Separated, NEW a \in Buffers, NEW b \in Buffers, clock \in Int,
         NEW x \in Int, NEW y \in Int, x <= 0, y <= 0, x >= -SafetyMargin, y >= -SafetyMargin,
         Slot(a, clock + x), Slot(b, clock + y)
  PROVE  a = b
<1>1. /\ TTTicks[a] \in Nat /\ TTTicks[b] \in Nat /\ SafetyMargin \in Nat
      /\ clock + x \in Int /\ clock + y \in Int
  BY Constants
<1>2. CASE x <= y
  BY <1>1, <1>2, Apart
<1>3. CASE y <= x
  BY <1>1, <1>3, Apart
<1> QED
  BY <1>2, <1>3

(* The next window of a buffer: its key, until it has been met.            *)
LEMMA Ahead ==
  ASSUME IInv, NEW b \in Buffers
  PROVE  /\ tt[b].fire >= -SafetyMargin
         /\ tt[b].fire \in Int /\ tt[b].key \in Int /\ tt[b].next \in Int
         /\ tt[b].inTimer \in BOOLEAN /\ tt[b].enabled = TRUE
         /\ inc[b].fire \in Int
         /\ In(fes, <<"event", b>>) => tt[b].fire <= 0 /\ tt[b].key = tt[b].fire
         /\ OnTime(b, tt[b], clock, calm, fes) /\ InTime(b, inc[b], tt[b], calm, fes)
<1>1. TypeOK /\ OneOf(fes, WindowMessages) /\ OnTime(b, tt[b], clock, calm, fes)
      /\ InTime(b, inc[b], tt[b], calm, fes)
  BY DEF IInv
<1>2. tt[b] \in Windows /\ inc[b] \in Holders
  BY <1>1, Types
<1>3. /\ tt[b].fire \in Int /\ tt[b].key \in Int /\ tt[b].next \in Int
      /\ tt[b].inTimer \in BOOLEAN /\ tt[b].enabled \in BOOLEAN /\ inc[b].fire \in Int
  BY <1>2 DEF Windows, Holders
<1>4. SafetyMargin \in Nat
  BY Constants
<1>5. tt[b].fire >= -SafetyMargin
  BY <1>1, <1>3, <1>4 DEF OnTime
<1>6. In(fes, <<"event", b>>) => tt[b].fire <= 0 /\ tt[b].key = tt[b].fire
  <2> SUFFICES ASSUME In(fes, <<"event", b>>) PROVE tt[b].fire <= 0 /\ tt[b].key = tt[b].fire
    OBVIOUS
  <2>1. ~Under(b, fes)
    BY <1>1, EventAlone
  <2> QED
    BY <1>1, <2>1 DEF OnTime
<1>7. tt[b].enabled = TRUE
  BY <1>1, <1>3 DEF OnTime
<1> QED
  BY <1>1, <1>3, <1>5, <1>6, <1>7

(* When the event of b reaches it, its TTIncoming is empty.                *)
LEMMA NothingHeld ==
  ASSUME IInv, NEW b \in Buffers, In(fes, <<"event", b>>)
  PROVE  /\ ~inc[b].held /\ ~inc[b].inTimer /\ ~In(fes, <<"pit", b>>)
         /\ Pit[b] > 0 => ~In(fes, <<"in", b>>)
<1>1. TypeOK /\ InTime(b, inc[b], tt[b], calm, fes)
  BY DEF IInv
<1>2. tt[b].fire <= 0 /\ tt[b].fire \in Int /\ inc[b].fire \in Int /\ SafetyMargin \in Nat
  BY Ahead, Constants
<1>3. inc[b].inTimer => inc[b].held
  BY <1>1 DEF TypeOK
<1>4. ~inc[b].inTimer
  BY <1>1, <1>2 DEF InTime
<1>5. ~In(fes, <<"pit", b>>)
  BY <1>1 DEF InTime
<1> QED
  BY <1>1, <1>4, <1>5 DEF InTime

(* When the timer wakes a buffer, no other one is being met.               *)
LEMMA NoneMet ==
  ASSUME WellScheduled, IInv, NEW b \in Buffers, tt[b].inTimer, tt[b].fire <= 0
  PROVE  /\ tt[b].key = tt[b].fire /\ \A x \in WindowMessages : ~In(fes, x)
<1>1. /\ OnTime(b, tt[b], clock, calm, fes) /\ tt[b].fire \in Int /\ tt[b].key \in Int
      /\ SafetyMargin \in Nat /\ clock \in Int /\ Separated
  BY Ahead, Constants, Types DEF IInv, WellScheduled
<1>2. ~In(fes, <<"event", b>>) /\ ~Under(b, fes)
  BY <1>1 DEF OnTime
<1>3. tt[b].key = tt[b].fire
  BY <1>1, <1>2 DEF OnTime
<1>4. ASSUME NEW o \in Buffers, In(fes, <<"event", o>>) \/ Under(o, fes) PROVE FALSE
  <2>1. OnTime(o, tt[o], clock, calm, fes) /\ tt[o].key \in Int
    BY Ahead
  <2>2. tt[o].key <= 0 /\ tt[o].key >= -SafetyMargin /\ Slot(o, clock + tt[o].key)
    BY <1>4, <2>1 DEF OnTime
  <2>3. tt[b].key <= 0 /\ tt[b].key >= -SafetyMargin /\ Slot(b, clock + tt[b].key)
    BY <1>1, <1>3 DEF OnTime
  <2>4. o = b
    BY <1>1, <2>1, <2>2, <2>3, BothDue
  <2> QED
    BY <1>2, <1>4, <2>4
<1>5. ASSUME NEW x \in WindowMessages, In(fes, x) PROVE FALSE
  <2>1. PICK o \in Buffers : x \in {<<"event", o>>, <<"frame", o>>, <<"empty", o>>}
    BY DEF WindowMessages
  <2> QED
    BY <1>4, <1>5, <2>1 DEF Under
<1> QED
  BY <1>3, <1>5

-----------------------------------------------------------------------------
(* One lemma for each action.                                              *)

LEMMA KeptPort ==
  ASSUME NEW p, NEW since, NEW w, NEW v, \A b \in Buffers : v[b].key = w[b].key,
         PortFree(p, since, w), Blocked(p, since, w)
  PROVE  PortFree(p, since, v) /\ Blocked(p, since, v)
BY DEF PortFree, Blocked

LEMMA FiresAction ==
  ASSUME WellScheduled, IInv, NEW b \in Buffers, tt[b].inTimer, Due(tt[b].fire),
         tt' = [tt EXCEPT ![b].inTimer = FALSE], fes' = Append(fes, <<"event", b>>),
         UNCHANGED <<clock, inc, stored, port, calm, error>>
  PROVE  IInv'
<1> DEFINE m == <<"event", b>>
<1>1. /\ TypeOK /\ error = None /\ OneOf(fes, WindowMessages)
      /\ \A o \in Buffers : /\ OnTime(o, tt[o], clock, calm, fes)
                            /\ InTime(o, inc[o], tt[o], calm, fes)
      /\ PortFree(port, calm, tt) /\ Blocked(port, calm, tt)
  BY DEF IInv
<1>2. tt \in [Buffers -> Windows] /\ fes \in Seq(Messages) /\ tt[b] \in Windows
      /\ tt[b].fire \in Int /\ SafetyMargin \in Nat
  BY <1>1, Types, Ahead
<1>3. /\ tt' \in [Buffers -> Windows]
      /\ \A o \in Buffers : o # b => tt'[o] = tt[o]
      /\ tt'[b] = [tt[b] EXCEPT !.inTimer = FALSE]
  <2> DEFINE v == [tt[b] EXCEPT !.inTimer = FALSE]
  <2>1. v \in Windows
    BY <1>2 DEF Windows
  <2>2. tt' = [tt EXCEPT ![b] = v]
    OBVIOUS
  <2> HIDE DEF v, Windows
  <2>3. tt'[b] = v /\ tt' \in [Buffers -> Windows] /\ \A o \in Buffers : o # b => tt'[o] = tt[o]
    BY <1>2, <2>1, <2>2
  <2> QED
    BY <2>3 DEF v
<1>4. /\ tt'[b].inTimer = FALSE /\ tt'[b].fire = tt[b].fire /\ tt'[b].key = tt[b].key
      /\ tt'[b].next = tt[b].next /\ tt'[b].enabled = tt[b].enabled
  BY <1>2, <1>3 DEF Windows
<1>5. tt[b].fire <= 0 /\ tt[b].key = tt[b].fire /\ \A x \in WindowMessages : ~In(fes, x)
  BY <1>2, NoneMet DEF Due
<1>6. m \in Messages /\ m \in WindowMessages
  BY DEF Messages, WindowMessages
<1>7. /\ fes' \in Seq(Messages)
      /\ \A x : In(fes', x) <=> In(fes, x) \/ x = m
      /\ OneOf(fes', WindowMessages)
      /\ \A o \in Buffers : OneOf(fes, {<<"pit", o>>}) => OneOf(fes', {<<"pit", o>>})
  <2>1. \A o \in Buffers : m \notin {<<"pit", o>>}
    OBVIOUS
  <2> QED
    BY <1>1, <1>2, <1>5, <1>6, <2>1, Appended
<1>8. TypeOK'
  BY <1>1, <1>3, <1>7 DEF TypeOK, Windows, Messages
<1>9. ASSUME NEW o \in Buffers PROVE OnTime(o, tt'[o], clock', calm', fes')
  <2>1. /\ <<"frame", o>> # m /\ <<"empty", o>> # m
        /\ <<"event", o>> = m => o = b
    OBVIOUS
  <2>2. CASE o # b
    BY <1>1, <1>3, <1>7, <2>1, <2>2, KeptOnTime
  <2>3. CASE o = b
    <3>1. OnTime(b, tt[b], clock, calm, fes)
      BY <1>1
    <3>2. ~Under(b, fes)
      BY <1>5 DEF Under, WindowMessages
    <3>3. ~Under(b, fes')
      BY <1>7, <2>1, <2>3, <3>2 DEF Under
    <3>4. In(fes', <<"event", b>>)
      BY <1>7
    <3> QED
      BY <1>4, <1>5, <2>3, <3>1, <3>3, <3>4 DEF OnTime
  <2> QED
    BY <2>2, <2>3
<1>10. ASSUME NEW o \in Buffers PROVE InTime(o, inc'[o], tt'[o], calm', fes')
  <2>1. /\ <<"pit", o>> # m /\ <<"in", o>> # m
        /\ <<"event", o>> = m => o = b
    OBVIOUS
  <2>2. InTime(o, inc[o], tt[o], calm, fes)
    BY <1>1
  <2>3. OneOf(fes', {<<"pit", o>>})
    BY <1>7, <2>2 DEF InTime
  <2>4. CASE o # b
    BY <1>3, <1>7, <2>1, <2>2, <2>3, <2>4, KeptInTime
  <2>5. CASE o = b
    <3>1. Pit[b] > 0 => ~In(fes, <<"pit", b>>) /\ ~In(fes, <<"in", b>>)
      BY <1>2, <1>5, <2>2, <2>5 DEF InTime
    <3>2. (In(fes', <<"pit", b>>) <=> In(fes, <<"pit", b>>)) /\ (In(fes', <<"in", b>>) <=> In(fes, <<"in", b>>))
      BY <1>7, <2>1, <2>5
    <3> QED
      BY <1>4, <2>2, <2>3, <2>5, <3>1, <3>2 DEF InTime
  <2> QED
    BY <2>4, <2>5
<1>11. PortFree(port', calm', tt') /\ Blocked(port', calm', tt')
  <2>1. \A o \in Buffers : tt'[o].key = tt[o].key
    BY <1>3, <1>4
  <2> QED
    BY <1>1, <2>1, KeptPort
<1> QED
  BY <1>1, <1>7, <1>8, <1>9, <1>10, <1>11 DEF IInv

LEMMA PitFiresAction ==
  ASSUME WellScheduled, IInv, NEW b \in Buffers, inc[b].inTimer, Due(inc[b].fire),
         inc' = [inc EXCEPT ![b].inTimer = FALSE, ![b].fire = 0],
         fes' = Append(fes, <<"pit", b>>),
         UNCHANGED <<clock, tt, stored, port, calm, error>>
  PROVE  IInv'
<1> DEFINE m == <<"pit", b>>
<1>1. /\ TypeOK /\ error = None /\ OneOf(fes, WindowMessages)
      /\ \A o \in Buffers : /\ OnTime(o, tt[o], clock, calm, fes)
                            /\ InTime(o, inc[o], tt[o], calm, fes)
      /\ PortFree(port, calm, tt) /\ Blocked(port, calm, tt)
  BY DEF IInv
<1>2. inc \in [Buffers -> Holders] /\ fes \in Seq(Messages) /\ inc[b] \in Holders
      /\ tt[b].fire \in Int /\ inc[b].fire \in Int /\ SafetyMargin \in Nat
  BY <1>1, Types, Ahead
<1>3. /\ inc' \in [Buffers -> Holders]
      /\ \A o \in Buffers : o # b => inc'[o] = inc[o]
      /\ inc'[b] = [inc[b] EXCEPT !.inTimer = FALSE, !.fire = 0]
  <2> DEFINE u == [inc[b] EXCEPT !.inTimer = FALSE]
             v == [u EXCEPT !.fire = 0]
             one == [inc EXCEPT ![b] = u]
  <2>1. u \in Holders
    BY <1>2 DEF Holders
  <2>2. v \in Holders
    <3> HIDE DEF u
    <3> QED
      BY <2>1 DEF Holders
  <2>3. one[b] = u
    <3> HIDE DEF u
    <3> QED
      BY <1>2
  <2>4. inc' = [one EXCEPT ![b].fire = 0]
    OBVIOUS
  <2>5. inc' = [one EXCEPT ![b] = v]
    <3> HIDE DEF one, u
    <3> QED
      BY <2>3, <2>4
  <2> HIDE DEF u, v, Holders
  <2>6. one \in [Buffers -> Holders] /\ \A o \in Buffers : o # b => one[o] = inc[o]
    BY <1>2, <2>1
  <2> HIDE DEF one
  <2>7. inc'[b] = v /\ inc' \in [Buffers -> Holders] /\ \A o \in Buffers : o # b => inc'[o] = inc[o]
    BY <2>2, <2>5, <2>6
  <2> QED
    BY <2>7 DEF u, v
<1>4. inc'[b].inTimer = FALSE /\ inc'[b].held = inc[b].held
  BY <1>2, <1>3 DEF Holders
<1>5. /\ InTime(b, inc[b], tt[b], calm, fes) /\ inc[b].held
      /\ ~In(fes, m) /\ inc[b].fire <= 0 /\ inc[b].fire >= -SafetyMargin
      /\ tt[b].fire > inc[b].fire + SafetyMargin
  <2>1. InTime(b, inc[b], tt[b], calm, fes) /\ inc[b].held
    BY <1>1 DEF TypeOK
  <2> QED
    BY <2>1 DEF InTime, Due
<1>6. tt[b].fire > 0 /\ ~In(fes, <<"event", b>>)
  <2>1. tt[b].fire > 0
    BY <1>2, <1>5
  <2>2. In(fes, <<"event", b>>) => tt[b].fire <= 0
    BY Ahead
  <2> QED
    BY <1>2, <2>1, <2>2
<1>7. m \in Messages /\ m \notin WindowMessages
  BY DEF Messages, WindowMessages
<1>8. /\ fes' \in Seq(Messages)
      /\ \A x : In(fes', x) <=> In(fes, x) \/ x = m
      /\ OneOf(fes', WindowMessages)
      /\ \A o \in Buffers : OneOf(fes, {<<"pit", o>>}) => OneOf(fes', {<<"pit", o>>})
  <2>1. ASSUME NEW o \in Buffers PROVE m \in {<<"pit", o>>} => \A x \in {<<"pit", o>>} : ~In(fes, x)
    BY <1>5
  <2>0. fes' = Append(fes, m) /\ fes \in Seq(Messages) /\ m \in Messages
    BY <1>2, <1>7
  <2> HIDE DEF m
  <2>2. /\ fes' \in Seq(Messages)
        /\ \A x : In(fes', x) <=> In(fes, x) \/ x = m
    <3>1. Append(fes, m) \in Seq(Messages)
      BY <2>0, Appended
    <3>2. \A x : In(Append(fes, m), x) <=> In(fes, x) \/ x = m
      BY <2>0, Appended
    <3> QED
      BY <2>0, <3>1, <3>2, Zenon
  <2>3. OneOf(fes', WindowMessages)
    BY <1>1, <1>7, <2>0, Appended
  <2>4. ASSUME NEW o \in Buffers, OneOf(fes, {<<"pit", o>>}) PROVE OneOf(fes', {<<"pit", o>>})
    <3> DEFINE K == {<<"pit", o>>}
    <3>1. OneOf(fes, K) /\ (m \in K => \A x \in K : ~In(fes, x))
      BY <2>1, <2>4
    <3> HIDE DEF K
    <3>2. OneOf(fes', K)
      BY <2>0, <3>1, Appended
    <3> QED
      BY <3>2 DEF K
  <2> QED
    BY <2>2, <2>3, <2>4
<1>9. TypeOK'
  <2>1. \A o \in Buffers : inc'[o].inTimer => inc'[o].held
    BY <1>1, <1>3, <1>4 DEF TypeOK
  <2> QED
    BY <1>1, <1>3, <1>8, <2>1 DEF TypeOK, Holders, Messages
<1>10. ASSUME NEW o \in Buffers PROVE OnTime(o, tt'[o], clock', calm', fes')
  <2>1. <<"frame", o>> # m /\ <<"empty", o>> # m /\ <<"event", o>> # m
    OBVIOUS
  <2> QED
    BY <1>1, <1>8, <2>1, KeptOnTime
<1>11. ASSUME NEW o \in Buffers PROVE InTime(o, inc'[o], tt'[o], calm', fes')
  <2>1. /\ <<"event", o>> # m /\ <<"in", o>> # m
        /\ <<"pit", o>> = m => o = b
    OBVIOUS
  <2>2. InTime(o, inc[o], tt[o], calm, fes)
    BY <1>1
  <2>3. OneOf(fes', {<<"pit", o>>})
    BY <1>8, <2>2 DEF InTime
  <2>4. CASE o # b
    BY <1>3, <1>8, <2>1, <2>2, <2>3, <2>4, KeptInTime
  <2>5. CASE o = b
    <3>1. ~In(fes', <<"event", b>>) /\ In(fes', m) /\ Pit[b] > 0
      BY <1>5, <1>6, <1>8, <2>1, <2>5 DEF InTime
    <3> QED
      BY <1>4, <1>5, <1>6, <2>3, <2>5, <3>1 DEF InTime
  <2> QED
    BY <2>4, <2>5
<1> QED
  BY <1>1, <1>8, <1>9, <1>10, <1>11 DEF IInv

LEMMA TimerFiresKeeps ==
  ASSUME WellScheduled, IInv, NEW b \in Buffers, TimerFires(b) PROVE IInv'
BY FiresAction, PitFiresAction DEF TimerFires

(* A frame that arrives in its receive window is in the buffer before the  *)
(* next send window.                                                       *)
LEMMA ArrivesBefore ==
  ASSUME WellScheduled, IInv, NEW b \in Buffers, InReceiveWindow(b), Pit[b] > 0
  PROVE  /\ Wait(b, Pit[b], FALSE) \in Nat
         /\ tt[b].fire > Wait(b, Pit[b], FALSE) + SafetyMargin
         /\ tt[b].fire > 0 /\ ~In(fes, <<"event", b>>)
<1> DEFINE n == InCycle(b)
           wait == Wait(b, Pit[b], FALSE)
           fire == tt[b].fire
<1>1. /\ ReceivedApart /\ clock \in Int /\ SafetyMargin \in Nat /\ Pit[b] \in Int
      /\ ReceiveStart[b] \in Int /\ ReceiveEnd[b] \in Int
  BY Constants, Types DEF WellScheduled, IInv
<1>2. n \in Nat /\ \A y \in Int : Slot(b, n + y) <=> Slot(b, clock + y)
  BY <1>1, Constants, NextWindowIs
<1>3. /\ 0 < ReceiveEnd[b] /\ ReceiveEnd[b] <= Pit[b]
      /\ \A tick \in (ReceiveStart[b] - SafetyMargin) .. (Pit[b] + SafetyMargin) : ~Slot(b, tick)
  BY <1>1 DEF ReceivedApart
<1>4. n <= ReceiveEnd[b] /\ (ReceiveStart[b] > 0 => n >= ReceiveStart[b])
  BY <1>3 DEF InReceiveWindow
<1>5. wait = Pit[b] - n
  <2> HIDE DEF n
  <2>1. Pit[b] - n >= 0
    BY <1>1, <1>2, <1>3, <1>4
  <2> QED
    BY <1>1, <1>2, <2>1 DEF Wait, n
<1> HIDE DEF n, wait
<1>6. wait \in Nat
  BY <1>1, <1>2, <1>3, <1>4, <1>5
<1>7. fire \in Int /\ fire >= -SafetyMargin /\ Slot(b, clock + fire)
  BY Ahead DEF OnTime
<1>8. fire > wait + SafetyMargin
  <2> HIDE DEF fire
  <2>1. SUFFICES ASSUME fire <= wait + SafetyMargin PROVE FALSE
    BY <1>1, <1>6, <1>7
  <2>2. Slot(b, n + fire)
    BY <1>2, <1>7
  <2>3. n + fire \in (ReceiveStart[b] - SafetyMargin) .. (Pit[b] + SafetyMargin)
    BY <1>1, <1>2, <1>4, <1>5, <1>7, <2>1
  <2> QED
    BY <1>3, <2>2, <2>3
<1>9. fire > 0
  <2> HIDE DEF fire
  <2> QED
    BY <1>1, <1>6, <1>7, <1>8
<1>10. In(fes, <<"event", b>>) => tt[b].fire <= 0
  BY Ahead
<1>11. ~In(fes, <<"event", b>>)
  <2> HIDE DEF wait
  <2> QED
    BY <1>7, <1>9, <1>10
<1> QED
  BY <1>6, <1>7, <1>8, <1>9, <1>11 DEF wait

LEMMA ArrivesKeeps ==
  ASSUME WellScheduled, IInv, NEW b \in Buffers, Arrives(b) PROVE IInv'
<1> DEFINE pit == <<"pit", b>>
           into == <<"in", b>>
           wait == Wait(b, Pit[b], FALSE)
<1>1. /\ TypeOK /\ error = None /\ OneOf(fes, WindowMessages)
      /\ \A o \in Buffers : /\ OnTime(o, tt[o], clock, calm, fes)
                            /\ InTime(o, inc[o], tt[o], calm, fes)
      /\ PortFree(port, calm, tt) /\ Blocked(port, calm, tt)
  BY DEF IInv
<1>2. /\ inc \in [Buffers -> Holders] /\ fes \in Seq(Messages) /\ inc[b] \in Holders
      /\ tt[b].fire \in Int /\ inc[b].fire \in Int /\ SafetyMargin \in Nat /\ Pit[b] \in Int
  BY <1>1, Types, Ahead, Constants
<1>3. /\ ~inc[b].held /\ InReceiveWindow(b) /\ UNCHANGED <<clock, tt, stored, port, calm, error>>
      /\ IF Pit[b] > 0
         THEN /\ inc' = [inc EXCEPT ![b] = [held |-> TRUE, inTimer |-> wait > 0, fire |-> wait,
                                            arrived |-> TRUE]]
              /\ fes' = IF wait > 0 THEN fes ELSE Append(fes, pit)
         ELSE /\ fes' = Append(fes, into)
              /\ inc' = [inc EXCEPT ![b].arrived = TRUE]
  BY DEF Arrives
<1> HIDE DEF wait
<1>4. ~inc[b].inTimer /\ ~In(fes, pit)
  BY <1>1, <1>3 DEF InTime, TypeOK
<1>5. Pit[b] > 0 => /\ wait \in Nat /\ tt[b].fire > wait + SafetyMargin /\ tt[b].fire > 0
                    /\ ~In(fes, <<"event", b>>)
  BY <1>3, ArrivesBefore DEF wait
<1>6. pit \in Messages /\ pit \notin WindowMessages /\ into \in Messages /\ into \notin WindowMessages
  BY DEF Messages, WindowMessages
<1>7. PICK h \in Holders : inc' = [inc EXCEPT ![b] = h] /\ (h.held <=> Pit[b] > 0)
                           /\ (h.inTimer <=> Pit[b] > 0 /\ wait > 0)
                           /\ (h.inTimer => h.fire = wait)
  <2>1. CASE Pit[b] > 0
    <3> DEFINE h == [held |-> TRUE, inTimer |-> wait > 0, fire |-> wait, arrived |-> TRUE]
    <3>1. h \in Holders /\ h.held /\ (h.inTimer <=> wait > 0) /\ h.fire = wait
      <4> DEFINE x == wait > 0
      <4>1. wait \in Int /\ x \in BOOLEAN
        BY <1>5, <2>1
      <4>2. h = [held |-> TRUE, inTimer |-> x, fire |-> wait, arrived |-> TRUE]
        OBVIOUS
      <4> HIDE DEF x
      <4>3. h \in Holders /\ h.held /\ h.inTimer = x /\ h.fire = wait
        BY <4>1, <4>2 DEF Holders
      <4> QED
        BY <4>3 DEF x
    <3>2. inc' = [inc EXCEPT ![b] = h]
      BY <1>3, <2>1
    <3> HIDE DEF h
    <3> QED
      BY <2>1, <3>1, <3>2
  <2>2. CASE ~(Pit[b] > 0)
    <3> DEFINE h == [inc[b] EXCEPT !.arrived = TRUE]
    <3>1. h \in Holders /\ h.held = inc[b].held /\ h.inTimer = inc[b].inTimer
      BY <1>2 DEF Holders
    <3>2. inc' = [inc EXCEPT ![b] = h]
      BY <1>3, <2>2
    <3> HIDE DEF h
    <3>3. ~h.held /\ ~h.inTimer
      BY <1>3, <1>4, <3>1
    <3> QED
      BY <2>2, <3>1, <3>2, <3>3
  <2> QED
    BY <2>1, <2>2
<1>8. /\ inc' \in [Buffers -> Holders] /\ inc'[b] = h
      /\ \A o \in Buffers : o # b => inc'[o] = inc[o]
  <2> HIDE DEF Holders
  <2> QED
    BY <1>2, <1>7
<1>9. /\ fes' \in Seq(Messages)
      /\ \A x : In(fes', x) <=> \/ In(fes, x)
                                \/ x = pit /\ Pit[b] > 0 /\ ~(wait > 0)
                                \/ x = into /\ ~(Pit[b] > 0)
      /\ OneOf(fes', WindowMessages)
      /\ \A o \in Buffers : OneOf(fes, {<<"pit", o>>}) => OneOf(fes', {<<"pit", o>>})
  <2>1. CASE Pit[b] > 0 /\ wait > 0
    BY <1>1, <1>2, <1>3, <2>1
  <2>2. CASE Pit[b] > 0 /\ ~(wait > 0)
    <3>1. fes' = Append(fes, pit)
      BY <1>3, <2>2
    <3>2. ASSUME NEW o \in Buffers PROVE pit \in {<<"pit", o>>} => \A x \in {<<"pit", o>>} : ~In(fes, x)
      BY <1>4
    <3> HIDE DEF pit, into
    <3> QED
      BY <1>1, <1>2, <1>6, <2>2, <3>1, <3>2, Appended
  <2>3. CASE ~(Pit[b] > 0)
    <3>1. fes' = Append(fes, into)
      BY <1>3, <2>3
    <3>2. \A o \in Buffers : into \notin {<<"pit", o>>}
      OBVIOUS
    <3> HIDE DEF pit, into
    <3> QED
      BY <1>1, <1>2, <1>6, <2>3, <3>1, <3>2, Appended
  <2> QED
    BY <2>1, <2>2, <2>3
<1>10. TypeOK'
  <2>1. \A o \in Buffers : inc'[o].inTimer => inc'[o].held
    BY <1>1, <1>7, <1>8 DEF TypeOK
  <2> QED
    BY <1>1, <1>3, <1>8, <1>9, <2>1 DEF TypeOK, Holders, Messages
<1>11. ASSUME NEW o \in Buffers PROVE OnTime(o, tt'[o], clock', calm', fes')
  <2>1. /\ <<"frame", o>> # pit /\ <<"empty", o>> # pit /\ <<"event", o>> # pit
        /\ <<"frame", o>> # into /\ <<"empty", o>> # into /\ <<"event", o>> # into
    OBVIOUS
  <2> HIDE DEF pit, into
  <2>2. /\ In(fes', <<"event", o>>) <=> In(fes, <<"event", o>>)
        /\ In(fes', <<"frame", o>>) <=> In(fes, <<"frame", o>>)
        /\ In(fes', <<"empty", o>>) <=> In(fes, <<"empty", o>>)
    BY <1>9, <2>1
  <2> QED
    BY <1>1, <1>3, <2>2, KeptOnTime
<1>12. ASSUME NEW o \in Buffers PROVE InTime(o, inc'[o], tt'[o], calm', fes')
  <2>1. /\ <<"event", o>> # pit /\ <<"in", o>> # pit /\ <<"event", o>> # into /\ <<"pit", o>> # into
        /\ pit # into
        /\ <<"pit", o>> = pit => o = b
        /\ <<"in", o>> = into => o = b
    OBVIOUS
  <2>2. InTime(o, inc[o], tt[o], calm, fes)
    BY <1>1
  <2>3. OneOf(fes', {<<"pit", o>>})
    BY <1>9, <2>2 DEF InTime
  <2>4. CASE o # b
    <3> HIDE DEF pit, into
    <3>1. /\ In(fes', <<"event", o>>) <=> In(fes, <<"event", o>>)
          /\ In(fes', <<"pit", o>>) <=> In(fes, <<"pit", o>>)
          /\ In(fes', <<"in", o>>) <=> In(fes, <<"in", o>>)
      BY <1>9, <2>1, <2>4
    <3> QED
      BY <1>3, <1>8, <2>2, <2>3, <2>4, <3>1, KeptInTime
  <2>5. CASE o = b
    <3>1. /\ In(fes', <<"event", b>>) => In(fes, <<"event", b>>)
          /\ In(fes', pit) <=> Pit[b] > 0 /\ ~(wait > 0)
      <4> HIDE DEF pit, into
      <4> QED
        BY <1>4, <1>9, <2>1, <2>5
    <3>2. CASE Pit[b] > 0
      <4>1. /\ h.held /\ (h.inTimer <=> wait > 0) /\ (h.inTimer => h.fire = wait)
            /\ (In(fes', pit) <=> ~(wait > 0)) /\ ~In(fes', <<"event", b>>)
        BY <1>5, <1>7, <3>1, <3>2
      <4>2. h.inTimer => h.fire >= -SafetyMargin /\ ~(h.fire < 0) /\ tt[b].fire > h.fire + SafetyMargin
        BY <1>2, <1>5, <3>2, <4>1
      <4> HIDE DEF wait
      <4> QED
        BY <1>3, <1>5, <1>8, <2>3, <2>5, <3>2, <4>1, <4>2 DEF InTime
    <3>3. CASE ~(Pit[b] > 0)
      <4>1. ~h.held /\ ~h.inTimer /\ ~In(fes', pit)
        BY <1>7, <3>1, <3>3
      <4> QED
        BY <1>3, <1>8, <2>3, <2>5, <3>3, <4>1 DEF InTime
    <3> QED
      BY <3>2, <3>3
  <2> QED
    BY <2>4, <2>5
<1> QED
  BY <1>1, <1>3, <1>9, <1>10, <1>11, <1>12 DEF IInv

LEMMA PermanencePointKeeps ==
  ASSUME WellScheduled, IInv, NEW b \in Buffers, PermanencePoint(b) PROVE IInv'
<1> DEFINE pit == <<"pit", b>>
           into == <<"in", b>>
<1>1. /\ TypeOK /\ error = None /\ OneOf(fes, WindowMessages)
      /\ \A o \in Buffers : /\ OnTime(o, tt[o], clock, calm, fes)
                            /\ InTime(o, inc[o], tt[o], calm, fes)
      /\ PortFree(port, calm, tt) /\ Blocked(port, calm, tt)
  BY DEF IInv
<1>2. inc \in [Buffers -> Holders] /\ fes \in Seq(Messages) /\ inc[b] \in Holders
  BY <1>1, Types
<1>3. fes # <<>> /\ Head(fes) = pit
  BY DEF PermanencePoint
<1>4. In(fes, pit)
  BY <1>2, <1>3, HeadTaken
<1>5. InTime(b, inc[b], tt[b], calm, fes) /\ inc[b].held /\ ~inc[b].inTimer
  BY <1>1, <1>4 DEF InTime
<1>6. /\ inc' = [inc EXCEPT ![b].held = FALSE] /\ fes' = Append(Tail(fes), into)
      /\ UNCHANGED <<clock, tt, stored, port, calm, error>>
  BY <1>5 DEF PermanencePoint
<1>7. /\ inc' \in [Buffers -> Holders]
      /\ \A o \in Buffers : o # b => inc'[o] = inc[o]
      /\ inc'[b] = [inc[b] EXCEPT !.held = FALSE]
  <2> DEFINE v == [inc[b] EXCEPT !.held = FALSE]
  <2>1. v \in Holders
    BY <1>2 DEF Holders
  <2>2. inc' = [inc EXCEPT ![b] = v]
    BY <1>6
  <2> HIDE DEF v, Holders
  <2>3. inc'[b] = v /\ inc' \in [Buffers -> Holders] /\ \A o \in Buffers : o # b => inc'[o] = inc[o]
    BY <1>2, <2>1, <2>2
  <2> QED
    BY <2>3 DEF v
<1>8. ~inc'[b].held /\ ~inc'[b].inTimer
  BY <1>2, <1>5, <1>7 DEF Holders
<1>9. into \in Messages /\ into \notin WindowMessages /\ into # pit
      /\ \A o \in Buffers : into \notin {<<"pit", o>>}
  BY DEF Messages, WindowMessages
<1>10. /\ Tail(fes) \in Seq(Messages)
       /\ \A x : In(Tail(fes), x) => In(fes, x)
       /\ \A x : In(fes, x) => In(Tail(fes), x) \/ x = pit
       /\ OneOf(Tail(fes), WindowMessages)
       /\ \A o \in Buffers : OneOf(fes, {<<"pit", o>>}) => OneOf(Tail(fes), {<<"pit", o>>})
       /\ ~In(Tail(fes), pit)
  <2>1. OneOf(fes, {pit}) /\ pit \in {pit}
    BY <1>5 DEF InTime
  <2>2. ~In(Tail(fes), pit)
    <3> HIDE DEF pit
    <3> QED
      BY <1>2, <1>3, <2>1, HeadTaken
  <2> HIDE DEF pit
  <2> QED
    BY <1>1, <1>2, <1>3, <2>2, HeadTaken
<1>11. /\ fes' \in Seq(Messages)
       /\ \A x : x # pit => (In(fes', x) <=> In(fes, x) \/ x = into)
       /\ ~In(fes', pit)
       /\ OneOf(fes', WindowMessages)
       /\ \A o \in Buffers : OneOf(fes, {<<"pit", o>>}) => OneOf(fes', {<<"pit", o>>})
  <2> HIDE DEF pit, into
  <2>1. /\ fes' \in Seq(Messages)
        /\ \A x : In(fes', x) <=> In(Tail(fes), x) \/ x = into
        /\ \A K : OneOf(Tail(fes), K) /\ into \notin K => OneOf(fes', K)
    BY <1>6, <1>9, <1>10, Appended
  <2>2. OneOf(fes', WindowMessages)
    BY <1>9, <1>10, <2>1
  <2>3. \A o \in Buffers : OneOf(fes, {<<"pit", o>>}) => OneOf(fes', {<<"pit", o>>})
    BY <1>9, <1>10, <2>1
  <2> QED
    BY <1>9, <1>10, <2>1, <2>2, <2>3
<1>12. TypeOK'
  <2>1. \A o \in Buffers : inc'[o].inTimer => inc'[o].held
    BY <1>1, <1>7, <1>8 DEF TypeOK
  <2> QED
    BY <1>1, <1>6, <1>7, <1>11, <2>1 DEF TypeOK, Holders, Messages
<1>13. ASSUME NEW o \in Buffers PROVE OnTime(o, tt'[o], clock', calm', fes')
  <2>1. /\ <<"frame", o>> # pit /\ <<"empty", o>> # pit /\ <<"event", o>> # pit
        /\ <<"frame", o>> # into /\ <<"empty", o>> # into /\ <<"event", o>> # into
    OBVIOUS
  <2> HIDE DEF pit, into
  <2>2. /\ In(fes', <<"event", o>>) <=> In(fes, <<"event", o>>)
        /\ In(fes', <<"frame", o>>) <=> In(fes, <<"frame", o>>)
        /\ In(fes', <<"empty", o>>) <=> In(fes, <<"empty", o>>)
    BY <1>11, <2>1
  <2> QED
    BY <1>1, <1>6, <2>2, KeptOnTime
<1>14. ASSUME NEW o \in Buffers PROVE InTime(o, inc'[o], tt'[o], calm', fes')
  <2>1. /\ <<"event", o>> # pit /\ <<"in", o>> # pit /\ <<"event", o>> # into /\ <<"pit", o>> # into
        /\ pit # into
        /\ <<"pit", o>> = pit => o = b
        /\ <<"in", o>> = into => o = b
    OBVIOUS
  <2>2. InTime(o, inc[o], tt[o], calm, fes)
    BY <1>1
  <2>3. OneOf(fes', {<<"pit", o>>})
    BY <1>11, <2>2 DEF InTime
  <2>4. CASE o # b
    <3> HIDE DEF pit, into
    <3>1. /\ In(fes', <<"event", o>>) <=> In(fes, <<"event", o>>)
          /\ In(fes', <<"pit", o>>) <=> In(fes, <<"pit", o>>)
          /\ In(fes', <<"in", o>>) <=> In(fes, <<"in", o>>)
      BY <1>11, <2>1, <2>4
    <3> QED
      BY <1>6, <1>7, <2>2, <2>3, <2>4, <3>1, KeptInTime
  <2>5. CASE o = b
    <3>1. Pit[b] > 0 => tt[b].fire > 0 /\ ~In(fes, <<"event", b>>)
      BY <1>4, <1>5 DEF InTime
    <3>2. In(fes', <<"event", b>>) <=> In(fes, <<"event", b>>)
      <4> HIDE DEF pit, into
      <4> QED
        BY <1>11, <2>1, <2>5
    <3> QED
      BY <1>6, <1>8, <1>11, <2>3, <2>5, <3>1, <3>2 DEF InTime
  <2> QED
    BY <2>4, <2>5
<1> QED
  BY <1>1, <1>6, <1>11, <1>12, <1>13, <1>14 DEF IInv

LEMMA EnqueueKeeps ==
  ASSUME WellScheduled, IInv, NEW b \in Buffers, Enqueue(b) PROVE IInv'
<1> DEFINE into == <<"in", b>>
<1>1. /\ TypeOK /\ error = None /\ OneOf(fes, WindowMessages)
      /\ \A o \in Buffers : /\ OnTime(o, tt[o], clock, calm, fes)
                            /\ InTime(o, inc[o], tt[o], calm, fes)
      /\ PortFree(port, calm, tt) /\ Blocked(port, calm, tt)
  BY DEF IInv
<1>2. fes \in Seq(Messages) /\ stored \in [Buffers -> Nat] /\ Capacity[b] \in Nat
  BY <1>1, Types, Constants DEF TypeOK
<1>3. /\ fes # <<>> /\ Head(fes) = into /\ fes' = Tail(fes)
      /\ UNCHANGED <<clock, tt, inc, port, calm, error>>
      /\ stored' = [stored EXCEPT ![b] =
           IF b \in DoubleBuffer THEN 1
           ELSE IF stored[b] < Capacity[b] THEN stored[b] + 1 ELSE stored[b]]
  BY DEF Enqueue
<1>4. /\ stored' \in [Buffers -> Nat]
      /\ \A o \in Buffers : stored'[o] <= IF o \in DoubleBuffer THEN 1 ELSE Capacity[o]
  <2> DEFINE n == IF b \in DoubleBuffer THEN 1
                  ELSE IF stored[b] < Capacity[b] THEN stored[b] + 1 ELSE stored[b]
  <2>1. n \in Nat /\ n <= IF b \in DoubleBuffer THEN 1 ELSE Capacity[b]
    BY <1>1, <1>2 DEF TypeOK
  <2>2. stored' = [stored EXCEPT ![b] = n]
    BY <1>3
  <2> HIDE DEF n
  <2>3. stored' \in [Buffers -> Nat] /\ stored'[b] = n /\ \A o \in Buffers : o # b => stored'[o] = stored[o]
    BY <1>2, <2>1, <2>2
  <2> QED
    BY <1>1, <2>1, <2>3 DEF TypeOK
<1>5. /\ fes' \in Seq(Messages)
      /\ \A x : In(fes', x) => In(fes, x)
      /\ \A x : In(fes, x) => In(fes', x) \/ x = into
      /\ OneOf(fes', WindowMessages)
      /\ \A o \in Buffers : OneOf(fes, {<<"pit", o>>}) => OneOf(fes', {<<"pit", o>>})
  <2> HIDE DEF into
  <2> QED
    BY <1>1, <1>2, <1>3, HeadTaken
<1>6. TypeOK'
  BY <1>1, <1>3, <1>4, <1>5 DEF TypeOK, Messages
<1>7. ASSUME NEW o \in Buffers PROVE OnTime(o, tt'[o], clock', calm', fes')
  <2>1. <<"frame", o>> # into /\ <<"empty", o>> # into /\ <<"event", o>> # into
    OBVIOUS
  <2> HIDE DEF into
  <2>2. /\ In(fes', <<"event", o>>) <=> In(fes, <<"event", o>>)
        /\ In(fes', <<"frame", o>>) <=> In(fes, <<"frame", o>>)
        /\ In(fes', <<"empty", o>>) <=> In(fes, <<"empty", o>>)
    BY <1>5, <2>1
  <2> QED
    BY <1>1, <1>3, <2>2, KeptOnTime
<1>8. ASSUME NEW o \in Buffers PROVE InTime(o, inc'[o], tt'[o], calm', fes')
  <2>1. <<"pit", o>> # into
    OBVIOUS
  <2>2. InTime(o, inc[o], tt[o], calm, fes)
    BY <1>1
  <2>3. OneOf(fes', {<<"pit", o>>})
    BY <1>5, <2>2 DEF InTime
  <2> HIDE DEF into
  <2>4. /\ In(fes', <<"event", o>>) => In(fes, <<"event", o>>)
        /\ In(fes', <<"pit", o>>) <=> In(fes, <<"pit", o>>)
        /\ In(fes', <<"in", o>>) => In(fes, <<"in", o>>)
    BY <1>5, <2>1
  <2> QED
    BY <1>3, <2>2, <2>3, <2>4, KeptInTime
<1> QED
  BY <1>1, <1>3, <1>5, <1>6, <1>7, <1>8 DEF IInv

LEMMA BufferSendsKeeps ==
  ASSUME WellScheduled, IInv, NEW b \in Buffers, BufferSends(b) PROVE IInv'
<1> DEFINE event == <<"event", b>>
           m == <<IF stored[b] > 0 THEN "frame" ELSE "empty", b>>
           n == NextWindow(b)
<1>1. /\ TypeOK /\ error = None /\ OneOf(fes, WindowMessages)
      /\ \A o \in Buffers : /\ OnTime(o, tt[o], clock, calm, fes)
                            /\ InTime(o, inc[o], tt[o], calm, fes)
      /\ PortFree(port, calm, tt) /\ Blocked(port, calm, tt)
  BY DEF IInv
<1>2. tt \in [Buffers -> Windows] /\ fes \in Seq(Messages) /\ tt[b] \in Windows /\ clock \in Int
      /\ stored \in [Buffers -> Nat]
  BY <1>1, Types DEF TypeOK
<1>3. fes # <<>> /\ Head(fes) = event
  BY DEF BufferSends
<1>4. In(fes, event)
  BY <1>2, <1>3, HeadTaken
<1>5. /\ tt[b].enabled = TRUE /\ tt[b].fire <= 0 /\ tt[b].key = tt[b].fire
      /\ OnTime(b, tt[b], clock, calm, fes)
      /\ ~inc[b].held /\ ~inc[b].inTimer /\ ~In(fes, <<"pit", b>>)
      /\ Pit[b] > 0 => ~In(fes, <<"in", b>>)
  BY <1>4, Ahead, NothingHeld
<1>6. /\ fes' = Append(Tail(fes), m) /\ stored' = Dequeued(b)
      /\ tt' = [tt EXCEPT ![b].inTimer = TRUE, ![b].fire = n, ![b].next = n]
      /\ UNCHANGED <<clock, inc, port, calm, error>>
  BY <1>5 DEF BufferSends
<1>7. n \in Nat \ {0} /\ Slot(b, clock + n)
  BY <1>2, NextWindowIs
<1> HIDE DEF n
<1>8. PICK v \in Windows :
         /\ tt' = [tt EXCEPT ![b] = v]
         /\ v.inTimer = TRUE /\ v.fire = n /\ v.next = n /\ v.key = tt[b].key /\ v.enabled = tt[b].enabled
  <2> DEFINE u1 == [tt[b] EXCEPT !.inTimer = TRUE]
             u2 == [u1 EXCEPT !.fire = n]
             u3 == [u2 EXCEPT !.next = n]
             t1 == [tt EXCEPT ![b] = u1]
             t2 == [tt EXCEPT ![b] = u2]
             t3 == [tt EXCEPT ![b] = u3]
  <2>1. u1 \in Windows /\ u1.inTimer = TRUE /\ u1.key = tt[b].key /\ u1.enabled = tt[b].enabled
    BY <1>2 DEF Windows
  <2>2. tt' = [[t1 EXCEPT ![b].fire = n] EXCEPT ![b].next = n]
    BY <1>6
  <2> HIDE DEF u1
  <2>3. u2 \in Windows /\ u2.inTimer = TRUE /\ u2.key = tt[b].key /\ u2.enabled = tt[b].enabled
        /\ u2.fire = n
    BY <1>7, <2>1 DEF Windows
  <2>4. [t1 EXCEPT ![b].fire = n] = t2
    <3> HIDE DEF Windows
    <3> QED
      BY <1>2, <2>1
  <2> HIDE DEF u2, t1
  <2>5. u3 \in Windows /\ u3.inTimer = TRUE /\ u3.key = tt[b].key /\ u3.enabled = tt[b].enabled
        /\ u3.fire = n /\ u3.next = n
    BY <1>7, <2>3 DEF Windows
  <2>6. [t2 EXCEPT ![b].next = n] = t3
    <3> HIDE DEF Windows
    <3> QED
      BY <1>2, <2>3
  <2> HIDE DEF u3, t2, Windows
  <2> QED
    BY <2>2, <2>4, <2>5, <2>6
<1>9. /\ tt' \in [Buffers -> Windows] /\ tt'[b] = v
      /\ \A o \in Buffers : o # b => tt'[o] = tt[o]
  <2> HIDE DEF Windows
  <2> QED
    BY <1>2, <1>8
<1>10. /\ stored' \in [Buffers -> Nat]
       /\ \A o \in Buffers : stored'[o] <= IF o \in DoubleBuffer THEN 1 ELSE Capacity[o]
  <2>1. stored[b] \in Nat /\ (stored[b] # 0 => stored[b] - 1 \in Nat)
    BY <1>2
  <2>2. CASE b \in DoubleBuffer \/ stored[b] = 0
    BY <1>1, <1>2, <1>6, <2>2 DEF Dequeued, TypeOK
  <2>3. CASE ~(b \in DoubleBuffer \/ stored[b] = 0)
    <3>1. stored' = [stored EXCEPT ![b] = stored[b] - 1]
      BY <1>6, <2>3 DEF Dequeued
    <3>2. /\ stored' \in [Buffers -> Nat] /\ stored'[b] = stored[b] - 1
          /\ \A o \in Buffers : o # b => stored'[o] = stored[o]
      BY <1>2, <2>1, <2>3, <3>1
    <3>3. /\ \A o \in Buffers : stored[o] <= IF o \in DoubleBuffer THEN 1 ELSE Capacity[o]
          /\ Capacity[b] \in Nat
      BY <1>1, Constants DEF TypeOK
    <3>4. stored'[b] <= Capacity[b]
      BY <2>1, <2>3, <3>2, <3>3
    <3> QED
      BY <2>3, <3>2, <3>3, <3>4
  <2> QED
    BY <2>2, <2>3
<1>11. /\ m \in Messages /\ m \in WindowMessages /\ event \in WindowMessages
       /\ m \in {<<"frame", b>>, <<"empty", b>>} /\ event # m
       /\ \A o \in Buffers : m \notin {<<"pit", o>>}
  BY DEF Messages, WindowMessages
<1> HIDE DEF m
<1>12. /\ Tail(fes) \in Seq(Messages)
       /\ \A x : In(Tail(fes), x) => In(fes, x)
       /\ \A x : In(fes, x) => In(Tail(fes), x) \/ x = event
       /\ OneOf(Tail(fes), WindowMessages)
       /\ \A o \in Buffers : OneOf(fes, {<<"pit", o>>}) => OneOf(Tail(fes), {<<"pit", o>>})
       /\ \A x \in WindowMessages : ~In(Tail(fes), x)
  <2> HIDE DEF event
  <2> QED
    BY <1>1, <1>2, <1>3, <1>11, HeadTaken
<1>13. /\ fes' \in Seq(Messages)
       /\ \A x : In(fes', x) <=> In(Tail(fes), x) \/ x = m
       /\ OneOf(fes', WindowMessages)
       /\ \A o \in Buffers : OneOf(fes, {<<"pit", o>>}) => OneOf(fes', {<<"pit", o>>})
  <2>1. /\ fes' \in Seq(Messages)
        /\ \A x : In(fes', x) <=> In(Tail(fes), x) \/ x = m
        /\ \A K : OneOf(Tail(fes), K) /\ (m \in K => \A x \in K : ~In(Tail(fes), x)) => OneOf(fes', K)
    BY <1>6, <1>11, <1>12, Appended
  <2>2. OneOf(fes', WindowMessages)
    BY <1>12, <2>1
  <2>3. \A o \in Buffers : OneOf(fes, {<<"pit", o>>}) => OneOf(fes', {<<"pit", o>>})
    BY <1>11, <1>12, <2>1
  <2> QED
    BY <2>1, <2>2, <2>3
<1>14. TypeOK'
  BY <1>1, <1>6, <1>9, <1>10, <1>13 DEF TypeOK, Windows, Messages
<1>15. ASSUME NEW o \in Buffers PROVE OnTime(o, tt'[o], clock', calm', fes')
  <2>1. CASE o # b
    <3>1. /\ <<"frame", o>> \notin {event, m} /\ <<"empty", o>> \notin {event, m}
          /\ <<"event", o>> \notin {event, m}
      BY <1>11, <2>1
    <3> HIDE DEF event
    <3>2. /\ In(fes', <<"event", o>>) <=> In(fes, <<"event", o>>)
          /\ In(fes', <<"frame", o>>) <=> In(fes, <<"frame", o>>)
          /\ In(fes', <<"empty", o>>) <=> In(fes, <<"empty", o>>)
      BY <1>12, <1>13, <3>1
    <3> QED
      BY <1>1, <1>6, <1>9, <2>1, <3>2, KeptOnTime
  <2>2. CASE o = b
    <3>1. ~In(fes', event) /\ Under(b, fes')
      <4>1. ~In(fes', event)
        <5> HIDE DEF event
        <5> QED
          BY <1>11, <1>12, <1>13
      <4>2. In(fes', m)
        BY <1>13
      <4> QED
        BY <1>11, <4>1, <4>2 DEF Under
    <3>2. n > 0
      BY <1>7
    <3>3. /\ tt[b].enabled /\ Slot(b, clock + tt[b].key) /\ tt[b].key >= -SafetyMargin
          /\ (tt[b].key < 0 => calm = 0) /\ tt[b].key <= 0
      BY <1>5 DEF OnTime
    <3> QED
      BY <1>6, <1>7, <1>8, <1>9, <2>2, <3>1, <3>2, <3>3 DEF OnTime
  <2> QED
    BY <2>1, <2>2
<1>16. ASSUME NEW o \in Buffers PROVE InTime(o, inc'[o], tt'[o], calm', fes')
  <2>1. <<"pit", o>> \notin {event, m} /\ <<"in", o>> \notin {event, m} /\ <<"event", o>> # m
    BY <1>11
  <2>2. InTime(o, inc[o], tt[o], calm, fes)
    BY <1>1
  <2>3. OneOf(fes', {<<"pit", o>>})
    BY <1>13, <2>2 DEF InTime
  <2>4. /\ In(fes', <<"event", o>>) => In(fes, <<"event", o>>)
        /\ In(fes', <<"pit", o>>) <=> In(fes, <<"pit", o>>)
        /\ In(fes', <<"in", o>>) => In(fes, <<"in", o>>)
    <3> HIDE DEF event
    <3> QED
      BY <1>12, <1>13, <2>1
  <2>5. CASE o # b
    BY <1>6, <1>9, <2>2, <2>3, <2>4, <2>5, KeptInTime
  <2>6. CASE o = b
    BY <1>5, <1>6, <2>3, <2>4, <2>6 DEF InTime
  <2> QED
    BY <2>5, <2>6
<1>17. PortFree(port', calm', tt') /\ Blocked(port', calm', tt')
  <2>1. \A o \in Buffers : tt'[o].key = tt[o].key
    BY <1>8, <1>9
  <2> QED
    BY <1>1, <1>6, <2>1, KeptPort
<1> QED
  BY <1>1, <1>6, <1>13, <1>14, <1>15, <1>16, <1>17 DEF IInv

(* The port with an open request sends what ends before every window, or   *)
(* stays idle because no first frame would.                                *)
LEMMA PopKeeps ==
  ASSUME TypeOK, Gradual, port.mac = 0, NEW w, \A b \in Buffers : w[b].key \in Int,
         NEW since \in Nat, NEW keys, \A b \in Buffers : keys[b] = w[b].key, Pop(keys)
  PROVE  /\ port' \in [queue : [Classes -> Seq(Frames)], pending : {0, 1}, mac : Nat]
         /\ port'.pending = 1 => port'.mac = 0
         /\ PortFree(port', since, w) /\ Blocked(port', since, w)
<1>1. /\ port \in [queue : [Classes -> Seq(Frames)], pending : {0, 1}, mac : Nat]
      /\ SafetyMargin \in Nat /\ CorrectionGap \in Nat \ {0}
      /\ Ticks \in [Frames -> Nat \ {0}]
      /\ \A f \in Frames : Ticks[f] < CorrectionGap
  BY Types, TTPortAssumption DEF Gradual
<1>2. CASE \E c \in Classes : CanPop(c, keys)
  <2>1. PICK c \in Classes :
          /\ CanPop(c, keys)
          /\ port' = [queue |-> [port.queue EXCEPT ![c] = Tail(port.queue[c])],
                      pending |-> 0, mac |-> Ticks[Head(port.queue[c])]]
    BY <1>2 DEF Pop
  <2> DEFINE f == Head(port.queue[c])
             queue == [port.queue EXCEPT ![c] = Tail(port.queue[c])]
  <2>2. port.queue[c] \in Seq(Frames) /\ port.queue[c] # <<>> /\ port.queue \in [Classes -> Seq(Frames)]
        /\ \A b \in Buffers : Ticks[f] + SafetyMargin < keys[b]
    BY <1>1, <2>1 DEF CanPop, Front, IsTransmissionAllowed
  <2>3. f \in Frames /\ Tail(port.queue[c]) \in Seq(Frames)
    BY <2>2
  <2>4. queue \in [Classes -> Seq(Frames)]
    BY <2>2, <2>3
  <2> HIDE DEF f, queue
  <2>5. port' = [queue |-> queue, pending |-> 0, mac |-> Ticks[f]]
    BY <2>1 DEF queue, f
  <2>6. Ticks[f] \in Nat /\ Ticks[f] < CorrectionGap
    BY <1>1, <2>3
  <2>7. /\ port' \in [queue : [Classes -> Seq(Frames)], pending : {0, 1}, mac : Nat]
        /\ port'.pending = 0 /\ port'.mac = Ticks[f]
    BY <2>4, <2>5, <2>6
  <2>8. ASSUME NEW b \in Buffers PROVE port'.mac + Slack(port', since) < w[b].key
    <3>1. Slack(port', since) \in Nat /\ Slack(port', since) <= SafetyMargin
      BY <1>1 DEF Slack
    <3>2. Ticks[f] + SafetyMargin < w[b].key /\ w[b].key \in Int
      BY <2>2
    <3> QED
      BY <1>1, <2>6, <2>7, <3>1, <3>2
  <2> QED
    BY <2>6, <2>7, <2>8 DEF PortFree, Blocked
<1>3. CASE ~\E c \in Classes : CanPop(c, keys)
  <2>1. port' = [port EXCEPT !.pending = 1]
    BY <1>3 DEF Pop
  <2>2. /\ port' \in [queue : [Classes -> Seq(Frames)], pending : {0, 1}, mac : Nat]
        /\ port'.pending = 1 /\ port'.mac = 0 /\ port'.queue = port.queue
    BY <1>1, <2>1
  <2>3. PortFree(port', since, w)
    BY <1>1, <2>2 DEF PortFree
  <2>4. ASSUME NEW c \in Classes, port'.queue[c] # <<>>,
               \A d \in Classes : d < c => port'.queue[d] = <<>>
        PROVE  \E b \in Buffers : Ticks[Head(port'.queue[c])] + SafetyMargin + Recent(since) >= w[b].key
    <3> DEFINE f == Head(port.queue[c])
    <3>1. ~IsTransmissionAllowed(f, keys)
      BY <1>3, <2>2, <2>4 DEF CanPop, Front
    <3>2. PICK b \in Buffers : ~(Ticks[f] + SafetyMargin < keys[b])
      BY <3>1 DEF IsTransmissionAllowed
    <3>3. f \in Frames
      <4>1. port.queue[c] \in Seq(Frames) /\ port.queue[c] # <<>>
        BY <1>1, <2>2, <2>4
      <4> QED
        BY <4>1
    <3>4. Recent(since) \in Nat
      BY <1>1 DEF Recent
    <3>5. Ticks[f] \in Nat /\ w[b].key \in Int /\ keys[b] = w[b].key
      BY <1>1, <3>3
    <3>6. Ticks[f] + SafetyMargin + Recent(since) >= w[b].key
      BY <1>1, <3>2, <3>4, <3>5
    <3> QED
      BY <2>2, <3>6
  <2>5. Blocked(port', since, w)
    BY <2>4 DEF Blocked
  <2> QED
    BY <2>2, <2>3, <2>5
<1> QED
  BY <1>2, <1>3

(* The message of a window finds its buffer first in the map and the port  *)
(* idle, and ends before the next window.                                  *)
LEMMA Expected ==
  ASSUME WellScheduled, IInv, NEW b \in Buffers, Under(b, fes)
  PROVE  /\ IsFirst(b) /\ port.pending = 1 /\ port.mac = 0
         /\ tt[b].next = tt[b].fire /\ tt[b].fire > 0
         /\ ~\E o \in Buffers \ {b} : tt[o].key = tt[b].next
         /\ \A o \in Buffers : LET key == IF o = b THEN tt[b].fire ELSE tt[o].key
                               IN  /\ key > TTTicks[b]
                                   /\ calm > 0 => key > TTTicks[b] + SafetyMargin
<1>1. /\ \A o \in Buffers : OnTime(o, tt[o], clock, calm, fes) /\ tt[o].key \in Int
                            /\ tt[o].fire \in Int
      /\ Separated /\ clock \in Int /\ SafetyMargin \in Nat /\ TTTicks[b] \in Nat /\ calm \in Nat
  BY Ahead, Types, Constants DEF IInv, WellScheduled
<1>2. \A o \in Buffers : tt[o].key >= -SafetyMargin /\ Slot(o, clock + tt[o].key)
                         /\ Slot(o, clock + tt[o].fire) /\ (tt[o].key < 0 => calm = 0)
  BY <1>1 DEF OnTime
<1>3. tt[b].key <= 0 /\ tt[b].fire > 0 /\ tt[b].next = tt[b].fire
  BY <1>1 DEF OnTime
<1>4. ASSUME NEW o \in Buffers PROVE tt[b].key <= tt[o].key
  <2> SUFFICES ASSUME tt[o].key < tt[b].key PROVE FALSE
    BY <1>1
  <2>1. tt[o].key <= 0
    BY <1>1, <1>3
  <2>2. o = b
    BY <1>1, <1>2, <1>3, <2>1, BothDue
  <2> QED
    BY <1>1, <2>2
<1>5. ASSUME NEW o \in Buffers, NEW x \in Int, Slot(o, clock + x), x >= tt[b].key,
             ~(o = b /\ x = tt[b].key)
      PROVE  /\ x > TTTicks[b]
             /\ calm > 0 => x > TTTicks[b] + SafetyMargin
  <2> DEFINE k == tt[b].key
  <2>1. k \in Int /\ k <= 0 /\ Slot(b, clock + k) /\ k >= -SafetyMargin /\ (k < 0 => calm = 0)
    BY <1>1, <1>2, <1>3
  <2> HIDE DEF k
  <2>2. ~(x - k <= TTTicks[b] + SafetyMargin)
    <3> SUFFICES ASSUME x - k <= TTTicks[b] + SafetyMargin PROVE FALSE
      OBVIOUS
    <3>1. clock + k \in Int /\ clock + x \in Int /\ clock + k <= clock + x
          /\ (clock + x) - (clock + k) <= TTTicks[b] + SafetyMargin
      BY <1>1, <1>5, <2>1 DEF k
    <3>2. b = o /\ clock + k = clock + x
      BY <1>1, <1>5, <2>1, <3>1, Apart
    <3> QED
      BY <1>1, <1>5, <2>1, <3>2 DEF k
  <2> QED
    BY <1>1, <2>1, <2>2
<1>6. ~\E o \in Buffers \ {b} : tt[o].key = tt[b].next
  <2> SUFFICES ASSUME NEW o \in Buffers \ {b}, tt[o].key = tt[b].fire PROVE FALSE
    BY <1>3
  <2>1. clock + tt[b].fire \in Int /\ Slot(b, clock + tt[b].fire) /\ Slot(o, clock + tt[b].fire)
    BY <1>1, <1>2
  <2>2. (clock + tt[b].fire) - (clock + tt[b].fire) <= TTTicks[b] + SafetyMargin
    BY <1>1
  <2> QED
    BY <1>1, <2>1, <2>2, Apart
<1>7. ASSUME NEW o \in Buffers
      PROVE  LET key == IF o = b THEN tt[b].fire ELSE tt[o].key
             IN  /\ key > TTTicks[b]
                 /\ calm > 0 => key > TTTicks[b] + SafetyMargin
  <2>1. CASE o = b
    <3>1. tt[b].fire \in Int /\ Slot(b, clock + tt[b].fire) /\ tt[b].fire >= tt[b].key
          /\ tt[b].fire # tt[b].key
      BY <1>1, <1>2, <1>3
    <3> QED
      BY <1>5, <2>1, <3>1
  <2>2. CASE o # b
    <3>1. tt[o].key \in Int /\ Slot(o, clock + tt[o].key) /\ tt[o].key >= tt[b].key
      BY <1>1, <1>2, <1>4
    <3> QED
      BY <1>5, <2>2, <3>1
  <2> QED
    BY <2>1, <2>2
<1>8. port.pending = 1 /\ port.mac = 0
  <2>1. /\ port \in [queue : [Classes -> Seq(Frames)], pending : {0, 1}, mac : Nat]
        /\ port.pending = 1 => port.mac = 0
        /\ PortFree(port, calm, tt)
    BY DEF IInv, TypeOK
  <2>2. port.pending # 0
    <3> SUFFICES ASSUME port.pending = 0 PROVE FALSE
      OBVIOUS
    <3>1. port.mac + Slack(port, calm) < tt[b].key
      BY <2>1 DEF PortFree
    <3>2. port.mac \in Nat /\ Slack(port, calm) \in Nat
      BY <1>1, <2>1 DEF Slack
    <3> QED
      BY <1>1, <1>3, <3>1, <3>2
  <2> QED
    BY <2>1, <2>2
<1> QED
  BY <1>3, <1>4, <1>6, <1>7, <1>8 DEF IsFirst

LEMMA Sent ==
  ASSUME NEW p \in [queue : [Classes -> Seq(Frames)], pending : {0, 1}, mac : Nat],
         p.pending = 1, NEW n \in Nat
  PROVE  LET q == [p EXCEPT !.pending = p.pending - 1, !.mac = n]
         IN  /\ q \in [queue : [Classes -> Seq(Frames)], pending : {0, 1}, mac : Nat]
             /\ q.pending = 0 /\ q.mac = n
<1> DEFINE Queues == [Classes -> Seq(Frames)]
           u == [p EXCEPT !.pending = p.pending - 1]
<1> HIDE DEF Queues
<1>1. p \in [queue : Queues, pending : {0, 1}, mac : Nat] /\ p.pending - 1 = 0
  BY DEF Queues
<1>2. u \in [queue : Queues, pending : {0, 1}, mac : Nat] /\ u.pending = 0
  BY <1>1
<1> HIDE DEF u
<1>3. LET q == [u EXCEPT !.mac = n]
      IN  q \in [queue : Queues, pending : {0, 1}, mac : Nat] /\ q.pending = 0 /\ q.mac = n
  BY <1>2
<1> QED
  BY <1>3 DEF u, Queues

LEMMA FromTTBufferKeeps ==
  ASSUME WellScheduled, IInv, NEW b \in Buffers, FromTTBuffer(b) PROVE IInv'
<1>1. /\ TypeOK /\ error = None /\ OneOf(fes, WindowMessages)
      /\ \A o \in Buffers : /\ OnTime(o, tt[o], clock, calm, fes)
                            /\ InTime(o, inc[o], tt[o], calm, fes)
      /\ PortFree(port, calm, tt) /\ Blocked(port, calm, tt)
  BY DEF IInv
<1>2. /\ tt \in [Buffers -> Windows] /\ fes \in Seq(Messages) /\ tt[b] \in Windows
      /\ port \in [queue : [Classes -> Seq(Frames)], pending : {0, 1}, mac : Nat]
      /\ calm \in Nat /\ CorrectionGap \in Nat \ {0} /\ SafetyMargin \in Nat
      /\ TTTicks[b] \in Nat /\ TTTicks[b] < CorrectionGap /\ Gradual
  BY <1>1, Types, Constants DEF WellScheduled, Gradual
<1>3. PICK m \in {<<"frame", b>>, <<"empty", b>>} : fes # <<>> /\ Head(fes) = m /\ fes' = Tail(fes)
  <2>1. fes # <<>> /\ Head(fes) \in {"frame", "empty"} \X {b} /\ fes' = Tail(fes)
    BY DEF FromTTBuffer
  <2>2. Head(fes) = <<"frame", b>> \/ Head(fes) = <<"empty", b>>
    <3> DEFINE h == Head(fes)
    <3>1. h \in {"frame", "empty"} \X {b}
      BY <2>1
    <3> HIDE DEF h
    <3>2. h = <<"frame", b>> \/ h = <<"empty", b>>
      BY <3>1
    <3> QED
      BY <3>2 DEF h
  <2> QED
    BY <2>1, <2>2
<1>4. /\ m \in WindowMessages /\ <<"event", b>> \in WindowMessages /\ m # <<"event", b>>
      /\ \A o \in Buffers : o # b => m \notin {<<"event", o>>, <<"frame", o>>, <<"empty", o>>}
      /\ \A o \in Buffers : m # <<"pit", o>> /\ m # <<"in", o>>
  BY DEF WindowMessages
<1>5. In(fes, m) /\ Under(b, fes)
  BY <1>2, <1>3, HeadTaken DEF Under
<1>6. /\ IsFirst(b) /\ port.pending = 1 /\ port.mac = 0
      /\ tt[b].next = tt[b].fire /\ tt[b].fire > 0
      /\ ~\E o \in Buffers \ {b} : tt[o].key = tt[b].next
      /\ \A o \in Buffers : LET key == IF o = b THEN tt[b].fire ELSE tt[o].key
                            IN  /\ key > TTTicks[b]
                                /\ calm > 0 => key > TTTicks[b] + SafetyMargin
  BY <1>5, Expected
<1>7. /\ tt' = [tt EXCEPT ![b].key = tt[b].next]
      /\ UNCHANGED <<clock, inc, stored, calm, error>>
      /\ \/ TTinEmpty(b)
         \/ port' = [port EXCEPT !.pending = port.pending - 1, !.mac = TTTicks[b]]
  BY <1>6 DEF FromTTBuffer
<1>8. /\ tt' \in [Buffers -> Windows]
      /\ \A o \in Buffers : o # b => tt'[o] = tt[o]
      /\ tt'[b] = [tt[b] EXCEPT !.key = tt[b].next]
  <2> DEFINE v == [tt[b] EXCEPT !.key = tt[b].next]
  <2>1. v \in Windows
    BY <1>2 DEF Windows
  <2>2. tt' = [tt EXCEPT ![b] = v]
    BY <1>7
  <2> HIDE DEF v, Windows
  <2>3. tt'[b] = v /\ tt' \in [Buffers -> Windows] /\ \A o \in Buffers : o # b => tt'[o] = tt[o]
    BY <1>2, <2>1, <2>2
  <2> QED
    BY <2>3 DEF v
<1>9. /\ tt'[b].key = tt[b].fire /\ tt'[b].fire = tt[b].fire /\ tt'[b].next = tt[b].fire
      /\ tt'[b].inTimer = tt[b].inTimer /\ tt'[b].enabled = tt[b].enabled
      /\ tt[b].fire \in Int
  BY <1>2, <1>6, <1>8 DEF Windows
<1>10. /\ fes' \in Seq(Messages)
       /\ \A x : In(fes', x) => In(fes, x)
       /\ \A x : In(fes, x) => In(fes', x) \/ x = m
       /\ OneOf(fes', WindowMessages)
       /\ \A x \in WindowMessages : ~In(fes', x)
       /\ \A o \in Buffers : OneOf(fes, {<<"pit", o>>}) => OneOf(fes', {<<"pit", o>>})
  <2>1. \A x \in WindowMessages : ~In(fes', x)
    BY <1>1, <1>2, <1>3, <1>4, HeadTaken
  <2> QED
    BY <1>1, <1>2, <1>3, <2>1, HeadTaken
<1>11. \A o \in Buffers : tt'[o].key = (IF o = b THEN tt[b].fire ELSE tt[o].key) /\ tt'[o].key \in Int
  <2>1. \A o \in Buffers : tt'[o].key \in Int
    BY <1>8 DEF Windows
  <2> QED
    BY <1>8, <1>9, <2>1
<1>12. /\ port' \in [queue : [Classes -> Seq(Frames)], pending : {0, 1}, mac : Nat]
       /\ port'.pending = 1 => port'.mac = 0
       /\ PortFree(port', calm', tt') /\ Blocked(port', calm', tt')
  <2>1. CASE TTinEmpty(b)
    <3>1. Pop([Keys EXCEPT ![b] = tt[b].next])
      BY <1>6, <2>1 DEF TTinEmpty
    <3>2. PICK keys : keys = [Keys EXCEPT ![b] = tt[b].next] /\ Pop(keys)
      BY <3>1
    <3>3. PICK w : w = tt'
      OBVIOUS
    <3>4. \A o \in Buffers : keys[o] = w[o].key /\ w[o].key \in Int
      <4> TAKE o \in Buffers
      <4>1. keys[o] = IF o = b THEN tt[b].next ELSE tt[o].key
        BY <3>2 DEF Keys
      <4> QED
        BY <1>6, <1>11, <3>3, <4>1
    <3>5. /\ port' \in [queue : [Classes -> Seq(Frames)], pending : {0, 1}, mac : Nat]
          /\ port'.pending = 1 => port'.mac = 0
          /\ PortFree(port', calm, w) /\ Blocked(port', calm, w)
      BY <1>1, <1>2, <1>6, <3>2, <3>4, PopKeeps
    <3> QED
      BY <1>7, <3>3, <3>5
  <2>2. CASE port' = [port EXCEPT !.pending = port.pending - 1, !.mac = TTTicks[b]]
    <3>1. /\ port' \in [queue : [Classes -> Seq(Frames)], pending : {0, 1}, mac : Nat]
          /\ port'.pending = 0 /\ port'.mac = TTTicks[b]
      BY <1>2, <1>6, <2>2, Sent
    <3>2. ASSUME NEW o \in Buffers PROVE port'.mac + Slack(port', calm) < tt'[o].key
      <4>1. /\ tt'[o].key \in Int /\ tt'[o].key > TTTicks[b]
            /\ calm > 0 => tt'[o].key > TTTicks[b] + SafetyMargin
        BY <1>6, <1>11
      <4>2. CASE calm > 0
        <5>1. Slack(port', calm) \in Nat /\ Slack(port', calm) <= SafetyMargin
          BY <1>2 DEF Slack
        <5> QED
          BY <1>2, <3>1, <4>1, <4>2, <5>1
      <4>3. CASE ~(calm > 0)
        <5>1. Slack(port', calm) = 0
          BY <1>2, <3>1, <4>3 DEF Slack
        <5> QED
          BY <1>2, <3>1, <4>1, <5>1
      <4> QED
        BY <4>2, <4>3
    <3> QED
      BY <1>2, <1>7, <3>1, <3>2 DEF PortFree, Blocked
  <2> QED
    BY <1>7, <2>1, <2>2
<1>13. TypeOK'
  BY <1>1, <1>7, <1>8, <1>10, <1>12 DEF TypeOK, Windows, Messages
<1>14. ASSUME NEW o \in Buffers PROVE OnTime(o, tt'[o], clock', calm', fes')
  <2>1. CASE o # b
    <3>1. /\ In(fes', <<"event", o>>) <=> In(fes, <<"event", o>>)
          /\ In(fes', <<"frame", o>>) <=> In(fes, <<"frame", o>>)
          /\ In(fes', <<"empty", o>>) <=> In(fes, <<"empty", o>>)
      BY <1>4, <1>10, <2>1
    <3> QED
      BY <1>1, <1>7, <1>8, <2>1, <3>1, KeptOnTime
  <2>2. CASE o = b
    <3>1. ~In(fes', <<"event", b>>) /\ ~Under(b, fes') /\ ~In(fes, <<"event", b>>)
      <4>1. <<"frame", b>> \in WindowMessages /\ <<"empty", b>> \in WindowMessages
        BY DEF WindowMessages
      <4>2. ~In(fes, <<"event", b>>)
        BY <1>1, <1>5, EventAlone
      <4> QED
        BY <1>4, <1>10, <4>1, <4>2 DEF Under
    <3>2. tt[b].enabled /\ Slot(b, clock + tt[b].fire) /\ (tt[b].inTimer <=> ~In(fes, <<"event", b>>))
      BY <1>1 DEF OnTime
    <3>3. tt[b].fire >= -SafetyMargin /\ ~(tt[b].fire < 0)
      BY <1>2, <1>6, <1>9
    <3> QED
      BY <1>7, <1>9, <2>2, <3>1, <3>2, <3>3 DEF OnTime
  <2> QED
    BY <2>1, <2>2
<1>15. ASSUME NEW o \in Buffers PROVE InTime(o, inc'[o], tt'[o], calm', fes')
  <2>1. InTime(o, inc[o], tt[o], calm, fes)
    BY <1>1
  <2>2. OneOf(fes', {<<"pit", o>>})
    BY <1>10, <2>1 DEF InTime
  <2>3. /\ In(fes', <<"event", o>>) => In(fes, <<"event", o>>)
        /\ In(fes', <<"pit", o>>) <=> In(fes, <<"pit", o>>)
        /\ In(fes', <<"in", o>>) => In(fes, <<"in", o>>)
    BY <1>4, <1>10
  <2>4. InTime(o, inc[o], tt[o], calm, fes')
    BY <2>1, <2>2, <2>3, KeptInTime
  <2>5. tt'[o].fire = tt[o].fire
    BY <1>8, <1>9
  <2> QED
    BY <1>7, <2>4, <2>5 DEF InTime
<1> QED
  BY <1>1, <1>7, <1>10, <1>12, <1>13, <1>14, <1>15 DEF IInv

LEMMA FromLowerKeeps ==
  ASSUME WellScheduled, IInv, NEW f \in Frames, FromLower(f) PROVE IInv'
<1>1. /\ TypeOK /\ error = None /\ OneOf(fes, WindowMessages)
      /\ \A o \in Buffers : /\ OnTime(o, tt[o], clock, calm, fes)
                            /\ InTime(o, inc[o], tt[o], calm, fes)
      /\ PortFree(port, calm, tt) /\ Blocked(port, calm, tt)
  BY DEF IInv
<1>2. /\ port \in [queue : [Classes -> Seq(Frames)], pending : {0, 1}, mac : Nat]
      /\ port.pending = 1 => port.mac = 0
      /\ calm \in Nat /\ CorrectionGap \in Nat \ {0} /\ SafetyMargin \in Nat
      /\ Class[f] \in Classes /\ Ticks[f] \in Nat /\ Ticks[f] < CorrectionGap
      /\ \A o \in Buffers : tt[o].key \in Int
  BY <1>1, Types, Ahead, TTPortAssumption DEF WellScheduled, Gradual, TypeOK
<1>3. UNCHANGED <<clock, tt, inc, stored, fes, calm, error>>
  BY DEF FromLower
<1>4. /\ port' \in [queue : [Classes -> Seq(Frames)], pending : {0, 1}, mac : Nat]
      /\ port'.pending = 1 => port'.mac = 0
      /\ PortFree(port', calm, tt) /\ Blocked(port', calm, tt)
  <2>1. CASE port.pending > 0 /\ IsTransmissionAllowed(f, Keys)
    <3>1. port' = [port EXCEPT !.pending = port.pending - 1, !.mac = Ticks[f]]
      BY <2>1 DEF FromLower
    <3>2. /\ port' \in [queue : [Classes -> Seq(Frames)], pending : {0, 1}, mac : Nat]
          /\ port'.pending = 0 /\ port'.mac = Ticks[f]
      <4>1. port.pending = 1
        BY <1>2, <2>1
      <4> QED
        BY <1>2, <3>1, <4>1, Sent
    <3>3. ASSUME NEW o \in Buffers PROVE port'.mac + Slack(port', calm) < tt[o].key
      <4>1. Ticks[f] + SafetyMargin < tt[o].key
        BY <2>1 DEF IsTransmissionAllowed, Keys
      <4>2. Slack(port', calm) \in Nat /\ Slack(port', calm) <= SafetyMargin
        BY <1>2 DEF Slack
      <4> QED
        BY <1>2, <3>2, <4>1, <4>2
    <3> QED
      BY <1>2, <3>2, <3>3 DEF PortFree, Blocked
  <2>2. CASE ~(port.pending > 0 /\ IsTransmissionAllowed(f, Keys))
    <3> DEFINE c == Class[f]
               q == Append(port.queue[c], f)
               queue == [port.queue EXCEPT ![c] = q]
    <3>1. port' = [port EXCEPT !.queue = queue]
      BY <1>2, <2>2 DEF FromLower
    <3>2. q \in Seq(Frames) /\ q # <<>> /\ port.queue[c] \in Seq(Frames)
          /\ (port.queue[c] = <<>> => Head(q) = f)
          /\ (port.queue[c] # <<>> => Head(q) = Head(port.queue[c]))
      <4>1. port.queue[c] \in Seq(Frames)
        BY <1>2
      <4> QED
        BY <4>1
    <3> HIDE DEF q
    <3>3. /\ queue \in [Classes -> Seq(Frames)] /\ queue[c] = q
          /\ \A d \in Classes : d # c => queue[d] = port.queue[d]
      BY <1>2, <3>2
    <3> HIDE DEF queue
    <3>4. /\ port' \in [queue : [Classes -> Seq(Frames)], pending : {0, 1}, mac : Nat]
          /\ port'.pending = port.pending /\ port'.mac = port.mac /\ port'.queue = queue
      BY <1>2, <3>1, <3>3
    <3>5. PortFree(port', calm, tt)
      BY <1>1, <3>4 DEF PortFree, Slack
    <3>6. ASSUME port.pending = 1, NEW d \in Classes, queue[d] # <<>>,
                 \A e \in Classes : e < d => queue[e] = <<>>
          PROVE  \E b \in Buffers : Ticks[Head(queue[d])] + SafetyMargin + Recent(calm) >= tt[b].key
      <4>1. ~(c < d)
        BY <1>2, <3>2, <3>3, <3>6
      <4>2. \A e \in Classes : e < d => port.queue[e] = <<>>
        BY <1>2, <3>3, <3>6, <4>1
      <4>3. CASE port.queue[d] # <<>>
        <5>1. Head(queue[d]) = Head(port.queue[d])
          BY <3>2, <3>3, <4>3
        <5> QED
          BY <1>1, <3>6, <4>2, <4>3, <5>1 DEF Blocked
      <4>4. CASE port.queue[d] = <<>>
        <5>1. d = c /\ Head(queue[d]) = f
          BY <3>2, <3>3, <3>6, <4>4
        <5>2. PICK b \in Buffers : ~(Ticks[f] + SafetyMargin < tt[b].key)
          BY <1>2, <2>2, <3>6 DEF IsTransmissionAllowed, Keys
        <5>3. Recent(calm) \in Nat
          BY <1>2 DEF Recent
        <5>4. Ticks[f] + SafetyMargin + Recent(calm) >= tt[b].key
          BY <1>2, <5>2, <5>3
        <5> QED
          BY <5>1, <5>4
      <4> QED
        BY <4>3, <4>4
    <3>7. Blocked(port', calm, tt)
      BY <3>4, <3>6 DEF Blocked
    <3> QED
      BY <1>2, <3>4, <3>5, <3>7
  <2> QED
    BY <2>1, <2>2
<1>5. TypeOK'
  BY <1>1, <1>3, <1>4 DEF TypeOK
<1> QED
  BY <1>1, <1>3, <1>4, <1>5 DEF IInv

LEMMA RequestPacketKeeps ==
  ASSUME WellScheduled, IInv, RequestPacket PROVE IInv'
<1>1. /\ TypeOK /\ error = None /\ OneOf(fes, WindowMessages)
      /\ \A o \in Buffers : /\ OnTime(o, tt[o], clock, calm, fes)
                            /\ InTime(o, inc[o], tt[o], calm, fes)
  BY DEF IInv
<1>2. /\ port.mac = 0 /\ Pop(Keys) /\ calm \in Nat /\ Gradual
      /\ UNCHANGED <<clock, tt, inc, stored, fes, calm, error>>
  BY <1>1, Types DEF RequestPacket, WellScheduled
<1>3. PICK keys : keys = Keys /\ Pop(keys)
  BY <1>2
<1>4. PICK w : w = tt
  OBVIOUS
<1>5. \A o \in Buffers : keys[o] = w[o].key /\ w[o].key \in Int
  BY <1>3, <1>4, Ahead DEF Keys
<1>6. /\ port' \in [queue : [Classes -> Seq(Frames)], pending : {0, 1}, mac : Nat]
      /\ port'.pending = 1 => port'.mac = 0
      /\ PortFree(port', calm, w) /\ Blocked(port', calm, w)
  BY <1>1, <1>2, <1>3, <1>5, PopKeeps
<1>7. TypeOK'
  BY <1>1, <1>2, <1>6 DEF TypeOK
<1> QED
  BY <1>1, <1>2, <1>4, <1>6, <1>7 DEF IInv

(* A window that is a safety margin late is not yet forgotten.             *)
LEMMA NotForgotten ==
  ASSUME WellScheduled, NEW b \in Buffers
  PROVE  Oldest \in Int /\ Oldest <= -SafetyMargin
<1> DEFINE S == SendWindowStart[b]
           d == Cycle[b]
<1>1. /\ d \in Nat \ {0} /\ S \in Nat /\ TTTicks[b] \in Nat \ {0} /\ SafetyMargin \in Nat
      /\ CommonCycle \in Nat \ {0} /\ (CommonCycle % d) = 0 /\ Separated
  BY Constants, TTPortAssumption DEF WellScheduled
<1>2. Slot(b, S)
  <2>1. S - S = 0 /\ (0 % d) = 0
    BY <1>1, SmallRemainder
  <2> QED
    BY <2>1 DEF Slot
<1>3. Slot(b, S + d)
  <2>1. 1 \in Int /\ d * 1 = d
    BY <1>1
  <2>2. Slot(b, S + d * 1)
    <3>1. S \in Int
      BY <1>1
    <3> HIDE DEF S
    <3>2. Slot(b, S + Cycle[b] * 1) <=> Slot(b, S)
      BY <2>1, <3>1, SlotInCycles
    <3> QED
      BY <1>2, <3>2
  <2> QED
    BY <2>1, <2>2
<1> HIDE DEF S, d
<1>4. ~(d <= TTTicks[b] + SafetyMargin)
  <2> SUFFICES ASSUME d <= TTTicks[b] + SafetyMargin PROVE FALSE
    OBVIOUS
  <2>1. S \in Int /\ S + d \in Int /\ S <= S + d /\ (S + d) - S <= TTTicks[b] + SafetyMargin
    BY <1>1
  <2>2. S = S + d
    BY <1>1, <1>2, <1>3, <2>1, Apart
  <2> QED
    BY <1>1, <2>2
<1>5. CommonCycle >= d
  <2> SUFFICES ASSUME CommonCycle < d PROVE FALSE
    BY <1>1
  <2>1. (CommonCycle % d) = CommonCycle
    BY <1>1, SmallRemainder
  <2> QED
    BY <1>1, <2>1
<1> QED
  BY <1>1, <1>4, <1>5 DEF Oldest

(* Time goes on, or is corrected, by n: the windows stay where they are.   *)
LEMMA Turned ==
  ASSUME clock \in Int, NEW n \in Int, NEW b \in Buffers, NEW k \in Int
  PROVE  /\ ((clock + n) % CommonCycle) \in 0 .. (CommonCycle - 1)
         /\ Slot(b, ((clock + n) % CommonCycle) + (k - n)) <=> Slot(b, clock + k)
<1>1. clock + n \in Int /\ k - n \in Int /\ (clock + n) + (k - n) = clock + k
  OBVIOUS
<1> QED
  BY <1>1, SlotMoves

LEMMA MovedDown ==
  ASSUME NEW w \in Windows, NEW n \in Int
  PROVE  /\ Down(w, n) \in Windows
         /\ Down(w, n).fire = w.fire - n
         /\ Down(w, n).next = After(w.next, n) /\ Down(w, n).key = After(w.key, n)
         /\ Down(w, n).inTimer = w.inTimer /\ Down(w, n).enabled = w.enabled
<1> DEFINE next == After(w.next, n)
           key == After(w.key, n)
           fire == w.fire - n
           u1 == [w EXCEPT !.fire = fire]
           u2 == [u1 EXCEPT !.next = next]
           u3 == [u2 EXCEPT !.key = key]
<1>1. next \in Int /\ key \in Int /\ fire \in Int
  <2>1. w.next \in Int /\ w.key \in Int /\ w.fire \in Int /\ Oldest \in Int
    BY TTPortAssumption DEF Windows, Oldest
  <2> QED
    BY <2>1 DEF After
<1>2. Down(w, n) = u3
  BY DEF Down
<1> HIDE DEF next, key, fire
<1>3. u1 \in Windows /\ u1.fire = fire /\ u1.inTimer = w.inTimer /\ u1.enabled = w.enabled
  BY <1>1 DEF Windows
<1> HIDE DEF u1
<1>4. u2 \in Windows /\ u2.fire = fire /\ u2.inTimer = w.inTimer /\ u2.enabled = w.enabled
      /\ u2.next = next
  BY <1>1, <1>3 DEF Windows
<1> HIDE DEF u2
<1>5. u3 \in Windows /\ u3.fire = fire /\ u3.inTimer = w.inTimer /\ u3.enabled = w.enabled
      /\ u3.next = next /\ u3.key = key
  BY <1>1, <1>4 DEF Windows
<1> HIDE DEF u3
<1> QED
  BY <1>2, <1>5 DEF next, key, fire

(* Between two instants every window is ahead.                             *)
LEMMA Between ==
  ASSUME WellScheduled, IInv, fes = <<>>, NEW b \in Buffers
  PROVE  /\ tt[b] \in Windows /\ tt[b].enabled = TRUE /\ tt[b].inTimer = TRUE
         /\ tt[b].fire \in Int /\ tt[b].key = tt[b].fire /\ tt[b].next = tt[b].fire
         /\ tt[b].fire >= -SafetyMargin /\ (calm > 0 => tt[b].fire >= 0)
         /\ Slot(b, clock + tt[b].fire)
         /\ inc[b] \in Holders /\ inc[b].fire \in Int
         /\ inc[b].held => Pit[b] > 0 /\ inc[b].inTimer
         /\ inc[b].inTimer => /\ inc[b].held
                              /\ calm > 0 => inc[b].fire >= 0
                              /\ tt[b].fire > inc[b].fire + SafetyMargin
<1>1. OnTime(b, tt[b], clock, calm, fes) /\ InTime(b, inc[b], tt[b], calm, fes) /\ TypeOK
      /\ ~In(fes, <<"event", b>>) /\ ~Under(b, fes) /\ ~In(fes, <<"pit", b>>)
  BY Ahead, NoneIn DEF IInv, Under
<1>2. tt[b] \in Windows /\ inc[b] \in Holders /\ calm \in Nat
  BY <1>1, Types
<1>3. /\ tt[b].fire \in Int /\ inc[b].fire \in Int /\ tt[b].enabled = TRUE
      /\ tt[b].inTimer \in BOOLEAN /\ tt[b].fire >= -SafetyMargin
  BY Ahead
<1>4. /\ tt[b].inTimer = TRUE /\ tt[b].key = tt[b].fire /\ tt[b].next = tt[b].fire
      /\ tt[b].key < 0 => calm = 0
      /\ Slot(b, clock + tt[b].fire)
  BY <1>1, <1>3 DEF OnTime
<1>5. calm > 0 => tt[b].fire >= 0
  BY <1>2, <1>3, <1>4
<1>6. /\ inc[b].held => Pit[b] > 0 /\ inc[b].inTimer
      /\ inc[b].inTimer => inc[b].held
  BY <1>1 DEF InTime, TypeOK
<1>7. inc[b].inTimer => (calm > 0 => inc[b].fire >= 0) /\ tt[b].fire > inc[b].fire + SafetyMargin
  BY <1>1, <1>2, <1>3 DEF InTime
<1> QED
  BY <1>2, <1>3, <1>4, <1>5, <1>6, <1>7

LEMMA ClockCorrectionKeeps ==
  ASSUME WellScheduled, IInv, NEW n \in Corrections, ClockCorrection(n) PROVE IInv'
<1>1. /\ TypeOK /\ error = None
      /\ PortFree(port, calm, tt) /\ Blocked(port, calm, tt)
  BY DEF IInv
<1>2. /\ n \in Int /\ n >= -SafetyMargin /\ n <= SafetyMargin
      /\ AllowedEventDelay \in Int /\ (AllowedEventDelay < 0 \/ SafetyMargin < AllowedEventDelay)
      /\ SafetyMargin <= CorrectionGap /\ SafetyMargin \in Nat /\ CorrectionGap \in Nat \ {0}
      /\ clock \in Int
  BY <1>1, Types, TTPortAssumption DEF WellScheduled, Gradual
<1>3. /\ calm = CorrectionGap /\ fes = <<>> /\ calm' = 0
      /\ clock' = (clock + n) % CommonCycle
      /\ UNCHANGED <<stored, fes, port, error>>
  BY DEF ClockCorrection, WellScheduled, Undisturbed
<1>3a. tt' = [b \in Buffers |->
          LET t == Down(tt[b], n) IN
          [t EXCEPT !.fire = IF t.inTimer THEN Jumped(b, t.fire) ELSE t.fire]]
  BY DEF ClockCorrection
<1>3b. inc' = [b \in Buffers |->
          IF inc[b].inTimer
          THEN [inc[b] EXCEPT !.fire = Jumped(b, inc[b].fire - n)]
          ELSE inc[b]]
  BY DEF ClockCorrection
<1>3c. calm > 0 /\ n \in Int
  BY <1>2, <1>3
<1>4. ASSUME NEW b \in Buffers, NEW k \in Int, k >= -SafetyMargin PROVE Jumped(b, k) = k
  BY <1>2, <1>4 DEF Jumped
<1>5. ASSUME NEW b \in Buffers
      PROVE  /\ tt'[b] \in Windows /\ tt'[b].enabled = TRUE /\ tt'[b].inTimer = TRUE
             /\ tt[b].fire \in Int /\ tt[b].fire >= 0
             /\ tt'[b].fire = tt[b].fire - n /\ tt'[b].key = tt[b].fire - n
             /\ tt'[b].next = tt[b].fire - n
  <2> DEFINE t == Down(tt[b], n)
             fire == IF t.inTimer THEN Jumped(b, t.fire) ELSE t.fire
             v == [t EXCEPT !.fire = fire]
  <2>1. /\ tt[b] \in Windows /\ tt[b].enabled = TRUE /\ tt[b].inTimer = TRUE
        /\ tt[b].fire \in Int /\ tt[b].key = tt[b].fire /\ tt[b].next = tt[b].fire
        /\ tt[b].fire >= 0
    BY <1>3, <1>3c, Between
  <2>2. tt[b].fire - n \in Int /\ tt[b].fire - n >= -SafetyMargin
    BY <1>2, <2>1
  <2>3. After(tt[b].fire, n) = tt[b].fire - n
    <3>1. Oldest \in Int /\ Oldest <= -SafetyMargin
      BY NotForgotten
    <3> QED
      BY <1>2, <2>2, <3>1 DEF After
  <2>4. /\ t \in Windows /\ t.enabled = TRUE /\ t.inTimer = TRUE
        /\ t.fire = tt[b].fire - n /\ t.key = tt[b].fire - n /\ t.next = tt[b].fire - n
    <3>1. /\ t \in Windows /\ t.enabled = tt[b].enabled /\ t.inTimer = tt[b].inTimer
          /\ t.fire = tt[b].fire - n
          /\ t.key = After(tt[b].key, n) /\ t.next = After(tt[b].next, n)
      BY <1>3c, <2>1, MovedDown
    <3> HIDE DEF t
    <3> QED
      BY <2>1, <2>3, <3>1
  <2>5. tt'[b] = v
    BY <1>3a
  <2> HIDE DEF t
  <2>6. fire = tt[b].fire - n /\ fire \in Int
    BY <1>4, <2>2, <2>4
  <2> HIDE DEF fire
  <2>7. v \in Windows /\ v.fire = fire /\ v.enabled = t.enabled /\ v.inTimer = t.inTimer
        /\ v.key = t.key /\ v.next = t.next
    BY <2>4, <2>6 DEF Windows
  <2> HIDE DEF v
  <2> QED
    BY <2>1, <2>4, <2>5, <2>6, <2>7
<1>6. ASSUME NEW b \in Buffers
      PROVE  /\ inc'[b] \in Holders /\ inc'[b].inTimer = inc[b].inTimer
             /\ inc'[b].held = inc[b].held /\ inc[b].fire \in Int
             /\ inc[b].held => Pit[b] > 0 /\ inc[b].inTimer
             /\ inc[b].inTimer => /\ inc[b].held
                                  /\ inc[b].fire >= 0 /\ inc'[b].fire = inc[b].fire - n
                                  /\ tt[b].fire > inc[b].fire + SafetyMargin
  <2>1. /\ inc[b] \in Holders /\ inc[b].fire \in Int
        /\ inc[b].held => Pit[b] > 0 /\ inc[b].inTimer
        /\ inc[b].inTimer => /\ inc[b].held /\ inc[b].fire >= 0
                             /\ tt[b].fire > inc[b].fire + SafetyMargin
    BY <1>3, <1>3c, Between
  <2>2. CASE inc[b].inTimer
    <3> DEFINE fire == Jumped(b, inc[b].fire - n)
               v == [inc[b] EXCEPT !.fire = fire]
    <3>1. inc[b].fire - n \in Int /\ inc[b].fire - n >= -SafetyMargin
      BY <1>2, <2>1, <2>2
    <3>2. fire = inc[b].fire - n /\ fire \in Int
      BY <1>4, <3>1
    <3>3. inc'[b] = v
      BY <1>3b, <2>2
    <3> HIDE DEF fire
    <3>4. v \in Holders /\ v.fire = fire /\ v.inTimer = inc[b].inTimer /\ v.held = inc[b].held
      BY <2>1, <3>2 DEF Holders
    <3> HIDE DEF v
    <3> QED
      BY <2>1, <2>2, <3>2, <3>3, <3>4
  <2>3. CASE ~inc[b].inTimer
    BY <1>3b, <2>1, <2>3
  <2> QED
    BY <2>2, <2>3
<1>7. clock' \in 0 .. (CommonCycle - 1) /\ calm' \in 0 .. CorrectionGap
  <2>1. clock + n \in Int /\ CommonCycle \in Nat \ {0}
    BY <1>2, TTPortAssumption
  <2> QED
    BY <1>2, <1>3, <2>1, Remainder
<1>8. TypeOK'
  <2>1. tt' \in [Buffers -> Windows] /\ inc' \in [Buffers -> Holders]
    <3> HIDE DEF Windows, Holders
    <3> QED
      BY <1>3a, <1>3b, <1>5, <1>6
  <2>2. \A b \in Buffers : inc'[b].inTimer => inc'[b].held
    BY <1>6
  <2> QED
    BY <1>1, <1>3, <1>7, <2>1, <2>2 DEF TypeOK, Windows, Holders
<1>9. \A x : ~In(fes', x)
  BY <1>3, NoneIn
<1>10. ASSUME NEW b \in Buffers PROVE OnTime(b, tt'[b], clock', calm', fes')
  <2>1. Slot(b, clock' + (tt[b].fire - n))
    <3>1. tt[b].fire \in Int /\ Slot(b, clock + tt[b].fire)
      BY <1>3, Between
    <3> QED
      BY <1>2, <1>3, <3>1, Turned
  <2>2. tt[b].fire - n >= -SafetyMargin
    <3>1. tt[b].fire \in Int /\ tt[b].fire >= 0
      BY <1>5
    <3> QED
      BY <1>2, <3>1
  <2> QED
    BY <1>3, <1>5, <1>9, <2>1, <2>2 DEF OnTime, Under
<1>11. ASSUME NEW b \in Buffers PROVE InTime(b, inc'[b], tt'[b], calm', fes')
  <2>1. OneOf(fes', {<<"pit", b>>})
    BY <1>9 DEF OneOf, In
  <2>2. inc[b].inTimer => inc'[b].fire >= -SafetyMargin /\ tt'[b].fire > inc'[b].fire + SafetyMargin
    <3>1. tt[b].fire \in Int /\ inc[b].fire \in Int /\ tt'[b].fire = tt[b].fire - n
      BY <1>5, <1>6
    <3>2. inc[b].inTimer => /\ inc[b].fire >= 0 /\ inc'[b].fire = inc[b].fire - n
                            /\ tt[b].fire > inc[b].fire + SafetyMargin
      BY <1>6
    <3> QED
      BY <1>2, <3>1, <3>2
  <2> QED
    BY <1>3, <1>6, <1>9, <2>1, <2>2 DEF InTime
<1>12. PortFree(port', calm', tt')
  <2>1. port.mac \in Nat /\ port.mac < CorrectionGap
    BY <1>1, Types DEF PortFree
  <2>2. Slack(port, calm) = SafetyMargin /\ Slack(port, 0) = 0
    BY <1>2, <1>3, <2>1 DEF Slack
  <2>3. ASSUME port.pending = 0, NEW b \in Buffers PROVE port.mac + Slack(port, 0) < tt'[b].key
    <3>1. port.mac + SafetyMargin < tt[b].key /\ tt[b].key = tt[b].fire
      BY <1>1, <1>3, <2>2, <2>3, Between DEF PortFree
    <3> QED
      <4>1. tt[b].fire \in Int /\ tt'[b].key = tt[b].fire - n
        BY <1>5
      <4> QED
        BY <1>2, <2>1, <2>2, <3>1, <4>1
  <2> QED
    BY <1>3, <2>1, <2>3 DEF PortFree
<1>13. Blocked(port', calm', tt')
  <2> SUFFICES ASSUME port.pending = 1, NEW c \in Classes, port.queue[c] # <<>>,
                      \A d \in Classes : d < c => port.queue[d] = <<>>
               PROVE  \E b \in Buffers :
                        Ticks[Head(port.queue[c])] + SafetyMargin + Recent(0) >= tt'[b].key
    BY <1>3 DEF Blocked
  <2> DEFINE ticks == Ticks[Head(port.queue[c])]
  <2>1. PICK b \in Buffers : ticks + SafetyMargin + Recent(calm) >= tt[b].key
    BY <1>1 DEF Blocked
  <2>2. ticks \in Nat
    <3>1. port.queue[c] \in Seq(Frames)
      BY <1>1, Types
    <3>2. Head(port.queue[c]) \in Frames
      BY <3>1
    <3> QED
      BY <3>2, TTPortAssumption
  <2>3. Recent(calm) = 0 /\ Recent(0) = SafetyMargin
    BY <1>2, <1>3 DEF Recent
  <2>4. tt[b].key = tt[b].fire
    BY <1>3, Between
  <2> HIDE DEF ticks
  <2>5. ticks + SafetyMargin + Recent(0) >= tt'[b].key
    <3>1. tt[b].fire \in Int /\ tt'[b].key = tt[b].fire - n
      BY <1>5
    <3> QED
      BY <1>2, <2>1, <2>2, <2>3, <2>4, <3>1
  <2> QED
    BY <2>5 DEF ticks
<1>14. OneOf(fes', WindowMessages)
  BY <1>9 DEF OneOf, In
<1> QED
  BY <1>1, <1>3, <1>8, <1>10, <1>11, <1>12, <1>13, <1>14 DEF IInv

LEMMA TickKeeps ==
  ASSUME WellScheduled, IInv, Tick PROVE IInv'
<1>1. /\ TypeOK /\ error = None
      /\ PortFree(port, calm, tt) /\ Blocked(port, calm, tt)
  BY DEF IInv
<1>2. /\ SafetyMargin \in Nat /\ CorrectionGap \in Nat \ {0} /\ clock \in Int
      /\ calm \in 0 .. CorrectionGap
      /\ port \in [queue : [Classes -> Seq(Frames)], pending : {0, 1}, mac : Nat]
      /\ port.pending = 1 => port.mac = 0
      /\ tt \in [Buffers -> Windows]
  BY <1>1, Types DEF TypeOK
<1>3. /\ fes = <<>> /\ (port.mac > 0 \/ port.pending > 0)
      /\ clock' = (clock + 1) % CommonCycle
      /\ calm' = IF calm < CorrectionGap THEN calm + 1 ELSE calm
      /\ UNCHANGED <<stored, fes, error>>
  BY DEF Tick
<1>3a. \A b \in Buffers : tt[b].fire > 0 /\ (inc[b].inTimer => inc[b].fire > 0)
  BY DEF Tick
<1>3b. tt' = [b \in Buffers |-> Down(tt[b], 1)]
  BY DEF Tick
<1>3c. inc' = [b \in Buffers |->
          [inc[b] EXCEPT !.arrived = FALSE,
                         !.fire = IF inc[b].inTimer THEN inc[b].fire - 1 ELSE 0]]
  BY DEF Tick
<1>3d. port' = [port EXCEPT !.mac = IF port.mac > 0 THEN port.mac - 1 ELSE 0]
  BY DEF Tick
<1>4. ASSUME NEW b \in Buffers
      PROVE  /\ tt'[b] \in Windows /\ tt'[b].enabled = TRUE /\ tt'[b].inTimer = TRUE
             /\ tt[b].fire \in Int /\ tt[b].fire > 0
             /\ tt'[b].fire = tt[b].fire - 1 /\ tt'[b].key = tt[b].fire - 1
             /\ tt'[b].next = tt[b].fire - 1
  <2>1. /\ tt[b] \in Windows /\ tt[b].enabled = TRUE /\ tt[b].inTimer = TRUE
        /\ tt[b].fire \in Int /\ tt[b].key = tt[b].fire /\ tt[b].next = tt[b].fire
    BY <1>3, Between
  <2>2. tt[b].fire > 0
    BY <1>3a
  <2>3. After(tt[b].fire, 1) = tt[b].fire - 1
    <3>1. Oldest \in Int /\ Oldest <= -SafetyMargin
      BY NotForgotten
    <3> QED
      BY <1>2, <2>1, <2>2, <3>1 DEF After
  <2>4. tt'[b] = Down(tt[b], 1)
    BY <1>3b
  <2> QED
    BY <2>1, <2>2, <2>3, <2>4, MovedDown
<1>5. ASSUME NEW b \in Buffers
      PROVE  /\ inc'[b] \in Holders /\ inc'[b].inTimer = inc[b].inTimer
             /\ inc'[b].held = inc[b].held /\ inc[b].fire \in Int
             /\ inc[b].held => Pit[b] > 0 /\ inc[b].inTimer
             /\ inc[b].inTimer => /\ inc[b].held
                                  /\ inc[b].fire > 0 /\ inc'[b].fire = inc[b].fire - 1
                                  /\ tt[b].fire > inc[b].fire + SafetyMargin
  <2> DEFINE fire == IF inc[b].inTimer THEN inc[b].fire - 1 ELSE 0
             u == [inc[b] EXCEPT !.arrived = FALSE]
             v == [u EXCEPT !.fire = fire]
  <2>1. /\ inc[b] \in Holders /\ inc[b].fire \in Int
        /\ inc[b].held => Pit[b] > 0 /\ inc[b].inTimer
        /\ inc[b].inTimer => /\ inc[b].held /\ inc[b].fire > 0
                             /\ tt[b].fire > inc[b].fire + SafetyMargin
    BY <1>3, <1>3a, Between
  <2>2. inc'[b] = v
    BY <1>3c
  <2>3. fire \in Int /\ (inc[b].inTimer => fire = inc[b].fire - 1)
    BY <2>1
  <2> HIDE DEF fire
  <2>4. u \in Holders /\ u.inTimer = inc[b].inTimer /\ u.held = inc[b].held
    BY <2>1 DEF Holders
  <2> HIDE DEF u
  <2>5. v \in Holders /\ v.fire = fire /\ v.inTimer = inc[b].inTimer /\ v.held = inc[b].held
    BY <2>3, <2>4 DEF Holders
  <2> HIDE DEF v
  <2> QED
    BY <2>1, <2>2, <2>3, <2>5
<1>6. clock' \in 0 .. (CommonCycle - 1) /\ calm' \in 0 .. CorrectionGap
  <2>1. clock + 1 \in Int /\ CommonCycle \in Nat \ {0}
    BY <1>2, TTPortAssumption
  <2> QED
    BY <1>2, <1>3, <2>1, Remainder
<1>7. /\ port' \in [queue : [Classes -> Seq(Frames)], pending : {0, 1}, mac : Nat]
      /\ port'.queue = port.queue /\ port'.pending = port.pending
      /\ port.mac > 0 => port'.mac = port.mac - 1
      /\ port.mac = 0 => port'.mac = 0
  <2> DEFINE mac == IF port.mac > 0 THEN port.mac - 1 ELSE 0
  <2>1. mac \in Nat /\ (port.mac > 0 => mac = port.mac - 1) /\ (port.mac = 0 => mac = 0)
    BY <1>2
  <2>2. port' = [port EXCEPT !.mac = mac]
    BY <1>3d
  <2> HIDE DEF mac
  <2> QED
    BY <1>2, <2>1, <2>2
<1>8. TypeOK'
  <2>1. tt' \in [Buffers -> Windows] /\ inc' \in [Buffers -> Holders]
    <3> HIDE DEF Windows, Holders
    <3> QED
      BY <1>3b, <1>3c, <1>4, <1>5
  <2>2. \A b \in Buffers : inc'[b].inTimer => inc'[b].held
    BY <1>5
  <2>3. port'.pending = 1 => port'.mac = 0
    BY <1>2, <1>7
  <2> QED
    BY <1>1, <1>3, <1>6, <1>7, <2>1, <2>2, <2>3 DEF TypeOK, Windows, Holders
<1>9. \A x : ~In(fes', x)
  BY <1>3, NoneIn
<1>10. ASSUME NEW b \in Buffers PROVE OnTime(b, tt'[b], clock', calm', fes')
  <2>1. Slot(b, clock' + (tt[b].fire - 1))
    <3>1. tt[b].fire \in Int /\ Slot(b, clock + tt[b].fire)
      BY <1>3, Between
    <3> DEFINE n == 1
    <3>2. n \in Int /\ clock' = (clock + n) % CommonCycle
      BY <1>3
    <3> HIDE DEF n
    <3>3. Slot(b, clock' + (tt[b].fire - n))
      BY <1>2, <3>1, <3>2, Turned
    <3> QED
      BY <3>3 DEF n
  <2>2. tt[b].fire - 1 >= -SafetyMargin /\ ~(tt[b].fire - 1 < 0)
    <3>1. tt[b].fire \in Int /\ tt[b].fire > 0
      BY <1>4
    <3> QED
      BY <1>2, <3>1
  <2> QED
    BY <1>3, <1>4, <1>9, <2>1, <2>2 DEF OnTime, Under
<1>11. ASSUME NEW b \in Buffers PROVE InTime(b, inc'[b], tt'[b], calm', fes')
  <2>1. OneOf(fes', {<<"pit", b>>})
    BY <1>9 DEF OneOf, In
  <2>2. inc[b].inTimer => /\ inc'[b].fire >= -SafetyMargin /\ ~(inc'[b].fire < 0)
                          /\ tt'[b].fire > inc'[b].fire + SafetyMargin
    <3> DEFINE window == tt[b].fire
               held == inc[b].fire
    <3>1. window \in Int /\ held \in Int /\ tt'[b].fire = window - 1
      BY <1>4, <1>5
    <3>2. inc[b].inTimer => /\ held > 0 /\ inc'[b].fire = held - 1
                            /\ window > held + SafetyMargin
      BY <1>5
    <3> HIDE DEF window, held
    <3> QED
      BY <1>2, <3>1, <3>2
  <2> QED
    BY <1>3, <1>5, <1>9, <2>1, <2>2 DEF InTime
<1>12. PortFree(port', calm', tt')
  <2>1. port.mac \in Nat /\ port.mac < CorrectionGap /\ calm \in Nat /\ calm' \in Nat
    BY <1>1, <1>2, <1>3 DEF PortFree
  <2>2. port'.mac \in Nat /\ port'.mac < CorrectionGap
    <3>1. (port.mac > 0 => port'.mac = port.mac - 1) /\ (port.mac = 0 => port'.mac = 0)
      BY <1>7
    <3> QED
      BY <1>2, <2>1, <3>1
  <2>3. ASSUME port'.pending = 0, NEW b \in Buffers PROVE port'.mac + Slack(port', calm') < tt'[b].key
    <3>1. port.mac > 0 /\ port'.mac = port.mac - 1
      BY <1>3, <1>7, <2>3
    <3>2. port.mac + Slack(port, calm) < tt[b].key /\ tt[b].key = tt[b].fire
      BY <1>1, <1>3, <1>7, <2>3, Between DEF PortFree
    <3>3. Slack(port', calm') = Slack(port, calm) /\ Slack(port, calm) \in Nat
      BY <1>2, <1>3, <2>1, <3>1 DEF Slack
    <3> QED
      <4>1. tt[b].fire \in Int /\ tt'[b].key = tt[b].fire - 1
        BY <1>4
      <4> QED
        BY <2>1, <3>1, <3>2, <3>3, <4>1
  <2> QED
    BY <2>2, <2>3 DEF PortFree
<1>13. Blocked(port', calm', tt')
  <2> SUFFICES ASSUME port.pending = 1, NEW c \in Classes, port.queue[c] # <<>>,
                      \A d \in Classes : d < c => port.queue[d] = <<>>
               PROVE  \E b \in Buffers :
                        Ticks[Head(port.queue[c])] + SafetyMargin + Recent(calm') >= tt'[b].key
    BY <1>7 DEF Blocked
  <2> DEFINE ticks == Ticks[Head(port.queue[c])]
  <2>1. PICK b \in Buffers : ticks + SafetyMargin + Recent(calm) >= tt[b].key
    BY <1>1 DEF Blocked
  <2>2. ticks \in Nat
    <3>1. port.queue[c] \in Seq(Frames)
      BY <1>2
    <3>2. Head(port.queue[c]) \in Frames
      BY <3>1
    <3> QED
      BY <3>2, TTPortAssumption
  <2>3. Recent(calm) \in Nat /\ Recent(calm') \in Nat /\ Recent(calm') >= Recent(calm) - 1
    BY <1>2, <1>3 DEF Recent
  <2>4. tt[b].key = tt[b].fire
    BY <1>3, Between
  <2> HIDE DEF ticks
  <2>5. ticks + SafetyMargin + Recent(calm') >= tt'[b].key
    <3>1. tt[b].fire \in Int /\ tt'[b].key = tt[b].fire - 1
      BY <1>4
    <3> QED
      BY <1>2, <2>1, <2>2, <2>3, <2>4, <3>1
  <2> QED
    BY <2>5 DEF ticks
<1>14. OneOf(fes', WindowMessages)
  BY <1>9 DEF OneOf, In
<1> QED
  BY <1>1, <1>3, <1>8, <1>10, <1>11, <1>12, <1>13, <1>14 DEF IInv

LEMMA NextIInv == WellScheduled /\ IInv /\ [Next]_vars => IInv'
<1> SUFFICES ASSUME WellScheduled, IInv, [Next]_vars PROVE IInv'
  OBVIOUS
<1>1. CASE UNCHANGED vars
  <2>1. UNCHANGED <<clock, tt, inc, stored, fes, port, calm, error>>
    BY <1>1 DEF vars
  <2>2. TypeOK'
    BY <2>1 DEF IInv, TypeOK
  <2>3. \A b \in Buffers : /\ OnTime(b, tt'[b], clock', calm', fes')
                           /\ InTime(b, inc'[b], tt'[b], calm', fes')
    BY <2>1 DEF IInv
  <2>4. PortFree(port', calm', tt') /\ Blocked(port', calm', tt') /\ OneOf(fes', WindowMessages)
        /\ error' = None
    BY <2>1 DEF IInv
  <2> QED
    BY <2>2, <2>3, <2>4 DEF IInv
<1>2. CASE Next
  <2>1. ASSUME NEW b \in Buffers, Arrives(b) PROVE IInv'
    BY <2>1, ArrivesKeeps
  <2>2. ASSUME NEW b \in Buffers, Handles(b) PROVE IInv'
    <3>1. CASE TimerFires(b)
      BY <3>1, TimerFiresKeeps
    <3>2. CASE PermanencePoint(b)
      BY <3>2, PermanencePointKeeps
    <3>3. CASE Enqueue(b)
      BY <3>3, EnqueueKeeps
    <3>4. CASE BufferSends(b)
      BY <3>4, BufferSendsKeeps
    <3>5. CASE FromTTBuffer(b)
      BY <3>5, FromTTBufferKeeps
    <3> QED
      BY <2>2, <3>1, <3>2, <3>3, <3>4, <3>5 DEF Handles
  <2>3. Switched = {}
    BY DEF WellScheduled, Undisturbed
  <2>4. ASSUME NEW f \in Frames, FromLower(f) PROVE IInv'
    BY <2>4, FromLowerKeeps
  <2>5. ASSUME RequestPacket PROVE IInv'
    BY <2>5, RequestPacketKeeps
  <2>6. ASSUME NEW n \in Corrections, ClockCorrection(n) PROVE IInv'
    BY <2>6, ClockCorrectionKeeps
  <2>7. ASSUME Tick PROVE IInv'
    BY <2>7, TickKeeps
  <2> QED
    BY <1>2, <2>1, <2>2, <2>3, <2>4, <2>5, <2>6, <2>7 DEF Next
<1> QED
  BY <1>1, <1>2

-----------------------------------------------------------------------------
(* What follows from the invariant.                                        *)

LEMMA IInvInOrder == WellScheduled /\ IInv => InOrder
<1> SUFFICES ASSUME WellScheduled, IInv PROVE InOrder
  OBVIOUS
<1>1. TypeOK /\ NoException /\ OneOf(fes, WindowMessages) /\ fes \in Seq(Messages) /\ clock \in Int
  BY Types DEF IInv, NoException
<1> DEFINE coming == {i \in DOMAIN fes : fes[i][1] \in {"event", "frame", "empty"}}
<1>2. \A i \in DOMAIN fes : fes[i] \in Messages
  BY <1>1
<1>3. \A i \in DOMAIN fes : i \in coming <=> fes[i] \in WindowMessages
  <2> TAKE i \in DOMAIN fes
  <2>1. PICK k \in {"event", "pit", "in", "frame", "empty"}, o \in Buffers : fes[i] = <<k, o>>
    BY <1>2 DEF Messages
  <2>2. i \in coming <=> k \in {"event", "frame", "empty"}
    BY <2>1
  <2>3. fes[i] \in WindowMessages <=> k \in {"event", "frame", "empty"}
    BY <2>1 DEF WindowMessages
  <2> QED
    BY <2>2, <2>3
<1>4. ASSUME NEW b \in Buffers, IsFirst(b), coming = {}, NEW o \in Buffers
      PROVE  tt[b].fire <= tt[o].fire
  <2>1. ASSUME NEW a \in Buffers PROVE tt[a].key = tt[a].fire
    <3>1. \A x \in WindowMessages : ~In(fes, x)
      BY <1>3, <1>4 DEF In
    <3>2. <<"frame", a>> \in WindowMessages /\ <<"empty", a>> \in WindowMessages
      BY DEF WindowMessages
    <3>3. ~Under(a, fes)
      BY <3>1, <3>2 DEF Under
    <3> QED
      BY <3>3, Ahead DEF OnTime
  <2> QED
    BY <1>4, <2>1 DEF IsFirst
<1>5. ASSUME NEW b \in Buffers, IsFirst(b), coming # {}
      PROVE  \E i \in coming : fes[i][2] = b /\ \A j \in coming : i <= j
  <2>1. PICK i \in coming : TRUE
    BY <1>5
  <2>2. fes[i] \in WindowMessages /\ i \in DOMAIN fes /\ i \in Nat
    BY <1>1, <1>3
  <2>3. PICK k \in {"event", "frame", "empty"}, o \in Buffers : fes[i] = <<k, o>>
    BY <2>2 DEF WindowMessages
  <2>4. In(fes, <<"event", o>>) \/ Under(o, fes)
    BY <2>2, <2>3 DEF In, Under
  <2>5. /\ tt[o].key \in Int /\ tt[b].key \in Int
        /\ OnTime(o, tt[o], clock, calm, fes) /\ OnTime(b, tt[b], clock, calm, fes)
        /\ Separated
    BY Ahead DEF WellScheduled
  <2>6. /\ tt[o].key <= 0 /\ tt[o].key >= -SafetyMargin /\ Slot(o, clock + tt[o].key)
        /\ tt[b].key >= -SafetyMargin /\ Slot(b, clock + tt[b].key)
    BY <2>4, <2>5 DEF OnTime
  <2>7. tt[b].key <= 0
    BY <1>5, <2>5, <2>6 DEF IsFirst
  <2>8. o = b
    BY <1>1, <2>5, <2>6, <2>7, BothDue
  <2>9. \A j \in coming : i <= j
    <3> TAKE j \in coming
    <3>1. fes[j] \in WindowMessages /\ j \in DOMAIN fes
      BY <1>3
    <3>2. i = j
      BY <1>1, <2>2, <3>1 DEF OneOf
    <3> QED
      BY <2>2, <3>2
  <2> QED
    BY <2>3, <2>8, <2>9
<1>6. FirstIsNext
  <2> HIDE DEF coming
  <2>1. \A b \in Buffers : IsFirst(b) =>
          IF coming = {} THEN \A o \in Buffers : tt[b].fire <= tt[o].fire
          ELSE \E i \in coming : fes[i][2] = b /\ \A j \in coming : i <= j
    BY <1>4, <1>5
  <2> QED
    BY <2>1 DEF FirstIsNext, coming
<1> QED
  BY <1>1, <1>6 DEF InOrder

LEMMA EventAtHead ==
  ASSUME IInv, NEW b \in Buffers, fes # <<>>, Head(fes) = <<"event", b>>
  PROVE  In(fes, <<"event", b>>)
<1>1. fes \in Seq(Messages)
  BY Types DEF IInv
<1> QED
  BY <1>1, HeadTaken

LEMMA IInvSentInWindow == IInv => SentInWindow
<1> SUFFICES ASSUME IInv, NEW b \in Buffers, fes # <<>>, Head(fes) = <<"event", b>>
             PROVE  ((clock - SendWindowStart[b]) % Cycle[b]) <= SafetyMargin
  BY DEF SentInWindow
<1>1. In(fes, <<"event", b>>) /\ clock \in Int
  BY EventAtHead, Types DEF IInv
<1>2. tt[b].key <= 0 /\ tt[b].key \in Int /\ OnTime(b, tt[b], clock, calm, fes)
  BY <1>1, Ahead DEF OnTime
<1>3. tt[b].key >= -SafetyMargin /\ Slot(b, clock + tt[b].key)
  BY <1>2 DEF OnTime
<1> QED
  BY <1>1, <1>2, <1>3, LateInWindow

LEMMA IInvSentInItsCycle == IInv => SentInItsCycle
<1> SUFFICES ASSUME IInv, NEW b \in Buffers, Pit[b] > 0
             PROVE  /\ inc[b].held => inc[b].inTimer \/ Coming(<<"pit", b>>)
                    /\ (fes # <<>> /\ Head(fes) = <<"event", b>>) =>
                         ~inc[b].held /\ ~Coming(<<"in", b>>)
  BY DEF SentInItsCycle
<1>1. inc[b].held => inc[b].inTimer \/ Coming(<<"pit", b>>)
  BY DEF IInv, InTime, In, Coming
<1>2. ASSUME fes # <<>>, Head(fes) = <<"event", b>> PROVE ~inc[b].held /\ ~Coming(<<"in", b>>)
  <2>1. In(fes, <<"event", b>>)
    BY <1>2, EventAtHead
  <2> QED
    BY <2>1, NothingHeld DEF In, Coming
<1> QED
  BY <1>1, <1>2

LEMMA IInvIdleOnlyWhenBlocked == IInv => IdleOnlyWhenBlocked
<1> SUFFICES ASSUME IInv, port.pending = 1, NEW c \in Classes, Front(c)
             PROVE  \E b \in Buffers :
                      Ticks[Head(port.queue[c])] + SafetyMargin + SafetyMargin >= tt[b].key
  BY DEF IdleOnlyWhenBlocked
<1> DEFINE ticks == Ticks[Head(port.queue[c])]
<1>1. PICK b \in Buffers : ticks + SafetyMargin + Recent(calm) >= tt[b].key
  BY DEF IInv, Blocked, Front
<1>2. /\ port \in [queue : [Classes -> Seq(Frames)], pending : {0, 1}, mac : Nat]
      /\ SafetyMargin \in Nat /\ calm \in Nat /\ tt[b].key \in Int
  BY Types, Ahead DEF IInv
<1>3. ticks \in Nat
  <2>1. port.queue[c] \in Seq(Frames) /\ port.queue[c] # <<>>
    BY <1>2 DEF Front
  <2>2. Head(port.queue[c]) \in Frames
    BY <2>1
  <2> QED
    BY <2>2, TTPortAssumption
<1>4. Recent(calm) \in Nat /\ Recent(calm) <= SafetyMargin
  BY <1>2 DEF Recent
<1> HIDE DEF ticks
<1>5. ticks + SafetyMargin + SafetyMargin >= tt[b].key
  BY <1>1, <1>2, <1>3, <1>4
<1> QED
  BY <1>5 DEF ticks

-----------------------------------------------------------------------------
(* When the windows of a port are apart by a safety margin, receive        *)
(* windows are apart from them, corrections are within the margin and      *)
(* buffers stay enabled, the map of the shaper follows the timer, and no   *)
(* frame comes out of turn or is delayed: none of the exceptions that end  *)
(* the simulation is raised, with any number of buffers and frames.        *)
THEOREM AlwaysInOrder ==
  ASSUME WellScheduled
  PROVE  Spec => []InOrder
<1>1. Init => IInv
  BY InitIInv
<1>2. IInv /\ [Next]_vars => IInv'
  BY NextIInv
<1>3. IInv => InOrder
  BY IInvInOrder
<1> QED
  BY <1>1, <1>2, <1>3, PTL DEF Spec

(* Buffers send when their window has started, at most a safety margin     *)
(* ago.                                                                    *)
THEOREM AlwaysSentInWindow ==
  ASSUME WellScheduled
  PROVE  Spec => []SentInWindow
<1>1. Init => IInv
  BY InitIInv
<1>2. IInv /\ [Next]_vars => IInv'
  BY NextIInv
<1>3. IInv => SentInWindow
  BY IInvSentInWindow
<1> QED
  BY <1>1, <1>2, <1>3, PTL DEF Spec

(* A frame that was taken in its receive window is in the buffer when the  *)
(* buffer sends next, however the clock is corrected between the two.      *)
THEOREM AlwaysSentInItsCycle ==
  ASSUME WellScheduled
  PROVE  Spec => []SentInItsCycle
<1>1. Init => IInv
  BY InitIInv
<1>2. IInv /\ [Next]_vars => IInv'
  BY NextIInv
<1>3. IInv => SentInItsCycle
  BY IInvSentInItsCycle
<1> QED
  BY <1>1, <1>2, <1>3, PTL DEF Spec

(* The port is idle with frames waiting only when the first of them would  *)
(* not fit before the next window, or a correction has just made room.     *)
THEOREM AlwaysIdleOnlyWhenBlocked ==
  ASSUME WellScheduled
  PROVE  Spec => []IdleOnlyWhenBlocked
<1>1. Init => IInv
  BY InitIInv
<1>2. IInv /\ [Next]_vars => IInv'
  BY NextIInv
<1>3. IInv => IdleOnlyWhenBlocked
  BY IInvIdleOnlyWhenBlocked
<1> QED
  BY <1>1, <1>2, <1>3, PTL DEF Spec
=============================================================================
