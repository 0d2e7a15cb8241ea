------------------------ MODULE CompressionFunction ------------------------
(* What the compression masters have in common: the compression function,     *)
(* which turns the frames of several masters into one point in time, and how   *)
(* a master judges that point, evaluates a cycle and corrects its clock.       *)
(* Operators on a master's record, with these fields beside the scheduler's:   *)
(*   icyc             local_integration_cycle                                  *)
(*   sync             local_sync_membership, as the set of its bits            *)
(*   asyncR, asyncF   local_async_membership_r, _f: sets of masters            *)
(*   counter          stable_cycle_counter                                     *)
(*   collect          compression_stack and ca_compression_stack: for a kind   *)
(*                    of frame and a cycle the frames that became permanent    *)
(*   clock            clock_stack: its only pair, live until it is cleared     *)
EXTENDS SyncScheduler, Sequences

CONSTANTS
  ScheduledPit,       \* cm_scheduled_pit
  AcceptanceWindow,
  MaxIcys,            \* max_integration_cycles
  ObservationWindow, MaxWindows,
  Overhead,           \* calculation_overhead
  Faulty,             \* faulty_synchronisatzation_masters
  NumStable, NumUnstable

(* The bits of a count of at most 32 masters: the code keeps counts and masks  *)
(* of masters in the same variables and counts the bits of either.             *)
AsBits(n) == {b \in 0 .. 5 : (n \div 2^b) % 2 = 1}
------------------------------------------------------------------------------
(* A received frame becomes an event at its permanence point.                  *)
Frame(kind, icyc, members, delay) ==
  [ev |-> kind, left |-> delay, icyc |-> icyc, members |-> members]

Collection(d, kind, icyc) == {c \in d.collect : c.of = kind /\ c.icyc = icyc}

WindowOf == [IN_FRAME |-> "OW", CA_FRAME |-> "OW_CA"]
PointOf  == [IN_FRAME |-> "CP", CA_FRAME |-> "CPCA"]

(* The first permanent frame of a cycle opens an observation window, others    *)
(* are added to the collection.                                                *)
Observed(d, f) ==
  LET open == Collection(d, f.ev, f.icyc)
      got  == [members |-> f.members, pit |-> d.clk]
  IN IF open # {}
       THEN [d EXCEPT !.collect = {IF c \in open THEN [c EXCEPT !.got = Append(@, got)] ELSE c : c \in @}]
       ELSE RegisterTimer([d EXCEPT !.collect = @ \union {[of |-> f.ev, icyc |-> f.icyc, got |-> <<got>>]}],
                          [ev |-> WindowOf[f.ev], left |-> ObservationWindow, icyc |-> f.icyc,
                           windows |-> 1, last |-> 1])

(* compress(): the correction from the points in time of the frames, in        *)
(* unsigned arithmetic.  Half of a difference that wrapped is about 2^31 ticks:*)
(* it is Wrapped here, as an event that far away is never due.                 *)
LOCAL Wrapped == -1000000

Halved(n) == IF n >= 0 THEN n \div 2 ELSE Wrapped

Correction(got) ==
  LET since(i, j) == got[i].pit - got[j].pit
      n           == Len(got)
  IN CASE n = 1 -> 0
       [] n = 2 -> Halved(since(2, 1))
       [] n = 3 -> since(2, 1)
       [] n = 4 -> Halved(since(2, 1) + since(3, 1))
       [] n = 5 -> Halved(since(2, 1) + since(4, 1))
       [] OTHER -> Halved(since(n - Faulty - 1, Faulty + 1))

(* The collection ends in the compressed point in time, rest ticks and the     *)
(* correction later.  A negative delay becomes one of 2^64 ticks.              *)
Compressed(d, c, rest) ==
  LET delay == rest + Overhead + Correction(c.got)
      ended == [d EXCEPT !.collect = @ \ {c}]
  IN IF delay < 0 THEN ended
     ELSE RegisterTimer(ended, [ev |-> PointOf[c.of], left |-> delay, icyc |-> c.icyc,
                                members |-> UNION {c.got[i].members : i \in DOMAIN c.got}])

(* An observation window in which a frame came is followed by another one, up  *)
(* to MaxWindows of them; then the collection ends.                            *)
WindowOver(d, o) ==
  LET open == {c \in d.collect : WindowOf[c.of] = o.ev /\ c.icyc = o.icyc} IN
  IF open = {} THEN d
  ELSE LET c == CHOOSE x \in open : TRUE
           n == Len(c.got)
       IN IF o.last < n /\ o.windows < MaxWindows
            THEN RegisterTimer(d, [o EXCEPT !.left = ObservationWindow, !.windows = @ + 1, !.last = n])
            ELSE Compressed(d, c, (MaxWindows - o.windows) * ObservationWindow)
------------------------------------------------------------------------------
(* mutant: a window of the wrong width                                         *)
InSchedule_Wide(d) == d.clk \in ScheduledPit - AcceptanceWindow .. ScheduledPit + AcceptanceWindow

InSchedule(d) ==
  d.clk \in ScheduledPit - AcceptanceWindow \div 2 .. ScheduledPit + AcceptanceWindow \div 2

(* The clock is set so that the present is the scheduled point.                *)
AtScheduledPit(d) == Correct(d, d.clk - ScheduledPit)

WithReading(d, bits) == [d EXCEPT !.clock = [live |-> TRUE, bits |-> bits, pit |-> d.clk]]

(* clear() of the deque: its front still reads as the last pair.  After a      *)
(* restart it is not read before a new pair is there.                          *)
NoPair == [live |-> FALSE, bits |-> {}, pit |-> 0]
NoReading(d) == [d EXCEPT !.clock.live = FALSE, !.clock.bits = {}]

(* Of the points in the window the one of more masters counts, then the later. *)
Counts(d, n) ==
  LET old == Cardinality(d.clock.bits) IN
  ~d.clock.live \/ n > old \/ (n = old /\ d.clk > d.clock.pit)

OutOfSchedule(d, cp) == [d EXCEPT !.asyncR = @ \union cp.members, !.asyncF = @ \union cp.members]

(* mutant: the half-windows are swapped                                        *)
ScheduledPassed_Swapped(d, e) ==
  RegisterNext(IF d.icyc % 2 = 0 THEN [d EXCEPT !.asyncR = {}] ELSE [d EXCEPT !.asyncF = {}], "scheduled")

ScheduledPassed(d, e) ==
  RegisterNext(IF d.icyc % 2 = 0 THEN [d EXCEPT !.asyncF = {}] ELSE [d EXCEPT !.asyncR = {}], "scheduled")

Inc(d, e) == RegisterNext([d EXCEPT !.icyc = (@ + 1) % MaxIcys], "inc")

(* The front of the deque is read without a test: when it is empty, the last   *)
(* pair is used once more.                                                     *)
ClockCorr(d, e) == NoReading(Correct(d, d.clock.pit - ScheduledPit))

AsyncMembers(d) == IF d.icyc % 2 = 0 THEN d.asyncR ELSE d.asyncF

Clique(d, threshold) == Cardinality(AsyncMembers(d)) >= threshold

(* mutant: the membership of the last cycle stands for a silent one            *)
Evaluated_Held(d) == [d EXCEPT !.sync = @ \union d.clock.bits]

(* The memberships of the last cycles add up as long as none is silent.        *)
Evaluated(d) == [d EXCEPT !.sync = IF d.clock.live THEN @ \union d.clock.bits ELSE {}]

NoAsync(d) == [d EXCEPT !.asyncR = {}, !.asyncF = {}]

(* The clock, the integration cycle and the memberships back to zero.          *)
Zero(d) == [NoAsync(Correct(d, d.clk)) EXCEPT !.icyc = 0, !.sync = {}]

(* The evaluation of a cycle in SYNC: a master leaves its clique, or is one of  *)
(* too few, or becomes stable after NumStable cycles.                          *)
SyncEvaluation(d, thresholdAsync, thresholdSync, toStable, Lost(_), TooFew(_)) ==
  LET m    == Register(d, "clock_corr")
      done == Evaluated(m)
      next == RegisterNext(done, "sync_eval")
  IN CASE Clique(m, thresholdAsync) -> Lost(m)
       [] ~Clique(m, thresholdAsync) /\ Cardinality(done.sync) < thresholdSync -> TooFew(done)
       [] OTHER -> CASE ~toStable                              -> next
                     [] toStable /\ next.counter < NumStable   -> [next EXCEPT !.counter = @ + 1]
                     [] OTHER -> [next EXCEPT !.counter = 0, !.st = "STABLE"]

(* In STABLE NumUnstable cycles of too few are tolerated, and never forgotten. *)
StableEvaluation(d, thresholdAsync, thresholdSync, Lost(_)) ==
  LET m    == Register(d, "clock_corr")
      done == Evaluated(m)
      next == RegisterNext(done, "sync_eval")
      few  == Cardinality(done.sync) < thresholdSync
  IN CASE Clique(m, thresholdAsync) -> Lost(m)
       [] ~Clique(m, thresholdAsync) /\ few /\ done.counter < NumUnstable -> [next EXCEPT !.counter = @ + 1]
       [] ~Clique(m, thresholdAsync) /\ few /\ done.counter >= NumUnstable -> Lost(done)
       [] OTHER -> next
=============================================================================
