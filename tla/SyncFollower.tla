---------------------------- MODULE SyncFollower ----------------------------
(* What a synchronisation client and a synchronisation master have in common:  *)
(* the container of received IN frames, and how a device that is synchronised  *)
(* judges frames, evaluates a cycle and corrects its clock.  Operators on the  *)
(* device's record, with these fields beside those of the scheduler:           *)
(*   icyc      local_integration_cycle                                         *)
(*   asyncR, asyncF   local_async_membership_r, _f: sets of masters            *)
(*   stack     clock_stack: one reading of a port each                         *)
(*   gone      entries of the container whose event is no longer pending       *)
(* local_async_membership is not kept: it is read only where it was just set.  *)
EXTENDS SyncScheduler, FiniteSetsExt

CONSTANTS
  ReceivePit,          \* smc_scheduled_receive_pit
  Window,              \* ticks around it in which a frame is on schedule
  MaxIcys,             \* max_integration_cycles
  MaxMembership, AcceptanceRange,
  GoneHorizon          \* bound on the age of a container entry without event

(* The container of received frames (e_container) is keyed by the total ticks  *)
(* of their permanence, here relative to the present total ticks: corrections  *)
(* move the keys, not the timers.  An entry whose event is gone is "freed"     *)
(* when the event was deleted: to look at it again is undefined.  Entries of   *)
(* more than GoneHorizon ticks ago are forgotten.                              *)
KeyMoved(e, c) == IF e.ev = "IN_FRAME" /\ e.listed THEN [e EXCEPT !.key = @ + c] ELSE e

ClockCorrection(d, c) ==
  LET m == Correct(d, c) IN
  [m EXCEPT !.pend = {KeyMoved(e, c) : e \in @}, !.gone = {[g EXCEPT !.key = @ + c] : g \in @}]

TimePasses(d) ==
  LET m == Ticked(d) IN
  [m EXCEPT !.pend = {KeyMoved(e, -1) : e \in @},
            !.gone = {g \in {[o EXCEPT !.key = @ - 1] : o \in @} : g.key >= -GoneHorizon}]

Filed(d, key) == {e \in Named(d, {"IN_FRAME"}) : e.listed /\ e.key = key}

(* e_container->erase(key): all entries of the key go.                         *)
Erased(d, key) ==
  [d EXCEPT !.pend = (@ \ Filed(d, key)) \union {[e EXCEPT !.listed = FALSE, !.key = 0] : e \in Filed(d, key)},
            !.gone = {g \in @ : g.key # key}]

(* The handled event f is deleted, or kept without being used again; its entry *)
(* stays until its key is erased.                                              *)
Entry(f, freed) ==
  IF ~f.listed THEN {}
  ELSE {[key |-> f.key, freed |-> freed, icyc |-> IF freed THEN 0 ELSE f.icyc,
         members |-> IF freed THEN {} ELSE f.members]}
Deleted(d, f)   == [d EXCEPT !.gone = @ \union Entry(f, TRUE)]
Abandoned(d, f) == [d EXCEPT !.gone = @ \union Entry(f, FALSE)]

ContainerEmpty(d) == d.gone = {} /\ \A e \in Named(d, {"IN_FRAME"}) : ~e.listed

(* Before it is synchronised a device keeps one frame for each permanence      *)
(* point: the one with more members, then of the later cycle.                  *)
Better(f, g) ==
  \/ Cardinality(f.members) > Cardinality(g.members)
  \/ Cardinality(f.members) = Cardinality(g.members) /\ f.icyc > g.icyc

FileBest(d, f) ==
  LET pending == Filed(d, f.key)
      gone    == {g \in d.gone : g.key = f.key}
  IN IF pending \union gone = {} THEN {RegisterTimer(d, f)}
     ELSE {IF Better(f, g) THEN RegisterTimer(Erased([d EXCEPT !.pend = @ \ {g}], f.key), f) ELSE d : g \in pending}
            \union
          {CASE g.freed                  -> [d EXCEPT !.fault = TRUE]
             [] ~g.freed /\ Better(f, g) -> RegisterTimer(Erased(d, f.key), f)
             [] OTHER                    -> d : g \in gone}
------------------------------------------------------------------------------
(* mutant: a wider window                                                      *)
InSchedule_Wide(d) == d.clk \in ReceivePit - 2 * Window .. ReceivePit + 2 * Window

InSchedule(d) == d.clk \in ReceivePit - Window .. ReceivePit + Window

Accepted(count) == count \in MaxMembership - AcceptanceRange .. MaxMembership

Reading(f, count, pit) == [port |-> f.port, count |-> count, pit |-> pit]

(* clock_stack->insert() has no effect when the port has a reading.            *)
Inserted(stack, s) == IF \E o \in stack : o.port = s.port THEN stack ELSE stack \union {s}

(* Of the frames of a port the one with most members counts, then the latest.  *)
Kept(stack, s) ==
  LET old == {o \in stack : o.port = s.port} IN
  IF \A o \in old : s.count > o.count \/ (s.count = o.count /\ s.pit > o.pit)
    THEN (stack \ old) \union {s} ELSE stack

OnSchedule(d, f) == f.icyc = d.icyc /\ InSchedule(d)

InFrame(d, f) ==
  LET count == Cardinality(f.members)
      noted == Erased(Deleted(d, f), 0)
  IN IF OnSchedule(d, f)
       THEN IF Accepted(count)
              THEN [noted EXCEPT !.stack = Kept(@, Reading(f, count, d.clk))]
              ELSE noted
       ELSE [noted EXCEPT !.asyncF = @ \union f.members, !.asyncR = @ \union f.members]

AsyncMembers(d) == IF d.icyc % 2 = 0 THEN d.asyncR ELSE d.asyncF

(* mutant: clears the half that is evaluated next                              *)
AsyncUp_Swapped(d, e) ==
  RegisterNext(IF d.icyc % 2 = 0 THEN [d EXCEPT !.asyncR = {}] ELSE [d EXCEPT !.asyncF = {}], "async_up")

AsyncUp(d, e) ==
  RegisterNext(IF d.icyc % 2 = 0 THEN [d EXCEPT !.asyncF = {}] ELSE [d EXCEPT !.asyncR = {}], "async_up")

Inc(d, e) == RegisterNext([d EXCEPT !.icyc = (@ + 1) % MaxIcys], "inc")

SyncMembers(stack) == IF stack = {} THEN 0 ELSE Max({s.count : s \in stack})

(* The average deviation over the ports, rounded towards zero.                 *)
Truncated(a, b) == IF a >= 0 THEN a \div b ELSE -((-a) \div b)
Deviation(stack) ==
  Truncated(FoldSet(LAMBDA s, sum : sum + s.pit - ReceivePit, 0, stack), Cardinality(stack))

(* mutant: the readings are kept for the next cycle                            *)
ClockCorr_Kept(d, e) == IF d.stack = {} THEN d ELSE ClockCorrection(d, Deviation(d.stack))

(* mutant: the clock is moved away from the frames                             *)
ClockCorr_Opposite(d, e) ==
  IF d.stack = {} THEN d ELSE [ClockCorrection(d, -Deviation(d.stack)) EXCEPT !.stack = {}]

ClockCorr(d, e) ==
  IF d.stack = {} THEN d ELSE [ClockCorrection(d, Deviation(d.stack)) EXCEPT !.stack = {}]
=============================================================================
