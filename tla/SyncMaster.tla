----------------------------- MODULE SyncMaster -----------------------------
(* AS6802 synchronisation masters (SynchronisationMaster/): devices that        *)
(* cold-start the network with CS and CA frames, send IN frames and follow the *)
(* compressed IN frames.  One action per message that a state handles; a       *)
(* handler is an operator from a master's record to its next record.           *)
EXTENDS Integers, FiniteSets

CONSTANTS
  Masters,             \* each a bit index of the membership field
  Cycle, Precision,
  AcceptanceWindow,    \* 2 * precision unless it is configured
  ReceivePit,          \* smc_scheduled_receive_pit
  MaxIcys, MaxMembership, AcceptanceRange,
  ListenTimeout, ColdstartTimeout, RestartTimeout, RestartSync, RestartAsync,
  CsOffset, CaOffset, CaRoundTrip, CaWindow,
  IntegrateToWait, IntegrateToSync, UnsyncToTentative, UnsyncToSync,
  TentativeThresholdSync, TentativeThresholdAsync, TentativeToSync,
  SyncThresholdSync, SyncThresholdAsync, StableThresholdSync, StableThresholdAsync,
  NumStable, NumUnstable,
  ToStableEnabled, StableCaEnabled,
  StandardIntegrity, HighIntegrity,
  StartIcy,            \* cv_local_integration_cycle
  Recorded,            \* corrections in the file of an earlier run (par "read")
  GoneHorizon,         \* bound on the age of a container entry without event
  Ports, Memberships,  \* ports and membership fields of received frames
  PermanenceDelays,    \* ticks from the reception of a frame to its permanence
  MaxPending           \* bound on IN, and on CS and CA, frames until permanence

(* The slots of a cycle lie in the order in which the device works.  SM.ned    *)
(* makes the acceptance window twice the precision, and its defaults (receive  *)
(* pit 630, precision 80, cycle 12500) leave room for many corrections, none   *)
(* of which is larger than half the window.                                    *)
ASSUME SlotsInOrder ==
  /\ Precision \in Nat /\ AcceptanceWindow \in Nat
  /\ AcceptanceWindow \div 2 \in 1 .. Precision
  /\ ReceivePit \in Nat /\ Cycle \in Nat
  /\ Precision < ReceivePit
  /\ ReceivePit + 2 * Precision + AcceptanceWindow \div 2 + 1 <= Cycle - AcceptanceWindow

(* What is received and what is configured have the ranges of the program.     *)
(* 2^m is a natural number because a master is the number of a bit of the      *)
(* membership field; the provers know nothing of ^.                            *)
ASSUME MasterAssumption ==
  /\ \A m \in Masters : 2^m \in Nat
  /\ MaxIcys \in Nat \ {0} /\ StartIcy \in 0 .. MaxIcys - 1
  /\ MaxMembership \in Nat /\ AcceptanceRange \in Nat
  /\ IsFiniteSet(Ports) /\ Ports # {}
  /\ IsFiniteSet(UNION Memberships)
  /\ \A members \in Memberships : Cardinality(members) <= MaxMembership
  /\ PermanenceDelays \subseteq Nat /\ Recorded \subseteq Int
  /\ {ListenTimeout, ColdstartTimeout, RestartTimeout, RestartSync, RestartAsync,
      CsOffset, CaOffset, CaRoundTrip, CaWindow} \subseteq Nat
  /\ {TentativeThresholdSync, SyncThresholdSync, StableThresholdSync} \subseteq Nat \ {0}
  /\ {IntegrateToWait, IntegrateToSync, UnsyncToTentative, UnsyncToSync, TentativeToSync,
      TentativeThresholdAsync, SyncThresholdAsync, StableThresholdAsync} \subseteq Int
  /\ NumStable \in Nat /\ NumUnstable \in Nat \ {0}
  /\ {ToStableEnabled, StableCaEnabled, StandardIntegrity, HighIntegrity} \subseteq BOOLEAN

Cyclic == {"async_eval", "sync_eval", "inc", "async_up"}

SlotOf == [async_eval |-> 0,
           sync_eval  |-> ReceivePit + Precision,
           clock_corr |-> ReceivePit + 2 * Precision + 1,
           inc        |-> ReceivePit - Precision,
           async_up   |-> Cycle - AcceptanceWindow]

(* Frames run before the device's own events: CS, then CA, then IN.            *)
PriorityOf == [ev \in DOMAIN SlotOf \union {"ASYNCHRON", "CS", "CA", "IN_FRAME"} |->
                 CASE ev = "CS"                    -> 0
                   [] ev = "CA"                    -> 1
                   [] ev = "IN_FRAME"              -> 2
                   [] ev \in {"inc", "ASYNCHRON"}  -> 3
                   [] OTHER                        -> 4]

INSTANCE SyncFollower WITH Slot <- SlotOf, Priority <- PriorityOf, Window <- AcceptanceWindow \div 2

VARIABLES
  sm,    \* the record of each master
  seen   \* history of each master that is synchronised:
         \*   unheard  members seen out of schedule since the last async_eval
         \*   heard    a frame with enough members was on schedule in this cycle
         \*   silence  evaluations since the last cycle with such a frame

vars == <<sm, seen>>
------------------------------------------------------------------------------
(* sync is local_sync_membership: a count of members, or a mask with the       *)
(* master's own bit, as the code uses the variable for both.  timer is the     *)
(* value set in the timer event; out the frame that the last step sent.        *)
PowerUp ==
  [st |-> "INIT", clk |-> 0, pend |-> {}, icyc |-> 0, sync |-> 0, asyncR |-> {},
   asyncF |-> {}, counter |-> 0, stack |-> {}, timer |-> ListenTimeout,
   floodReceive |-> FALSE, closedWindow |-> FALSE, gone |-> {}, out |-> {}, fault |-> FALSE]

PseudoSync == RegisterAll([PowerUp EXCEPT !.st = "PSEUDOSYNC"], {"clock_corr", "inc"})

(* The constructors: states that wait start the timer, UNSYNC sends CS first.  *)
Await(d, st)  == StartTimer([d EXCEPT !.st = st], d.timer)
Integrate(d)  == Await(d, "INTEGRATE")
Flood(d)      == Await(d, "FLOOD")
WaitCs(d)     == Await(d, "WAIT_4_CYCLE_START_CS")
WaitCycle(d)  == Await(d, "WAIT_4_CYCLE_START")
Send(d, kind, icyc) == [d EXCEPT !.out = {[kind |-> kind, icyc |-> icyc]}]
Unsync(d)     == Await(Send(d, "CS", d.icyc), "UNSYNC")

SetTimer(d, t) == [d EXCEPT !.timer = t]
StopTimer(d)   == Unregister(d, {"ASYNCHRON"})

(* The clock, the integration cycle and the memberships back to zero.          *)
ClockZero(d)  == ClockCorrection(d, d.clk)
NoAsync(d)    == [d EXCEPT !.asyncR = {}, !.asyncF = {}]
ZeroSync(d)   == [ClockZero(d) EXCEPT !.icyc = 0, !.sync = 0]
Zero(d)       == NoAsync(ZeroSync(d))

WithBit(n, b) == IF (n \div 2^b) % 2 = 1 THEN n ELSE n + 2^b
------------------------------------------------------------------------------
(* Reception (RCin): a frame becomes an event at its permanence point.         *)

Frame(kind, port, icyc, members, delay) ==
  [ev |-> kind, left |-> delay, listed |-> kind = "IN_FRAME", key |-> IF kind = "IN_FRAME" THEN delay ELSE 0,
   port |-> port, icyc |-> icyc, members |-> members]

Receive(d, f) == {RegisterTimer(d, f)}

ReceiveIntegrating(d, f) ==
  CASE f.ev = "IN_FRAME" -> FileBest(d, f)
    [] f.ev = "CA"       -> Receive(d, f)
    [] OTHER             -> {d}

ReceiveUnsync(d, f) == IF f.ev = "IN_FRAME" THEN FileBest(d, f) ELSE Receive(d, f)

(* FLOOD and WAIT_4_CYCLE_START_CS delete a received IN frame twice.           *)
ReceiveFlooding(d, f) ==
  IF f.ev = "IN_FRAME" THEN {[x EXCEPT !.fault = TRUE] : x \in FileBest(d, f)} ELSE Receive(d, f)

ReceiveWaiting(d, f) == IF f.ev = "IN_FRAME" THEN FileBest(d, f) ELSE {d}

ReceiveSynced(d, f) == IF f.ev = "CS" THEN {d} ELSE Receive(d, f)
------------------------------------------------------------------------------
(* INTEGRATE                                                                   *)

(* mutant: the coldstart frame is sent once, without a timer to repeat it      *)
IntegrateTimeout_Once(d, e) == [Send(Zero(SetTimer(d, ColdstartTimeout)), "CS", 0) EXCEPT !.st = "UNSYNC"]

IntegrateTimeout(d, e) == Unsync(Zero(SetTimer(d, ColdstartTimeout)))

(* A CA frame announces the start of a cycle ca_offset later.                  *)
Acknowledged(d, b) == WaitCs([Zero(SetTimer(StopTimer(d), CaOffset)) EXCEPT !.sync = WithBit(0, b)])

(* Adopts the cycle of an IN frame as if it had come on schedule.              *)
Adopt(d, f) ==
  [ClockCorrection(d, d.clk - ReceivePit) EXCEPT !.icyc = f.icyc, !.sync = Cardinality(f.members)]

(* The cyclic events; the evaluation at 0 only from the next cycle on.         *)
Synchronised(d, st) ==
  RegisterNext(RegisterAll([d EXCEPT !.st = st], Cyclic \ {"async_eval"}), "async_eval")

WithReading(d, f) == [d EXCEPT !.stack = Inserted(@, Reading(f, Cardinality(f.members), d.clk))]

IntegrateInFrame(d, f) ==
  LET set == NoAsync(Adopt(Erased(Deleted(d, f), 0), f)) IN
  CASE set.sync >= IntegrateToSync -> Synchronised(WithReading(StopTimer(set), f), "SYNC")
    [] set.sync >= IntegrateToWait /\ set.sync < IntegrateToSync ->
         WaitCycle(SetTimer(StopTimer(set), Cycle + AcceptanceWindow \div 2))
    [] OTHER -> set

(* UNSYNC: the timer keeps the value it was set to last.                       *)
UnsyncTimeout(d, e) == Unsync(Zero(d))

UnsyncCs(d, f, b) ==
  IF StandardIntegrity \/ (HighIntegrity /\ f.members # {b})
    THEN Flood([Zero(SetTimer(StopTimer(d), CsOffset)) EXCEPT !.floodReceive = FALSE, !.closedWindow = FALSE])
    ELSE d

(* The container is searched after the clock was corrected.                    *)
UnsyncInFrame(d, f) ==
  LET set    == Adopt(StopTimer(Deleted(d, f)), f)
      synced == Erased(WithReading(set, f), 0)
  IN CASE set.sync >= UnsyncToSync -> Synchronised(synced, "SYNC")
       [] set.sync < UnsyncToSync /\ set.sync >= UnsyncToTentative -> Synchronised(synced, "TENTATIVE_SYNC")
       [] OTHER -> set

(* FLOOD: cs_offset after the last CS frame a CA frame is sent; CA frames are  *)
(* expected a round trip later, then ignored for the acceptance window.        *)
FloodTimeout(d, e) ==
  LET zero == Zero(StopTimer(d)) IN
  CASE ~d.floodReceive /\ ~d.closedWindow ->
         Flood([SetTimer(Send(zero, "CA", 64), CaRoundTrip) EXCEPT !.floodReceive = TRUE])
    [] d.floodReceive /\ ~d.closedWindow ->
         Flood([SetTimer(zero, CaWindow) EXCEPT !.closedWindow = TRUE])
    [] d.floodReceive /\ d.closedWindow ->
         Unsync([SetTimer(zero, ColdstartTimeout) EXCEPT !.floodReceive = FALSE, !.closedWindow = FALSE])

Reopened(d) == [Zero(StopTimer(d)) EXCEPT !.floodReceive = FALSE, !.closedWindow = FALSE]

FloodCs(d, f) == Flood(SetTimer(Reopened(d), CsOffset))

FloodCa(d, f) ==
  IF d.floodReceive /\ ~d.closedWindow THEN WaitCs(SetTimer(Reopened(d), CaOffset)) ELSE d

(* IN frames that became permanent too late are dropped.                       *)
DropInFrame(d, f) == Erased(Deleted(d, f), 0)

(* WAIT_4_CYCLE_START_CS                                                       *)
WaitCsTimeout(d, b) ==
  [ClockZero(RegisterAll(NoAsync([d EXCEPT !.icyc = StartIcy, !.sync = WithBit(0, b)]), Cyclic))
     EXCEPT !.st = "TENTATIVE_SYNC"]

WaitCsCs(d, f) == Flood(Zero(SetTimer(StopTimer(d), CsOffset)))

(* WAIT_4_CYCLE_START: its test is inverted, every message of the scheduler    *)
(* but the timer completes the round, and the timer is ignored.                *)
WaitCycleOther(d, f) ==
  LET kept == IF f.ev = "IN_FRAME" THEN Abandoned(d, f) ELSE d IN
  IF d.sync = 0
    THEN Unsync([SetTimer(StopTimer(ZeroSync(kept)), RestartSync) EXCEPT !.sync = 0])
    ELSE Synchronised([ClockCorrection(kept, d.clk - ReceivePit) EXCEPT !.icyc = @ + 1], "TENTATIVE_SYNC")
------------------------------------------------------------------------------
(* TENTATIVE_SYNC, SYNC and STABLE                                             *)

Halt(d, names) == [Unregister(d, names) EXCEPT !.counter = 0]
NoReadings(d)  == [d EXCEPT !.stack = {}]

(* A CA frame: the device waits for the start of the announced cycle.          *)
FollowCa(d, mask) ==
  WaitCs([NoReadings(Halt(SetTimer(ClockZero(d), CaOffset), DOMAIN SlotOf)) EXCEPT !.icyc = 0, !.sync = mask])

SyncCa(d, b)      == FollowCa(d, WithBit(d.sync, b))
StableCa(d, b)    == IF StableCaEnabled THEN FollowCa(NoAsync(d), WithBit(d.sync, b)) ELSE d
TentativeCa(d, b) == FollowCa(NoAsync(d), WithBit(0, b))

Ignore(d, f) == d

(* mutant: the members of the other half-window are compared                   *)
AsyncClique_Other(d, threshold) ==
  LET n == Cardinality(AsyncMembers([d EXCEPT !.icyc = @ + 1])) IN n >= threshold \/ n >= d.sync

(* Asynchronous clique detection: at least threshold members, or as many as    *)
(* in the own clique, were seen out of schedule.                               *)
AsyncClique(d, threshold) ==
  LET n == Cardinality(AsyncMembers(d)) IN n >= threshold \/ n >= d.sync

(* The IN frame of the next cycle; the sum is not taken modulo MaxIcys.        *)
SendIn(d) == RegisterNext(Send(d, "IN", d.icyc + 1), "async_eval")

Evaluations == {"sync_eval", "inc", "async_up"}

StableAsyncEval(d, e) ==
  IF AsyncClique(d, StableThresholdAsync)
    THEN Integrate(Halt(Zero(SetTimer(d, RestartTimeout)), Evaluations))
    ELSE SendIn(d)

SyncAsyncEval(d, e) ==
  IF AsyncClique(d, SyncThresholdAsync)
    THEN Unsync(NoReadings(Halt(ZeroSync(SetTimer(d, RestartAsync)), Evaluations)))
    ELSE SendIn(d)

TentativeAsyncEval(d, e) ==
  IF AsyncClique(d, TentativeThresholdAsync)
    THEN Unsync(NoReadings(Halt(Zero(SetTimer(d, RestartAsync)), Evaluations)))
    ELSE SendIn(d)

(* The counter of a master that stays in its state is capped.                  *)
Counted(d) == [d EXCEPT !.counter = IF @ < NumStable THEN @ + 1 ELSE @]

Evaluated(d) == [d EXCEPT !.sync = SyncMembers(d.stack)]

(* A cycle without enough members is counted, and the count compared with the  *)
(* limit at once.  The restart does not set the timer anew.                    *)
StableSyncEval(d, e) ==
  LET m      == Register(RegisterNext(Evaluated(d), "sync_eval"), "clock_corr")
      missed == IF m.counter < NumUnstable THEN [m EXCEPT !.counter = @ + 1] ELSE m
  IN CASE m.sync >= StableThresholdSync -> [m EXCEPT !.counter = 0]
       [] m.sync < StableThresholdSync /\ missed.counter < NumUnstable -> missed
       [] OTHER -> Integrate(NoReadings(Halt(Zero(missed), DOMAIN SlotOf)))

SyncSyncEval(d, e) ==
  LET m    == Register(Evaluated(d), "clock_corr")
      next == RegisterNext(m, "sync_eval")
      lost == NoReadings(Halt(ZeroSync(SetTimer(m, RestartSync)), DOMAIN SlotOf \ {"sync_eval"}))
  IN CASE m.sync < SyncThresholdSync /\ m.sync > 0 -> Unsync(lost)
       [] m.sync < SyncThresholdSync /\ m.sync = 0 -> Integrate(lost)
       [] m.sync >= SyncThresholdSync /\ (~ToStableEnabled \/ m.counter < NumStable) -> Counted(next)
       [] OTHER -> [next EXCEPT !.counter = 0, !.st = "STABLE"]

(* The transition to STABLE of this state stands behind a return.              *)
TentativeSyncEval(d, e) ==
  LET m    == Evaluated(d)
      next == Register(RegisterNext(m, "sync_eval"), "clock_corr")
      lost == Halt(Zero(SetTimer(m, RestartAsync)), {"async_eval", "inc", "async_up"})
  IN CASE m.sync < TentativeThresholdSync -> Unsync(NoReadings(lost))
       [] m.sync >= TentativeThresholdSync /\ m.sync < TentativeToSync -> Counted(next)
       [] OTHER -> [next EXCEPT !.counter = 0, !.st = "SYNC"]

------------------------------------------------------------------------------
(* The states' handlers.  After a fault (a deleted message is used again, or   *)
(* an event registered twice) nothing is said of the program.                  *)

Synced == {"TENTATIVE_SYNC", "SYNC", "STABLE"}
Blank  == [unheard |-> {}, heard |-> FALSE, silence |-> 0]

(* The history of a master that is not synchronised is blank.                  *)
Noted(m, h) == seen' = [seen EXCEPT ![m] = IF sm'[m].st \in Synced THEN h ELSE Blank]

Handles(m, st, ev, Handler(_, _)) ==
  /\ sm[m].st = st
  /\ ~sm[m].fault
  /\ \E e \in Due(sm[m]) : e.ev = ev /\ sm' = [sm EXCEPT ![m] = Handler([Taken(@, e) EXCEPT !.out = {}], e)]

On(m, st, ev, Handler(_, _)) == Handles(m, st, ev, Handler) /\ Noted(m, seen[m])

PseudoInc(m)  == On(m, "PSEUDOSYNC", "inc", Inc)
PseudoCorr(m) == \E c \in Recorded :
                   On(m, "PSEUDOSYNC", "clock_corr",
                      LAMBDA d, e : RegisterNext(ClockCorrection(d, c), "clock_corr"))

RCin(m, f, st, Handler(_, _)) ==
  /\ sm[m].st = st
  /\ ~sm[m].fault
  /\ \E d \in Handler([sm[m] EXCEPT !.out = {}], f) : sm' = [sm EXCEPT ![m] = d]
  /\ UNCHANGED seen

IntegrateRCin(m, f)   == RCin(m, f, "INTEGRATE", ReceiveIntegrating)
UnsyncRCin(m, f)      == RCin(m, f, "UNSYNC", ReceiveUnsync)
FloodRCin(m, f)       == RCin(m, f, "FLOOD", ReceiveFlooding)
WaitCsRCin(m, f)      == RCin(m, f, "WAIT_4_CYCLE_START_CS", ReceiveFlooding)
WaitCycleRCin(m, f)   == RCin(m, f, "WAIT_4_CYCLE_START", ReceiveWaiting)
TentativeRCin(m, f)   == RCin(m, f, "TENTATIVE_SYNC", ReceiveSynced)
SyncRCin(m, f)        == RCin(m, f, "SYNC", ReceiveSynced)
StableRCin(m, f)      == RCin(m, f, "STABLE", ReceiveSynced)

Receives(m, f) ==
  \/ IntegrateRCin(m, f) \/ UnsyncRCin(m, f) \/ FloodRCin(m, f) \/ WaitCsRCin(m, f)
  \/ WaitCycleRCin(m, f) \/ TentativeRCin(m, f) \/ SyncRCin(m, f) \/ StableRCin(m, f)

IntegrateOnTimeout(m) == On(m, "INTEGRATE", "ASYNCHRON", IntegrateTimeout)
IntegrateOnCa(m)      == On(m, "INTEGRATE", "CA", LAMBDA d, f : Acknowledged(d, m))

OnAdopted(m, st, Handler(_, _)) ==
  Handles(m, st, "IN_FRAME", Handler) /\ Noted(m, [Blank EXCEPT !.heard = TRUE])

IntegrateOnInFrame(m) == OnAdopted(m, "INTEGRATE", IntegrateInFrame)
UnsyncOnTimeout(m)    == On(m, "UNSYNC", "ASYNCHRON", UnsyncTimeout)
UnsyncOnCs(m)         == On(m, "UNSYNC", "CS", LAMBDA d, f : UnsyncCs(d, f, m))
UnsyncOnCa(m)         == On(m, "UNSYNC", "CA", LAMBDA d, f : Acknowledged(d, m))
UnsyncOnInFrame(m)    == OnAdopted(m, "UNSYNC", UnsyncInFrame)

FloodOnTimeout(m)     == On(m, "FLOOD", "ASYNCHRON", FloodTimeout)
FloodOnCs(m)          == On(m, "FLOOD", "CS", FloodCs)
FloodOnCa(m)          == On(m, "FLOOD", "CA", FloodCa)
FloodOnInFrame(m)     == On(m, "FLOOD", "IN_FRAME", DropInFrame)

WaitCsOnTimeout(m)    == On(m, "WAIT_4_CYCLE_START_CS", "ASYNCHRON", LAMBDA d, e : WaitCsTimeout(d, m))
WaitCsOnCs(m)         == On(m, "WAIT_4_CYCLE_START_CS", "CS", WaitCsCs)
WaitCsOnCa(m)         == On(m, "WAIT_4_CYCLE_START_CS", "CA", LAMBDA d, f : Acknowledged(d, m))
WaitCsOnInFrame(m)    == On(m, "WAIT_4_CYCLE_START_CS", "IN_FRAME", DropInFrame)

WaitCycleOnTimeout(m) == On(m, "WAIT_4_CYCLE_START", "ASYNCHRON", Ignore)
WaitCycleOnFrame(m)   == \E ev \in {"CS", "CA", "IN_FRAME"} : On(m, "WAIT_4_CYCLE_START", ev, WaitCycleOther)

(* While a master is synchronised its history follows frames and evaluations.  *)
OnInFrame(m, st, threshold) ==
  /\ Handles(m, st, "IN_FRAME", InFrame)
  /\ \E f \in Due(sm[m]) :
       /\ f.ev = "IN_FRAME"
       /\ sm'[m] = InFrame([Taken(sm[m], f) EXCEPT !.out = {}], f)
       /\ Noted(m, IF ~OnSchedule(sm[m], f) THEN [seen[m] EXCEPT !.unheard = @ \union f.members]
                   ELSE [seen[m] EXCEPT !.heard = @ \/ (/\ Accepted(Cardinality(f.members))
                                                       /\ Cardinality(f.members) >= threshold)])

OnAsyncEval(m, st, Handler(_, _)) ==
  Handles(m, st, "async_eval", Handler) /\ Noted(m, [seen[m] EXCEPT !.unheard = {}])

OnSyncEval(m, st, Handler(_, _)) ==
  /\ Handles(m, st, "sync_eval", Handler)
  /\ Noted(m, [seen[m] EXCEPT !.silence = IF seen[m].heard THEN 0 ELSE @ + 1, !.heard = FALSE])

TentativeOnCa(m)        == On(m, "TENTATIVE_SYNC", "CA", LAMBDA d, f : TentativeCa(d, m))
TentativeOnOther(m)     == \E ev \in {"CS", "ASYNCHRON"} : On(m, "TENTATIVE_SYNC", ev, Ignore)
TentativeOnInFrame(m)   == OnInFrame(m, "TENTATIVE_SYNC", TentativeThresholdSync)
TentativeOnAsyncEval(m) == OnAsyncEval(m, "TENTATIVE_SYNC", TentativeAsyncEval)
TentativeOnInc(m)       == On(m, "TENTATIVE_SYNC", "inc", Inc)
TentativeOnSyncEval(m)  == OnSyncEval(m, "TENTATIVE_SYNC", TentativeSyncEval)
TentativeOnClockCorr(m) == On(m, "TENTATIVE_SYNC", "clock_corr", ClockCorr)
TentativeOnAsyncUp(m)   == On(m, "TENTATIVE_SYNC", "async_up", AsyncUp)

SyncOnCa(m)             == On(m, "SYNC", "CA", LAMBDA d, f : SyncCa(d, m))
SyncOnOther(m)          == \E ev \in {"CS", "ASYNCHRON"} : On(m, "SYNC", ev, Ignore)
SyncOnInFrame(m)        == OnInFrame(m, "SYNC", SyncThresholdSync)
SyncOnAsyncEval(m)      == OnAsyncEval(m, "SYNC", SyncAsyncEval)
SyncOnInc(m)            == On(m, "SYNC", "inc", Inc)
SyncOnSyncEval(m)       == OnSyncEval(m, "SYNC", SyncSyncEval)
SyncOnClockCorr(m)      == On(m, "SYNC", "clock_corr", ClockCorr)
SyncOnAsyncUp(m)        == On(m, "SYNC", "async_up", AsyncUp)

StableOnCa(m)           == On(m, "STABLE", "CA", LAMBDA d, f : StableCa(d, m))
StableOnInFrame(m)      == OnInFrame(m, "STABLE", StableThresholdSync)
StableOnAsyncEval(m)    == OnAsyncEval(m, "STABLE", StableAsyncEval)
StableOnInc(m)          == On(m, "STABLE", "inc", Inc)
StableOnSyncEval(m)     == OnSyncEval(m, "STABLE", StableSyncEval)
StableOnClockCorr(m)    == On(m, "STABLE", "clock_corr", ClockCorr)
StableOnAsyncUp(m)      == On(m, "STABLE", "async_up", AsyncUp)

Handling(m) ==
  \/ PseudoInc(m) \/ PseudoCorr(m)
  \/ IntegrateOnTimeout(m) \/ IntegrateOnCa(m) \/ IntegrateOnInFrame(m)
  \/ UnsyncOnTimeout(m) \/ UnsyncOnCs(m) \/ UnsyncOnCa(m) \/ UnsyncOnInFrame(m)
  \/ FloodOnTimeout(m) \/ FloodOnCs(m) \/ FloodOnCa(m) \/ FloodOnInFrame(m)
  \/ WaitCsOnTimeout(m) \/ WaitCsOnCs(m) \/ WaitCsOnCa(m) \/ WaitCsOnInFrame(m)
  \/ WaitCycleOnTimeout(m) \/ WaitCycleOnFrame(m)
  \/ TentativeOnCa(m) \/ TentativeOnOther(m) \/ TentativeOnInFrame(m) \/ TentativeOnAsyncEval(m)
  \/ TentativeOnInc(m) \/ TentativeOnSyncEval(m) \/ TentativeOnClockCorr(m) \/ TentativeOnAsyncUp(m)
  \/ SyncOnCa(m) \/ SyncOnOther(m) \/ SyncOnInFrame(m) \/ SyncOnAsyncEval(m)
  \/ SyncOnInc(m) \/ SyncOnSyncEval(m) \/ SyncOnClockCorr(m) \/ SyncOnAsyncUp(m)
  \/ StableOnCa(m) \/ StableOnInFrame(m) \/ StableOnAsyncEval(m)
  \/ StableOnInc(m) \/ StableOnSyncEval(m) \/ StableOnClockCorr(m) \/ StableOnAsyncUp(m)

Quiet == \A m \in Masters : NothingDue(sm[m]) /\ ~sm[m].fault

Tick == /\ Quiet
        /\ sm' = [m \in Masters |-> [TimePasses(sm[m]) EXCEPT !.out = {}]]
        /\ UNCHANGED seen
------------------------------------------------------------------------------
(* Masters in an environment that sends any frame at any tick.                 *)

Fields(kind) ==
  CASE kind = "IN_FRAME" -> Ports \X (0 .. MaxIcys - 1) \X Memberships
    [] kind = "CS"       -> {CHOOSE p \in Ports : TRUE} \X {0} \X Memberships
    [] OTHER             -> {CHOOSE p \in Ports : TRUE} \X {0} \X {{}}

Arrival(m) ==
  \E kinds \in {{"CS", "CA"}, {"IN_FRAME"}} :
    /\ Cardinality(Named(sm[m], kinds)) < MaxPending
    /\ \E kind \in kinds, w \in PermanenceDelays :
         \E x \in Fields(kind) :
           /\ \A e \in Named(sm[m], {kind}) : e.port # x[1]
           /\ Receives(m, Frame(kind, x[1], x[2], x[3], w))

Init == /\ sm \in [Masters -> {Integrate(PowerUp), PseudoSync}]
        /\ seen = [m \in Masters |-> Blank]

Next == Tick \/ \E m \in Masters : Handling(m) \/ Arrival(m)

Spec == Init /\ [][Next]_vars
------------------------------------------------------------------------------
Waiting == {"INTEGRATE", "FLOOD", "WAIT_4_CYCLE_START_CS"}
States  == Waiting \union Synced \union {"PSEUDOSYNC", "UNSYNC", "WAIT_4_CYCLE_START"}

(* The fields keep their ranges; the integration cycle may exceed its last     *)
(* value by one after WAIT_4_CYCLE_START, a port has at most one reading.      *)
TypeOK ==
  \A m \in Masters :
    /\ sm[m].st \in States
    /\ sm[m].clk \in 0 .. Cycle - 1
    /\ sm[m].icyc \in 0 .. MaxIcys
    /\ sm[m].sync \in 0 .. MaxMembership + 2^m
    /\ sm[m].counter \in 0 .. NumStable + NumUnstable
    /\ \A s, t \in sm[m].stack : s.port = t.port => s = t
    /\ \A e \in sm[m].pend : e.left \in Nat

(* A synchronised master has each cyclic event registered once.  In every      *)
(* other state none of them is left, and the states that wait have their timer *)
(* running.  UNSYNC and WAIT_4_CYCLE_START are not among them: a frame of too  *)
(* few members stops the timer of the one, the other ignores its timer.        *)
WakeUps ==
  \A m \in Masters :
    LET once(ev) == Cardinality(Named(sm[m], {ev})) = 1 IN
    ~sm[m].fault =>
      CASE sm[m].st \in Synced       -> /\ \A ev \in Cyclic : once(ev)
                                       /\ Cardinality(Named(sm[m], {"clock_corr"})) <= 1
        [] sm[m].st \in Waiting      -> Named(sm[m], DOMAIN SlotOf) = {} /\ once("ASYNCHRON")
        [] sm[m].st = "PSEUDOSYNC"   -> once("inc") /\ once("clock_corr")
        [] OTHER                     -> Named(sm[m], DOMAIN SlotOf) = {}

(* A master does not stay synchronised to too few: SYNC and TENTATIVE_SYNC end *)
(* at the first evaluation of a cycle without a frame of enough members on     *)
(* schedule, STABLE before num_unstable_cycles of them have passed.            *)
LeavesSilence ==
  \A m \in Masters :
    sm[m].st \in Synced => seen[m].silence <= (IF sm[m].st = "STABLE" THEN NumUnstable - 1 ELSE 0)

(* A master is well-formed, has the events of its state and leaves silence.    *)
Consistent == TypeOK /\ WakeUps /\ LeavesSilence

(* While a master stays synchronised its clock is never moved by more than     *)
(* half the acceptance window.                                                 *)
StepsWithinWindow ==
  [][\A m \in Masters :
       sm[m].st \in Synced /\ sm'[m].st \in Synced =>
         LET ahead == (sm'[m].clk - sm[m].clk) % Cycle
         IN ahead <= AcceptanceWindow \div 2 \/ Cycle - ahead <= AcceptanceWindow \div 2]_vars

ThresholdAsync(st) ==
  CASE st = "TENTATIVE_SYNC" -> TentativeThresholdAsync
    [] st = "SYNC"           -> SyncThresholdAsync
    [] OTHER                 -> StableThresholdAsync

(* Asynchronous clique detection: when the members of the frames that were out *)
(* of schedule since the last evaluation reach the threshold, the master sends *)
(* no IN frame at the next one but leaves its clique.                          *)
CliqueNoticed ==
  [][\A m \in Masters :
       /\ sm[m].st \in Synced
       /\ seen[m].unheard # {} /\ seen'[m].unheard = {}
       /\ Cardinality(seen[m].unheard) >= ThresholdAsync(sm[m].st)
       => sm'[m].st \notin Synced]_vars
=============================================================================
