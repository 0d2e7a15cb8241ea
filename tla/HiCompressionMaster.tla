------------------------ MODULE HiCompressionMaster ------------------------
(* AS6802 compression master for high integrity synchronisation masters        *)
(* (HICompressionMaster/): it relays CA frames at once, CS frames while it is  *)
(* not in SYNC, and dispatches every compressed IN frame.                      *)
(* CM_WAIT_4_CYCLE_START cannot be reached: CM_INTEGRATE asks for a number of  *)
(* members that is at least and below the same threshold.                      *)
EXTENDS Integers, FiniteSets, Sequences

CONSTANTS
  Cycle, Precision, AcceptanceWindow, ScheduledPit, MaxIcys,
  ObservationWindow, MaxWindows, Overhead, Faulty, DispatchDelay,
  ListenTimeout, RestartTimeout,
  IntegrateToSync, UnsyncToSync, UnsyncToTentative,
  TentativeThresholdSync, TentativeThresholdAsync, TentativeToSync,
  SyncThresholdSync, SyncThresholdAsync,
  StableThresholdSync, StableThresholdAsync, NumStable, NumUnstable,
  ToStableEnabled,
  Recorded,            \* corrections in the file of an earlier run (par "read")
  Memberships,         \* membership fields of received frames
  PermanenceDelays,    \* ticks from the reception of a frame to its permanence
  MaxFrames            \* bound on the frames that have not been dispatched

SlotOf == [sync_eval  |-> ScheduledPit + AcceptanceWindow \div 2,
           clock_corr |-> ScheduledPit + 2 * Precision + 1,
           inc        |-> ScheduledPit - AcceptanceWindow \div 2,
           scheduled  |-> ScheduledPit]

Cyclic == {"sync_eval", "inc", "scheduled"}

PriorityOf == [ev \in DOMAIN SlotOf \union {"ASYNCHRON", "CS_FRAME", "CA_FRAME", "IN_FRAME",
                                            "OW", "CP", "DP"} |->
                 CASE ev = "CS_FRAME"                -> 0
                   [] ev \in {"inc", "CA_FRAME"}     -> 1
                   [] ev = "IN_FRAME"                -> 2
                   [] ev \in DOMAIN SlotOf \ {"inc"} -> 4
                   [] OTHER                          -> 3]

INSTANCE CompressionFunction WITH Slot <- SlotOf, Priority <- PriorityOf

VARIABLES
  cm,    \* the record of the master
  seen   \* history of a synchronised master: members unheard, a point heard,
         \* cycles of silence

vars == <<cm, seen>>
------------------------------------------------------------------------------
PowerUp ==
  [st |-> "INIT", clk |-> 0, pend |-> {}, icyc |-> 0, sync |-> {}, asyncR |-> {},
   asyncF |-> {}, counter |-> 0, collect |-> {}, clock |-> NoPair, out |-> {}, fault |-> FALSE]

PseudoSync == RegisterAll([PowerUp EXCEPT !.st = "PSEUDOSYNC"], {"clock_corr", "inc"})

Integrate(d, timeout) == StartTimer([d EXCEPT !.st = "INTEGRATE"], timeout)

Receive(d, f) == RegisterTimer(d, f)

Send(d, kind, icyc, members) ==
  [d EXCEPT !.out = {[kind |-> kind, icyc |-> icyc, members |-> members]}]

Drop(d, e) == d

RelayCa(d, f) == Send(d, "CA", f.icyc, f.members)
RelayCs(d, f) == Send(d, "CS", f.icyc, f.members)

(* A compressed frame waits for its dispatch.  It is found by its message id,  *)
(* which is never used again, so that the event stands for the frame; several  *)
(* may wait, and a restart does not take them back.                            *)
Collected(d, cp) ==
  RegisterTimer(d, [ev |-> "DP", left |-> DispatchDelay, icyc |-> cp.icyc, members |-> cp.members])

Dispatch(d, dp) == Send(d, "IN", dp.icyc, dp.members)

Membership(d, cp) == [NoAsync(d) EXCEPT !.sync = cp.members, !.icyc = cp.icyc]

Synchronised(d, cp, st) ==
  RegisterAll([WithReading(AtScheduledPit(Membership(d, cp)), cp.members) EXCEPT !.st = st], Cyclic)

Unsync(d, e) == [Zero(d) EXCEPT !.st = "UNSYNC"]

(* The memberships are taken over even from too few masters, the clock is not. *)
IntegrateCp(d, cp) ==
  LET set == Membership(Collected(d, cp), cp) IN
  IF Cardinality(cp.members) >= IntegrateToSync
    THEN Synchronised(Unregister(set, {"ASYNCHRON"}), cp, "SYNC") ELSE set

UnsyncCp(d, cp) ==
  LET n == Cardinality(cp.members)
      m == Collected(d, cp)
  IN CASE n >= UnsyncToSync                            -> Synchronised(m, cp, "SYNC")
       [] n < UnsyncToSync /\ n >= UnsyncToTentative   -> Synchronised(m, cp, "TENTATIVE_SYNC")
       [] OTHER                                        -> m

(* TENTATIVE_SYNC, SYNC and STABLE: every point is dispatched, the one in the  *)
(* window of most masters, then the latest, counts for the clock.              *)
SyncedCp(d, cp) ==
  LET n == Cardinality(cp.members)
      m == Collected(d, cp)
  IN CASE ~InSchedule(d)                -> OutOfSchedule(m, cp)
       [] InSchedule(d) /\ Counts(d, n) -> WithReading(m, AsBits(n))
       [] OTHER                         -> m

(* mutant: an event of the cycle stays registered                              *)
Lost_Scheduled(d) == Unregister([Zero(d) EXCEPT !.counter = 0, !.clock = NoPair], {"clock_corr", "inc"})

Lost(d) == Unregister([Zero(d) EXCEPT !.counter = 0, !.clock = NoPair], DOMAIN SlotOf)

Restart(d) == Integrate(Lost(d), RestartTimeout)

BackToTentative(d) == [RegisterNext(d, "sync_eval") EXCEPT !.counter = 0, !.st = "TENTATIVE_SYNC"]

SyncEval(d, e) ==
  SyncEvaluation(d, SyncThresholdAsync, SyncThresholdSync, ToStableEnabled, Restart, BackToTentative)

StableEval(d, e) == StableEvaluation(d, StableThresholdAsync, StableThresholdSync, Restart)

TentativeEval(d, e) ==
  LET m    == Register(d, "clock_corr")
      done == Evaluated(m)
      n    == Cardinality(done.sync)
      next == RegisterNext(done, "sync_eval")
      lost == [Lost(done) EXCEPT !.st = "UNSYNC"]
  IN CASE Clique(m, TentativeThresholdAsync) \/ n < TentativeThresholdSync -> lost
       [] ~Clique(m, TentativeThresholdAsync) /\ n >= TentativeThresholdSync /\ n >= TentativeToSync ->
            [next EXCEPT !.st = "SYNC"]
       [] OTHER -> next
------------------------------------------------------------------------------
(* The states' handlers.  After a fault (an event registered twice) nothing is *)
(* said of the program.                                                        *)

Synced == {"TENTATIVE_SYNC", "SYNC", "STABLE"}
Blank  == [unheard |-> {}, heard |-> FALSE, silence |-> 0]

Noted(h) == seen' = IF cm'.st \in Synced THEN h ELSE Blank

Handles(st, ev, Handler(_, _)) ==
  /\ cm.st = st
  /\ ~cm.fault
  /\ \E e \in Due(cm) : e.ev = ev /\ cm' = Handler([Taken(cm, e) EXCEPT !.out = {}], e)

On(st, ev, Handler(_, _)) == Handles(st, ev, Handler) /\ Noted(seen)

RCin(st, kinds, f) ==
  /\ cm.st = st
  /\ ~cm.fault
  /\ f.ev \in kinds
  /\ cm' = Receive([cm EXCEPT !.out = {}], f)
  /\ UNCHANGED seen

Coldstart == {"CS_FRAME", "CA_FRAME"}

PseudoInc  == On("PSEUDOSYNC", "inc", Inc)
PseudoCorr == \E c \in Recorded :
                On("PSEUDOSYNC", "clock_corr", LAMBDA d, e : RegisterNext(Correct(d, c), "clock_corr"))

OnAdopted(st, Handler(_, _)) == Handles(st, "CP", Handler) /\ Noted([Blank EXCEPT !.heard = TRUE])

IntegrateRCin(f)     == RCin("INTEGRATE", Coldstart, f)
IntegrateRCinIn(f)   == RCin("INTEGRATE", {"IN_FRAME"}, f)
IntegrateOnTimeout   == On("INTEGRATE", "ASYNCHRON", Unsync)
IntegrateOnInFrame   == On("INTEGRATE", "IN_FRAME", Observed)
IntegrateOnWindow    == On("INTEGRATE", "OW", WindowOver)
IntegrateOnCa        == On("INTEGRATE", "CA_FRAME", RelayCa)
IntegrateOnCs        == On("INTEGRATE", "CS_FRAME", Drop)
IntegrateOnCp        == OnAdopted("INTEGRATE", IntegrateCp)
IntegrateOnDp        == On("INTEGRATE", "DP", Dispatch)

UnsyncRCin(f)        == RCin("UNSYNC", Coldstart, f)
UnsyncRCinIn(f)      == RCin("UNSYNC", {"IN_FRAME"}, f)
UnsyncOnInFrame      == On("UNSYNC", "IN_FRAME", Observed)
UnsyncOnWindow       == On("UNSYNC", "OW", WindowOver)
UnsyncOnCa           == On("UNSYNC", "CA_FRAME", RelayCa)
UnsyncOnCs           == On("UNSYNC", "CS_FRAME", RelayCs)
UnsyncOnCp           == OnAdopted("UNSYNC", UnsyncCp)
UnsyncOnDp           == On("UNSYNC", "DP", Dispatch)

OnPoint(st) ==
  /\ Handles(st, "CP", SyncedCp)
  /\ \E cp \in Due(cm) :
       /\ cp.ev = "CP"
       /\ cm' = SyncedCp([Taken(cm, cp) EXCEPT !.out = {}], cp)
       /\ Noted(IF InSchedule(cm) THEN [seen EXCEPT !.heard = TRUE]
                ELSE [seen EXCEPT !.unheard = @ \union cp.members])

OnSyncEval(st, Handler(_, _)) ==
  /\ Handles(st, "sync_eval", Handler)
  /\ Noted([unheard |-> {}, heard |-> FALSE, silence |-> IF seen.heard THEN 0 ELSE seen.silence + 1])

TentativeRCin(f)     == RCin("TENTATIVE_SYNC", Coldstart, f)
TentativeRCinIn(f)   == RCin("TENTATIVE_SYNC", {"IN_FRAME"}, f)
TentativeOnInFrame   == On("TENTATIVE_SYNC", "IN_FRAME", Observed)
TentativeOnWindow    == On("TENTATIVE_SYNC", "OW", WindowOver)
TentativeOnCa        == On("TENTATIVE_SYNC", "CA_FRAME", RelayCa)
TentativeOnCs        == On("TENTATIVE_SYNC", "CS_FRAME", RelayCs)
TentativeOnCp        == OnPoint("TENTATIVE_SYNC")
TentativeOnDp        == On("TENTATIVE_SYNC", "DP", Dispatch)
TentativeOnClockCorr == On("TENTATIVE_SYNC", "clock_corr", ClockCorr)
TentativeOnInc       == On("TENTATIVE_SYNC", "inc", Inc)
TentativeOnSyncEval  == OnSyncEval("TENTATIVE_SYNC", TentativeEval)
TentativeOnScheduled == On("TENTATIVE_SYNC", "scheduled", ScheduledPassed)

SyncRCin(f)          == RCin("SYNC", Coldstart, f)
SyncRCinIn(f)        == RCin("SYNC", {"IN_FRAME"}, f)
SyncOnInFrame        == On("SYNC", "IN_FRAME", Observed)
SyncOnWindow         == On("SYNC", "OW", WindowOver)
SyncOnCa             == On("SYNC", "CA_FRAME", RelayCa)
SyncOnCs             == On("SYNC", "CS_FRAME", Drop)
SyncOnCp             == OnPoint("SYNC")
SyncOnDp             == On("SYNC", "DP", Dispatch)
SyncOnClockCorr      == On("SYNC", "clock_corr", ClockCorr)
SyncOnInc            == On("SYNC", "inc", Inc)
SyncOnSyncEval       == OnSyncEval("SYNC", SyncEval)
SyncOnScheduled      == On("SYNC", "scheduled", ScheduledPassed)

StableRCin(f)        == RCin("STABLE", Coldstart, f)
StableRCinIn(f)      == RCin("STABLE", {"IN_FRAME"}, f)
StableOnInFrame      == On("STABLE", "IN_FRAME", Observed)
StableOnWindow       == On("STABLE", "OW", WindowOver)
StableOnCa           == On("STABLE", "CA_FRAME", RelayCa)
StableOnCs           == On("STABLE", "CS_FRAME", Drop)
StableOnCp           == OnPoint("STABLE")
StableOnDp           == On("STABLE", "DP", Dispatch)
StableOnClockCorr    == On("STABLE", "clock_corr", ClockCorr)
StableOnInc          == On("STABLE", "inc", Inc)
StableOnSyncEval     == OnSyncEval("STABLE", StableEval)
StableOnScheduled    == On("STABLE", "scheduled", ScheduledPassed)

Receives(f) ==
  \/ IntegrateRCin(f) \/ IntegrateRCinIn(f) \/ UnsyncRCin(f) \/ UnsyncRCinIn(f)
  \/ TentativeRCin(f) \/ TentativeRCinIn(f) \/ SyncRCin(f) \/ SyncRCinIn(f)
  \/ StableRCin(f) \/ StableRCinIn(f)

Handling ==
  \/ PseudoInc \/ PseudoCorr
  \/ IntegrateOnTimeout \/ IntegrateOnInFrame \/ IntegrateOnWindow \/ IntegrateOnCa
  \/ IntegrateOnCs \/ IntegrateOnCp \/ IntegrateOnDp
  \/ UnsyncOnInFrame \/ UnsyncOnWindow \/ UnsyncOnCa \/ UnsyncOnCs \/ UnsyncOnCp \/ UnsyncOnDp
  \/ TentativeOnInFrame \/ TentativeOnWindow \/ TentativeOnCa \/ TentativeOnCs \/ TentativeOnCp
  \/ TentativeOnDp \/ TentativeOnClockCorr \/ TentativeOnInc \/ TentativeOnSyncEval
  \/ TentativeOnScheduled
  \/ SyncOnInFrame \/ SyncOnWindow \/ SyncOnCa \/ SyncOnCs \/ SyncOnCp \/ SyncOnDp
  \/ SyncOnClockCorr \/ SyncOnInc \/ SyncOnSyncEval \/ SyncOnScheduled
  \/ StableOnInFrame \/ StableOnWindow \/ StableOnCa \/ StableOnCs \/ StableOnCp \/ StableOnDp
  \/ StableOnClockCorr \/ StableOnInc \/ StableOnSyncEval \/ StableOnScheduled

Quiet == NothingDue(cm) /\ ~cm.fault

Tick == Quiet /\ cm' = [Ticked(cm) EXCEPT !.out = {}] /\ UNCHANGED seen
------------------------------------------------------------------------------
(* The environment: the masters send frames of any kind at any tick.           *)

InProcess ==
  Cardinality(Named(cm, {"CS_FRAME", "CA_FRAME", "IN_FRAME", "CP", "DP"})) +
    Cardinality(UNION {{<<c.icyc, i>> : i \in DOMAIN c.got} : c \in cm.collect})

Arrival ==
  /\ InProcess < MaxFrames
  /\ \E w \in PermanenceDelays, members \in Memberships :
       \/ /\ \A e \in Named(cm, {"IN_FRAME"}) : e.members # members
          /\ \E icyc \in 0 .. MaxIcys - 1 : Receives(Frame("IN_FRAME", icyc, members, w))
       \/ \E kind \in Coldstart : /\ Named(cm, {kind}) = {}
                                  /\ Receives(Frame(kind, 0, members, w))

Init == /\ cm \in {Integrate(PowerUp, ListenTimeout), PseudoSync}
        /\ seen = Blank

Next == Tick \/ Handling \/ Arrival

Spec == Init /\ [][Next]_vars
------------------------------------------------------------------------------
States == Synced \union {"PSEUDOSYNC", "INTEGRATE", "UNSYNC"}

(* The fields keep their ranges.                                               *)
TypeOK ==
  /\ cm.st \in States
  /\ cm.clk \in 0 .. Cycle - 1
  /\ cm.icyc \in 0 .. MaxIcys - 1
  /\ cm.counter \in 0 .. NumStable + NumUnstable
  /\ cm.clock.pit \in 0 .. Cycle - 1
  /\ \A e \in cm.pend : e.left \in Nat

(* A collection of frames has exactly one observation window open, within the  *)
(* limit of windows, whatever state the master is in when it ends.             *)
WindowsOpen ==
  ~cm.fault =>
    /\ \A c, b \in cm.collect : c.icyc = b.icyc => c = b
    /\ \A c \in cm.collect : Cardinality({o \in Named(cm, {"OW"}) : o.icyc = c.icyc}) = 1
    /\ \A o \in Named(cm, {"OW"}) :
         /\ o.windows <= MaxWindows
         /\ \E c \in cm.collect : c.icyc = o.icyc /\ o.last <= Len(c.got)

(* A synchronised master has each cyclic event registered once; otherwise none *)
(* is left, and CM_INTEGRATE has its timer running.  No event is registered    *)
(* twice.                                                                      *)
WakeUps ==
  LET once(ev) == Cardinality(Named(cm, {ev})) = 1 IN
  /\ ~cm.fault
  /\ CASE cm.st \in Synced       -> /\ \A ev \in Cyclic : once(ev)
                                    /\ Cardinality(Named(cm, {"clock_corr"})) <= 1
                                    /\ Named(cm, {"ASYNCHRON"}) = {}
       [] cm.st = "PSEUDOSYNC"   -> once("inc") /\ once("clock_corr")
       [] cm.st = "UNSYNC"       -> Named(cm, DOMAIN SlotOf \union {"ASYNCHRON"}) = {}
       [] OTHER                  -> Named(cm, DOMAIN SlotOf) = {} /\ once("ASYNCHRON")

(* A master does not stay synchronised to silence: SYNC falls back at the      *)
(* evaluation of the first cycle without a point on schedule, TENTATIVE_SYNC   *)
(* ends at the second, STABLE after num_unstable_cycles.                       *)
LeavesSilence ==
  seen.silence <= CASE cm.st = "STABLE"         -> NumUnstable
                    [] cm.st = "TENTATIVE_SYNC" -> 1
                    [] OTHER                    -> 0

(* The master is well-formed, has the events and windows of its state and      *)
(* leaves silence.                                                             *)
Consistent == TypeOK /\ WindowsOpen /\ WakeUps /\ LeavesSilence

(* While the master stays synchronised its clock is never moved by more than   *)
(* half the acceptance window.                                                 *)
StepsWithinWindow ==
  [][cm.st \in Synced /\ cm'.st \in Synced =>
       LET ahead == (cm'.clk - cm.clk) % Cycle
       IN ahead <= AcceptanceWindow \div 2 \/ Cycle - ahead <= AcceptanceWindow \div 2]_vars

ThresholdAsync(st) ==
  CASE st = "TENTATIVE_SYNC" -> TentativeThresholdAsync
    [] st = "SYNC"           -> SyncThresholdAsync
    [] OTHER                 -> StableThresholdAsync

(* When the masters whose points were out of schedule since the last           *)
(* evaluation reach the threshold, the master leaves its clique.               *)
CliqueNoticed ==
  [][/\ cm.st \in Synced
     /\ seen.unheard # {} /\ seen'.unheard = {}
     /\ Cardinality(seen.unheard) >= ThresholdAsync(cm.st)
     => cm'.st \notin Synced]_vars
=============================================================================
