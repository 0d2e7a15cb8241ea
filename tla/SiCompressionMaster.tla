------------------------ MODULE SiCompressionMaster ------------------------
(* AS6802 compression master for standard integrity synchronisation masters    *)
(* (SICompressionMaster/): it relays coldstart frames, compresses the CA and   *)
(* the IN frames of the masters and sends the compressed IN frame of a cycle   *)
(* while it is synchronised.  One action per message that a state handles; a   *)
(* handler is an operator from the master's record to its next record.         *)
EXTENDS Integers, FiniteSets, Sequences

CONSTANTS
  Cycle, Precision, AcceptanceWindow, ScheduledPit, MaxIcys,
  ObservationWindow, MaxWindows, Overhead, Faulty, DispatchDelay,
  ListenTimeout, RestartTimeout, CaEnabledTimeout, Wait4InTimeout,
  IntegrateToSync, UnsyncToSync, SyncThresholdSync, SyncThresholdAsync,
  StableThresholdSync, StableThresholdAsync, NumStable, NumUnstable,
  ToStableEnabled,
  Recorded,            \* corrections in the file of an earlier run (par "read")
  Memberships,         \* membership fields of received frames
  PermanenceDelays,    \* ticks from the reception of a frame to its permanence
  MaxFrames            \* bound on the frames, and points of frames, in process

SlotOf == [sync_eval  |-> ScheduledPit + AcceptanceWindow \div 2,
           clock_corr |-> ScheduledPit + 2 * Precision + 1,
           inc        |-> ScheduledPit - AcceptanceWindow \div 2,
           scheduled  |-> ScheduledPit]

Cyclic == {"sync_eval", "inc", "scheduled"}

(* Frames become permanent before the windows end, the evaluation comes last.  *)
PriorityOf == [ev \in DOMAIN SlotOf \union {"ASYNCHRON", "CS_FRAME", "CA_FRAME", "IN_FRAME", "OW",
                                            "OW_CA", "CP", "CPCA", "DP", "DPCA"} |->
                 CASE ev = "CS_FRAME"                 -> 0
                   [] ev = "inc"                      -> 1
                   [] ev \in {"CA_FRAME", "IN_FRAME"} -> 2
                   [] ev \in DOMAIN SlotOf \ {"inc"}  -> 4
                   [] OTHER                           -> 3]

INSTANCE CompressionFunction WITH Slot <- SlotOf, Priority <- PriorityOf

VARIABLES
  cm,    \* the record of the master
  seen   \* history of a synchronised master:
         \*   unheard  members seen out of schedule since the last evaluation
         \*   heard    a compressed point was on schedule in this cycle
         \*   silence  evaluations since the last cycle with such a point

vars == <<cm, seen>>
------------------------------------------------------------------------------
(* frames is compressed_frames, acks caCompressedFrames with its key only; out *)
(* the frame that the last step sent.                                          *)
PowerUp ==
  [st |-> "INIT", clk |-> 0, pend |-> {}, icyc |-> 0, sync |-> {}, asyncR |-> {},
   asyncF |-> {}, counter |-> 0, collect |-> {}, clock |-> NoPair,
   frames |-> <<>>, acks |-> {}, out |-> {}, fault |-> FALSE]

PseudoSync == RegisterAll([PowerUp EXCEPT !.st = "PSEUDOSYNC"], {"clock_corr", "inc"})

(* The constructors of the states that wait start the timer.                   *)
Await(d, st, timeout) == StartTimer([d EXCEPT !.st = st], timeout)
StopTimer(d)          == Unregister(d, {"ASYNCHRON"})

Receive(d, f) == RegisterTimer(d, f)

Send(d, kind, icyc, members) ==
  [d EXCEPT !.out = {[kind |-> kind, icyc |-> icyc, members |-> members]}]

Drop(d, e) == d

(* A compressed frame waits for its dispatch.  At most one does (Dispatches),  *)
(* so that dispatch_delay_container is the pending event.                      *)
Collected(d, cp) ==
  RegisterTimer([d EXCEPT !.frames = <<[icyc |-> cp.icyc, members |-> cp.members]>> \o @],
                [ev |-> "DP", left |-> DispatchDelay, icyc |-> cp.icyc, members |-> cp.members])

(* Adopts the cycle of a compressed frame, even of too few masters.            *)
Adopt(d, cp) == [AtScheduledPit(d) EXCEPT !.icyc = cp.icyc, !.sync = cp.members]

Synchronised(d, cp) ==
  RegisterAll([WithReading(Collected(NoAsync(d), cp), cp.members) EXCEPT !.st = "SYNC"], Cyclic)

IntegrateCp(d, cp) ==
  LET set == Adopt(d, cp) IN
  IF Cardinality(cp.members) >= IntegrateToSync THEN Synchronised(StopTimer(set), cp) ELSE set

Unsync(d, e) == [Zero(d) EXCEPT !.st = "UNSYNC"]

UnsyncCp(d, cp) ==
  LET set == Adopt(d, cp) IN
  IF Cardinality(cp.members) >= UnsyncToSync THEN Synchronised(set, cp) ELSE set

Enabled(d) == Await(Zero(d), "CA_ENABLED", CaEnabledTimeout)

(* A coldstart frame is relayed at once, and opens the time for CA frames.     *)
UnsyncCs(d, f) == Enabled(Send(d, "CS", f.icyc, f.members))

(* A compressed CA frame waits for its dispatch as well.                       *)
AckCollected(d, cp) ==
  RegisterTimer([d EXCEPT !.acks = @ \union {cp.members}],
                [ev |-> "DPCA", left |-> DispatchDelay, icyc |-> 0, members |-> cp.members])

UnsyncCpca(d, cp) ==
  IF Cardinality(cp.members) > SyncThresholdSync THEN AckCollected(Enabled(d), cp) ELSE d

(* Out of CM_ENABLED a CA frame is thrown away when it is due.                 *)
DropAck(d, dp) == [d EXCEPT !.acks = @ \ {dp.members}]

SendAck(d, dp) ==
  IF dp.members \in d.acks THEN Send(DropAck(d, dp), "CA", 0, dp.members) ELSE d

EnabledTimeout(d, e) == Await(Zero(d), "WAIT_4_IN", Wait4InTimeout)

Wait4InCp(d, cp) ==
  LET set == Adopt(d, cp) IN
  IF Cardinality(cp.members) >= SyncThresholdSync THEN Synchronised(StopTimer(set), cp) ELSE set

(* mutant: the frame that is replaced stays pending                            *)
Replaced_Pending(d) == [d EXCEPT !.frames = <<>>, !.fault = @ \/ d.frames = <<>>]

(* The collected frame is deleted with its dispatch; the code does not ask     *)
(* whether there is one.                                                       *)
Replaced(d) == [Unregister(d, {"DP"}) EXCEPT !.frames = <<>>, !.fault = @ \/ d.frames = <<>>]

(* SYNC and STABLE: a point in the window replaces one of fewer masters.       *)
SyncedCp(d, cp) ==
  LET n    == Cardinality(cp.members)
      free == IF d.clock.live THEN Replaced(d) ELSE d
  IN CASE ~InSchedule(d)                -> OutOfSchedule(d, cp)
       [] InSchedule(d) /\ Counts(d, n) -> Collected(WithReading(free, AsBits(n)), cp)
       [] OTHER                         -> d

Dispatch(d, dp) ==
  IF d.frames = <<>> THEN [d EXCEPT !.fault = TRUE]
  ELSE Send([d EXCEPT !.frames = <<>>], "IN", Head(d.frames).icyc, Head(d.frames).members)

Restart(d) ==
  Await(Unregister([Zero(d) EXCEPT !.counter = 0, !.clock = NoPair, !.frames = <<>>],
                   DOMAIN SlotOf \union {"DP"}),
        "INTEGRATE", RestartTimeout)

SyncEval(d, e)   == SyncEvaluation(d, SyncThresholdAsync, SyncThresholdSync, ToStableEnabled, Restart, Restart)
StableEval(d, e) == StableEvaluation(d, StableThresholdAsync, StableThresholdSync, Restart)
------------------------------------------------------------------------------
(* The states' handlers.  After a fault (a deleted frame is used, or an event  *)
(* registered twice) nothing is said of the program.                           *)

Synced == {"SYNC", "STABLE"}
Blank  == [unheard |-> {}, heard |-> FALSE, silence |-> 0]

Noted(h) == seen' = IF cm'.st \in Synced THEN h ELSE Blank

Handles(st, ev, Handler(_, _)) ==
  /\ cm.st = st
  /\ ~cm.fault
  /\ \E e \in Due(cm) : e.ev = ev /\ cm' = Handler([Taken(cm, e) EXCEPT !.out = {}], e)

On(st, ev, Handler(_, _)) == Handles(st, ev, Handler) /\ Noted(seen)

RCin(st, kind, f) ==
  /\ cm.st = st
  /\ ~cm.fault
  /\ f.ev = kind
  /\ cm' = Receive([cm EXCEPT !.out = {}], f)
  /\ UNCHANGED seen

PseudoInc  == On("PSEUDOSYNC", "inc", Inc)
PseudoCorr == \E c \in Recorded :
                On("PSEUDOSYNC", "clock_corr", LAMBDA d, e : RegisterNext(Correct(d, c), "clock_corr"))

(* A point that a waiting master adopts is the first it heard.                 *)
OnAdopted(st, Handler(_, _)) == Handles(st, "CP", Handler) /\ Noted([Blank EXCEPT !.heard = TRUE])

IntegrateRCin(f)     == RCin("INTEGRATE", "CS_FRAME", f)
IntegrateRCinIn(f)   == RCin("INTEGRATE", "IN_FRAME", f)
IntegrateRCinCa(f)   == RCin("INTEGRATE", "CA_FRAME", f)
IntegrateOnTimeout   == On("INTEGRATE", "ASYNCHRON", Unsync)
IntegrateOnInFrame   == On("INTEGRATE", "IN_FRAME", Observed)
IntegrateOnWindow    == On("INTEGRATE", "OW", WindowOver)
IntegrateOnCaFrame   == On("INTEGRATE", "CA_FRAME", Observed)
IntegrateOnWindowCa  == On("INTEGRATE", "OW_CA", WindowOver)
IntegrateOnCp        == OnAdopted("INTEGRATE", IntegrateCp)
IntegrateOnCpca      == On("INTEGRATE", "CPCA", Drop)
IntegrateOnCs        == On("INTEGRATE", "CS_FRAME", Drop)

UnsyncRCin(f)        == RCin("UNSYNC", "CS_FRAME", f)
UnsyncRCinIn(f)      == RCin("UNSYNC", "IN_FRAME", f)
UnsyncRCinCa(f)      == RCin("UNSYNC", "CA_FRAME", f)
UnsyncOnInFrame      == On("UNSYNC", "IN_FRAME", Observed)
UnsyncOnWindow       == On("UNSYNC", "OW", WindowOver)
UnsyncOnCaFrame      == On("UNSYNC", "CA_FRAME", Observed)
UnsyncOnWindowCa     == On("UNSYNC", "OW_CA", WindowOver)
UnsyncOnCp           == OnAdopted("UNSYNC", UnsyncCp)
UnsyncOnCs           == On("UNSYNC", "CS_FRAME", UnsyncCs)
UnsyncOnCpca         == On("UNSYNC", "CPCA", UnsyncCpca)
UnsyncOnDpca         == On("UNSYNC", "DPCA", DropAck)

(* CM_ENABLED: a compressed IN frame is lost, as no handler takes its point.   *)
EnabledRCin(f)       == RCin("CA_ENABLED", "CS_FRAME", f)
EnabledRCinIn(f)     == RCin("CA_ENABLED", "IN_FRAME", f)
EnabledRCinCa(f)     == RCin("CA_ENABLED", "CA_FRAME", f)
EnabledOnTimeout     == On("CA_ENABLED", "ASYNCHRON", EnabledTimeout)
EnabledOnInFrame     == On("CA_ENABLED", "IN_FRAME", Observed)
EnabledOnWindow      == On("CA_ENABLED", "OW", WindowOver)
EnabledOnCaFrame     == On("CA_ENABLED", "CA_FRAME", Observed)
EnabledOnWindowCa    == On("CA_ENABLED", "OW_CA", WindowOver)
EnabledOnCpca        == On("CA_ENABLED", "CPCA", AckCollected)
EnabledOnDpca        == On("CA_ENABLED", "DPCA", SendAck)
EnabledOnOther       == \E ev \in {"CS_FRAME", "CP"} : On("CA_ENABLED", ev, Drop)

Wait4InRCin(f)       == RCin("WAIT_4_IN", "CS_FRAME", f)
Wait4InRCinIn(f)     == RCin("WAIT_4_IN", "IN_FRAME", f)
Wait4InRCinCa(f)     == RCin("WAIT_4_IN", "CA_FRAME", f)
Wait4InOnTimeout     == On("WAIT_4_IN", "ASYNCHRON", Unsync)
Wait4InOnInFrame     == On("WAIT_4_IN", "IN_FRAME", Observed)
Wait4InOnWindow      == On("WAIT_4_IN", "OW", WindowOver)
Wait4InOnCaFrame     == On("WAIT_4_IN", "CA_FRAME", Observed)
Wait4InOnWindowCa    == On("WAIT_4_IN", "OW_CA", WindowOver)
Wait4InOnCp          == OnAdopted("WAIT_4_IN", Wait4InCp)
Wait4InOnDpca        == On("WAIT_4_IN", "DPCA", DropAck)
Wait4InOnOther       == \E ev \in {"CS_FRAME", "CPCA"} : On("WAIT_4_IN", ev, Drop)

(* While the master is synchronised its history follows points and evaluations.*)
OnPoint(st) ==
  /\ Handles(st, "CP", SyncedCp)
  /\ \E cp \in Due(cm) :
       /\ cp.ev = "CP"
       /\ cm' = SyncedCp([Taken(cm, cp) EXCEPT !.out = {}], cp)
       /\ Noted(IF InSchedule(cm) THEN [seen EXCEPT !.heard = TRUE]
                ELSE [seen EXCEPT !.unheard = @ \union cp.members])

OnSyncEval(st, Handler(_, _)) ==
  /\ Handles(st, "sync_eval", Handler)
  /\ Noted([unheard |-> {}, heard |-> FALSE, silence |-> IF seen.heard THEN 0 ELSE seen.silence + 1])

SyncRCin(f)          == RCin("SYNC", "CS_FRAME", f)
SyncRCinIn(f)        == RCin("SYNC", "IN_FRAME", f)
SyncRCinCa(f)        == RCin("SYNC", "CA_FRAME", f)
SyncOnInFrame        == On("SYNC", "IN_FRAME", Observed)
SyncOnWindow         == On("SYNC", "OW", WindowOver)
SyncOnCaFrame        == On("SYNC", "CA_FRAME", Observed)
SyncOnWindowCa       == On("SYNC", "OW_CA", WindowOver)
SyncOnCp             == OnPoint("SYNC")
SyncOnDp             == On("SYNC", "DP", Dispatch)
SyncOnClockCorr      == On("SYNC", "clock_corr", ClockCorr)
SyncOnInc            == On("SYNC", "inc", Inc)
SyncOnSyncEval       == OnSyncEval("SYNC", SyncEval)
SyncOnScheduled      == On("SYNC", "scheduled", ScheduledPassed)
SyncOnDpca           == On("SYNC", "DPCA", DropAck)
SyncOnOther          == \E ev \in {"CS_FRAME", "CPCA"} : On("SYNC", ev, Drop)

StableRCin(f)        == RCin("STABLE", "CS_FRAME", f)
StableRCinIn(f)      == RCin("STABLE", "IN_FRAME", f)
StableRCinCa(f)      == RCin("STABLE", "CA_FRAME", f)
StableOnInFrame      == On("STABLE", "IN_FRAME", Observed)
StableOnWindow       == On("STABLE", "OW", WindowOver)
StableOnCaFrame      == On("STABLE", "CA_FRAME", Observed)
StableOnWindowCa     == On("STABLE", "OW_CA", WindowOver)
StableOnCp           == OnPoint("STABLE")
StableOnDp           == On("STABLE", "DP", Dispatch)
StableOnClockCorr    == On("STABLE", "clock_corr", ClockCorr)
StableOnInc          == On("STABLE", "inc", Inc)
StableOnSyncEval     == OnSyncEval("STABLE", StableEval)
StableOnScheduled    == On("STABLE", "scheduled", ScheduledPassed)
StableOnOther        == \E ev \in {"CS_FRAME", "CPCA"} : On("STABLE", ev, Drop)

Receives(f) ==
  \/ IntegrateRCin(f) \/ IntegrateRCinIn(f) \/ IntegrateRCinCa(f)
  \/ UnsyncRCin(f) \/ UnsyncRCinIn(f) \/ UnsyncRCinCa(f)
  \/ EnabledRCin(f) \/ EnabledRCinIn(f) \/ EnabledRCinCa(f)
  \/ Wait4InRCin(f) \/ Wait4InRCinIn(f) \/ Wait4InRCinCa(f)
  \/ SyncRCin(f) \/ SyncRCinIn(f) \/ SyncRCinCa(f)
  \/ StableRCin(f) \/ StableRCinIn(f) \/ StableRCinCa(f)

Handling ==
  \/ PseudoInc \/ PseudoCorr
  \/ IntegrateOnTimeout \/ IntegrateOnInFrame \/ IntegrateOnWindow \/ IntegrateOnCaFrame
  \/ IntegrateOnWindowCa \/ IntegrateOnCp \/ IntegrateOnCpca \/ IntegrateOnCs
  \/ UnsyncOnInFrame \/ UnsyncOnWindow \/ UnsyncOnCaFrame \/ UnsyncOnWindowCa
  \/ UnsyncOnCp \/ UnsyncOnCs \/ UnsyncOnCpca \/ UnsyncOnDpca
  \/ EnabledOnTimeout \/ EnabledOnInFrame \/ EnabledOnWindow \/ EnabledOnCaFrame
  \/ EnabledOnWindowCa \/ EnabledOnCpca \/ EnabledOnDpca \/ EnabledOnOther
  \/ Wait4InOnTimeout \/ Wait4InOnInFrame \/ Wait4InOnWindow \/ Wait4InOnCaFrame
  \/ Wait4InOnWindowCa \/ Wait4InOnCp \/ Wait4InOnDpca \/ Wait4InOnOther
  \/ SyncOnInFrame \/ SyncOnWindow \/ SyncOnCaFrame \/ SyncOnWindowCa \/ SyncOnCp \/ SyncOnDp
  \/ SyncOnClockCorr \/ SyncOnInc \/ SyncOnSyncEval \/ SyncOnScheduled \/ SyncOnDpca \/ SyncOnOther
  \/ StableOnInFrame \/ StableOnWindow \/ StableOnCaFrame \/ StableOnWindowCa \/ StableOnCp
  \/ StableOnDp \/ StableOnClockCorr \/ StableOnInc \/ StableOnSyncEval \/ StableOnScheduled
  \/ StableOnOther

Quiet == NothingDue(cm) /\ ~cm.fault

Tick == Quiet /\ cm' = [Ticked(cm) EXCEPT !.out = {}] /\ UNCHANGED seen
------------------------------------------------------------------------------
(* The environment: the masters send frames of any kind at any tick.           *)

InProcess ==
  Cardinality(Named(cm, {"CS_FRAME", "CA_FRAME", "IN_FRAME", "CP", "CPCA"})) +
    Cardinality(UNION {{<<c.of, c.icyc, i>> : i \in DOMAIN c.got} : c \in cm.collect})

Arrival ==
  /\ InProcess < MaxFrames
  /\ \E w \in PermanenceDelays, members \in Memberships :
       \/ /\ \A e \in Named(cm, {"IN_FRAME"}) : e.members # members
          /\ \E icyc \in 0 .. MaxIcys - 1 : Receives(Frame("IN_FRAME", icyc, members, w))
       \/ /\ \A e \in Named(cm, {"CA_FRAME"}) : e.members # members
          /\ Receives(Frame("CA_FRAME", 0, members, w))
       \/ /\ Named(cm, {"CS_FRAME"}) = {}
          /\ Receives(Frame("CS_FRAME", 0, members, w))

Init == /\ cm \in {Await(PowerUp, "INTEGRATE", ListenTimeout), PseudoSync}
        /\ seen = Blank

Next == Tick \/ Handling \/ Arrival

Spec == Init /\ [][Next]_vars
------------------------------------------------------------------------------
States == Synced \union {"PSEUDOSYNC", "INTEGRATE", "UNSYNC", "CA_ENABLED", "WAIT_4_IN"}

(* The fields keep their ranges.                                               *)
TypeOK ==
  /\ cm.st \in States
  /\ cm.clk \in 0 .. Cycle - 1
  /\ cm.icyc \in 0 .. MaxIcys - 1
  /\ cm.counter \in 0 .. NumStable + NumUnstable
  /\ cm.clock.pit \in 0 .. Cycle - 1
  /\ \A e \in cm.pend : e.left \in Nat

(* A collection of frames has exactly one observation window open, within the  *)
(* limit of windows, whatever state the master is in when it ends.             *)
WindowsOpen ==
  ~cm.fault =>
    /\ \A c, b \in cm.collect : c.of = b.of /\ c.icyc = b.icyc => c = b
    /\ \A c \in cm.collect :
         Cardinality({o \in Named(cm, {WindowOf[c.of]}) : o.icyc = c.icyc}) = 1
    /\ \A o \in Named(cm, {"OW", "OW_CA"}) :
         /\ o.windows <= MaxWindows
         /\ \E c \in cm.collect : WindowOf[c.of] = o.ev /\ c.icyc = o.icyc /\ o.last <= Len(c.got)

(* A synchronised master has each cyclic event registered once; otherwise none *)
(* is left, and the states that wait have their timer running.                 *)
WakeUps ==
  LET once(ev) == Cardinality(Named(cm, {ev})) = 1 IN
  ~cm.fault =>
    CASE cm.st \in Synced       -> /\ \A ev \in Cyclic : once(ev)
                                   /\ Cardinality(Named(cm, {"clock_corr"})) <= 1
                                   /\ Named(cm, {"ASYNCHRON"}) = {}
      [] cm.st = "PSEUDOSYNC"   -> once("inc") /\ once("clock_corr")
      [] cm.st = "UNSYNC"       -> Named(cm, DOMAIN SlotOf \union {"ASYNCHRON"}) = {}
      [] OTHER                  -> Named(cm, DOMAIN SlotOf) = {} /\ once("ASYNCHRON")

(* A compressed IN frame exists exactly while its dispatch is pending, there   *)
(* is one at most, and only while the master is synchronised; a compressed CA  *)
(* frame has its dispatch pending.  So no deleted frame is used.               *)
Dispatches ==
  /\ ~cm.fault
  /\ Len(cm.frames) = Cardinality(Named(cm, {"DP"})) /\ Len(cm.frames) <= 1
  /\ cm.frames # <<>> => cm.st \in Synced
  /\ cm.acks \subseteq {e.members : e \in Named(cm, {"DPCA"})}

(* The master is well-formed, and its events, windows and frames belong        *)
(* together.                                                                   *)
Consistent == TypeOK /\ WindowsOpen /\ WakeUps /\ Dispatches

(* While the master stays synchronised its clock is never moved by more than   *)
(* half the acceptance window.                                                 *)
StepsWithinWindow ==
  [][cm.st \in Synced /\ cm'.st \in Synced =>
       LET ahead == (cm'.clk - cm.clk) % Cycle
       IN ahead <= AcceptanceWindow \div 2 \/ Cycle - ahead <= AcceptanceWindow \div 2]_vars

(* When the masters whose points were out of schedule since the last           *)
(* evaluation reach the threshold, the master leaves its clique.               *)
CliqueNoticed ==
  [][/\ cm.st \in Synced
     /\ seen.unheard # {} /\ seen'.unheard = {}
     /\ Cardinality(seen.unheard) >= (IF cm.st = "SYNC" THEN SyncThresholdAsync ELSE StableThresholdAsync)
     => cm'.st \notin Synced]_vars

(* A master does not stay synchronised to silence: SYNC ends at the evaluation *)
(* of a cycle without a point on schedule, STABLE after num_unstable_cycles.   *)
LeavesSilence == cm.st \in Synced => seen.silence <= (IF cm.st = "STABLE" THEN NumUnstable ELSE 0)

=============================================================================
