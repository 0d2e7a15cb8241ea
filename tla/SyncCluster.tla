---------------------------- MODULE SyncCluster ----------------------------
(* A cluster of synchronisation masters around one compression master for      *)
(* standard integrity (examples/AS6802/synchronization/StandardIntegrity):    *)
(* the devices of SyncMaster and SiCompressionMaster, started in any order,    *)
(* that hear only what the others send.                                        *)
EXTENDS Integers, FiniteSets

CONSTANTS
  Masters,             \* bit indices of the synchronisation masters
  Cycle, Precision, AcceptanceWindow, MaxIcys,
  ReceivePit, ScheduledPit, DispatchDelay,
  TransmissionDelay,   \* max_transmission_delay: from dispatch to permanence
  ObservationWindow, MaxWindows,
  ListenTimeout, ColdstartTimeout, RestartTimeout,
  CsOffset, CaOffset, CaRoundTrip, CaWindow, CaEnabledTimeout, Wait4InTimeout,
  NumStable, NumUnstable,
  Lags,                \* sets of devices (All: the compression master) that may lag
  DriftGap             \* ticks between two lags

VARIABLES
  sm, smSeen,          \* of SyncMaster
  cm, cmSeen,          \* of SiCompressionMaster
  up, down,            \* frames on their way to the compression master, and
                       \* to each synchronisation master
  rest                 \* ticks until a device may lag again

vars == <<sm, smSeen, cm, cmSeen, up, down, rest>>

All == Cardinality(Masters)

SM == INSTANCE SyncMaster WITH
        seen <- smSeen, MaxMembership <- All, AcceptanceRange <- 0,
        RestartSync <- RestartTimeout, RestartAsync <- RestartTimeout,
        IntegrateToWait <- All, IntegrateToSync <- All,
        UnsyncToTentative <- All, UnsyncToSync <- All,
        TentativeThresholdSync <- All, TentativeThresholdAsync <- All, TentativeToSync <- All,
        SyncThresholdSync <- All, SyncThresholdAsync <- All,
        StableThresholdSync <- All, StableThresholdAsync <- All,
        ToStableEnabled <- TRUE, StableCaEnabled <- TRUE,
        StandardIntegrity <- TRUE, HighIntegrity <- FALSE,
        StartIcy <- 0, Recorded <- {}, GoneHorizon <- 0, Ports <- {1}, Memberships <- {},
        PermanenceDelays <- {}, MaxPending <- 0

CM == INSTANCE SiCompressionMaster WITH
        seen <- cmSeen, Overhead <- 0, Faulty <- MaxWindows - 1,
        IntegrateToSync <- All, UnsyncToSync <- All,
        SyncThresholdSync <- All, SyncThresholdAsync <- All,
        StableThresholdSync <- All, StableThresholdAsync <- All,
        ToStableEnabled <- TRUE, Recorded <- {}, Memberships <- {}, PermanenceDelays <- {},
        MaxFrames <- 0

------------------------------------------------------------------------------
(* Frames.  A frame is permanent TransmissionDelay after its dispatch,         *)
(* whenever it is received before that.                                        *)

Sent(f, members) ==
  [kind |-> f.kind, icyc |-> f.icyc, members |-> members, left |-> TransmissionDelay]

SmFrame(x) ==
  SM!Frame(IF x.kind = "IN" THEN "IN_FRAME" ELSE x.kind, 1, x.icyc, x.members, x.left)

CmFrame(x) ==
  CM!Frame(CASE x.kind = "CS" -> "CS_FRAME" [] x.kind = "CA" -> "CA_FRAME" [] x.kind = "IN" -> "IN_FRAME",
           IF x.kind = "IN" THEN x.icyc ELSE 0, x.members, x.left)

SmPowerOn(m) ==
  /\ sm[m].st = "INIT"
  /\ sm' = [sm EXCEPT ![m] = SM!Integrate(@)]
  /\ UNCHANGED <<smSeen, cm, cmSeen, up, down, rest>>

CmPowerOn ==
  /\ cm.st = "INIT"
  /\ cm' = CM!Await(cm, "INTEGRATE", ListenTimeout)
  /\ UNCHANGED <<sm, smSeen, cmSeen, up, down, rest>>

SmHandles(m) ==
  /\ SM!Handling(m)
  /\ up' = up \union {Sent(f, {m}) : f \in sm'[m].out}
  /\ UNCHANGED <<cm, cmSeen, down, rest>>

CmHandles ==
  /\ CM!Handling
  /\ down' = [m \in Masters |-> down[m] \union {Sent(f, f.members) : f \in cm'.out}]
  /\ UNCHANGED <<sm, smSeen, up, rest>>

(* A device that is not switched on yet receives nothing.                      *)
CmReceives ==
  /\ \E x \in up :
       /\ up' = up \ {x}
       /\ IF cm.st = "INIT" THEN UNCHANGED <<cm, cmSeen>> ELSE CM!Receives(CmFrame(x))
  /\ UNCHANGED <<sm, smSeen, down, rest>>

SmReceives(m) ==
  /\ \E x \in down[m] :
       /\ down' = [down EXCEPT ![m] = @ \ {x}]
       /\ IF sm[m].st = "INIT" THEN UNCHANGED <<sm, smSeen>> ELSE SM!Receives(m, SmFrame(x))
  /\ UNCHANGED <<cm, cmSeen, up, rest>>

Aged(frames) == {[x EXCEPT !.left = @ - 1] : x \in frames}

InSync(m) == sm[m].st \in {"SYNC", "STABLE"}

Synchronised == cm.st \in CM!Synced /\ \A m \in Masters : InSync(m)

(* The oscillators drift: a device is a tick behind, at most once in DriftGap  *)
(* ticks of the synchronised network and once in a coldstart.                  *)
Rested(lag) ==
  /\ lag # {} => rest = 0
  /\ rest' = CASE lag # {}                             -> DriftGap
               [] lag = {} /\ Synchronised /\ rest > 0 -> rest - 1
               [] OTHER                                -> rest

Ticks(lag) ==
  /\ sm' = [m \in Masters |-> IF m \in lag THEN [sm[m] EXCEPT !.out = {}]
                              ELSE [SM!TimePasses(sm[m]) EXCEPT !.out = {}]]
  /\ cm' = IF All \in lag THEN [cm EXCEPT !.out = {}] ELSE [CM!Ticked(cm) EXCEPT !.out = {}]
  /\ UNCHANGED <<smSeen, cmSeen>>

Tick ==
  /\ SM!Quiet /\ CM!Quiet
  /\ \E lag \in Lags : Ticks(lag) /\ Rested(lag)
  /\ \A x \in up \union UNION {down[m] : m \in Masters} : x.left > 1
  /\ up' = Aged(up)
  /\ down' = [m \in Masters |-> Aged(down[m])]

Init ==
  /\ sm = [m \in Masters |-> SM!PowerUp]
  /\ smSeen = [m \in Masters |-> SM!Blank]
  /\ cm = CM!PowerUp
  /\ cmSeen = CM!Blank
  /\ rest = 0
  /\ up = {} /\ down = [m \in Masters |-> {}]

Step == Tick \/ CmHandles \/ CmReceives \/ \E m \in Masters : SmHandles(m) \/ SmReceives(m)

Next == Step \/ CmPowerOn \/ \E m \in Masters : SmPowerOn(m)

Spec == Init /\ [][Next]_vars /\ WF_vars(Step) /\ WF_vars(CmPowerOn) /\ \A m \in Masters : WF_vars(SmPowerOn(m))
------------------------------------------------------------------------------
Apart(a, b) == LET n == (a - b) % Cycle IN IF n <= Cycle - n THEN n ELSE Cycle - n

(* Any two masters that hold themselves synchronised are: between two ticks    *)
(* their clocks are at most the precision apart, and where their clocks agree  *)
(* they are in the same integration cycle.  No device uses a deleted message   *)
(* or registers an event twice.                                                *)
Agreement ==
  /\ ~cm.fault /\ \A m \in Masters : ~sm[m].fault
  /\ SM!Quiet /\ CM!Quiet =>
       \A m, n \in Masters : InSync(m) /\ InSync(n) =>
         /\ Apart(sm[m].clk, sm[n].clk) <= Precision
         /\ sm[m].clk = sm[n].clk => sm[m].icyc = sm[n].icyc

(* In whatever order the devices are switched on, and whatever drives them     *)
(* apart on the way, the coldstart ends: all of them are synchronised again    *)
(* and again.                                                                  *)
ColdStarts == []<>Synchronised
=============================================================================
