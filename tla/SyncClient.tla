------------------------------ MODULE SyncClient ------------------------------
(* The AS6802 synchronisation client (SynchronisationClient/): a device that   *)
(* follows the integration (IN) frames of the compression masters and never    *)
(* sends.  One action per message that a state handles.  A handler is an       *)
(* operator from the client's record to its next record.                       *)
EXTENDS Integers, FiniteSets

CONSTANTS
  Cycle, Precision, AcceptanceWindow,
  ReceivePit,          \* smc_scheduled_receive_pit
  MaxIcys,             \* max_integration_cycles
  Ports,               \* ports frames are received on
  Memberships,         \* membership fields of received frames: sets of masters
  MaxMembership, AcceptanceRange,
  PermanenceDelays,    \* ticks from the reception of a frame to its permanence
  ListenTimeout, RestartSync, RestartAsync,
  IntegrateToSync, SyncThresholdSync, SyncThresholdAsync,
  StableThresholdSync, StableThresholdAsync,
  NumStable, NumUnstable, ToStableEnabled,
  Recorded,            \* corrections in the file of an earlier run (par "read")
  MaxPending,          \* bound on frames between reception and permanence
  GoneHorizon          \* bound on the age of a container entry without event

(* The slots of a cycle lie in the order in which the device works, and       *)
(* corrections, which are no larger than the precision, do not reach the next  *)
(* one; the defaults of SC.ned (precision 80, receive pit 374, acceptance      *)
(* window twice the precision, cycle 12500) leave room for many such steps.   *)
ASSUME SlotsInOrder ==
  /\ Precision \in Nat \ {0} /\ AcceptanceWindow \in Nat \ {0}
  /\ ReceivePit \in Nat /\ Cycle \in Nat
  /\ Precision < ReceivePit
  /\ ReceivePit + 3 * Precision + 1 <= Cycle - AcceptanceWindow

(* What is received and what is configured have the ranges of the program.     *)
ASSUME ClientAssumption ==
  /\ MaxIcys \in Nat \ {0} /\ MaxMembership \in Nat /\ AcceptanceRange \in Nat
  /\ IsFiniteSet(Ports)
  /\ IsFiniteSet(UNION Memberships)
  /\ \A m \in Memberships : Cardinality(m) <= MaxMembership
  /\ PermanenceDelays \subseteq Nat /\ Recorded \subseteq Int
  /\ {ListenTimeout, RestartSync, RestartAsync} \subseteq Nat
  /\ {SyncThresholdSync, StableThresholdSync} \subseteq Nat \ {0}
  /\ {IntegrateToSync, SyncThresholdAsync, StableThresholdAsync} \subseteq Int
  /\ NumStable \in Nat /\ NumUnstable \in Nat
  /\ ToStableEnabled \in BOOLEAN

Cyclic == {"async_eval", "sync_eval", "inc", "async_up"}

SlotOf == [async_eval |-> 0,
           sync_eval  |-> ReceivePit + Precision,
           clock_corr |-> ReceivePit + 2 * Precision + 1,
           inc        |-> ReceivePit - Precision,
           async_up   |-> Cycle - AcceptanceWindow]

PriorityOf == [ev \in DOMAIN SlotOf \union {"ASYNCHRON", "IN_FRAME"} |->
                 CASE ev = "IN_FRAME"             -> 2
                   [] ev \in {"inc", "ASYNCHRON"} -> 3
                   [] OTHER                       -> 4]

INSTANCE SyncFollower WITH Slot <- SlotOf, Priority <- PriorityOf, Window <- Precision

VARIABLES
  client,    \* the client's record
  unheard,   \* history: members seen out of schedule since the last async_eval
  heard,     \* history: a frame with enough members was on schedule in this cycle
  silence    \* history: evaluations since the last cycle with such a frame

history == <<unheard, heard, silence>>
vars == <<client, unheard, heard, silence>>
------------------------------------------------------------------------------
(* Each state's constructor, and the parts the handlers of SYNC and STABLE     *)
(* share.                                                                      *)

PowerUp ==
  [st |-> "INIT", clk |-> 0, pend |-> {}, icyc |-> 0, sync |-> 0,
   asyncR |-> {}, asyncF |-> {}, counter |-> 0, stack |-> {}, timedOut |-> FALSE,
   gone |-> {}, fault |-> FALSE]

Integrate(d, timeout) ==
  StartTimer([d EXCEPT !.st = "INTEGRATE", !.timedOut = FALSE], timeout)

PseudoSync == RegisterAll([PowerUp EXCEPT !.st = "PSEUDOSYNC"], {"inc", "clock_corr"})

(* Back to INTEGRATE after a clique detection.                                 *)
Restart(d, timeout) ==
  Integrate(Unregister([ClockCorrection(d, d.clk) EXCEPT
                          !.icyc = 0, !.sync = 0, !.asyncR = {}, !.asyncF = {},
                          !.counter = 0, !.stack = {}], DOMAIN SlotOf),
            timeout)
------------------------------------------------------------------------------
(* A frame arrives (RCin).  In INTEGRATE only one frame is kept for each       *)
(* permanence point: the one with more members, then of the later cycle.       *)

Frame(port, icyc, members, delay) ==
  [ev |-> "IN_FRAME", left |-> delay, listed |-> TRUE, key |-> delay, port |-> port, icyc |-> icyc, members |-> members]

ReceiveIntegrating(d, f) == FileBest(d, f)

Receive(d, f) == {RegisterTimer(d, f)}
------------------------------------------------------------------------------
(* INTEGRATE                                                                   *)

TimedOut(d, e) == [d EXCEPT !.timedOut = TRUE]

IntegrateInFrame(d, f) ==
  LET count   == Cardinality(f.members)
      listed  == (\E g \in Deleted(d, f).gone : g.key = 0) \/ Filed(d, 0) # {}
      set     == ClockCorrection([Erased(Deleted(d, f), 0) EXCEPT !.icyc = f.icyc, !.sync = count],
                                 d.clk - ReceivePit)
      running == IF d.timedOut THEN set ELSE Unregister(set, {"ASYNCHRON"})
  IN CASE ~f.listed /\ ContainerEmpty(d) -> d
       [] count >= IntegrateToSync ->
            RegisterAll([running EXCEPT !.st = "SYNC", !.stack = Inserted(@, Reading(f, count, ReceivePit))], Cyclic)
       [] OTHER -> [set EXCEPT !.fault = ~listed]

(* SYNC and STABLE                                                             *)

SyncAsyncEval(d, e) ==
  IF Cardinality(AsyncMembers(d)) >= SyncThresholdAsync THEN Restart(d, RestartAsync)
  ELSE RegisterNext(d, "async_eval")

StableAsyncEval(d, e) ==
  LET m == RegisterNext(d, "async_eval") IN
  IF Cardinality(AsyncMembers(m)) >= StableThresholdAsync THEN Restart(m, RestartAsync) ELSE m

Evaluated(d) == Register([d EXCEPT !.sync = SyncMembers(d.stack)], "clock_corr")

(* The counter of a client that never becomes STABLE is capped.                *)
Counted(n) == IF ToStableEnabled \/ n < NumStable THEN n + 1 ELSE n

SyncSyncEval(d, e) ==
  LET m    == Evaluated(d)
      next == RegisterNext(m, "sync_eval")
  IN CASE m.sync < SyncThresholdSync -> Restart(m, RestartSync)
       [] m.sync >= SyncThresholdSync /\ (~ToStableEnabled \/ m.counter < NumStable) ->
            [next EXCEPT !.counter = Counted(@)]
       [] OTHER -> [next EXCEPT !.counter = 0, !.st = "STABLE"]

(* mutant: a missed cycle that is tolerated ends without a new registration    *)
StableSyncEval_NotAgain(d, e) ==
  LET m == Evaluated(d) IN
  CASE m.sync >= StableThresholdSync -> RegisterNext([m EXCEPT !.counter = 0], "sync_eval")
    [] m.sync < StableThresholdSync /\ m.counter < NumUnstable -> [m EXCEPT !.counter = @ + 1]
    [] OTHER -> Restart(m, RestartSync)

StableSyncEval(d, e) ==
  LET m    == Evaluated(d)
      next == RegisterNext(m, "sync_eval")
  IN CASE m.sync >= StableThresholdSync -> [next EXCEPT !.counter = 0]
       [] m.sync < StableThresholdSync /\ m.counter < NumUnstable -> [next EXCEPT !.counter = @ + 1]
       [] OTHER -> Restart(m, RestartSync)
------------------------------------------------------------------------------
(* The states' handlers.  After a fault (a deleted message is read or deleted  *)
(* again) nothing is said of the program.                                      *)

Synced == {"SYNC", "STABLE"}

On(st, ev, Handler(_, _)) ==
  /\ client.st = st
  /\ ~client.fault
  /\ \E e \in Due(client) : e.ev = ev /\ client' = Handler(Taken(client, e), e)

Quietly(A) == A /\ UNCHANGED history

PseudoInc  == Quietly(On("PSEUDOSYNC", "inc", Inc))
PseudoCorr == Quietly(\E c \in Recorded :
                        On("PSEUDOSYNC", "clock_corr",
                           LAMBDA d, e : RegisterNext(ClockCorrection(d, c), "clock_corr")))

Arrives(st, Handler(_, _)) ==
  /\ client.st = st
  /\ ~client.fault
  /\ Cardinality(Named(client, {"IN_FRAME"})) < MaxPending
  /\ \E p \in Ports, i \in 0 .. MaxIcys - 1, m \in Memberships, w \in PermanenceDelays :
       /\ \A e \in Named(client, {"IN_FRAME"}) : e.port # p
       /\ client' \in Handler(client, Frame(p, i, m, w))
  /\ UNCHANGED history

IntegrateRCin     == Arrives("INTEGRATE", ReceiveIntegrating)
IntegrateTimeout  == Quietly(On("INTEGRATE", "ASYNCHRON", TimedOut))
IntegrateOnFrame  == /\ On("INTEGRATE", "IN_FRAME", IntegrateInFrame)
                     /\ unheard' = {} /\ heard' = TRUE /\ silence' = 0

(* The histories follow the frames and the evaluations.                        *)
OnFrame(st, threshold) ==
  /\ On(st, "IN_FRAME", InFrame)
  /\ \E f \in Due(client) :
       /\ f.ev = "IN_FRAME"
       /\ client' = InFrame(Taken(client, f), f)
       /\ IF OnSchedule(client, f)
            THEN /\ heard' = (heard \/ Cardinality(f.members) >= threshold)
                 /\ UNCHANGED unheard
            ELSE /\ unheard' = unheard \union f.members
                 /\ UNCHANGED heard
  /\ UNCHANGED silence

OnAsyncEval(st, Handler(_, _)) ==
  On(st, "async_eval", Handler) /\ unheard' = {} /\ UNCHANGED <<heard, silence>>

OnSyncEval(st, Handler(_, _)) ==
  /\ On(st, "sync_eval", Handler)
  /\ silence' = IF heard THEN 0 ELSE silence + 1
  /\ heard' = FALSE
  /\ UNCHANGED unheard

SyncRCin        == Arrives("SYNC", Receive)
SyncOnFrame     == OnFrame("SYNC", SyncThresholdSync)
SyncOnAsyncEval == OnAsyncEval("SYNC", SyncAsyncEval)
SyncOnInc       == Quietly(On("SYNC", "inc", Inc))
SyncOnSyncEval  == OnSyncEval("SYNC", SyncSyncEval)
SyncOnClockCorr == Quietly(On("SYNC", "clock_corr", ClockCorr))
SyncOnAsyncUp   == Quietly(On("SYNC", "async_up", AsyncUp))

StableRCin        == Arrives("STABLE", Receive)
StableOnFrame     == OnFrame("STABLE", StableThresholdSync)
StableOnAsyncEval == OnAsyncEval("STABLE", StableAsyncEval)
StableOnInc       == Quietly(On("STABLE", "inc", Inc))
StableOnSyncEval  == OnSyncEval("STABLE", StableSyncEval)
StableOnClockCorr == Quietly(On("STABLE", "clock_corr", ClockCorr))
StableOnAsyncUp   == Quietly(On("STABLE", "async_up", AsyncUp))

Tick == /\ ~client.fault
        /\ NothingDue(client)
        /\ client' = TimePasses(client)
        /\ UNCHANGED history

Init == /\ client \in {Integrate(PowerUp, ListenTimeout), PseudoSync}
        /\ unheard = {} /\ heard = FALSE /\ silence = 0

Next == \/ PseudoInc \/ PseudoCorr
        \/ IntegrateRCin \/ IntegrateTimeout \/ IntegrateOnFrame
        \/ SyncRCin \/ SyncOnFrame \/ SyncOnAsyncEval \/ SyncOnInc \/ SyncOnSyncEval
        \/ SyncOnClockCorr \/ SyncOnAsyncUp
        \/ StableRCin \/ StableOnFrame \/ StableOnAsyncEval \/ StableOnInc \/ StableOnSyncEval
        \/ StableOnClockCorr \/ StableOnAsyncUp
        \/ Tick

Spec == Init /\ [][Next]_vars
------------------------------------------------------------------------------
States == {"PSEUDOSYNC", "INTEGRATE"} \union Synced

(* The fields keep their ranges: the clock stays in the cycle, counts do not   *)
(* exceed their limits, each port has at most one clock reading.               *)
TypeOK ==
  /\ client.st \in States
  /\ client.clk \in 0 .. Cycle - 1
  /\ client.icyc \in 0 .. MaxIcys - 1
  /\ client.sync \in 0 .. MaxMembership
  /\ \A m \in {client.asyncR, client.asyncF} : m \subseteq UNION Memberships
  /\ client.counter \in 0 .. NumStable + NumUnstable
  /\ \A s, t \in client.stack : s.port = t.port => s = t
  /\ \A e \in client.pend : e.left \in Nat

(* A client that is synchronised has each cyclic event registered once and its *)
(* timer stopped; one that integrates has none of them and its timer runs or   *)
(* has run out.  The events are registered and unregistered one by one in      *)
(* every handler that changes the state: a forgotten one stops the client or   *)
(* acts in the wrong state, a doubled one acts twice a cycle.                  *)
WakeUps ==
  LET once(ev) == Cardinality(Named(client, {ev})) = 1 IN
  CASE client.st \in Synced -> /\ \A ev \in Cyclic : once(ev)
                               /\ Cardinality(Named(client, {"clock_corr"})) <= 1
                               /\ Named(client, {"ASYNCHRON"}) = {}
    [] client.st = "INTEGRATE" -> /\ Named(client, DOMAIN SlotOf) = {}
                                  /\ client.timedOut = (Named(client, {"ASYNCHRON"}) = {})
    [] OTHER -> once("inc") /\ once("clock_corr")

(* A client does not stay synchronised to nobody: SYNC ends at the first       *)
(* evaluation of a cycle without a frame of enough members on schedule, STABLE *)
(* after num_unstable_cycles of them.                                          *)
LeavesSilence ==
  client.st \in Synced => silence <= (IF client.st = "STABLE" THEN NumUnstable ELSE 0)

(* A client is well-formed, has the events of its state and leaves silence.    *)
Consistent == TypeOK /\ WakeUps /\ LeavesSilence

(* While the client stays synchronised its clock is never moved by more than   *)
(* the precision: only readings of this cycle's frames on schedule enter a     *)
(* correction, whatever was received before or is left over.                   *)
StepsWithinPrecision ==
  [][client.st \in Synced /\ client'.st \in Synced =>
       LET ahead == (client'.clk - client.clk) % Cycle
       IN ahead <= Precision \/ Cycle - ahead <= Precision]_vars

(* Asynchronous clique detection: when the members of the frames that were     *)
(* out of schedule since the last evaluation reach the threshold, the client   *)
(* restarts at the next one, on whichever side of the two half-windows (r, f)  *)
(* and of the change of the integration cycle they came.                       *)
CliqueNoticed ==
  [][client.st \in Synced /\ unheard # {} /\ unheard' = {} =>
       (Cardinality(unheard) >= (IF client.st = "SYNC" THEN SyncThresholdAsync ELSE StableThresholdAsync)
          => client'.st = "INTEGRATE")]_vars
=============================================================================
