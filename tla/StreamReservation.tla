------------------------- MODULE StreamReservation -------------------------
(* Stream reservation (services/avb/SRP and the AVB traffic applications) in a *)
(* tree of nodes with the talkers at its root.  TalkerAdvertise goes down to   *)
(* the sinks; ListenerReady goes up and reserves bandwidth at the port of each *)
(* node that it comes in; the tables forget listeners that are not refreshed.  *)
EXTENDS Integers, Sequences, FiniteSets, FiniteSetsExt, SequencesExt

CONSTANTS
  Nodes, Root,
  Up,               \* [Nodes \ {Root} -> Nodes], the node towards the talkers
  Streams,
  Bandwidth,        \* [Streams -> Nat]
  Reservable,       \* [Nodes \ {Root} -> Nat], at the port to a node, less its
                    \* AVBHigherPriorityBandwidth
  Sinks,            \* the sink applications
  NodeOf,           \* [Sinks -> Nodes]
  StreamOf,         \* [Sinks -> Streams]
  UpdateInterval,   \* [Sinks -> Nat], 0: never
  RetryInterval,    \* [Sinks -> Nat], 0: never
  AgingTime,
  MaxDelay          \* bound on the time of a frame on a link

ASSUME TreeAssumption ==
  /\ Root \in Nodes
  /\ Up \in [Nodes \ {Root} -> Nodes]
  /\ Reservable \in [Nodes \ {Root} -> Nat]

ASSUME StreamAssumption ==
  /\ Bandwidth \in [Streams -> Nat]
  /\ IsFiniteSet(Sinks) /\ Sinks \intersect Nodes = {}
  /\ NodeOf \in [Sinks -> Nodes]
  /\ StreamOf \in [Sinks -> Streams]
  /\ UpdateInterval \in [Sinks -> Nat]
  /\ RetryInterval \in [Sinks -> Nat]

ASSUME TimeAssumption == AgingTime \in Nat \ {0} /\ MaxDelay \in Nat

VARIABLES
  table,            \* the SRPTable of each node: talkers, listeners, nextAging
  timers,           \* self messages of each sink: ticks until they are due
  streaming,        \* isStreaming of the source of each stream
  up,               \* frames from each node to the one above, in order
  down              \* frames to each node from the one above

vars == <<table, timers, streaming, up, down>>

Below    == Nodes \ {Root}
Children(n) == {c \in Below : Up[c] = n}

(* nextAging is kept as the time that is left, 0 in the code is Unset; of an   *)
(* entry its age is kept, up to the aging time.                                *)
Unset == -1
Empty == [talkers |-> {}, listeners |-> {}, nextAging |-> Unset]
------------------------------------------------------------------------------
(* A table t.  A listener is an application or the port to a node below.       *)

Registered(t, s, port) == \E e \in t.listeners : e.stream = s /\ e.port = port
HasListeners(t, s)     == \E e \in t.listeners : e.stream = s
Utilized(t, port) ==
  MapThenSumSet(LAMBDA e : Bandwidth[e.stream], {e \in t.listeners : e.port = port})

(* removeAgedEntriesIfNeeded(): nextAging is cleared, and lowered only to what *)
(* is below 0, so that it stays so for the entries that are left.              *)
Swept(t) ==
  IF t.nextAging # 0 THEN t
  ELSE [t EXCEPT !.listeners = {e \in @ : e.age < AgingTime}, !.nextAging = Unset]

Renewed(t, s, ports) ==
  [t EXCEPT !.listeners = {e \in @ : e.stream # s \/ e.port \notin ports}
                            \union {[stream |-> s, port |-> p, age |-> 0] : p \in ports}]

(* updateListener(): the signal it emits looks for the talker, which sweeps.   *)
UpdateListeners(t, s, ports) ==
  [Swept(Renewed(t, s, ports)) EXCEPT !.nextAging = IF @ = Unset THEN AgingTime ELSE @]
------------------------------------------------------------------------------
(* The signals of a handler that takes the table of n from t to swept, where   *)
(* aged entries are gone, and then to u, where listeners are new.              *)

(* A sink that timed out tries again later.                                    *)
Retries(n, t, u) ==
  [a \in Sinks |->
     IF Registered(t, StreamOf[a], a) /\ ~Registered(u, StreamOf[a], a) /\ NodeOf[a] = n /\ RetryInterval[a] > 0
       THEN Append(timers[a], RetryInterval[a]) ELSE timers[a]]

(* A source stops with its last listener and starts with a new one.            *)
Sources(n, t, swept, u) ==
  [s \in Streams |->
     IF n # Root THEN streaming[s]
     ELSE \/ \E e \in u.listeners : e.stream = s /\ ~Registered(swept, s, e.port)
          \/ streaming[s] /\ (HasListeners(t, s) => HasListeners(swept, s))]

(* What is left of t when entries were renewed before the sweep.               *)
Left(t, u) == [t EXCEPT !.listeners = {e \in @ : Registered(u, e.stream, e.port)}]

Signals(n, t, swept, u) ==
  /\ table' = [table EXCEPT ![n] = u]
  /\ streaming' = Sources(n, t, swept, u)

(* SRProtocol sends towards the talker, unless that is an application.         *)
Sent(queues, n, kind, s, count) ==
  [m \in Below |-> IF m = n THEN queues[m] \o [i \in 1 .. count |-> [kind |-> kind, stream |-> s, age |-> 0]]
                   ELSE queues[m]]
------------------------------------------------------------------------------
(* The signal of a new talker: SRProtocol announces it on the other ports, and *)
(* the sinks of the node register.                                             *)
Advertised(n, s, queues) ==
  [m \in Below |->
     IF m \in Children(n) THEN Append(queues[m], [stream |-> s, age |-> 0]) ELSE queues[m]]

Asking(n, s) == {a \in Sinks : NodeOf[a] = n /\ StreamOf[a] = s}

(* A talker is registered at n.                                                *)
Announce(n, s, queues) ==
  LET asking == Asking(n, s)
      known  == [table[n] EXCEPT !.talkers = @ \union {s}]
      u      == IF asking = {} THEN known ELSE UpdateListeners(known, s, asking)
  IN /\ Signals(n, known, Left(known, u), u)
     /\ timers' = [a \in Sinks |->
                     IF a \in asking /\ UpdateInterval[a] > 0
                       THEN Append(timers[a], UpdateInterval[a]) ELSE Retries(n, known, u)[a]]
     /\ up' = Sent(up, n, "Ready", s, Cardinality(asking))
     /\ down' = Advertised(n, s, queues)

StartSource(s) == s \notin table[Root].talkers /\ Announce(Root, s, down)

TalkerAdvertise(n) ==
  down[n] # <<>> /\ Announce(n, Head(down[n]).stream, [down EXCEPT ![n] = Tail(@)])

Arriving(c, kinds) == up[c] # <<>> /\ Head(up[c]).kind \in kinds
Received(c)        == [up EXCEPT ![c] = Tail(@)]

(* mutant: a listener of the stream at another port makes it an update         *)
Admitted_AnyPort(t, s, port) ==
  HasListeners(t, s) \/ Utilized(t, port) + Bandwidth[s] <= Reservable[port]

(* mutant: an update is admitted like a new listener                           *)
Admitted_UpdateAsNew(t, s, port) == Utilized(t, port) + Bandwidth[s] <= Reservable[port]

(* An update is admitted without a look at the bandwidth.                      *)
Admitted(t, s, port) == Registered(t, s, port) \/ Utilized(t, port) + Bandwidth[s] <= Reservable[port]

(* ListenerReady on the port to c: an update or a new listener that fits, and  *)
(* the stream is asked for further up; or the request fails.                   *)
ListenerReady(c) ==
  LET n     == Up[c]
      s     == Head(up[c]).stream
      t     == table[n]
      swept == Swept(t)
      u     == UpdateListeners(swept, s, {c})
  IN /\ Arriving(c, {"Ready"})
     /\ Admitted(swept, s, c)
     /\ Signals(n, t, swept, u)
     /\ timers' = Retries(n, t, u)
     /\ up' = Sent(Received(c), n, "Ready", s, 1)
     /\ UNCHANGED down

ListenerFails(c) ==
  LET n     == Up[c]
      s     == Head(up[c]).stream
      t     == table[n]
      swept == Swept(t)
  IN /\ Arriving(c, {"Ready"})
     /\ ~Admitted(swept, s, c)
     /\ Signals(n, t, swept, swept)
     /\ timers' = Retries(n, t, swept)
     /\ up' = Sent(Received(c), n, IF HasListeners(swept, s) THEN "ReadyFailed" ELSE "AskingFailed", s, 1)
     /\ UNCHANGED down

(* ListenerAskingFailed is handed on, away from the sink that asked.           *)
ListenerAskingFailed(c) ==
  LET n == Up[c] IN
  /\ Arriving(c, {"AskingFailed"})
  /\ Signals(n, table[n], Swept(table[n]), Swept(table[n]))
  /\ timers' = Retries(n, table[n], Swept(table[n]))
  /\ up' = Sent(Received(c), n, "AskingFailed", Head(up[c]).stream, 1)
  /\ UNCHANGED down

(* ListenerReadyFailed has no handler.                                         *)
ListenerReadyFailed(c) ==
  /\ Arriving(c, {"ReadyFailed"})
  /\ up' = Received(c)
  /\ UNCHANGED <<table, timers, streaming, down>>

(* A self message of sink a, an update or a retry, registers it again.         *)
Subscribe(a) ==
  LET n == NodeOf[a]
      s == StreamOf[a]
      t == table[n]
      u == UpdateListeners(t, s, {a})
  IN \E i \in DOMAIN timers[a] :
       /\ timers[a][i] = 0
       /\ Signals(n, t, Left(t, u), u)
       /\ timers' = [Retries(n, t, u) EXCEPT
                       ![a] = RemoveAt(timers[a], i) \o (IF UpdateInterval[a] > 0 THEN <<UpdateInterval[a]>> ELSE <<>>)]
       /\ up' = Sent(up, n, "Ready", s, 1)
       /\ UNCHANGED down

(* The shapers of a node ask for the reserved bandwidth whenever they handle   *)
(* frames of a stream.                                                         *)
GetBandwidth(n) ==
  /\ table[n].nextAging = 0
  /\ Signals(n, table[n], Swept(table[n]), Swept(table[n]))
  /\ timers' = Retries(n, table[n], Swept(table[n]))
  /\ UNCHANGED <<up, down>>

Older(f, limit) == [f EXCEPT !.age = IF @ < limit THEN @ + 1 ELSE @]

Tick ==
  /\ \A a \in Sinks : 0 \notin Range(timers[a])
  /\ \A n \in Below : \A q \in {up[n], down[n]} : q # <<>> => Head(q).age < MaxDelay
  /\ table' = [n \in Nodes |->
                 [table[n] EXCEPT !.listeners = {Older(e, AgingTime) : e \in @},
                                  !.nextAging = IF @ > 0 THEN @ - 1 ELSE @]]
  /\ timers' = [a \in Sinks |-> [i \in DOMAIN timers[a] |-> timers[a][i] - 1]]
  /\ up' = [n \in Below |-> [i \in DOMAIN up[n] |-> Older(up[n][i], MaxDelay)]]
  /\ down' = [n \in Below |-> [i \in DOMAIN down[n] |-> Older(down[n][i], MaxDelay)]]
  /\ UNCHANGED streaming

Init ==
  /\ table = [n \in Nodes |-> Empty]
  /\ timers = [a \in Sinks |-> <<>>]
  /\ streaming = [s \in Streams |-> FALSE]
  /\ up = [n \in Below |-> <<>>]
  /\ down = [n \in Below |-> <<>>]

Progress ==
  \/ Tick
  \/ \E s \in Streams : StartSource(s)
  \/ \E n \in Below : TalkerAdvertise(n)
  \/ \E c \in Below : ListenerReady(c) \/ ListenerFails(c) \/ ListenerAskingFailed(c) \/ ListenerReadyFailed(c)
  \/ \E a \in Sinks : Subscribe(a)

Next == Progress \/ \E n \in Nodes : GetBandwidth(n)

Spec == Init /\ [][Next]_vars /\ WF_vars(Progress) /\ \A s \in Streams : WF_vars(StartSource(s))
------------------------------------------------------------------------------
Entries == [stream : Streams, port : Below \union Sinks, age : 0 .. AgingTime]
Tables  == [talkers : SUBSET Streams, listeners : SUBSET Entries, nextAging : Unset .. AgingTime]
Requests ==
  [kind : {"Ready", "AskingFailed", "ReadyFailed"}, stream : Streams, age : 0 .. MaxDelay]
Adverts == [stream : Streams, age : 0 .. MaxDelay]

TypeOK ==
  /\ table \in [Nodes -> Tables]
  /\ timers \in [Sinks -> Seq(Nat)]
  /\ streaming \in [Streams -> BOOLEAN]
  /\ up \in [Below -> Seq(Requests)]
  /\ down \in [Below -> Seq(Adverts)]

(* Requests and the timers of sinks come only where the talker is known;       *)
(* elsewhere the protocol would end with "talkerTable entry not found" or "no  *)
(* talker for stream".                                                         *)
TalkersKnown ==
  /\ \A c \in Below : \A i \in DOMAIN up[c] : up[c][i].stream \in table[Up[c]].talkers
  /\ \A a \in Sinks : timers[a] # <<>> => StreamOf[a] \in table[NodeOf[a]].talkers

(* Whatever the order of requests and sweeps, no port reserves more than is    *)
(* reservable.                                                                 *)
NotOverbooked == \A n \in Nodes, c \in Below : Utilized(table[n], c) <= Reservable[c]

(* A source is streaming exactly while a listener is in the table of its node. *)
StreamsToListeners == \A s \in Streams : streaming[s] <=> HasListeners(table[Root], s)

(* What holds whatever the order of requests, announcements and sweeps.        *)
Sound == TypeOK /\ TalkersKnown /\ NotOverbooked /\ StreamsToListeners

(* A sink is served when its stream is reserved on the whole way to it.        *)
OnWay[n \in Nodes] == IF n = Root THEN {} ELSE {n} \union OnWay[Up[n]]

Served(a) ==
  LET s == StreamOf[a] IN
  /\ streaming[s]
  /\ Registered(table[NodeOf[a]], s, a)
  /\ \A n \in OnWay[NodeOf[a]] : Registered(table[Up[n]], s, n)

(* A sink whose way has room for every stream that is wanted beyond it, and    *)
(* that renews its subscription in less than the aging time with the delays of *)
(* the way, is served in the end and stays served: renewals that come late or  *)
(* behind others never let the reservation fall to a sweep on the way, and     *)
(* sinks that lose their reservations on other ports take nothing from it.     *)
Wanted(n)  == {StreamOf[a] : a \in {b \in Sinks : n \in OnWay[NodeOf[b]]}}
HasRoom(a) == \A n \in OnWay[NodeOf[a]] : MapThenSumSet(LAMBDA s : Bandwidth[s], Wanted(n)) <= Reservable[n]
Renewing(a) ==
  UpdateInterval[a] > 0 /\ UpdateInterval[a] + MaxDelay * Cardinality(OnWay[NodeOf[a]]) < AgingTime

StaysServed == \A a \in Sinks : HasRoom(a) /\ Renewing(a) => <>[]Served(a)
=============================================================================
