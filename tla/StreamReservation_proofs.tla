--------------------- MODULE StreamReservation_proofs ---------------------
(***************************************************************************)
(* Proofs about StreamReservation for all trees, streams, sinks, intervals *)
(* and delays: requests come only to tables that know their talker, and a  *)
(* source streams exactly while a listener is in the table of its node.    *)
(***************************************************************************)
EXTENDS StreamReservation, IntegerLemmas, TLAPS

(* What is true of the tables and of the announcements on their way: a     *)
(* talker is known above before it is known below, and nobody listens to a *)
(* stream without a talker.                                                *)
KnownAbove ==
  /\ \A c \in Below : table[c].talkers \subseteq table[Up[c]].talkers
  /\ \A c \in Below : \A i \in DOMAIN down[c] : down[c][i].stream \in table[Up[c]].talkers
  /\ \A n \in Nodes : \A e \in table[n].listeners : e.stream \in table[n].talkers

IInv == TypeOK /\ TalkersKnown /\ KnownAbove /\ StreamsToListeners

Kinds == {"Ready", "AskingFailed", "ReadyFailed"}

(* q holds requests that are on their way in up.                           *)
OfUp(q) ==
  /\ q \in [Below -> Seq(Requests)]
  /\ \A m \in Below : \A i \in DOMAIN q[m] : \E j \in DOMAIN up[m] : q[m][i] = up[m][j]

(* All requests in q are of talkers that are known where they go.          *)
KnownWhereSent(q) ==
  /\ q \in [Below -> Seq(Requests)]
  /\ \A m \in Below : \A i \in DOMAIN q[m] : q[m][i].stream \in table[Up[m]].talkers

(* A sweep forgets listeners only, and leaves no time for another one that *)
(* has come.                                                               *)
LEMMA SweptTable ==
  ASSUME NEW t \in Tables
  PROVE  /\ Swept(t) \in Tables
         /\ Swept(t).talkers = t.talkers
         /\ Swept(t).listeners \subseteq t.listeners
         /\ Swept(t).nextAging # 0
<1>1. CASE t.nextAging # 0
  BY <1>1 DEF Swept
<1>2. CASE t.nextAging = 0
  <2>1. Swept(t) = [talkers |-> t.talkers,
                    listeners |-> {e \in t.listeners : e.age < AgingTime}, nextAging |-> -1]
    BY <1>2 DEF Swept, Tables, Unset
  <2>2. -1 \in Unset .. AgingTime
    BY TimeAssumption DEF Unset
  <2>3. QED
    BY <2>1, <2>2 DEF Tables
<1>3. QED
  BY <1>1, <1>2

(* An update adds listeners of its stream only.                            *)
LEMMA UpdatedTable ==
  ASSUME NEW t \in Tables, NEW s \in Streams, NEW ports \in SUBSET (Below \union Sinks)
  PROVE  /\ UpdateListeners(t, s, ports) \in Tables
         /\ UpdateListeners(t, s, ports).talkers = t.talkers
         /\ \A e \in UpdateListeners(t, s, ports).listeners : e.stream = s \/ e \in t.listeners
<1> DEFINE r == Renewed(t, s, ports)
<1>1. {[stream |-> s, port |-> p, age |-> 0] : p \in ports} \subseteq Entries
  BY TimeAssumption DEF Entries
<1>2. /\ r \in Tables /\ r.talkers = t.talkers
      /\ \A e \in r.listeners : e.stream = s \/ e \in t.listeners
  BY <1>1 DEF Renewed, Tables
<1>3. /\ Swept(r) \in Tables /\ Swept(r).talkers = t.talkers
      /\ \A e \in Swept(r).listeners : e.stream = s \/ e \in t.listeners
  BY <1>2, SweptTable
<1> HIDE DEF r
<1>4. UpdateListeners(t, s, ports) = [Swept(r) EXCEPT !.nextAging = IF @ = Unset THEN AgingTime ELSE @]
  BY DEF UpdateListeners, r
<1>5. QED
  BY <1>3, <1>4, TimeAssumption DEF Tables, Unset

(* After a sweep an update keeps every other listener.                     *)
LEMMA UpdateKeepsListeners ==
  ASSUME NEW t \in Tables, t.nextAging # 0, NEW s \in Streams, NEW port \in Below \union Sinks,
         NEW x \in Streams, HasListeners(t, x)
  PROVE  HasListeners(UpdateListeners(t, s, {port}), x)
<1> DEFINE r == Renewed(t, s, {port})
<1>1. r.nextAging = t.nextAging /\ r = [t EXCEPT !.listeners = r.listeners]
  BY DEF Renewed, Tables
<1>2. UpdateListeners(t, s, {port}).listeners = r.listeners
  BY <1>1 DEF UpdateListeners, Swept, Tables
<1>3. PICK e \in t.listeners : e.stream = x
  BY DEF HasListeners
<1>4. r.listeners = {d \in t.listeners : d.stream # s \/ d.port \notin {port}}
                       \union {[stream |-> s, port |-> p, age |-> 0] : p \in {port}}
  BY DEF Renewed, Tables
<1> HIDE DEF r
<1>5. CASE e.stream = s /\ e.port = port
  <2>1. [stream |-> s, port |-> port, age |-> 0] \in r.listeners
    BY <1>4
  <2>2. QED
    BY <1>2, <1>3, <1>5, <2>1 DEF HasListeners
<1>6. CASE ~(e.stream = s /\ e.port = port)
  BY <1>2, <1>3, <1>4, <1>6 DEF HasListeners
<1>7. QED
  BY <1>5, <1>6

(* What a node sends towards the talker.                                   *)
LEMMA SentRequests ==
  ASSUME NEW q \in [Below -> Seq(Requests)], NEW n \in Nodes, NEW s \in Streams, NEW count \in Nat,
         NEW kind \in Kinds
  PROVE  /\ Sent(q, n, kind, s, count) \in [Below -> Seq(Requests)]
         /\ \A m \in Below : \A i \in DOMAIN Sent(q, n, kind, s, count)[m] :
              \/ \E j \in DOMAIN q[m] : Sent(q, n, kind, s, count)[m][i] = q[m][j]
              \/ m = n /\ Sent(q, n, kind, s, count)[m][i].stream = s
<1> DEFINE f == [kind |-> kind, stream |-> s, age |-> 0]
           new == [i \in 1 .. count |-> f]
<1>1. f \in Requests
  BY TimeAssumption DEF Requests, Kinds
<1>2. new \in Seq(Requests) /\ Len(new) = count /\ \A i \in 1 .. count : new[i].stream = s
  BY <1>1
<1> HIDE DEF new
<1>3. ASSUME NEW m \in Below
      PROVE  /\ q[m] \o new \in Seq(Requests)
             /\ \A i \in DOMAIN (q[m] \o new) :
                  (\E j \in DOMAIN q[m] : (q[m] \o new)[i] = q[m][j]) \/ (q[m] \o new)[i].stream = s
  <2>1. q[m] \in Seq(Requests)
    OBVIOUS
  <2>2. q[m] \o new \in Seq(Requests)
    BY <1>2, <2>1
  <2>3. DOMAIN (q[m] \o new) = 1 .. (Len(q[m]) + count) /\ DOMAIN q[m] = 1 .. Len(q[m])
    BY <1>2, <2>1
  <2>4. ASSUME NEW i \in DOMAIN (q[m] \o new)
        PROVE  (\E j \in DOMAIN q[m] : (q[m] \o new)[i] = q[m][j]) \/ (q[m] \o new)[i].stream = s
    <3>1. CASE i \in 1 .. Len(q[m])
      BY <1>2, <2>1, <2>3, <3>1
    <3>2. CASE i \notin 1 .. Len(q[m])
      BY <1>2, <2>1, <2>3, <3>2
    <3>3. QED
      BY <3>1, <3>2
  <2>5. QED
    BY <2>2, <2>4
<1>4. Sent(q, n, kind, s, count) = [m \in Below |-> IF m = n THEN q[m] \o new ELSE q[m]]
  BY DEF Sent, new
<1>5. Sent(q, n, kind, s, count) \in [Below -> Seq(Requests)]
  BY <1>3, <1>4
<1>6. ASSUME NEW m \in Below, NEW i \in DOMAIN Sent(q, n, kind, s, count)[m]
      PROVE  \/ \E j \in DOMAIN q[m] : Sent(q, n, kind, s, count)[m][i] = q[m][j]
             \/ m = n /\ Sent(q, n, kind, s, count)[m][i].stream = s
  <2>1. CASE m = n
    <3>1. Sent(q, n, kind, s, count)[m] = q[m] \o new
      BY <1>4, <2>1
    <3>2. QED
      BY <1>3, <2>1, <3>1
  <2>2. CASE m # n
    BY <1>4, <2>2
  <2>3. QED
    BY <2>1, <2>2
<1>7. QED
  BY <1>5, <1>6

(* The signals of a handler: its node's table becomes u.                   *)
LEMMA SignalsKeep ==
  ASSUME IInv, NEW n \in Nodes, NEW t \in Tables, NEW swept \in Tables, NEW u \in Tables,
         Signals(n, t, swept, u),
         t.listeners = table[n].listeners,
         \A s \in Streams : HasListeners(swept, s) => HasListeners(t, s) /\ HasListeners(u, s),
         table[n].talkers \subseteq u.talkers,
         n # Root => u.talkers \subseteq table[Up[n]].talkers,
         \A e \in u.listeners : e.stream \in u.talkers
  PROVE  /\ table' \in [Nodes -> Tables]
         /\ streaming' \in [Streams -> BOOLEAN]
         /\ StreamsToListeners'
         /\ \A m \in Nodes : table[m].talkers \subseteq table'[m].talkers
         /\ \A c \in Below : table'[c].talkers \subseteq table'[Up[c]].talkers
         /\ \A m \in Nodes : \A e \in table'[m].listeners : e.stream \in table'[m].talkers
<1> USE DEF IInv, TypeOK
<1>1. /\ table' = [table EXCEPT ![n] = u]
      /\ streaming' = Sources(n, t, swept, u)
  BY DEF Signals
<1>2. table' \in [Nodes -> Tables] /\ \A m \in Nodes : table'[m] = IF m = n THEN u ELSE table[m]
  BY <1>1
<1>3. \A m \in Nodes : table[m].talkers \subseteq table'[m].talkers
  BY <1>2
<1>4. ASSUME NEW c \in Below
      PROVE  table'[c].talkers \subseteq table'[Up[c]].talkers
  <2>1. c \in Nodes /\ c # Root /\ Up[c] \in Nodes /\ table[c].talkers \subseteq table[Up[c]].talkers
    BY TreeAssumption DEF Below, KnownAbove
  <2>2. table'[c].talkers \subseteq table[Up[c]].talkers
    BY <1>2, <2>1
  <2>3. QED
    BY <1>3, <2>1, <2>2
<1>5. \A m \in Nodes : \A e \in table'[m].listeners : e.stream \in table'[m].talkers
  BY <1>2 DEF KnownAbove
<1>6. Root \in Nodes
  BY TreeAssumption
<1>7. CASE n # Root
  <2>1. table'[Root] = table[Root] /\ \A s \in Streams : streaming'[s] = streaming[s]
    BY <1>1, <1>2, <1>6, <1>7 DEF Sources
  <2>2. streaming' \in [Streams -> BOOLEAN]
    BY <1>1, <1>7 DEF Sources
  <2>3. StreamsToListeners'
    BY <2>1 DEF StreamsToListeners, HasListeners
  <2>4. QED
    BY <1>2, <1>3, <1>4, <1>5, <2>2, <2>3
<1>8. CASE n = Root
  <2>1. table'[Root] = u
    BY <1>2, <1>6, <1>8
  <2>2. streaming' = [s \in Streams |->
                        \/ \E e \in u.listeners : e.stream = s /\ ~Registered(swept, s, e.port)
                        \/ streaming[s] /\ (HasListeners(t, s) => HasListeners(swept, s))]
    BY <1>1, <1>8, Zenon DEF Sources
  <2>3. streaming' \in [Streams -> BOOLEAN]
    BY <2>2
  <2>4. ASSUME NEW s \in Streams
        PROVE  streaming'[s] <=> HasListeners(u, s)
    <3>1. streaming[s] <=> HasListeners(t, s)
      BY <1>8 DEF StreamsToListeners, HasListeners
    <3>2. streaming'[s] <=> \/ \E e \in u.listeners : e.stream = s /\ ~Registered(swept, s, e.port)
                            \/ HasListeners(swept, s)
      BY <2>2, <3>1
    <3>3. QED
      BY <3>2 DEF HasListeners, Registered
  <2>5. StreamsToListeners'
    BY <2>1, <2>4 DEF StreamsToListeners, HasListeners
  <2>6. QED
    BY <1>2, <1>3, <1>4, <1>5, <2>3, <2>5
<1>9. QED
  BY <1>7, <1>8

(* Only sinks whose stream is known at their node try again.               *)
LEMMA RetriesKnown ==
  ASSUME IInv, NEW n \in Nodes, NEW t, NEW u, t.listeners = table[n].listeners
  PROVE  /\ Retries(n, t, u) \in [Sinks -> Seq(Nat)]
         /\ \A a \in Sinks : Retries(n, t, u)[a] # <<>> => StreamOf[a] \in table[NodeOf[a]].talkers
<1> SUFFICES ASSUME NEW a \in Sinks
             PROVE  /\ Retries(n, t, u)[a] \in Seq(Nat)
                    /\ Retries(n, t, u)[a] # <<>> => StreamOf[a] \in table[NodeOf[a]].talkers
  BY DEF Retries
<1>1. timers[a] \in Seq(Nat) /\ (timers[a] # <<>> => StreamOf[a] \in table[NodeOf[a]].talkers)
  BY DEF IInv, TypeOK, TalkersKnown
<1>2. CASE Retries(n, t, u)[a] = timers[a]
  BY <1>1, <1>2
<1>3. CASE /\ Registered(t, StreamOf[a], a) /\ NodeOf[a] = n
           /\ Retries(n, t, u)[a] = Append(timers[a], RetryInterval[a])
  <2>1. StreamOf[a] \in table[NodeOf[a]].talkers
    BY <1>3 DEF Registered, IInv, KnownAbove
  <2>2. RetryInterval[a] \in Nat
    BY StreamAssumption
  <2>3. QED
    BY <1>1, <1>3, <2>1, <2>2
<1>4. QED
  BY <1>2, <1>3 DEF Retries

(* What is sent after a request was received is of known talkers, too.     *)
LEMMA SentKnown ==
  ASSUME IInv, NEW n \in Nodes, NEW s \in Streams, NEW count \in Nat, NEW kind \in Kinds,
         NEW q, OfUp(q), n # Root => s \in table[Up[n]].talkers
  PROVE  KnownWhereSent(Sent(q, n, kind, s, count))
<1> DEFINE sent == Sent(q, n, kind, s, count)
<1>1. q \in [Below -> Seq(Requests)]
  BY DEF OfUp
<1>2. /\ sent \in [Below -> Seq(Requests)]
      /\ \A m \in Below : \A i \in DOMAIN sent[m] :
           (\E j \in DOMAIN q[m] : sent[m][i] = q[m][j]) \/ (m = n /\ sent[m][i].stream = s)
  BY <1>1, SentRequests, SMTT(60)
<1> HIDE DEF sent
<1>3. ASSUME NEW c \in Below, NEW i \in DOMAIN sent[c]
      PROVE  sent[c][i].stream \in table[Up[c]].talkers
  <2>1. CASE \E j \in DOMAIN q[c] : sent[c][i] = q[c][j]
    <3>1. PICK j \in DOMAIN up[c] : sent[c][i] = up[c][j]
      BY <2>1 DEF OfUp
    <3>2. QED
      BY <3>1 DEF IInv, TalkersKnown
  <2>2. CASE c = n /\ sent[c][i].stream = s
    BY <2>2 DEF Below
  <2>3. QED
    BY <1>2, <2>1, <2>2
<1>4. KnownWhereSent(sent)
  BY <1>2, <1>3 DEF KnownWhereSent
<1>5. QED
  BY <1>4 DEF sent

(* A request that arrives is of a known talker and leaves the others.      *)
LEMMA ReceivedKnown ==
  ASSUME IInv, NEW c \in Below, up[c] # <<>>
  PROVE  /\ OfUp(Received(c))
         /\ Head(up[c]).stream \in Streams
         /\ Head(up[c]).stream \in table[Up[c]].talkers
<1>1. up \in [Below -> Seq(Requests)]
  BY DEF IInv, TypeOK
<1>2. up[c] \in Seq(Requests) /\ Len(up[c]) > 0 /\ DOMAIN up[c] = 1 .. Len(up[c])
  BY <1>1
<1>3. Head(up[c]) = up[c][1] /\ 1 \in DOMAIN up[c] /\ up[c][1] \in Requests
  BY <1>2
<1>4. /\ Tail(up[c]) \in Seq(Requests)
      /\ \A i \in DOMAIN Tail(up[c]) : i + 1 \in DOMAIN up[c] /\ Tail(up[c])[i] = up[c][i + 1]
  BY <1>2
<1>5. \A m \in Below : Received(c)[m] = IF m = c THEN Tail(up[c]) ELSE up[m]
  BY <1>1 DEF Received
<1>6. Received(c) \in [Below -> Seq(Requests)]
  BY <1>1, <1>4 DEF Received
<1>7. ASSUME NEW m \in Below, NEW i \in DOMAIN Received(c)[m]
      PROVE  \E j \in DOMAIN up[m] : Received(c)[m][i] = up[m][j]
  <2>1. CASE m = c
    BY <1>4, <1>5, <2>1
  <2>2. CASE m # c
    BY <1>5, <2>2
  <2>3. QED
    BY <2>1, <2>2
<1>8. QED
  BY <1>3, <1>6, <1>7 DEF IInv, TalkersKnown, Requests, OfUp

(* Announcements on the way stay known when talkers do.                    *)
LEMMA DownKept ==
  ASSUME IInv, UNCHANGED down, \A m \in Nodes : table[m].talkers \subseteq table'[m].talkers
  PROVE  /\ down' \in [Below -> Seq(Adverts)]
         /\ \A c \in Below : \A i \in DOMAIN down'[c] : down'[c][i].stream \in table'[Up[c]].talkers
<1>1. \A c \in Below : Up[c] \in Nodes
  BY TreeAssumption DEF Below
<1>2. QED
  BY <1>1 DEF IInv, TypeOK, KnownAbove

(* The timers of the sinks stay known when talkers do.                     *)
LEMMA TimersKept ==
  ASSUME IInv, \A m \in Nodes : table[m].talkers \subseteq table'[m].talkers,
         \A a \in Sinks : timers'[a] # <<>> => StreamOf[a] \in table[NodeOf[a]].talkers
  PROVE  \A a \in Sinks : timers'[a] # <<>> => StreamOf[a] \in table'[NodeOf[a]].talkers
BY StreamAssumption

(* A step that keeps what the tables say, and its timers and messages.     *)
SameTalkersUp ==
  /\ table' \in [Nodes -> Tables]
  /\ streaming' \in [Streams -> BOOLEAN]
  /\ StreamsToListeners'
  /\ \A m \in Nodes : table[m].talkers \subseteq table'[m].talkers
  /\ \A c \in Below : table'[c].talkers \subseteq table'[Up[c]].talkers
  /\ \A m \in Nodes : \A e \in table'[m].listeners : e.stream \in table'[m].talkers

TimersKnown ==
  /\ timers' \in [Sinks -> Seq(Nat)]
  /\ \A a \in Sinks : timers'[a] # <<>> => StreamOf[a] \in table'[NodeOf[a]].talkers

DownKnown ==
  /\ down' \in [Below -> Seq(Adverts)]
  /\ \A c \in Below : \A i \in DOMAIN down'[c] : down'[c][i].stream \in table'[Up[c]].talkers

LEMMA Conclusion ==
  ASSUME SameTalkersUp, KnownWhereSent(up'), TimersKnown, DownKnown
  PROVE  IInv'
<1>1. \A c \in Below : \A i \in DOMAIN up'[c] : up'[c][i].stream \in table'[Up[c]].talkers
  <2>1. \A c \in Below : Up[c] \in Nodes
    BY TreeAssumption DEF Below
  <2>2. QED
    BY <2>1 DEF KnownWhereSent, SameTalkersUp
<1>2. QED
  BY <1>1 DEF SameTalkersUp, KnownWhereSent, TimersKnown, DownKnown,
              IInv, TypeOK, TalkersKnown, KnownAbove

(* A sweep of the table of n, and a request that is handed on or not.      *)
LEMMA SweepKeeps ==
  ASSUME IInv, NEW n \in Nodes, Signals(n, table[n], Swept(table[n]), Swept(table[n])),
         timers' = Retries(n, table[n], Swept(table[n])), UNCHANGED down, KnownWhereSent(up')
  PROVE  IInv'
<1> DEFINE t == table[n]
           u == Swept(t)
<1>1. t \in Tables
  BY DEF IInv, TypeOK
<1>2. u \in Tables /\ u.talkers = t.talkers /\ u.listeners \subseteq t.listeners
  BY <1>1, SweptTable
<1>3. \A s \in Streams : HasListeners(u, s) => HasListeners(t, s)
  BY <1>2 DEF HasListeners
<1>4. n # Root => t.talkers \subseteq table[Up[n]].talkers
  BY DEF IInv, KnownAbove, Below
<1>5. \A e \in u.listeners : e.stream \in u.talkers
  BY <1>2 DEF IInv, KnownAbove
<1>6. Signals(n, t, u, u) /\ t.listeners = table[n].listeners /\ t.talkers = table[n].talkers
  OBVIOUS
<1> HIDE DEF u, t
<1>7. SameTalkersUp
  BY <1>1, <1>2, <1>3, <1>4, <1>5, <1>6, SignalsKeep DEF SameTalkersUp
<1>8. TimersKnown
  <2>1. /\ timers' \in [Sinks -> Seq(Nat)]
        /\ \A a \in Sinks : timers'[a] # <<>> => StreamOf[a] \in table[NodeOf[a]].talkers
    BY <1>6, RetriesKnown DEF t, u
  <2>2. QED
    BY <1>7, <2>1, TimersKept DEF TimersKnown, SameTalkersUp
<1>9. DownKnown
  BY <1>7, DownKept DEF DownKnown, SameTalkersUp
<1>10. QED
  BY <1>7, <1>8, <1>9, Conclusion

LEMMA GetBandwidthKeeps ==
  ASSUME IInv, NEW n \in Nodes, GetBandwidth(n)
  PROVE  IInv'
<1>1. KnownWhereSent(up')
  BY DEF GetBandwidth, IInv, TypeOK, TalkersKnown, KnownWhereSent
<1>2. QED
  BY <1>1, SweepKeeps DEF GetBandwidth

(* A request that failed or a failure that is handed on.                   *)
LEMMA FailureKeeps ==
  ASSUME IInv, NEW c \in Below, up[c] # <<>>, NEW kind \in Kinds,
         Signals(Up[c], table[Up[c]], Swept(table[Up[c]]), Swept(table[Up[c]])),
         timers' = Retries(Up[c], table[Up[c]], Swept(table[Up[c]])), UNCHANGED down,
         up' = Sent(Received(c), Up[c], kind, Head(up[c]).stream, 1)
  PROVE  IInv'
<1>1. Up[c] \in Nodes
  BY TreeAssumption DEF Below
<1>2. /\ OfUp(Received(c))
      /\ Head(up[c]).stream \in Streams /\ Head(up[c]).stream \in table[Up[c]].talkers
  BY ReceivedKnown
<1>3. Up[c] # Root => Head(up[c]).stream \in table[Up[Up[c]]].talkers
  BY <1>1, <1>2 DEF IInv, KnownAbove, Below
<1>4. KnownWhereSent(up')
  BY <1>1, <1>2, <1>3, SentKnown
<1>5. QED
  BY <1>1, <1>4, SweepKeeps

LEMMA ListenerFailsKeeps ==
  ASSUME IInv, NEW c \in Below, ListenerFails(c)
  PROVE  IInv'
<1>1. up[c] # <<>>
  BY DEF ListenerFails, Arriving
<1>2. PICK kind \in Kinds : up' = Sent(Received(c), Up[c], kind, Head(up[c]).stream, 1)
  BY DEF ListenerFails, Kinds
<1>3. QED
  BY <1>1, <1>2, FailureKeeps DEF ListenerFails

LEMMA ListenerAskingFailedKeeps ==
  ASSUME IInv, NEW c \in Below, ListenerAskingFailed(c)
  PROVE  IInv'
<1>1. up[c] # <<>> /\ "AskingFailed" \in Kinds
  BY DEF ListenerAskingFailed, Arriving, Kinds
<1>2. QED
  BY <1>1, FailureKeeps DEF ListenerAskingFailed

LEMMA ListenerReadyFailedKeeps ==
  ASSUME IInv, NEW c \in Below, ListenerReadyFailed(c)
  PROVE  IInv'
<1>1. up[c] # <<>> /\ up' = Received(c) /\ UNCHANGED <<table, timers, streaming, down>>
  BY DEF ListenerReadyFailed, Arriving
<1>2. OfUp(Received(c))
  BY <1>1, ReceivedKnown
<1>3. KnownWhereSent(up')
  BY <1>1, <1>2 DEF OfUp, KnownWhereSent, IInv, TalkersKnown
<1>4. QED
  BY <1>1, <1>3 DEF IInv, TypeOK, TalkersKnown, KnownAbove, StreamsToListeners, HasListeners, KnownWhereSent

(* What is left of a table after an update.                                *)
LEMMA LeftListeners ==
  ASSUME NEW t \in Tables, NEW u, NEW s, HasListeners(Left(t, u), s)
  PROVE  HasListeners(t, s) /\ HasListeners(u, s)
BY DEF Left, HasListeners, Registered, Tables

LEMMA ListenerReadyKeeps ==
  ASSUME IInv, NEW c \in Below, ListenerReady(c)
  PROVE  IInv'
<1> DEFINE n == Up[c]
           s == Head(up[c]).stream
           t == table[n]
           swept == Swept(t)
           u == UpdateListeners(swept, s, {c})
<1>1. /\ up[c] # <<>> /\ Signals(n, t, swept, u)
      /\ timers' = Retries(n, t, u) /\ UNCHANGED down
      /\ up' = Sent(Received(c), n, "Ready", s, 1)
  BY DEF ListenerReady, Arriving
<1>2. n \in Nodes /\ t \in Tables
  BY TreeAssumption DEF Below, IInv, TypeOK
<1>3. OfUp(Received(c)) /\ s \in Streams /\ s \in t.talkers
  BY <1>1, ReceivedKnown
<1>4. /\ swept \in Tables /\ swept.talkers = t.talkers
      /\ swept.listeners \subseteq t.listeners /\ swept.nextAging # 0
  BY <1>2, SweptTable
<1>5. {c} \in SUBSET (Below \union Sinks)
  OBVIOUS
<1>6. t.listeners = table[n].listeners /\ t.talkers = table[n].talkers
  OBVIOUS
<1>7. n # Root => t.talkers \subseteq table[Up[n]].talkers
  BY <1>2 DEF IInv, KnownAbove, Below
<1>8. \A e \in t.listeners : e.stream \in t.talkers
  BY <1>2 DEF IInv, KnownAbove
<1> HIDE DEF n, s, t, swept
<1>9. /\ u \in Tables /\ u.talkers = swept.talkers
      /\ \A e \in u.listeners : e.stream = s \/ e \in swept.listeners
  BY <1>3, <1>4, <1>5, UpdatedTable
<1>10. ASSUME NEW x \in Streams, HasListeners(swept, x)
       PROVE  HasListeners(t, x) /\ HasListeners(u, x)
  <2>1. HasListeners(t, x)
    BY <1>4, <1>10 DEF HasListeners
  <2>2. HasListeners(u, x)
    BY <1>3, <1>4, <1>10, UpdateKeepsListeners
  <2>3. QED
    BY <2>1, <2>2
<1> HIDE DEF u
<1>11. SameTalkersUp
  BY <1>1, <1>2, <1>3, <1>4, <1>6, <1>7, <1>8, <1>9, <1>10, SignalsKeep DEF SameTalkersUp
<1>12. KnownWhereSent(up')
  <2>1. "Ready" \in Kinds /\ (n # Root => s \in table[Up[n]].talkers)
    BY <1>3, <1>7 DEF Kinds
  <2>2. QED
    BY <1>1, <1>2, <1>3, <2>1, SentKnown
<1>13. TimersKnown
  <2>1. /\ timers' \in [Sinks -> Seq(Nat)]
        /\ \A a \in Sinks : timers'[a] # <<>> => StreamOf[a] \in table[NodeOf[a]].talkers
    BY <1>1, <1>2, <1>6, RetriesKnown
  <2>2. QED
    BY <1>11, <2>1, TimersKept DEF TimersKnown, SameTalkersUp
<1>14. DownKnown
  BY <1>1, <1>11, DownKept DEF DownKnown, SameTalkersUp
<1>15. QED
  BY <1>11, <1>12, <1>13, <1>14, Conclusion

LEMMA SubscribeKeeps ==
  ASSUME IInv, NEW a \in Sinks, Subscribe(a)
  PROVE  IInv'
<1> DEFINE n == NodeOf[a]
           s == StreamOf[a]
           t == table[n]
           u == UpdateListeners(t, s, {a})
           again == IF UpdateInterval[a] > 0 THEN <<UpdateInterval[a]>> ELSE <<>>
<1>1. PICK i \in DOMAIN timers[a] :
        /\ Signals(n, t, Left(t, u), u)
        /\ timers' = [Retries(n, t, u) EXCEPT ![a] = RemoveAt(timers[a], i) \o again]
        /\ up' = Sent(up, n, "Ready", s, 1)
        /\ UNCHANGED down
  BY DEF Subscribe
<1>2. n \in Nodes /\ t \in Tables /\ s \in Streams
  BY StreamAssumption DEF IInv, TypeOK
<1>3. timers[a] \in Seq(Nat) /\ timers[a] # <<>>
  BY <1>1 DEF IInv, TypeOK
<1>4. s \in t.talkers
  BY <1>3 DEF IInv, TalkersKnown
<1>5. {a} \in SUBSET (Below \union Sinks)
  OBVIOUS
<1>6. /\ u \in Tables /\ u.talkers = t.talkers
      /\ \A e \in u.listeners : e.stream = s \/ e \in t.listeners
  BY <1>2, <1>5, UpdatedTable
<1>7. n # Root => t.talkers \subseteq table[Up[n]].talkers
  BY <1>2 DEF IInv, KnownAbove, Below
<1>8. \A e \in t.listeners : e.stream \in t.talkers
  BY <1>2 DEF IInv, KnownAbove
<1>9. t.listeners = table[n].listeners /\ t.talkers = table[n].talkers
  OBVIOUS
<1>10. again \in Seq(Nat)
  BY StreamAssumption
<1> HIDE DEF n, s, t, u, again
<1>11. Left(t, u) \in Tables
  BY <1>2 DEF Left, Tables
<1>12. SameTalkersUp
  <2>1. \A x \in Streams : HasListeners(Left(t, u), x) => HasListeners(t, x) /\ HasListeners(u, x)
    BY <1>2, LeftListeners
  <2>2. \A e \in u.listeners : e.stream \in u.talkers
    BY <1>4, <1>6, <1>8
  <2>3. QED
    BY <1>1, <1>2, <1>6, <1>7, <1>9, <1>11, <2>1, <2>2, SignalsKeep DEF SameTalkersUp
<1>13. KnownWhereSent(up')
  <2>1. "Ready" \in Kinds /\ (n # Root => s \in table[Up[n]].talkers)
    BY <1>4, <1>7 DEF Kinds
  <2>2. OfUp(up)
    BY DEF OfUp, IInv, TypeOK
  <2>3. QED
    BY <1>1, <1>2, <2>1, <2>2, SentKnown
<1>14. TimersKnown
  <2>1. /\ Retries(n, t, u) \in [Sinks -> Seq(Nat)]
        /\ \A b \in Sinks : Retries(n, t, u)[b] # <<>> => StreamOf[b] \in table[NodeOf[b]].talkers
    BY <1>2, <1>9, RetriesKnown
  <2>2. RemoveAt(timers[a], i) \o again \in Seq(Nat)
    BY SMTT(30), <1>1, <1>3, <1>10 DEF RemoveAt
  <2>3. timers' \in [Sinks -> Seq(Nat)]
    BY <1>1, <2>1, <2>2
  <2>4. \A b \in Sinks : timers'[b] # <<>> => StreamOf[b] \in table[NodeOf[b]].talkers
    BY <1>1, <1>4, <1>9, <2>1 DEF n, s
  <2>5. QED
    BY <1>12, <2>3, <2>4, TimersKept DEF TimersKnown, SameTalkersUp
<1>15. DownKnown
  BY <1>1, <1>12, DownKept DEF DownKnown, SameTalkersUp
<1>16. QED
  BY <1>12, <1>13, <1>14, <1>15, Conclusion

(* A talker that is known above is announced at n; queues are down without *)
(* the announcement.                                                       *)
LEMMA AnnounceKeeps ==
  ASSUME IInv, NEW n \in Nodes, NEW s \in Streams, NEW queues \in [Below -> Seq(Adverts)],
         Announce(n, s, queues),
         n # Root => s \in table[Up[n]].talkers,
         \A m \in Below : \A i \in DOMAIN queues[m] : queues[m][i].stream \in table[Up[m]].talkers
  PROVE  IInv'
<1> DEFINE asking == {a \in Sinks : NodeOf[a] = n /\ StreamOf[a] = s}
           known == [table[n] EXCEPT !.talkers = @ \union {s}]
           u == IF asking = {} THEN known ELSE UpdateListeners(known, s, asking)
           count == Cardinality(asking)
<1>1. /\ Signals(n, known, Left(known, u), u)
      /\ timers' = [a \in Sinks |->
                      IF a \in asking /\ UpdateInterval[a] > 0
                        THEN Append(timers[a], UpdateInterval[a]) ELSE Retries(n, known, u)[a]]
      /\ up' = Sent(up, n, "Ready", s, count)
      /\ down' = [m \in Below |->
                    IF m \in Children(n) THEN Append(queues[m], [stream |-> s, age |-> 0]) ELSE queues[m]]
  BY DEF Announce, Asking, Advertised
<1>2. table[n] \in Tables
  BY DEF IInv, TypeOK
<1>3. /\ known \in Tables /\ known.listeners = table[n].listeners
      /\ known.talkers = table[n].talkers \union {s}
  BY <1>2 DEF Tables
<1>4. asking \in SUBSET (Below \union Sinks) /\ asking \subseteq Sinks
  OBVIOUS
<1>5. \A a \in asking : NodeOf[a] = n /\ StreamOf[a] = s
  OBVIOUS
<1>6. count \in Nat
  BY <1>4, StreamAssumption, FS_Subset, FS_CardinalityType
<1> HIDE DEF asking, known, count
<1>7. /\ u \in Tables /\ u.talkers = known.talkers
      /\ \A e \in u.listeners : e.stream = s \/ e \in known.listeners
  BY <1>3, <1>4, UpdatedTable
<1> HIDE DEF u
<1>8. Left(known, u) \in Tables
  BY <1>3 DEF Left, Tables
<1>9. SameTalkersUp
  <2>1. \A x \in Streams : HasListeners(Left(known, u), x) => HasListeners(known, x) /\ HasListeners(u, x)
    BY <1>3, LeftListeners
  <2>2. \A e \in u.listeners : e.stream \in u.talkers
    BY <1>3, <1>7 DEF IInv, KnownAbove
  <2>3. n # Root => u.talkers \subseteq table[Up[n]].talkers
    BY <1>3, <1>7 DEF IInv, KnownAbove, Below
  <2>4. table[n].talkers \subseteq u.talkers
    BY <1>3, <1>7
  <2>5. QED
    BY <1>1, <1>3, <1>7, <1>8, <2>1, <2>2, <2>3, <2>4, SignalsKeep DEF SameTalkersUp
<1>10. s \in table'[n].talkers
  BY <1>1, <1>3, <1>7 DEF Signals, IInv, TypeOK
<1>11. KnownWhereSent(up')
  <2>1. "Ready" \in Kinds /\ OfUp(up)
    BY DEF Kinds, OfUp, IInv, TypeOK
  <2>2. QED
    BY <1>1, <1>6, <2>1, SentKnown
<1>12. TimersKnown
  <2>1. /\ Retries(n, known, u) \in [Sinks -> Seq(Nat)]
        /\ \A a \in Sinks : Retries(n, known, u)[a] # <<>> => StreamOf[a] \in table[NodeOf[a]].talkers
    BY <1>3, RetriesKnown
  <2>2. ASSUME NEW a \in Sinks
        PROVE  /\ timers'[a] \in Seq(Nat)
               /\ timers'[a] # <<>> => StreamOf[a] \in table'[NodeOf[a]].talkers
    <3>1. CASE a \in asking /\ UpdateInterval[a] > 0
      <4>1. timers[a] \in Seq(Nat) /\ UpdateInterval[a] \in Nat
        BY StreamAssumption DEF IInv, TypeOK
      <4>2. timers'[a] = Append(timers[a], UpdateInterval[a])
        BY <1>1, <3>1
      <4>3. QED
        BY <1>5, <1>10, <3>1, <4>1, <4>2
    <3>2. CASE ~(a \in asking /\ UpdateInterval[a] > 0)
      <4>1. timers'[a] = Retries(n, known, u)[a]
        BY <1>1, <3>2
      <4>2. NodeOf[a] \in Nodes
        BY StreamAssumption
      <4>3. QED
        BY <1>9, <2>1, <4>1, <4>2 DEF SameTalkersUp
    <3>3. QED
      BY <3>1, <3>2
  <2>3. timers' = [a \in Sinks |-> timers'[a]]
    BY <1>1
  <2>4. QED
    BY <2>2, <2>3 DEF TimersKnown
<1>13. DownKnown
  <2>1. [stream |-> s, age |-> 0] \in Adverts
    BY TimeAssumption DEF Adverts
  <2>2. ASSUME NEW m \in Below
        PROVE  /\ down'[m] \in Seq(Adverts)
               /\ \A i \in DOMAIN down'[m] : down'[m][i].stream \in table'[Up[m]].talkers
    <3>1. queues[m] \in Seq(Adverts) /\ Up[m] \in Nodes
      BY TreeAssumption DEF Below
    <3>2. \A i \in DOMAIN queues[m] : queues[m][i].stream \in table'[Up[m]].talkers
      BY <1>9, <3>1 DEF SameTalkersUp
    <3>3. CASE m \in Children(n)
      <4>1. down'[m] = Append(queues[m], [stream |-> s, age |-> 0]) /\ Up[m] = n
        BY <1>1, <3>3 DEF Children
      <4>2. down'[m] \in Seq(Adverts)
        BY <2>1, <3>1, <4>1
      <4>3. ASSUME NEW i \in DOMAIN down'[m]
            PROVE  down'[m][i].stream \in table'[Up[m]].talkers
        <5>1. i \in DOMAIN queues[m] \/ i = Len(queues[m]) + 1
          BY <3>1, <4>1
        <5>2. CASE i \in DOMAIN queues[m]
          BY <3>1, <3>2, <4>1, <5>2
        <5>3. CASE i = Len(queues[m]) + 1
          BY <1>10, <3>1, <4>1, <5>3
        <5>4. QED
          BY <5>1, <5>2, <5>3
      <4>4. QED
        BY <4>2, <4>3
    <3>4. CASE m \notin Children(n)
      BY <1>1, <3>1, <3>2, <3>4
    <3>5. QED
      BY <3>3, <3>4
  <2>3. down' = [m \in Below |-> down'[m]]
    BY <1>1
  <2>4. QED
    BY <2>2, <2>3 DEF DownKnown
<1>14. QED
  BY <1>9, <1>11, <1>12, <1>13, Conclusion

LEMMA StartSourceKeeps ==
  ASSUME IInv, NEW s \in Streams, StartSource(s)
  PROVE  IInv'
<1>1. Root \in Nodes /\ Announce(Root, s, down)
  BY TreeAssumption DEF StartSource
<1>2. QED
  BY <1>1, AnnounceKeeps DEF IInv, TypeOK, KnownAbove

LEMMA TalkerAdvertiseKeeps ==
  ASSUME IInv, NEW n \in Below, TalkerAdvertise(n)
  PROVE  IInv'
<1> DEFINE s == Head(down[n]).stream
           queues == [down EXCEPT ![n] = Tail(@)]
<1>1. down[n] # <<>> /\ Announce(n, s, queues) /\ n \in Nodes
  BY DEF TalkerAdvertise, Below
<1>2. down \in [Below -> Seq(Adverts)] /\ down[n] \in Seq(Adverts)
  BY DEF IInv, TypeOK
<1>3. Head(down[n]) = down[n][1] /\ 1 \in DOMAIN down[n] /\ down[n][1] \in Adverts
  BY <1>1, <1>2
<1>4. s \in Streams /\ s \in table[Up[n]].talkers
  BY <1>3 DEF Adverts, IInv, KnownAbove
<1>5. /\ Tail(down[n]) \in Seq(Adverts)
      /\ \A i \in DOMAIN Tail(down[n]) : i + 1 \in DOMAIN down[n] /\ Tail(down[n])[i] = down[n][i + 1]
  BY <1>1, <1>2
<1>6. queues \in [Below -> Seq(Adverts)]
  BY <1>2, <1>5
<1>7. ASSUME NEW m \in Below, NEW i \in DOMAIN queues[m]
      PROVE  queues[m][i].stream \in table[Up[m]].talkers
  <2>1. CASE m = n
    <3>1. queues[m] = Tail(down[n])
      BY <1>2, <2>1
    <3>2. QED
      BY <1>5, <2>1, <3>1 DEF IInv, KnownAbove
  <2>2. CASE m # n
    BY <1>2, <2>2 DEF IInv, KnownAbove
  <2>3. QED
    BY <2>1, <2>2
<1> HIDE DEF queues, s
<1>8. QED
  BY <1>1, <1>4, <1>6, <1>7, AnnounceKeeps

(* Time ages entries and messages and nothing else.                        *)
LEMMA OlderType ==
  /\ \A f \in Requests : Older(f, MaxDelay) \in Requests /\ Older(f, MaxDelay).stream = f.stream
  /\ \A f \in Adverts : Older(f, MaxDelay) \in Adverts /\ Older(f, MaxDelay).stream = f.stream
  /\ \A e \in Entries : /\ Older(e, AgingTime) \in Entries
                         /\ Older(e, AgingTime).stream = e.stream /\ Older(e, AgingTime).port = e.port
<1>1. ASSUME NEW limit \in Nat, NEW age \in 0 .. limit
      PROVE  (IF age < limit THEN age + 1 ELSE age) \in 0 .. limit
  OBVIOUS
<1>2. ASSUME NEW f \in Requests
      PROVE  Older(f, MaxDelay) \in Requests /\ Older(f, MaxDelay).stream = f.stream
  <2>1. Older(f, MaxDelay) = [kind |-> f.kind, stream |-> f.stream,
                              age |-> IF f.age < MaxDelay THEN f.age + 1 ELSE f.age]
    BY DEF Older, Requests
  <2>2. QED
    BY <1>1, <2>1, TimeAssumption DEF Requests
<1>3. ASSUME NEW f \in Adverts
      PROVE  Older(f, MaxDelay) \in Adverts /\ Older(f, MaxDelay).stream = f.stream
  <2>1. Older(f, MaxDelay) = [stream |-> f.stream, age |-> IF f.age < MaxDelay THEN f.age + 1 ELSE f.age]
    BY DEF Older, Adverts
  <2>2. QED
    BY <1>1, <2>1, TimeAssumption DEF Adverts
<1>4. ASSUME NEW e \in Entries
      PROVE  /\ Older(e, AgingTime) \in Entries
             /\ Older(e, AgingTime).stream = e.stream /\ Older(e, AgingTime).port = e.port
  <2>1. Older(e, AgingTime) = [stream |-> e.stream, port |-> e.port,
                               age |-> IF e.age < AgingTime THEN e.age + 1 ELSE e.age]
    BY DEF Older, Entries
  <2>2. QED
    BY <1>1, <2>1, TimeAssumption DEF Entries
<1>5. QED
  BY <1>2, <1>3, <1>4

LEMMA OlderRequests ==
  ASSUME NEW q \in Seq(Requests)
  PROVE  /\ [i \in DOMAIN q |-> Older(q[i], MaxDelay)] \in Seq(Requests)
         /\ \A i \in DOMAIN q : Older(q[i], MaxDelay).stream = q[i].stream
<1>1. DOMAIN q = 1 .. Len(q) /\ Len(q) \in Nat /\ \A i \in DOMAIN q : q[i] \in Requests
  OBVIOUS
<1>2. \A i \in DOMAIN q : Older(q[i], MaxDelay) \in Requests /\ Older(q[i], MaxDelay).stream = q[i].stream
  BY <1>1, OlderType
<1>3. QED
  BY <1>1, <1>2

LEMMA OlderAdverts ==
  ASSUME NEW q \in Seq(Adverts)
  PROVE  /\ [i \in DOMAIN q |-> Older(q[i], MaxDelay)] \in Seq(Adverts)
         /\ \A i \in DOMAIN q : Older(q[i], MaxDelay).stream = q[i].stream
<1>1. DOMAIN q = 1 .. Len(q) /\ Len(q) \in Nat /\ \A i \in DOMAIN q : q[i] \in Adverts
  OBVIOUS
<1>2. \A i \in DOMAIN q : Older(q[i], MaxDelay) \in Adverts /\ Older(q[i], MaxDelay).stream = q[i].stream
  BY <1>1, OlderType
<1>3. QED
  BY <1>1, <1>2

LEMMA TickKeeps ==
  ASSUME IInv, Tick
  PROVE  IInv'
<1> USE DEF IInv, TypeOK
<1>3. \A e \in Entries : Older(e, AgingTime) \in Entries /\ Older(e, AgingTime).stream = e.stream
  BY OlderType
<1>4. ASSUME NEW n \in Nodes
      PROVE  /\ table'[n] \in Tables /\ table'[n].talkers = table[n].talkers
             /\ table'[n].listeners = {Older(e, AgingTime) : e \in table[n].listeners}
  <2>1. table'[n] = [table[n] EXCEPT !.listeners = {Older(e, AgingTime) : e \in @},
                                    !.nextAging = IF @ > 0 THEN @ - 1 ELSE @]
    BY DEF Tick
  <2>2. table[n] \in Tables
    OBVIOUS
  <2>3. {Older(e, AgingTime) : e \in table[n].listeners} \in SUBSET Entries
    BY <1>3, <2>2 DEF Tables
  <2>4. (IF table[n].nextAging > 0 THEN table[n].nextAging - 1 ELSE table[n].nextAging) \in Unset .. AgingTime
    BY <2>2, TimeAssumption DEF Tables, Unset
  <2>5. table'[n] = [talkers |-> table[n].talkers,
                     listeners |-> {Older(e, AgingTime) : e \in table[n].listeners},
                     nextAging |-> IF table[n].nextAging > 0 THEN table[n].nextAging - 1 ELSE table[n].nextAging]
    BY <2>1, <2>2 DEF Tables
  <2>6. QED
    BY <2>2, <2>3, <2>4, <2>5 DEF Tables
<1>5. table' \in [Nodes -> Tables]
  <2>1. table' = [n \in Nodes |-> table'[n]]
    BY DEF Tick
  <2>2. QED
    BY <1>4, <2>1
<1>6. timers' \in [Sinks -> Seq(Nat)] /\ \A a \in Sinks : timers'[a] # <<>> => timers[a] # <<>>
  <2>1. ASSUME NEW a \in Sinks
        PROVE  timers'[a] \in Seq(Nat) /\ (timers'[a] # <<>> => timers[a] # <<>>)
    <3>1. timers[a] \in Seq(Nat) /\ 0 \notin Range(timers[a])
      BY DEF Tick
    <3>2. \A i \in DOMAIN timers[a] : timers[a][i] \in Nat \ {0}
      BY <3>1 DEF Range
    <3>3. timers'[a] = [i \in DOMAIN timers[a] |-> timers[a][i] - 1]
      BY DEF Tick
    <3>4. DOMAIN timers[a] = 1 .. Len(timers[a]) /\ Len(timers[a]) \in Nat
      BY <3>1
    <3>5. timers'[a] \in Seq(Nat) /\ Len(timers'[a]) = Len(timers[a])
      <4>1. \A i \in 1 .. Len(timers[a]) : timers[a][i] - 1 \in Nat
        BY <3>2, <3>4
      <4>2. timers'[a] = [i \in 1 .. Len(timers[a]) |-> timers[a][i] - 1]
        BY <3>3, <3>4
      <4>3. Len(timers[a]) \in Nat
        BY <3>4
      <4> HIDE DEF IInv, TypeOK
      <4>4. QED
        BY <4>1, <4>2, <4>3
    <3>6. QED
      BY <3>1, <3>5
  <2>2. timers' = [a \in Sinks |-> timers'[a]]
    BY DEF Tick
  <2>3. QED
    BY <2>1, <2>2
<1>7. /\ up' \in [Below -> Seq(Requests)]
      /\ \A c \in Below : \A i \in DOMAIN up'[c] : i \in DOMAIN up[c] /\ up'[c][i].stream = up[c][i].stream
  <2>1. ASSUME NEW c \in Below
        PROVE  /\ up'[c] \in Seq(Requests)
               /\ \A i \in DOMAIN up'[c] : i \in DOMAIN up[c] /\ up'[c][i].stream = up[c][i].stream
    <3>1. up[c] \in Seq(Requests) /\ up'[c] = [i \in DOMAIN up[c] |-> Older(up[c][i], MaxDelay)]
      BY DEF Tick
    <3>2. DOMAIN up'[c] = DOMAIN up[c] /\ \A i \in DOMAIN up[c] : up'[c][i] = Older(up[c][i], MaxDelay)
      BY <3>1
    <3>3. up'[c] \in Seq(Requests) /\ \A i \in DOMAIN up[c] : Older(up[c][i], MaxDelay).stream = up[c][i].stream
      BY <3>1, OlderRequests
    <3>4. QED
      BY <3>2, <3>3
  <2>2. up' = [c \in Below |-> up'[c]]
    BY DEF Tick
  <2>3. QED
    BY <2>1, <2>2
<1>8. /\ down' \in [Below -> Seq(Adverts)]
      /\ \A c \in Below : \A i \in DOMAIN down'[c] : i \in DOMAIN down[c] /\ down'[c][i].stream = down[c][i].stream
  <2>1. ASSUME NEW c \in Below
        PROVE  /\ down'[c] \in Seq(Adverts)
               /\ \A i \in DOMAIN down'[c] : i \in DOMAIN down[c] /\ down'[c][i].stream = down[c][i].stream
    <3>1. down[c] \in Seq(Adverts) /\ down'[c] = [i \in DOMAIN down[c] |-> Older(down[c][i], MaxDelay)]
      BY DEF Tick
    <3>2. DOMAIN down'[c] = DOMAIN down[c] /\ \A i \in DOMAIN down[c] : down'[c][i] = Older(down[c][i], MaxDelay)
      BY <3>1
    <3>3. down'[c] \in Seq(Adverts) /\ \A i \in DOMAIN down[c] : Older(down[c][i], MaxDelay).stream = down[c][i].stream
      BY <3>1, OlderAdverts
    <3>4. QED
      BY <3>2, <3>3
  <2>2. down' = [c \in Below |-> down'[c]]
    BY DEF Tick
  <2>3. QED
    BY <2>1, <2>2
<1>9. (\A c \in Below : c \in Nodes /\ Up[c] \in Nodes) /\ \A a \in Sinks : NodeOf[a] \in Nodes
  BY TreeAssumption, StreamAssumption DEF Below
<1>10. TalkersKnown'
  BY <1>4, <1>6, <1>7, <1>9 DEF TalkersKnown
<1>11. KnownAbove'
  <2>1. \A n \in Nodes : \A e \in table'[n].listeners : e.stream \in table'[n].talkers
    <3>1. ASSUME NEW n \in Nodes, NEW e \in table'[n].listeners
          PROVE  e.stream \in table'[n].talkers
      <4>1. PICK d \in table[n].listeners : e = Older(d, AgingTime)
        BY <1>4
      <4>2. d \in Entries
        BY DEF Tables
      <4>3. QED
        BY <1>3, <1>4, <4>1, <4>2 DEF KnownAbove
    <3>2. QED
      BY <3>1
  <2>2. \A c \in Below : table'[c].talkers \subseteq table'[Up[c]].talkers
    BY <1>4, <1>9 DEF KnownAbove
  <2>3. ASSUME NEW c \in Below, NEW i \in DOMAIN down'[c]
        PROVE  down'[c][i].stream \in table'[Up[c]].talkers
    <3>1. i \in DOMAIN down[c] /\ down'[c][i].stream = down[c][i].stream
      BY <1>8
    <3>2. down[c][i].stream \in table[Up[c]].talkers
      BY <3>1 DEF KnownAbove
    <3>3. table'[Up[c]].talkers = table[Up[c]].talkers
      BY <1>4, <1>9
    <3>4. QED
      BY <3>1, <3>2, <3>3
  <2>4. QED
    BY <2>1, <2>2, <2>3 DEF KnownAbove
<1>12. StreamsToListeners'
  <2>1. table[Root].listeners \in SUBSET Entries
    BY TreeAssumption DEF Tables
  <2>2. \A s \in Streams : HasListeners(table'[Root], s) <=> HasListeners(table[Root], s)
    <3>1. table'[Root].listeners = {Older(e, AgingTime) : e \in table[Root].listeners}
      BY <1>4, TreeAssumption
    <3>2. \A e \in table[Root].listeners : Older(e, AgingTime).stream = e.stream
      BY <1>3, <2>1
    <3> HIDE DEF IInv, TypeOK
    <3>3. QED
      BY <3>1, <3>2 DEF HasListeners
  <2>3. streaming' = streaming
    BY DEF Tick
  <2>4. QED
    BY <2>2, <2>3 DEF StreamsToListeners, HasListeners
<1>13. streaming' \in [Streams -> BOOLEAN]
  BY DEF Tick
<1>14. QED
  BY <1>5, <1>6, <1>7, <1>8, <1>10, <1>11, <1>12, <1>13

LEMMA InitIInv == Init => IInv
<1> SUFFICES ASSUME Init PROVE IInv
  OBVIOUS
<1>1. Empty \in Tables
  BY TimeAssumption DEF Empty, Tables, Unset
<1>2. TypeOK
  BY <1>1 DEF Init, TypeOK
<1>3. Root \in Nodes /\ \A n \in Nodes : table[n].listeners = {} /\ table[n].talkers = {}
  BY TreeAssumption DEF Init, Empty
<1>4. /\ \A s \in Streams : streaming[s] = FALSE
      /\ \A a \in Sinks : timers[a] = <<>>
      /\ \A n \in Below : up[n] = <<>> /\ down[n] = <<>>
  BY DEF Init
<1>5. TalkersKnown
  BY <1>4 DEF TalkersKnown
<1>6. KnownAbove
  BY <1>3, <1>4 DEF KnownAbove, Below
<1>7. StreamsToListeners
  BY <1>3, <1>4 DEF StreamsToListeners, HasListeners
<1>8. QED
  BY <1>2, <1>5, <1>6, <1>7 DEF IInv

LEMMA NextIInv == IInv /\ [Next]_vars => IInv'
<1> SUFFICES ASSUME IInv, [Next]_vars PROVE IInv'
  OBVIOUS
<1>1. CASE Tick
  BY <1>1, TickKeeps
<1>2. CASE \E s \in Streams : StartSource(s)
  BY <1>2, StartSourceKeeps
<1>3. CASE \E n \in Below : TalkerAdvertise(n)
  BY <1>3, TalkerAdvertiseKeeps
<1>4. CASE \E c \in Below : ListenerReady(c)
  BY <1>4, ListenerReadyKeeps
<1>5. CASE \E c \in Below : ListenerFails(c)
  BY <1>5, ListenerFailsKeeps
<1>6. CASE \E c \in Below : ListenerAskingFailed(c)
  BY <1>6, ListenerAskingFailedKeeps
<1>7. CASE \E c \in Below : ListenerReadyFailed(c)
  BY <1>7, ListenerReadyFailedKeeps
<1>8. CASE \E a \in Sinks : Subscribe(a)
  BY <1>8, SubscribeKeeps
<1>9. CASE \E n \in Nodes : GetBandwidth(n)
  BY <1>9, GetBandwidthKeeps
<1>10. CASE UNCHANGED vars
  BY <1>10 DEF vars, IInv, TypeOK, TalkersKnown, KnownAbove, StreamsToListeners, HasListeners
<1>11. QED
  BY <1>1, <1>2, <1>3, <1>4, <1>5, <1>6, <1>7, <1>8, <1>9, <1>10 DEF Next, Progress

------------------------------------------------------------------------------
(* The bandwidth that is reserved at a port.  A stream counts once, because  *)
(* a table has one entry for a stream and a port, however often it is        *)
(* renewed; with two of them a renewal could still pass what is reservable.  *)
Once(t) ==
  /\ IsFiniteSet(t.listeners)
  /\ \A d, e \in t.listeners : d.stream = e.stream /\ d.port = e.port => d = e

Booked(t) == Once(t) /\ \A c \in Below : Utilized(t, c) <= Reservable[c]

Booking == \A n \in Nodes : Booked(table[n])

Reserved(t, port) == {e.stream : e \in {d \in t.listeners : d.port = port}}

LEMMA UtilizedIsTotal ==
  ASSUME NEW t \in Tables, Once(t), NEW port
  PROVE  /\ Utilized(t, port) = Total(Bandwidth, Reserved(t, port))
         /\ IsFiniteSet(Reserved(t, port))
         /\ Reserved(t, port) \in SUBSET Streams
<1> DEFINE S == {e \in t.listeners : e.port = port}
           w == [e \in S |-> Bandwidth[e.stream]]
           f == [e \in S |-> e.stream]
           R == Reserved(t, port)
<1>1. S \in SUBSET Entries /\ S \in SUBSET t.listeners
  BY DEF Tables
<1>2. IsFiniteSet(S)
  BY <1>1, FS_Subset DEF Once
<1>3. R = {f[e] : e \in S} /\ f \in [S -> R] /\ R \in SUBSET Streams
  BY <1>1 DEF Reserved, Entries
<1>4. \A x, y \in S : f[x] = f[y] => x = y
  BY <1>1 DEF Once
<1>5. /\ \A x \in S : w[x] \in Int /\ w[x] = Bandwidth[f[x]]
      /\ \A x \in R : Bandwidth[x] \in Int
  BY <1>3, StreamAssumption
<1>6. Utilized(t, port) = Total(w, S)
  <2>1. \A g : Sums(w, S, g) <=>
          g = [s \in SUBSET S |->
                 IF s = {} THEN 0 ELSE Bandwidth[(CHOOSE x \in s : TRUE).stream] + g[s \ {CHOOSE x \in s : TRUE}]]
    <3>1. \A s \in SUBSET S : s # {} => w[Chosen(s)] = Bandwidth[(CHOOSE x \in s : TRUE).stream]
      BY DEF Chosen
    <3> HIDE DEF S, w
    <3> QED
      BY <3>1 DEF Sums, Chosen
  <2> QED
    BY ZenonT(40), <2>1 DEF Utilized, MapThenSumSet, MapThenFoldSet, Total
<1>7. IsFiniteSet(R)
  <2>1. \A r \in R : \E e \in S : r = f[e]
    BY <1>3
  <2> HIDE DEF S, f, R
  <2> QED
    BY <1>2, <2>1, FiniteImage
<1>8. Total(w, S) = Total(Bandwidth, R)
  <2> HIDE DEF S, f, R, w
  <2> QED
    BY <1>2, <1>3, <1>4, <1>5, <1>7, TotalRenamed
<1> QED
  BY <1>3, <1>6, <1>7, <1>8

(* A port whose streams are a part of what they were is booked no more.    *)
LEMMA NotMoreUtilized ==
  ASSUME NEW t \in Tables, Once(t), NEW u \in Tables, Once(u), NEW port,
         Reserved(u, port) \subseteq Reserved(t, port)
  PROVE  Utilized(u, port) <= Utilized(t, port)
<1>1. /\ Utilized(t, port) = Total(Bandwidth, Reserved(t, port))
      /\ Utilized(u, port) = Total(Bandwidth, Reserved(u, port))
      /\ IsFiniteSet(Reserved(t, port)) /\ Reserved(t, port) \in SUBSET Streams
  BY UtilizedIsTotal
<1>2. \A s \in Reserved(t, port) : Bandwidth[s] \in Nat
  BY <1>1, StreamAssumption
<1> QED
  BY <1>1, <1>2, TotalSubset

LEMMA UtilizedNat ==
  ASSUME NEW t \in Tables, Once(t), NEW port
  PROVE  Utilized(t, port) \in Nat
<1>1. /\ Utilized(t, port) = Total(Bandwidth, Reserved(t, port))
      /\ IsFiniteSet(Reserved(t, port)) /\ Reserved(t, port) \in SUBSET Streams
  BY UtilizedIsTotal
<1>2. \A s \in Reserved(t, port) : Bandwidth[s] \in Nat
  BY <1>1, StreamAssumption
<1> QED
  BY <1>1, <1>2, TotalSubset

LEMMA NarrowedBooked ==
  ASSUME NEW t \in Tables, Booked(t), NEW u \in Tables, Once(u),
         \A c \in Below : Reserved(u, c) \subseteq Reserved(t, c)
  PROVE  Booked(u)
<1>1. ASSUME NEW c \in Below PROVE Utilized(u, c) <= Reservable[c]
  <2>1. Utilized(u, c) <= Utilized(t, c)
    BY NotMoreUtilized DEF Booked
  <2>2. Utilized(t, c) <= Reservable[c]
    BY DEF Booked
  <2>3. Utilized(u, c) \in Nat /\ Utilized(t, c) \in Nat /\ Reservable[c] \in Nat
    BY UtilizedNat, TreeAssumption DEF Booked, Below
  <2> QED
    BY <2>1, <2>2, <2>3
<1> QED
  BY <1>1 DEF Booked

(* A sweep leaves a part of the listeners.                                 *)
LEMMA SweptBooked ==
  ASSUME NEW t \in Tables, Booked(t)
  PROVE  Booked(Swept(t))
<1>1. Swept(t) \in Tables /\ Swept(t).listeners \subseteq t.listeners
  BY SweptTable
<1>2. Once(Swept(t))
  BY <1>1, FS_Subset DEF Booked, Once
<1>3. \A c \in Below : Reserved(Swept(t), c) \subseteq Reserved(t, c)
  BY <1>1 DEF Reserved
<1> QED
  BY <1>1, <1>2, <1>3, NarrowedBooked

(* Only listeners count.                                                   *)
LEMMA SameBooked ==
  ASSUME NEW t \in Tables, Booked(t), NEW u \in Tables, u.listeners = t.listeners
  PROVE  Booked(u)
BY NarrowedBooked DEF Booked, Once, Reserved

(* A renewal replaces the entries of its stream and ports.                 *)
LEMMA RenewedOnce ==
  ASSUME NEW t \in Tables, Once(t), NEW s \in Streams,
         NEW ports \in SUBSET (Below \union Sinks), IsFiniteSet(ports)
  PROVE  /\ Renewed(t, s, ports) \in Tables
         /\ Once(Renewed(t, s, ports))
         /\ \A port : Reserved(Renewed(t, s, ports), port) =
                        IF port \in ports THEN Reserved(t, port) \union {s} ELSE Reserved(t, port)
<1> DEFINE kept == {e \in t.listeners : e.stream # s \/ e.port \notin ports}
           entry == [p \in ports |-> [stream |-> s, port |-> p, age |-> 0]]
           added == {entry[p] : p \in ports}
           u == Renewed(t, s, ports)
<1>1. entry \in [ports -> Entries]
  BY TimeAssumption DEF Entries
<1>2. u = [t EXCEPT !.listeners = kept \union added]
  BY DEF Renewed
<1>3. u \in Tables /\ u.listeners = kept \union added
  BY <1>1, <1>2 DEF Tables
<1>4. IsFiniteSet(kept) /\ IsFiniteSet(added)
  <2>1. IsFiniteSet(kept)
    BY FS_Subset DEF Once
  <2>2. IsFiniteSet(added)
    <3>1. \A e \in added : \E p \in ports : e = entry[p]
      OBVIOUS
    <3> HIDE DEF added, entry
    <3> QED
      BY <3>1, FiniteImage
  <2> QED
    BY <2>1, <2>2
<1>5. /\ \A e \in added : e.stream = s /\ e.port \in ports /\ e = entry[e.port]
      /\ \A p \in ports : entry[p].stream = s /\ entry[p].port = p
  OBVIOUS
<1>6. \A e \in kept : e \in t.listeners /\ (e.stream # s \/ e.port \notin ports)
  OBVIOUS
<1>7. Once(u)
  <2>1. IsFiniteSet(u.listeners)
    <3> HIDE DEF kept, added, u
    <3> QED
      BY <1>3, <1>4, FS_Union
  <2>2. ASSUME NEW d \in u.listeners, NEW e \in u.listeners, d.stream = e.stream, d.port = e.port
        PROVE  d = e
    <3> HIDE DEF kept, added, u, entry
    <3>1. CASE d \in kept /\ e \in kept
      BY <1>6, <2>2, <3>1 DEF Once
    <3>2. CASE d \in added /\ e \in added
      BY <1>5, <2>2, <3>2
    <3> QED
      BY <1>3, <1>5, <1>6, <2>2, <3>1, <3>2
  <2> QED
    BY <2>1, <2>2 DEF Once
<1>8. ASSUME NEW port
      PROVE  Reserved(u, port) = IF port \in ports THEN Reserved(t, port) \union {s} ELSE Reserved(t, port)
  <2>1. ASSUME NEW e \in u.listeners, e.port = port
        PROVE  e.stream \in IF port \in ports THEN Reserved(t, port) \union {s} ELSE Reserved(t, port)
    <3> HIDE DEF kept, added, u, entry
    <3> QED
      BY <1>3, <1>5, <1>6, <2>1 DEF Reserved
  <2>2. ASSUME NEW e \in t.listeners, e.port = port
        PROVE  e.stream \in Reserved(u, port)
    <3>1. CASE e \in kept
      BY <1>3, <2>2, <3>1 DEF Reserved
    <3>2. CASE e \notin kept
      <4>1. e.stream = s /\ port \in ports /\ entry[port] \in u.listeners
        BY <1>3, <2>2, <3>2
      <4> HIDE DEF kept, added, u, entry
      <4> QED
        BY <1>5, <2>2, <4>1 DEF Reserved
    <3> QED
      BY <3>1, <3>2
  <2>3. port \in ports => s \in Reserved(u, port)
    <3>1. port \in ports => entry[port] \in u.listeners
      BY <1>3
    <3> HIDE DEF kept, added, u, entry
    <3> QED
      BY <1>5, <3>1 DEF Reserved
  <2> HIDE DEF u
  <2> QED
    BY <2>1, <2>2, <2>3 DEF Reserved
<1> QED
  BY <1>3, <1>7, <1>8

(* An update sweeps after it renewed.                                      *)
LEMMA UpdatedBooked ==
  ASSUME NEW t \in Tables, NEW s \in Streams, NEW ports \in SUBSET (Below \union Sinks),
         Renewed(t, s, ports) \in Tables, Booked(Renewed(t, s, ports))
  PROVE  Booked(UpdateListeners(t, s, ports))
<1> DEFINE r == Renewed(t, s, ports)
<1>1. UpdateListeners(t, s, ports) \in Tables
  BY UpdatedTable
<1>2. Swept(r) \in Tables /\ Booked(Swept(r))
  BY SweptTable, SweptBooked
<1> HIDE DEF r
<1>3. UpdateListeners(t, s, ports) = [Swept(r) EXCEPT !.nextAging = IF @ = Unset THEN AgingTime ELSE @]
  BY DEF UpdateListeners, r
<1>4. UpdateListeners(t, s, ports).listeners = Swept(r).listeners
  BY <1>2, <1>3 DEF Tables
<1> QED
  BY <1>1, <1>2, <1>4, SameBooked

(* Sinks of the node itself take nothing from a port.                      *)
LEMMA SinksBooked ==
  ASSUME NEW t \in Tables, Booked(t), NEW s \in Streams, NEW sinks \in SUBSET Sinks
  PROVE  Booked(UpdateListeners(t, s, sinks))
<1>1. IsFiniteSet(sinks) /\ sinks \in SUBSET (Below \union Sinks)
  BY StreamAssumption, FS_Subset
<1>2. /\ Renewed(t, s, sinks) \in Tables /\ Once(Renewed(t, s, sinks))
      /\ \A c \in Below : Reserved(Renewed(t, s, sinks), c) = Reserved(t, c)
  <2>1. \A c \in Below : c \notin sinks
    BY StreamAssumption DEF Below
  <2> QED
    BY <1>1, <2>1, RenewedOnce DEF Booked
<1>3. Booked(Renewed(t, s, sinks))
  BY <1>2, NarrowedBooked
<1> QED
  BY <1>1, <1>2, <1>3, UpdatedBooked

(* An admitted request: the port of an update has the stream already, and  *)
(* what is new fits.                                                       *)
LEMMA AdmittedBooked ==
  ASSUME NEW t \in Tables, Booked(t), NEW s \in Streams, NEW c \in Below, Admitted(t, s, c)
  PROVE  Booked(UpdateListeners(t, s, {c}))
<1> DEFINE u == Renewed(t, s, {c})
<1>1. {c} \in SUBSET (Below \union Sinks) /\ IsFiniteSet({c})
  BY FS_Singleton
<1>2. /\ u \in Tables /\ Once(u)
      /\ \A b : Reserved(u, b) = IF b \in {c} THEN Reserved(t, b) \union {s} ELSE Reserved(t, b)
  BY <1>1, RenewedOnce DEF Booked
<1> HIDE DEF u
<1>3. /\ \A b \in Below \ {c} : Reserved(u, b) = Reserved(t, b)
      /\ Reserved(u, c) = Reserved(t, c) \union {s}
  BY <1>2
<1>4. CASE s \in Reserved(t, c)
  <2>1. \A b \in Below : Reserved(u, b) \subseteq Reserved(t, b)
    BY <1>3, <1>4
  <2> QED
    BY <1>1, <1>2, <2>1, NarrowedBooked, UpdatedBooked DEF u
<1>5. CASE s \notin Reserved(t, c)
  <2>1. Utilized(t, c) + Bandwidth[s] <= Reservable[c]
    BY <1>5 DEF Admitted, Registered, Reserved
  <2>2. Utilized(u, c) = Utilized(t, c) + Bandwidth[s]
    <3>1. /\ Utilized(t, c) = Total(Bandwidth, Reserved(t, c))
          /\ Utilized(u, c) = Total(Bandwidth, Reserved(u, c))
          /\ IsFiniteSet(Reserved(u, c)) /\ Reserved(u, c) \in SUBSET Streams
      BY <1>2, UtilizedIsTotal DEF Booked
    <3>2. \A x \in Reserved(u, c) : Bandwidth[x] \in Int
      BY <3>1, StreamAssumption
    <3>3. s \in Reserved(u, c) /\ Reserved(u, c) \ {s} = Reserved(t, c)
      BY <1>3, <1>5
    <3>4. Total(Bandwidth, Reserved(u, c)) = Bandwidth[s] + Total(Bandwidth, Reserved(u, c) \ {s})
      BY <3>1, <3>2, <3>3, TotalRemove
    <3>5. Utilized(t, c) \in Nat /\ Bandwidth[s] \in Nat
      BY UtilizedNat, StreamAssumption DEF Booked
    <3> QED
      BY <3>1, <3>3, <3>4, <3>5
  <2>3. ASSUME NEW b \in Below \ {c} PROVE Utilized(u, b) <= Reservable[b]
    <3>1. Utilized(u, b) <= Utilized(t, b)
      BY <1>2, <1>3, NotMoreUtilized DEF Booked
    <3>2. Utilized(t, b) <= Reservable[b]
      BY DEF Booked
    <3>3. Utilized(u, b) \in Nat /\ Utilized(t, b) \in Nat /\ Reservable[b] \in Nat
      BY <1>2, UtilizedNat, TreeAssumption DEF Booked, Below
    <3> QED
      BY <3>1, <3>2, <3>3
  <2>4. Booked(u)
    BY <1>2, <2>1, <2>2, <2>3 DEF Booked
  <2> QED
    BY <1>1, <1>2, <2>4, UpdatedBooked DEF u
<1> QED
  BY <1>4, <1>5

(* A handler changes the table of one node.                                *)
LEMMA SignalsBooked ==
  ASSUME TypeOK, Booking, NEW n \in Nodes, NEW t, NEW swept, NEW u, Signals(n, t, swept, u), Booked(u)
  PROVE  Booking'
<1>1. \A m \in Nodes : table'[m] = IF m = n THEN u ELSE table[m]
  BY DEF Signals, TypeOK
<1>2. \A m \in Nodes : Booked(table'[m])
  BY <1>1 DEF Booking
<1> QED
  BY <1>2 DEF Booking

LEMMA AnnounceBooks ==
  ASSUME TypeOK, Booking, NEW n \in Nodes, NEW s \in Streams, NEW queues, Announce(n, s, queues)
  PROVE  Booking'
<1> DEFINE asking == Asking(n, s)
           known == [table[n] EXCEPT !.talkers = @ \union {s}]
           u == IF asking = {} THEN known ELSE UpdateListeners(known, s, asking)
<1>1. Signals(n, known, Left(known, u), u)
  BY DEF Announce
<1>2. table[n] \in Tables /\ Booked(table[n])
  BY DEF TypeOK, Booking
<1>3. known \in Tables /\ known.listeners = table[n].listeners
  BY <1>2 DEF Tables
<1>4. asking \in SUBSET Sinks
  BY DEF Asking
<1> HIDE DEF known, asking
<1>5. Booked(known)
  BY <1>2, <1>3, SameBooked
<1>6. Booked(u)
  BY <1>3, <1>4, <1>5, SinksBooked
<1> HIDE DEF u
<1> QED
  BY <1>1, <1>6, SignalsBooked

LEMMA SweepBooks ==
  ASSUME TypeOK, Booking, NEW n \in Nodes, Signals(n, table[n], Swept(table[n]), Swept(table[n]))
  PROVE  Booking'
<1>1. Booked(Swept(table[n]))
  BY SweptBooked DEF TypeOK, Booking
<1> QED
  BY <1>1, SignalsBooked

LEMMA ListenerReadyBooks ==
  ASSUME TypeOK, Booking, NEW c \in Below, ListenerReady(c)
  PROVE  Booking'
<1> DEFINE n == Up[c]
           s == Head(up[c]).stream
           swept == Swept(table[n])
           u == UpdateListeners(swept, s, {c})
<1>1. Signals(n, table[n], swept, u) /\ Admitted(swept, s, c) /\ up[c] # <<>>
  BY DEF ListenerReady, Arriving
<1>2. n \in Nodes /\ table[n] \in Tables /\ Booked(table[n])
  BY TreeAssumption DEF Below, TypeOK, Booking
<1>3. s \in Streams
  <2>1. up[c] \in Seq(Requests) /\ Head(up[c]) \in Requests
    BY <1>1 DEF TypeOK
  <2> QED
    BY <2>1 DEF Requests
<1>4. swept \in Tables /\ Booked(swept)
  BY <1>2, SweptTable, SweptBooked
<1> HIDE DEF n, s, swept
<1>5. Booked(u)
  BY <1>1, <1>3, <1>4, AdmittedBooked
<1> HIDE DEF u
<1> QED
  BY <1>1, <1>2, <1>5, SignalsBooked

LEMMA TickBooks ==
  ASSUME TypeOK, Booking, Tick
  PROVE  Booking'
<1>1. ASSUME NEW n \in Nodes PROVE Booked(table'[n])
  <2> DEFINE t == table[n]
             u == table'[n]
             f == [e \in t.listeners |-> Older(e, AgingTime)]
  <2>1. u = [t EXCEPT !.listeners = {Older(e, AgingTime) : e \in @}, !.nextAging = IF @ > 0 THEN @ - 1 ELSE @]
    BY DEF Tick
  <2>2. t \in Tables /\ Booked(t)
    BY DEF TypeOK, Booking
  <2>3. /\ \A e \in t.listeners : f[e] \in Entries /\ f[e].stream = e.stream /\ f[e].port = e.port
        /\ f \in [t.listeners -> Entries]
    BY <2>2, OlderType DEF Tables
  <2>4. (IF t.nextAging > 0 THEN t.nextAging - 1 ELSE t.nextAging) \in Unset .. AgingTime
    BY <2>2, TimeAssumption DEF Tables, Unset
  <2>5. {Older(e, AgingTime) : e \in t.listeners} = {f[e] : e \in t.listeners}
    OBVIOUS
  <2> HIDE DEF f, t, u
  <2>6. /\ u = [talkers |-> t.talkers, listeners |-> {f[e] : e \in t.listeners},
               nextAging |-> IF t.nextAging > 0 THEN t.nextAging - 1 ELSE t.nextAging]
        /\ u \in Tables
    <3>1. u = [talkers |-> t.talkers, listeners |-> {f[e] : e \in t.listeners},
               nextAging |-> IF t.nextAging > 0 THEN t.nextAging - 1 ELSE t.nextAging]
      BY <2>1, <2>2, <2>5 DEF Tables
    <3>2. {f[e] : e \in t.listeners} \in SUBSET Entries
      BY <2>3
    <3> QED
      BY <2>2, <2>4, <3>1, <3>2 DEF Tables
  <2>7. Once(u)
    <3>0. u.listeners = {f[e] : e \in t.listeners}
      BY <2>6
    <3>1. IsFiniteSet(u.listeners)
      <4>1. \A e \in u.listeners : \E d \in t.listeners : e = f[d]
        BY <3>0
      <4> QED
        BY <2>2, <4>1, FiniteImage DEF Booked, Once
    <3>2. \A d, e \in u.listeners : d.stream = e.stream /\ d.port = e.port => d = e
      BY <2>2, <2>3, <3>0 DEF Booked, Once
    <3> QED
      BY <3>1, <3>2 DEF Once
  <2>8. \A c \in Below : Reserved(u, c) \subseteq Reserved(t, c)
    BY <2>3, <2>6 DEF Reserved
  <2>9. Booked(u)
    BY <2>2, <2>6, <2>7, <2>8, NarrowedBooked
  <2> QED
    BY <2>9 DEF u
<1> QED
  BY <1>1 DEF Booking

LEMMA InitBooking == Init => Booking
<1> SUFFICES ASSUME Init, NEW n \in Nodes PROVE Booked(table[n])
  BY DEF Booking
<1>1. table[n] = Empty /\ Empty \in Tables /\ Empty.listeners = {}
  BY TimeAssumption DEF Init, Empty, Tables, Unset
<1>2. Once(Empty)
  BY <1>1, FS_EmptySet DEF Once
<1>3. ASSUME NEW c \in Below PROVE Utilized(Empty, c) <= Reservable[c]
  <2>1. Reserved(Empty, c) = {} /\ Utilized(Empty, c) = Total(Bandwidth, Reserved(Empty, c))
    BY <1>1, <1>2, UtilizedIsTotal DEF Reserved
  <2>2. Total(Bandwidth, {}) = 0
    BY FS_EmptySet, TotalRemove
  <2>3. Reservable[c] \in Nat
    BY TreeAssumption DEF Below
  <2> QED
    BY <2>1, <2>2, <2>3
<1> QED
  BY <1>1, <1>2, <1>3 DEF Booked

LEMMA NextBooking == TypeOK /\ Booking /\ [Next]_vars => Booking'
<1> SUFFICES ASSUME TypeOK, Booking, [Next]_vars PROVE Booking'
  OBVIOUS
<1>0. \A c \in Below : c \in Nodes /\ Up[c] \in Nodes
  BY TreeAssumption DEF Below
<1>1. CASE Tick
  BY <1>1, TickBooks
<1>2. CASE \E s \in Streams : StartSource(s)
  BY <1>2, AnnounceBooks, TreeAssumption DEF StartSource
<1>3. ASSUME NEW n \in Below, TalkerAdvertise(n)
      PROVE  Booking'
  <2>1. down[n] \in Seq(Adverts) /\ down[n] # <<>>
    BY <1>3 DEF TypeOK, TalkerAdvertise
  <2>2. Head(down[n]) \in Adverts
    BY <2>1
  <2>3. Head(down[n]).stream \in Streams
    BY <2>2 DEF Adverts
  <2> QED
    BY <1>0, <1>3, <2>3, AnnounceBooks DEF TalkerAdvertise
<1>4. CASE \E c \in Below : ListenerReady(c)
  BY <1>4, ListenerReadyBooks
<1>5. CASE \E c \in Below : ListenerFails(c) \/ ListenerAskingFailed(c)
  BY <1>0, <1>5, SweepBooks DEF ListenerFails, ListenerAskingFailed
<1>6. CASE \E c \in Below : ListenerReadyFailed(c)
  BY <1>6 DEF ListenerReadyFailed, Booking
<1>7. ASSUME NEW a \in Sinks, Subscribe(a)
      PROVE  Booking'
  <2> DEFINE t == table[NodeOf[a]]
             u == UpdateListeners(t, StreamOf[a], {a})
  <2>1. Signals(NodeOf[a], t, Left(t, u), u)
    BY <1>7 DEF Subscribe
  <2>2. NodeOf[a] \in Nodes /\ StreamOf[a] \in Streams /\ {a} \in SUBSET Sinks
    BY StreamAssumption
  <2>3. t \in Tables /\ Booked(t)
    BY <2>2 DEF TypeOK, Booking
  <2> HIDE DEF t
  <2>4. Booked(u)
    BY <2>2, <2>3, SinksBooked
  <2> HIDE DEF u
  <2> QED
    BY <2>1, <2>2, <2>4, SignalsBooked
<1>8. CASE \E n \in Nodes : GetBandwidth(n)
  BY <1>8, SweepBooks DEF GetBandwidth
<1>9. CASE UNCHANGED vars
  BY <1>9 DEF vars, Booking
<1> QED
  BY <1>1, <1>2, <1>3, <1>4, <1>5, <1>6, <1>7, <1>8, <1>9 DEF Next, Progress

(* SRPTable and SRProtocol: in every tree, whatever the capacities, the    *)
(* intervals and the order of announcements, requests, sweeps and retries, *)
(* a request or the timer of a sink finds its talker in the table, so that *)
(* neither of the two exceptions for an unknown talker is thrown.          *)
THEOREM TalkersAlwaysKnown == Spec => [](TypeOK /\ TalkersKnown)
<1>1. IInv => TypeOK /\ TalkersKnown
  BY DEF IInv
<1>2. QED
  BY <1>1, InitIInv, NextIInv, PTL DEF Spec

(* AVBTrafficSourceApp: a source is streaming exactly while its own node's *)
(* table has a listener for the stream, through sweeps that remove one of  *)
(* several listeners or one that registers again in the same handler.      *)
THEOREM StreamsExactlyToListeners == Spec => []StreamsToListeners
<1>1. IInv => StreamsToListeners
  BY DEF IInv
<1>2. QED
  BY <1>1, InitIInv, NextIInv, PTL DEF Spec

(* SRPTable and SRProtocol: whatever the order of requests, renewals and   *)
(* sweeps, no port has more bandwidth reserved than is reservable there;   *)
(* a renewal, which is not checked, never adds to what is reserved.  With  *)
(* the two theorems above this is all that the run of the module checks.   *)
THEOREM AlwaysSound == Spec => []Sound
<1>1. Init => IInv /\ Booking
  BY InitIInv, InitBooking
<1>2. IInv /\ Booking /\ [Next]_vars => (IInv /\ Booking)'
  BY NextIInv, NextBooking DEF IInv
<1>3. IInv /\ Booking => Sound
  BY DEF IInv, Sound, Booking, Booked, NotOverbooked
<1>4. QED
  BY <1>1, <1>2, <1>3, PTL DEF Spec
=============================================================================
