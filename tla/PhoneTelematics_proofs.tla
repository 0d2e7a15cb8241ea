---------------------- MODULE PhoneTelematics_proofs ----------------------
(***************************************************************************)
(* Proofs about PhoneTelematics, for every value of its constants. None    *)
(* of them assumes anything of Serialised, Fifo and Drained: callers of    *)
(* the Phone may overlap, callbacks may arrive in any order, and a         *)
(* listener may hear of a new Phone before it has the callbacks of the     *)
(* old one.                                                                *)
(*                                                                         *)
(* A listener only ever has states that the APN had (NothingInvented),     *)
(* and one that listens for restarts of the Phone is never forgotten       *)
(* (NeverForgotten). It may go back to an older state, or miss one, but    *)
(* only because of one of the steps and states named below, none of which  *)
(* the code excludes (NeverGoesBack, NothingIsMissed).                     *)
(***************************************************************************)
EXTENDS PhoneTelematics, IntegerLemmas, TLAPS

(* Spec without its fairness. A beginning of a behaviour that stutters     *)
(* from then on is a behaviour of it too, so that a theorem of the form    *)
(* SafeSpec => P \/ <>A says that P is kept until A happens.               *)
SafeSpec == Init /\ [][Next]_vars

Ring    == 0 .. (SequenceMax - 1)
Message == [apn : Apns, version : Nat, seq : Ring]
Service == [status : {"off", "on", "crashed"}, receiver : BOOLEAN,
            last : NoSequence .. (SequenceMax - 1), view : [Apns -> Nat]]

Types == TypeOK /\ chan \in [Listeners -> Seq(Message)]

Sends    == {"begin", "send", "push"}          \* has a number to send with
Numbered == Sends \union {"increment"}         \* has one that is not used up yet

(* What is cached is the current state of the APN, and what a job has, of  *)
(* a Phone that is up, was the current state when it got it.               *)
FromCache ==
  /\ \A a \in Apns : phone.cache[a] \in {Unknown, truth[a]}
  /\ \A t \in Threads :
       /\ jobs[t].pc \in Sends \union {"sequence"} =>
            /\ jobs[t].version <= truth[jobs[t].apn]
            /\ phone.cache[jobs[t].apn] = truth[jobs[t].apn]
       /\ jobs[t] # Idle => phone.up

(* The callbacks c and the service s know of no state that is to come.     *)
Known(c, s, states) ==
  /\ \A i \in DOMAIN c : c[i].version <= states[c[i].apn]
  /\ \A a \in Apns : s.view[a] <= states[a]

AllKnown == \A l \in Listeners : Known(chan[l], tel[l], truth)

(* How many numbers have been used since the number seq, if top is next.   *)
Behind(top, seq) == (top - seq) % SequenceMax

(* The job of t may still send its number to l,                            *)
Holds(t, job, l) ==
  \/ t \in Notifiers /\ (job.pc = "begin" \/ (job.pc = "send" /\ l \in job.left))
  \/ t = l /\ job.pc = "push"

Carried(job) == [apn |-> job.apn, version |-> job.version, seq |-> job.seq]

(* so it is under way like the callbacks that have been made.              *)
Arriving(c, held, l) ==
  {c[i] : i \in DOMAIN c}
    \union {Carried(held[t]) : t \in {u \in Threads : Holds(u, held[u], l)}}

UnderWay(l) == Arriving(chan[l], jobs, l)

(* What is under way to the service s can come in any order: of two about  *)
(* one APN the younger has the younger state, and one that would take the  *)
(* service back is refused, and so is all that is older.                   *)
Lined(msgs, s, top) ==
  /\ \A m \in msgs : Behind(top, m.seq) < HalfRing
  /\ \A m, n \in msgs :
       m.apn = n.apn /\ Behind(top, m.seq) < Behind(top, n.seq) => n.version <= m.version
  /\ \A m \in msgs :
       \/ s.view[m.apn] <= m.version
       \/ /\ s.last # NoSequence
          /\ \A n \in msgs : Behind(top, m.seq) <= Behind(top, n.seq) =>
                               Behind(s.last, n.seq) < HalfRing

LinedUp(msgs, s, up, sequence) == \E top \in Ring : (up => top = sequence) /\ Lined(msgs, s, top)

Orderly == \A l \in Listeners : LinedUp(UnderWay(l), tel[l], phone.up, phone.sequence)

KnownInv == Types /\ FromCache /\ AllKnown
SafeInv  == KnownInv /\ Orderly
-----------------------------------------------------------------------------
(* What can make a listener go back to an older state.                     *)

(* Less than half of the ring is used up while a callback, or a caller     *)
(* that has its number, is under way. Callbacks of an old Phone are        *)
(* compared with the numbers of the new one.                               *)
InTime ==
  phone.up => \A l \in Listeners : \A m \in UnderWay(l) :
    Behind(phone.sequence, m.seq) < HalfRing

(* A caller gets its number (getCurrentSequence) for a state that has      *)
(* changed since the caller cached it or read it from the cache.           *)
StaleNumber ==
  \E t \in Threads : ReadSequence(t) /\ jobs[t].version # truth[jobs[t].apn]

(* A listener resets its handler (handlePhoneRestart) while a state older  *)
(* than the one it has is under way to it.                                 *)
ForgetsTooSoon ==
  \E l \in Listeners : /\ HandlePhoneRestart(l)
                       /\ \E m \in UnderWay(l) : m.version < tel[l].view[m.apn]

GoesWrong == StaleNumber \/ ForgetsTooSoon
-----------------------------------------------------------------------------
(* What can make a listener miss a state: StaleNumber, and the following.  *)

(* A caller gets the number that another one has and has not increased     *)
(* yet.                                                                    *)
SharedNumber ==
  \E s, t \in Threads : s # t /\ jobs[s].pc \in Numbered /\ ReadSequence(t)

(* A callback overtakes one that was made before it.                       *)
Overtakes == \E l \in Listeners : \E i \in 2 .. Len(chan[l]) : Deliver(l, i)

(* A service connects while callbacks are under way to it, or when the     *)
(* last number it has is the one that the Phone uses next.                 *)
ConnectsTooSoon ==
  \E l \in Listeners : /\ Start(l) \/ HandlePhoneRestart(l)
                       /\ chan[l] # <<>> \/ tel'[l].last = phone.sequence

MissesOne == StaleNumber \/ SharedNumber \/ Overtakes \/ ConnectsTooSoon
-----------------------------------------------------------------------------
(* What a listener that was served in order has seen and will see.         *)

Served(l) == l \in phone.registered

(* At most one caller has a number that is not used up yet,                *)
OneNumbered ==
  \A s, t \in Threads : jobs[s].pc \in Numbered /\ jobs[t].pc \in Numbered => s = t

(* A notifier with the state value of a waits for its number.              *)
Waits(job, a, value) == job.pc = "sequence" /\ job.apn = a /\ job.version = value

(* it is the current one, and so is the state that is sent with it,        *)
(* unless one with the current state waits.                                *)
CurrentNumber ==
  \A t \in Threads : jobs[t].pc \in Sends =>
    /\ jobs[t].seq = phone.sequence
    /\ \/ jobs[t].version = truth[jobs[t].apn]
       \/ \E n \in Notifiers : Waits(jobs[n], jobs[t].apn, truth[jobs[t].apn])

(* The job of t has sent the current number to l, or never will.           *)
SentBy(t, job, l) ==
  \/ t \in Notifiers /\ job.pc = "send" /\ l \notin job.left
  \/ t \in Listeners /\ job.pc = "increment"

(* The job of t is going to send the state value of a to l.                *)
OwedBy(t, job, l, a, value) ==
  \/ /\ t \in Notifiers /\ job.apn = a /\ job.version = value
     /\ job.pc \in {"sequence", "begin"} \/ (job.pc = "send" /\ l \in job.left)
  \/ /\ t = l
     /\ \/ job.pc = "cache" /\ job.apn <= a
        \/ job.pc \in {"sequence", "push"} /\ job.apn = a /\ job.version = value
        \/ job.pc \in {"sequence", "push", "increment"} /\ job.apn < a

Sent(l)           == \E t \in Threads : SentBy(t, jobs[t], l)
Owed(l, a, value) == \E t \in Threads : OwedBy(t, jobs[t], l, a, value)

(* The number before the i-th of the callbacks c to a listener that has    *)
(* the number last: it is the one that the i-th will be compared with.     *)
Before(c, last, i) == IF i = 1 THEN last ELSE c[i - 1].seq
Newest(c, last)    == Before(c, last, Len(c) + 1)

(* All the callbacks c will be accepted,                                   *)
Chain(c, last) == \A i \in 1 .. Len(c) : Accepted(Before(c, last, i), c[i].seq)

(* and the number top is younger than all of them.                         *)
Newer(c, last, top) == Newest(c, last) # NoSequence => Behind(top, Newest(c, last)) > 0

(* With the callbacks c the view of a becomes value.                       *)
Reaches(c, view, a, value) ==
  \/ \E i \in DOMAIN c : /\ c[i].apn = a /\ c[i].version = value
                         /\ \A j \in DOMAIN c : i < j => c[j].apn # a
  \/ (\A i \in DOMAIN c : c[i].apn # a) /\ view[a] = value

(* Who is registered is on, the Phone knows whom its jobs are for, a       *)
(* process that is gone has left nothing behind, and who listens for       *)
(* restarts of the Phone is on.                                            *)
Membership ==
  \A l \in Listeners :
    /\ Served(l) => tel[l].status = "on" /\ phone.up
    /\ jobs[l].pc \in {"cache", "sequence", "push"} => Served(l)
    /\ jobs[l].pc = "increment" /\ jobs[l].apn # NumApns => Served(l)
    /\ \A n \in Notifiers : l \in jobs[n].left => tel[l].status # "crashed"
    /\ tel[l].receiver \/ pending[l] > 0 => tel[l].status = "on"
    /\ tel[l].status = "crashed" => chan[l] = <<>> /\ tel[l].last = NoSequence

(* A served listener has its callbacks in order, and has, will receive or  *)
(* will be sent every state that is cached.                                *)
Complete ==
  \A l \in Listeners : Served(l) =>
    /\ Chain(chan[l], tel[l].last)
    /\ Sent(l) \/ Newer(chan[l], tel[l].last, phone.sequence)
    /\ \A a \in Apns : phone.cache[a] # Unknown =>
         \/ Reaches(chan[l], tel[l].view, a, phone.cache[a])
         \/ Owed(l, a, phone.cache[a])

ServedInv == /\ Types /\ FromCache /\ OneNumbered /\ CurrentNumber
             /\ Membership /\ Complete

(* Less than half of the ring has been used up since the newest callback   *)
(* to a served listener; callbacks to other services are numbered as       *)
(* well.                                                                   *)
Recent ==
  \A l \in Listeners : Served(l) =>
    LET newest == Newest(chan[l], tel[l].last) IN
    newest # NoSequence => Behind(phone.sequence, newest) < HalfRing

(* A listener is heard of again after a restart of the Phone, or has       *)
(* been.                                                                   *)
Remembered ==
  \A l \in Listeners : tel[l].receiver =>
    ~phone.up \/ l \in phone.registered \/ pending[l] > 0
-----------------------------------------------------------------------------
(* The ring.                                                               *)

LEMMA RingSize == /\ SequenceMax \in Nat \ {0} /\ HalfRing \in Nat \ {0}
                  /\ SequenceMax = 2 * HalfRing
BY PhoneAssumption

LEMMA BehindIs ==
  ASSUME NEW top \in Ring, NEW seq \in Ring
  PROVE  /\ Behind(top, seq) = IF seq <= top THEN top - seq ELSE top - seq + SequenceMax
         /\ Behind(top, seq) \in Ring
<1>1. CASE seq <= top
  <2>1. top - seq \in Ring
    BY <1>1, RingSize DEF Ring
  <2> QED
    BY <1>1, <2>1, RingSize, SmallRemainder DEF Behind, Ring
<1>2. CASE ~(seq <= top)
  <2>1. top - seq \in Int /\ top - seq + SequenceMax \in Ring
    BY <1>2, RingSize DEF Ring
  <2>2. (top - seq) % SequenceMax = top - seq + SequenceMax
    <3> DEFINE a == top - seq
    <3>1. a \in Int /\ a < 0 /\ 0 <= a + SequenceMax
      BY <1>2, <2>1, RingSize DEF Ring
    <3> HIDE DEF a
    <3>2. a % SequenceMax = a + SequenceMax
      BY <3>1, RingSize, SMT
    <3> QED
      BY <3>2 DEF a
  <2> QED
    BY <1>2, <2>1, <2>2 DEF Behind
<1> QED
  BY <1>1, <1>2

LEMMA SuccessorIs ==
  ASSUME NEW top \in Ring
  PROVE  /\ Successor(top) = IF top = SequenceMax - 1 THEN 0 ELSE top + 1
         /\ Successor(top) \in Ring
<1>1. CASE top = SequenceMax - 1
  <2>1. SequenceMax % SequenceMax = 0
    BY RingSize, SMT
  <2> QED
    BY <1>1, <2>1, RingSize DEF Successor, Ring
<1>2. CASE top # SequenceMax - 1
  <2>1. top + 1 \in Ring
    BY <1>2, RingSize DEF Ring
  <2> QED
    BY <1>2, <2>1, RingSize, SmallRemainder DEF Successor, Ring
<1> QED
  BY <1>1, <1>2

LEMMA Divided ==
  ASSUME NEW a \in Int, NEW d \in Nat \ {0}
  PROVE  a \div d \in Int /\ a % d \in 0 .. (d - 1) /\ a = d * (a \div d) + (a % d)
BY SMT

LEMMA Turn ==
  ASSUME NEW a \in Int, NEW d \in Nat \ {0}
  PROVE  (a + d) % d = a % d
<1> DEFINE b == a + d
           x == a \div d
           y == b \div d
           r == a % d
           t == b % d
<1>1. x \in Int /\ r \in 0 .. (d - 1) /\ a = d * x + r
  BY Divided
<1>2. b \in Int /\ b = a + d
  OBVIOUS
<1> HIDE DEF b
<1>3. y \in Int /\ t \in 0 .. (d - 1) /\ b = d * y + t
  BY <1>2, Divided
<1> HIDE DEF x, y, r, t
<1>4. d * (x + 1) + r = d * y + t
  BY <1>1, <1>2, <1>3, SMT
<1>5. r = t
  BY <1>1, <1>3, <1>4, SMT
<1> QED
  BY <1>5 DEF b, r, t

LEMMA AcceptedIs ==
  ASSUME NEW last \in Ring, NEW seq \in Ring
  PROVE  Accepted(last, seq) <=> Behind(seq, last) \in 1 .. (HalfRing - 1)
<1> DEFINE a == seq - last
<1>1. a \in Int /\ last # NoSequence
  BY RingSize DEF Ring, NoSequence
<1> HIDE DEF a
<1>2. (a + SequenceMax) % SequenceMax = a % SequenceMax
  BY <1>1, RingSize, Turn
<1> QED
  BY <1>1, <1>2 DEF a, Accepted, Behind

(* With every number used, each one is one further behind.                 *)
LEMMA OneMore ==
  ASSUME NEW top \in Ring, NEW seq \in Ring, Behind(top, seq) < SequenceMax - 1
  PROVE  Behind(Successor(top), seq) = Behind(top, seq) + 1
<1> DEFINE next == Successor(top)
<1>1. next \in Ring /\ next = IF top = SequenceMax - 1 THEN 0 ELSE top + 1
  BY SuccessorIs
<1> HIDE DEF next
<1>2. Behind(next, seq) = IF seq <= next THEN next - seq ELSE next - seq + SequenceMax
  BY <1>1, BehindIs
<1>3. Behind(top, seq) = IF seq <= top THEN top - seq ELSE top - seq + SequenceMax
  BY BehindIs
<1>4. Behind(next, seq) = Behind(top, seq) + 1
  BY <1>1, <1>2, <1>3, RingSize DEF Ring
<1> QED
  BY <1>4 DEF next

LEMMA NoneBehind ==
  ASSUME NEW top \in Ring
  PROVE  Behind(top, top) = 0
BY BehindIs, RingSize DEF Ring

LEMMA SameNumber ==
  ASSUME NEW top \in Ring, NEW seq \in Ring, Behind(top, seq) = 0
  PROVE  seq = top
<1>1. Behind(top, seq) = IF seq <= top THEN top - seq ELSE top - seq + SequenceMax
  BY BehindIs
<1>2. top \in Int /\ seq \in Int /\ 0 <= top /\ seq < SequenceMax /\ SequenceMax \in Int
  BY RingSize DEF Ring
<1> QED
  BY <1>1, <1>2

(* What is less than half of the ring older than the last number, or that  *)
(* number itself, is refused.                                              *)
LEMMA Refused ==
  ASSUME NEW last \in Ring, NEW seq \in Ring, Behind(last, seq) < HalfRing
  PROVE  ~Accepted(last, seq)
<1>1. /\ Behind(last, seq) = IF seq <= last THEN last - seq ELSE last - seq + SequenceMax
      /\ Behind(seq, last) = IF last <= seq THEN seq - last ELSE seq - last + SequenceMax
  BY BehindIs
<1>2. ~(Behind(seq, last) \in 1 .. (HalfRing - 1))
  BY <1>1, RingSize DEF Ring
<1> QED
  BY <1>2, AcceptedIs

(* How far the older of two numbers is behind the younger.                 *)
LEMMA Between ==
  ASSUME NEW top \in Ring, NEW young \in Ring, NEW old \in Ring,
         Behind(top, young) <= Behind(top, old)
  PROVE  Behind(young, old) = Behind(top, old) - Behind(top, young)
<1>1. /\ Behind(top, young) = IF young <= top THEN top - young ELSE top - young + SequenceMax
      /\ Behind(top, old) = IF old <= top THEN top - old ELSE top - old + SequenceMax
      /\ Behind(young, old) = IF old <= young THEN young - old ELSE young - old + SequenceMax
  BY BehindIs
<1> QED
  BY <1>1, RingSize DEF Ring

(* Numbers on one half of the ring have the same order from wherever they  *)
(* are looked at.                                                          *)
LEMMA SameOrder ==
  ASSUME NEW top \in Ring, NEW other \in Ring, NEW young \in Ring, NEW old \in Ring,
         Behind(top, young) < HalfRing, Behind(top, old) < HalfRing,
         Behind(other, young) < HalfRing, Behind(other, old) < HalfRing
  PROVE  Behind(other, young) <= Behind(other, old) <=> Behind(top, young) <= Behind(top, old)
<1>1. ASSUME NEW t \in Ring, NEW a \in Ring, NEW b \in Ring,
             Behind(t, a) < HalfRing, Behind(t, b) < HalfRing
      PROVE  Behind(t, a) <= Behind(t, b) <=> Behind(a, b) < HalfRing
  <2>1. /\ Behind(t, a) = IF a <= t THEN t - a ELSE t - a + SequenceMax
        /\ Behind(t, b) = IF b <= t THEN t - b ELSE t - b + SequenceMax
        /\ Behind(a, b) = IF b <= a THEN a - b ELSE a - b + SequenceMax
    BY BehindIs
  <2> QED
    BY <1>1, <2>1, RingSize DEF Ring
<1> QED
  BY <1>1
-----------------------------------------------------------------------------
(* Types.                                                                  *)

LEMMA ApnsAre == Apns \subseteq Nat /\ 1 \in Apns /\ NumApns \in Apns
BY PhoneAssumption DEF Apns

LEMMA IdleType == Idle \in JobState
BY ApnsAre, RingSize DEF Idle, JobState, Unknown

LEMMA NextApnType ==
  ASSUME NEW job \in JobState
  PROVE  /\ NextApn(job) \in JobState
         /\ NextApn(job) = IF job.apn = NumApns THEN Idle
                           ELSE [pc |-> "cache", apn |-> job.apn + 1, version |-> Unknown,
                                 seq |-> 0, left |-> {}]
         /\ NextApn(job).pc \in {"idle", "cache"}
<1>1. job.apn # NumApns => job.apn + 1 \in Apns
  BY PhoneAssumption DEF JobState, Apns
<1>2. job.apn # NumApns =>
        NextApn(job) = [pc |-> "cache", apn |-> job.apn + 1, version |-> Unknown,
                        seq |-> 0, left |-> {}]
  BY DEF NextApn, Idle
<1>3. job.apn = NumApns => NextApn(job) = Idle /\ Idle.pc = "idle"
  BY DEF NextApn, Idle
<1>4. job.apn # NumApns => NextApn(job) \in JobState
  BY <1>1, <1>2, RingSize DEF JobState, Unknown
<1> QED
  BY <1>2, <1>3, <1>4, IdleType

LEMMA CallbackType ==
  ASSUME Types, NEW t \in Threads, NEW l
  PROVE  /\ Callback(t, l) \in Message
         /\ Callback(t, l) = [apn |-> jobs[t].apn, version |-> jobs[t].version,
                              seq |-> jobs[t].seq]
BY DEF Types, TypeOK, JobState, Callback, Message, Ring

(* What is left of the callbacks when the i-th has arrived.                *)
Without(c, i) == SubSeq(c, 1, i - 1) \o SubSeq(c, i + 1, Len(c))

LEMMA WithoutIs ==
  ASSUME NEW c \in Seq(Message), NEW i \in 1 .. Len(c)
  PROVE  /\ Without(c, i) \in Seq(Message) /\ Len(Without(c, i)) = Len(c) - 1
         /\ DOMAIN Without(c, i) = 1 .. (Len(c) - 1)
         /\ DOMAIN c = 1 .. Len(c)
         /\ \A j \in 1 .. (Len(c) - 1) :
              Without(c, i)[j] = IF j < i THEN c[j] ELSE c[j + 1]
<1> DEFINE a == SubSeq(c, 1, i - 1)
           b == SubSeq(c, i + 1, Len(c))
<1>1. a \in Seq(Message) /\ Len(a) = i - 1 /\ \A j \in 1 .. (i - 1) : a[j] = c[j]
  OBVIOUS
<1>2. b \in Seq(Message) /\ Len(b) = Len(c) - i
      /\ \A j \in 1 .. (Len(c) - i) : b[j] = c[i + j]
  <2>1. b \in Seq(Message)
    OBVIOUS
  <2>2. Len(b) = Len(c) - i
    OBVIOUS
  <2>3. ASSUME NEW j \in 1 .. (Len(c) - i) PROVE b[j] = c[i + j]
    OBVIOUS
  <2> QED
    BY <2>1, <2>2, <2>3
<1> HIDE DEF a, b
<1>3. a \o b \in Seq(Message) /\ Len(a \o b) = Len(c) - 1
  <2>1. a \in Seq(Message) /\ b \in Seq(Message)
    BY <1>1, <1>2
  <2>2. a \o b \in Seq(Message) /\ Len(a \o b) = Len(a) + Len(b)
    BY <2>1
  <2>3. Len(c) \in Nat /\ i \in Nat
    OBVIOUS
  <2> QED
    BY <1>1, <1>2, <2>2, <2>3
<1>4. \A j \in 1 .. (Len(c) - 1) : (a \o b)[j] = IF j < i THEN c[j] ELSE c[j + 1]
  BY <1>1, <1>2
<1>5. Without(c, i) = a \o b
  BY DEF Without, a, b
<1>6. Without(c, i) \in Seq(Message) /\ Len(Without(c, i)) = Len(c) - 1
  BY <1>3, <1>5
<1>7. DOMAIN Without(c, i) = 1 .. (Len(c) - 1) /\ DOMAIN c = 1 .. Len(c)
  BY <1>6
<1> QED
  BY <1>4, <1>5, <1>6, <1>7

(* A message that is left was there before.                                *)
LEMMA WithoutAddsNone ==
  ASSUME NEW c \in Seq(Message), NEW i \in DOMAIN c
  PROVE  \A j \in DOMAIN Without(c, i) : \E n \in DOMAIN c : Without(c, i)[j] = c[n]
<1>1. Len(c) \in Nat /\ DOMAIN c = 1 .. Len(c) /\ i \in 1 .. Len(c)
  OBVIOUS
<1> SUFFICES ASSUME NEW j \in DOMAIN Without(c, i)
             PROVE  \E n \in DOMAIN c : Without(c, i)[j] = c[n]
  OBVIOUS
<1>2. j \in 1 .. (Len(c) - 1)
  BY <1>1, WithoutIs
<1>3. Without(c, i)[j] = IF j < i THEN c[j] ELSE c[j + 1]
  BY <1>1, <1>2, WithoutIs
<1>4. j \in DOMAIN c /\ j + 1 \in DOMAIN c
  BY <1>1, <1>2
<1> QED
  BY <1>3, <1>4

LEMMA ConnectTypes ==
  ASSUME Types, NEW l \in Listeners, Connect(l)
  PROVE  /\ phone' \in [up : BOOLEAN, sequence : Ring, cache : [Apns -> Nat],
                        registered : SUBSET Listeners]
         /\ jobs' \in [Threads -> JobState]
<1>1. [Idle EXCEPT !.pc = "cache"] \in JobState
  BY ApnsAre, RingSize DEF Idle, JobState, Unknown
<1>2. CASE phone.up
  <2>1. phone' = [phone EXCEPT !.registered = @ \union {l}]
        /\ jobs' = [jobs EXCEPT ![l] = [Idle EXCEPT !.pc = "cache"]]
    BY <1>2 DEF Connect
  <2>2. phone \in [up : BOOLEAN, sequence : Ring, cache : [Apns -> Nat],
                   registered : SUBSET Listeners]
        /\ jobs \in [Threads -> JobState] /\ l \in Threads
    BY DEF Types, TypeOK, Ring, Threads
  <2> QED
    BY <1>1, <2>1, <2>2
<1>3. CASE ~phone.up
  BY <1>3 DEF Connect, Types, TypeOK, Ring
<1> QED
  BY <1>2, <1>3

PhoneType == [up : BOOLEAN, sequence : Ring, cache : [Apns -> Nat], registered : SUBSET Listeners]

LEMMA TypesAre ==
  Types <=> /\ truth \in [Apns -> Nat] /\ phone \in PhoneType
            /\ jobs \in [Threads -> JobState] /\ tel \in [Listeners -> Service]
            /\ pending \in [Listeners -> Nat] /\ faults \in [phone : Nat, crash : Nat, stop : Nat]
            /\ chan \in [Listeners -> Seq(Message)]
BY DEF Types, TypeOK, PhoneType, Service, Ring

LEMMA FreshTypes ==
  /\ FreshPhone \in PhoneType /\ [FreshPhone EXCEPT !.up = FALSE] \in PhoneType
  /\ \A status \in {"off", "on", "crashed"} : FreshService(status) \in Service
<1>1. 0 \in Ring /\ NoSequence \in NoSequence .. (SequenceMax - 1) /\ NoStates \in [Apns -> Nat]
  BY RingSize DEF Ring, NoSequence, NoStates, Unknown
<1>2. FreshPhone \in PhoneType /\ [FreshPhone EXCEPT !.up = FALSE] \in PhoneType
  BY <1>1 DEF FreshPhone, PhoneType
<1>3. ASSUME NEW status \in {"off", "on", "crashed"} PROVE FreshService(status) \in Service
  BY <1>1 DEF FreshService, Service
<1> QED
  BY <1>2, <1>3

LEMMA FaultTypes ==
  ASSUME NEW f \in [phone : Nat, crash : Nat, stop : Nat]
  PROVE  /\ [f EXCEPT !.phone = @ + 1] \in [phone : Nat, crash : Nat, stop : Nat]
         /\ [f EXCEPT !.crash = @ + 1] \in [phone : Nat, crash : Nat, stop : Nat]
         /\ [f EXCEPT !.stop = @ + 1] \in [phone : Nat, crash : Nat, stop : Nat]
OBVIOUS

LEMMA RingNumbers ==
  /\ Ring \subseteq NoSequence .. (SequenceMax - 1)
  /\ NoSequence \in NoSequence .. (SequenceMax - 1) /\ NoSequence \notin Ring
  /\ \A x \in NoSequence .. (SequenceMax - 1) : x # NoSequence => x \in Ring
BY RingSize DEF Ring, NoSequence

LEMMA InitTypes == Init => Types
BY TypesAre, FreshTypes, IdleType DEF Init, NoStates, Unknown

LEMMA TypesStep == ASSUME Types, [Next]_vars PROVE Types'
<1> DEFINE T == /\ truth \in [Apns -> Nat] /\ phone \in PhoneType
                /\ jobs \in [Threads -> JobState] /\ tel \in [Listeners -> Service]
                /\ pending \in [Listeners -> Nat] /\ faults \in [phone : Nat, crash : Nat, stop : Nat]
                /\ chan \in [Listeners -> Seq(Message)]
<1> SUFFICES T'
  <2>1. Types' <=> T'
    BY TypesAre, PTL
  <2> QED
    BY <2>1
<1>0. T
  BY TypesAre
<1> USE <1>0
<1>1. ASSUME NEW n \in Notifiers, NEW a \in Apns, Notify(n, a) PROVE T'
  <2> DEFINE job == [Idle EXCEPT !.pc = "sequence", !.apn = a, !.version = truth[a] + 1]
             cache == [phone.cache EXCEPT ![a] = truth[a] + 1]
  <2>1. job \in JobState
    <3>1. truth[a] + 1 \in Nat
      OBVIOUS
    <3> QED
      BY <3>1, IdleType DEF JobState
  <2>2. truth' \in [Apns -> Nat] /\ phone' \in PhoneType
    <3>1. truth' \in [Apns -> Nat]
      BY <1>1 DEF Notify
    <3>2. phone' = [phone EXCEPT !.cache = cache] /\ cache \in [Apns -> Nat]
      BY <1>1 DEF Notify, PhoneType
    <3> QED
      BY <3>1, <3>2 DEF PhoneType
  <2>3. jobs' \in [Threads -> JobState]
    BY <1>1, <2>1 DEF Notify, Threads
  <2> QED
    BY <1>1, <2>2, <2>3 DEF Notify
<1>2. ASSUME NEW t \in Threads, ReadSequence(t) PROVE T'
  <2>1. phone.sequence \in Ring
    BY DEF PhoneType
  <2>2. jobs' \in [Threads -> JobState]
    <3> DEFINE to == IF t \in Notifiers THEN "begin" ELSE "push"
               job == [jobs[t] EXCEPT !.seq = phone.sequence, !.pc = to]
    <3>1. jobs' = [jobs EXCEPT ![t] = job]
      BY <1>2 DEF ReadSequence
    <3>2. job \in JobState
      BY <2>1 DEF JobState, Ring
    <3> QED
      BY <3>1, <3>2
  <2> QED
    BY <1>2, <2>2 DEF ReadSequence
<1>3. ASSUME NEW n \in Notifiers, BeginBroadcast(n) PROVE T'
  <2>1. phone.registered \in SUBSET Listeners /\ n \in Threads
    BY DEF PhoneType, Threads
  <2>2. jobs' \in [Threads -> JobState]
    BY ZenonT(40), <1>3, <2>1, IdleType DEF BeginBroadcast, JobState
  <2> QED
    BY <1>3, <2>2 DEF BeginBroadcast
<1>4. ASSUME NEW n \in Notifiers, NEW l \in Listeners, Broadcast(n, l) PROVE T'
  <2>1. n \in Threads
    BY DEF Threads
  <2>2. jobs' \in [Threads -> JobState]
    BY ZenonT(40), <1>4, <2>1 DEF Broadcast, JobState
  <2>3. chan' \in [Listeners -> Seq(Message)]
    BY <1>4, <2>1, CallbackType DEF Broadcast
  <2> QED
    BY <1>4, <2>2, <2>3 DEF Broadcast
<1>5. ASSUME NEW n \in Notifiers, FinishBroadcast(n) PROVE T'
  <2>1. n \in Threads /\ Successor(phone.sequence) \in Ring
    BY SuccessorIs DEF Threads, PhoneType
  <2>2. jobs' \in [Threads -> JobState] /\ phone' \in PhoneType
    BY <1>5, <2>1, IdleType DEF FinishBroadcast, PhoneType
  <2> QED
    BY <1>5, <2>2 DEF FinishBroadcast
<1>6. ASSUME NEW l \in Listeners, ReadCache(l) PROVE T'
  <2>1. l \in Threads /\ jobs[l] \in JobState /\ phone.cache \in [Apns -> Nat]
    BY DEF Threads, PhoneType
  <2>2. phone.cache[jobs[l].apn] \in Nat /\ NextApn(jobs[l]) \in JobState
    BY <2>1, NextApnType DEF JobState
  <2>3. [jobs[l] EXCEPT !.pc = "sequence", !.version = phone.cache[jobs[l].apn]] \in JobState
    BY <2>1, <2>2 DEF JobState
  <2>4. jobs' \in [Threads -> JobState]
    BY <1>6, <2>1, <2>2, <2>3 DEF ReadCache
  <2> QED
    BY <1>6, <2>4 DEF ReadCache
<1>7. ASSUME NEW l \in Listeners, Push(l) PROVE T'
  <2>1. l \in Threads
    BY DEF Threads
  <2>2. jobs' \in [Threads -> JobState]
    BY ZenonT(40), <1>7, <2>1 DEF Push, Goto, JobState
  <2>3. chan' \in [Listeners -> Seq(Message)]
    BY <1>7, <2>1, CallbackType DEF Push
  <2> QED
    BY <1>7, <2>2, <2>3 DEF Push
<1>8. ASSUME NEW l \in Listeners, IncrementAfterPush(l) PROVE T'
  <2>1. l \in Threads /\ Successor(phone.sequence) \in Ring
    BY SuccessorIs DEF Threads, PhoneType
  <2>2. NextApn(jobs[l]) \in JobState
    BY <2>1, NextApnType
  <2>3. jobs' \in [Threads -> JobState] /\ phone' \in PhoneType
    BY <1>8, <2>1, <2>2 DEF IncrementAfterPush, PhoneType
  <2> QED
    BY <1>8, <2>3 DEF IncrementAfterPush
<1>9. ASSUME NEW l \in Listeners, NEW i \in 1 .. Len(chan[l]), Deliver(l, i) PROVE T'
  <2>1. chan[l] \in Seq(Message) /\ chan[l][i] \in Message /\ Without(chan[l], i) \in Seq(Message)
    BY WithoutIs
  <2>2. chan[l][i].seq \in NoSequence .. (SequenceMax - 1)
        /\ chan[l][i].apn \in Apns /\ chan[l][i].version \in Nat
    BY <2>1, RingNumbers DEF Message
  <2>3. chan' \in [Listeners -> Seq(Message)]
    BY <1>9, <2>1 DEF Deliver, Without
  <2>4. [tel EXCEPT ![l].last = chan[l][i].seq, ![l].view[chan[l][i].apn] = chan[l][i].version]
          \in [Listeners -> Service]
    <3> DEFINE m == chan[l][i]
               v == [tel[l].view EXCEPT ![m.apn] = m.version]
               s == [tel[l] EXCEPT !.last = m.seq, !.view = v]
    <3>1. v \in [Apns -> Nat]
      BY <2>2 DEF Service
    <3> HIDE DEF v
    <3>2. s \in Service
      BY <2>2, <3>1 DEF Service
    <3>3. [tel EXCEPT ![l].last = m.seq, ![l].view[m.apn] = m.version] = [tel EXCEPT ![l] = s]
      BY DEF v, Service
    <3> QED
      BY <3>2, <3>3
  <2>5. tel' \in [Listeners -> Service]
    BY <1>9, <2>4 DEF Deliver
  <2> QED
    BY <1>9, <2>3, <2>5 DEF Deliver
<1>10. ASSUME NEW l \in Listeners, HandlePhoneRestart(l) PROVE T'
  <2>1. phone' \in PhoneType /\ jobs' \in [Threads -> JobState]
    BY <1>10, ConnectTypes DEF HandlePhoneRestart, PhoneType
  <2>2. NoSequence \in NoSequence .. (SequenceMax - 1)
    BY RingSize DEF NoSequence
  <2>3. tel' \in [Listeners -> Service]
    BY <1>10, <2>2 DEF HandlePhoneRestart, Service
  <2>4. pending' \in [Listeners -> Nat]
    BY <1>10 DEF HandlePhoneRestart
  <2> QED
    BY <1>10, <2>1, <2>3, <2>4 DEF HandlePhoneRestart
<1>11. ASSUME NEW l \in Listeners, Start(l) PROVE T'
  <2>1. phone' \in PhoneType /\ jobs' \in [Threads -> JobState]
    BY <1>11, ConnectTypes DEF Start, PhoneType
  <2>2. tel' \in [Listeners -> Service]
    BY ZenonT(40), <1>11 DEF Start, Service
  <2> QED
    BY <1>11, <2>1, <2>2 DEF Start
<1>12. ASSUME NEW l \in Listeners, Crash(l) PROVE T'
  <2>1. phone' \in PhoneType /\ tel' \in [Listeners -> Service] /\ pending' \in [Listeners -> Nat]
    <3>1. phone' \in PhoneType
      BY <1>12 DEF Crash, PhoneType
    <3>2. tel' \in [Listeners -> Service]
      BY <1>12, FreshTypes DEF Crash
    <3>3. pending' \in [Listeners -> Nat]
      BY <1>12 DEF Crash
    <3> QED
      BY <3>1, <3>2, <3>3
  <2>2. chan' \in [Listeners -> Seq(Message)] /\ faults' \in [phone : Nat, crash : Nat, stop : Nat]
    <3>1. chan' \in [Listeners -> Seq(Message)]
      BY <1>12 DEF Crash
    <3>3. faults' \in [phone : Nat, crash : Nat, stop : Nat]
      BY <1>12, FaultTypes DEF Crash
    <3> QED
      BY <3>1, <3>3
  <2>3. NumApns \in Apns /\ l \in Threads
    BY ApnsAre DEF Threads
  <2>4. jobs' \in [Threads -> JobState]
    BY ZenonT(40), <1>12, <2>3, IdleType DEF Crash, JobState
  <2> QED
    BY <1>12, <2>1, <2>2, <2>4 DEF Crash
<1>13. ASSUME NEW l \in Listeners, Restart(l) PROVE T'
  <2>1. phone' \in PhoneType /\ jobs' \in [Threads -> JobState]
    BY <1>13, ConnectTypes DEF Restart, PhoneType
  <2>2. tel' \in [Listeners -> Service]
    BY ZenonT(40), <1>13 DEF Restart, Service
  <2> QED
    BY <1>13, <2>1, <2>2 DEF Restart
<1>14. ASSUME NEW l \in Listeners, Stop(l) PROVE T'
  <2>1. phone' \in PhoneType
    BY <1>14 DEF Stop, PhoneType
  <2>2. tel' \in [Listeners -> Service]
    BY ZenonT(40), <1>14 DEF Stop, Service
  <2>3. pending' \in [Listeners -> Nat] /\ faults' \in [phone : Nat, crash : Nat, stop : Nat]
    <3>1. pending' \in [Listeners -> Nat]
      BY <1>14 DEF Stop
    <3>3. faults' \in [phone : Nat, crash : Nat, stop : Nat]
      BY <1>14, FaultTypes DEF Stop
    <3> QED
      BY <3>1, <3>3
  <2> QED
    BY <1>14, <2>1, <2>2, <2>3 DEF Stop
<1>15. CASE PhoneCrash
  BY <1>15, FreshTypes, IdleType, FaultTypes DEF PhoneCrash
<1>16. CASE PhoneStart
  BY <1>16, FreshTypes DEF PhoneStart
<1>17. CASE UNCHANGED vars
  BY <1>17 DEF vars
<1> QED
  BY <1>1, <1>2, <1>3, <1>4, <1>5, <1>6, <1>7, <1>8, <1>9, <1>10, <1>11, <1>12, <1>13,
     <1>14, <1>15, <1>16, <1>17 DEF Next, Progress, Receive
-----------------------------------------------------------------------------
(* The jobs.                                                               *)

LEMMA IdleIs == Idle.pc = "idle" /\ Idle.left = {}
BY DEF Idle

(* A step of the job t leaves the others alone.                            *)
LEMMA JobMoves ==
  ASSUME Types, NEW t \in Threads, NEW job, jobs' = [jobs EXCEPT ![t] = job]
  PROVE  jobs'[t] = job /\ \A s \in Threads \ {t} : jobs'[s] = jobs[s]
BY DEF Types, TypeOK

(* What has to be shown of the job after a step.                           *)
JobFromCache(job) ==
  /\ job.pc \in Sends \union {"sequence"} =>
       /\ job.version <= truth'[job.apn]
       /\ phone'.cache[job.apn] = truth'[job.apn]
  /\ job # Idle => phone'.up

LEMMA StaysFromCache ==
  ASSUME Types, Types', FromCache, NEW t \in Threads, JobFromCache(jobs'[t]),
         \A s \in Threads \ {t} : jobs'[s] = jobs[s],
         phone.up => phone'.up, \A a \in Apns : truth[a] <= truth'[a],
         \A a \in Apns : phone.cache[a] = truth[a] => phone'.cache[a] = truth'[a],
         \A a \in Apns : phone'.cache[a] \in {Unknown, truth'[a]}
  PROVE  FromCache'
<1>1. ASSUME NEW s \in Threads PROVE JobFromCache(jobs'[s])
  <2>1. CASE s = t
    BY <2>1
  <2>2. CASE s # t
    <3>1. jobs'[s] = jobs[s]
      BY <2>2
    <3>2. jobs[s].apn \in Apns /\ jobs[s].version \in Nat
          /\ truth[jobs[s].apn] \in Nat /\ truth'[jobs[s].apn] \in Nat
      BY DEF Types, TypeOK, JobState
    <3>3. jobs[s].pc \in Sends \union {"sequence"} => jobs[s].version <= truth'[jobs[s].apn]
      BY <3>2 DEF FromCache
    <3>4. jobs[s].pc \in Sends \union {"sequence"} =>
            phone'.cache[jobs[s].apn] = truth'[jobs[s].apn]
      BY <3>2 DEF FromCache
    <3> QED
      BY <3>1, <3>3, <3>4 DEF FromCache, JobFromCache
  <2> QED
    BY <2>1, <2>2
<1> QED
  BY <1>1 DEF FromCache, JobFromCache, Sends

(* A step that changes no state of an APN and nothing that is cached.      *)
LEMMA JobGoesOn ==
  ASSUME Types, Types', FromCache, NEW t \in Threads, NEW job, jobs' = [jobs EXCEPT ![t] = job],
         UNCHANGED truth, phone'.cache = phone.cache, phone'.up = phone.up,
         JobFromCache(job)
  PROVE  FromCache'
<1>1. jobs'[t] = job /\ \A s \in Threads \ {t} : jobs'[s] = jobs[s]
  BY JobMoves
<1>2. /\ \A a \in Apns : truth[a] <= truth'[a]
      /\ \A a \in Apns : phone.cache[a] = truth[a] => phone'.cache[a] = truth'[a]
      /\ \A a \in Apns : phone'.cache[a] \in {Unknown, truth'[a]}
  BY DEF FromCache, Types, TypeOK
<1> QED
  BY <1>1, <1>2, StaysFromCache

(* A step of a job that has its state already.                             *)
LEMMA JobKeepsState ==
  ASSUME Types, FromCache, NEW t \in Threads, jobs[t].pc \in Sends \union {"sequence"}, NEW job,
         job.apn = jobs[t].apn, job.version = jobs[t].version,
         UNCHANGED truth, phone'.cache = phone.cache, phone'.up = phone.up
  PROVE  JobFromCache(job)
<1>1. jobs[t] # Idle
  BY IdleIs DEF Sends
<1> QED
  BY <1>1 DEF FromCache, JobFromCache

LEMMA IdleFromCache == JobFromCache(Idle)
BY IdleIs DEF JobFromCache, Sends

LEMMA ConnectFromCache ==
  ASSUME Types, Types', FromCache, NEW l \in Listeners, Connect(l), UNCHANGED truth
  PROVE  FromCache'
<1>1. l \in Threads
  BY DEF Threads
<1>2. CASE phone.up
  <2>1. jobs' = [jobs EXCEPT ![l] = [Idle EXCEPT !.pc = "cache"]]
        /\ phone' = [phone EXCEPT !.registered = @ \union {l}]
    BY <1>2 DEF Connect
  <2>2. phone'.up /\ phone.up /\ phone'.cache = phone.cache
    BY <1>2, <2>1 DEF Types, TypeOK
  <2>3. [Idle EXCEPT !.pc = "cache"].pc = "cache"
    BY DEF Idle
  <2>4. JobFromCache([Idle EXCEPT !.pc = "cache"])
    BY <2>2, <2>3 DEF JobFromCache, Sends
  <2> QED
    BY <1>1, <2>1, <2>2, <2>4, JobGoesOn
<1>3. CASE ~phone.up
  <2>1. UNCHANGED <<truth, phone, jobs>>
    BY <1>3 DEF Connect
  <2> QED
    BY <2>1 DEF FromCache
<1> QED
  BY <1>2, <1>3

LEMMA FromCacheStep ==
  ASSUME Types, Types', FromCache, [Next]_vars
  PROVE  FromCache'
<1>0. /\ truth \in [Apns -> Nat] /\ phone \in PhoneType /\ jobs \in [Threads -> JobState]
      /\ Notifiers \subseteq Threads /\ Listeners \subseteq Threads
      /\ \A l \in Listeners : l \notin Notifiers
  BY TypesAre, PhoneAssumption DEF Threads
<1>1. ASSUME NEW n \in Notifiers, NEW a \in Apns, Notify(n, a) PROVE FromCache'
  <2> DEFINE job == [Idle EXCEPT !.pc = "sequence", !.apn = a, !.version = truth[a] + 1]
  <2>1. jobs'[n] = job /\ \A s \in Threads \ {n} : jobs'[s] = jobs[s]
    BY <1>0, <1>1, JobMoves DEF Notify
  <2>2. job.apn = a /\ job.version = truth[a] + 1 /\ job.pc = "sequence"
    BY DEF Idle
  <2>3. phone'.up /\ truth' = [truth EXCEPT ![a] = truth[a] + 1]
        /\ phone'.cache = [phone.cache EXCEPT ![a] = truth[a] + 1]
    BY <1>0, <1>1 DEF Notify, PhoneType
  <2>4. truth'[a] = truth[a] + 1 /\ phone'.cache[a] = truth[a] + 1 /\ truth[a] \in Nat
    BY <1>0, <2>3 DEF PhoneType
  <2>5. JobFromCache(jobs'[n])
    BY <2>1, <2>2, <2>3, <2>4 DEF JobFromCache, Sends
  <2>6. \A b \in Apns : phone'.cache[b] \in {Unknown, truth'[b]}
    BY <1>0, <2>3 DEF FromCache, PhoneType
  <2>7. \A b \in Apns : truth[b] <= truth'[b]
    BY <1>0, <2>3
  <2>8. \A b \in Apns : phone.cache[b] = truth[b] => phone'.cache[b] = truth'[b]
    BY <1>0, <2>3 DEF PhoneType
  <2> QED
    BY <1>0, <2>1, <2>3, <2>5, <2>6, <2>7, <2>8, StaysFromCache
<1>2. ASSUME NEW t \in Threads, ReadSequence(t) PROVE FromCache'
  <2> DEFINE to == IF t \in Notifiers THEN "begin" ELSE "push"
             job == [jobs[t] EXCEPT !.seq = phone.sequence, !.pc = to]
  <2>1. jobs' = [jobs EXCEPT ![t] = job] /\ UNCHANGED <<truth, phone>> /\ jobs[t].pc = "sequence"
    BY <1>0, <1>2 DEF ReadSequence
  <2>2. job.apn = jobs[t].apn /\ job.version = jobs[t].version
    BY <1>0 DEF JobState
  <2>3. JobFromCache(job)
    BY <2>1, <2>2, JobKeepsState
  <2> QED
    BY <2>1, <2>3, JobGoesOn
<1>3. ASSUME NEW n \in Notifiers, BeginBroadcast(n) PROVE FromCache'
  <2> DEFINE sending == [jobs[n] EXCEPT !.pc = "send", !.left = phone.registered]
             job == IF Broadcasting THEN Idle ELSE sending
  <2>1. jobs' = [jobs EXCEPT ![n] = job] /\ UNCHANGED <<truth, phone>> /\ jobs[n].pc \in Sends
    BY <1>0, <1>3 DEF BeginBroadcast, Sends
  <2>2. sending.apn = jobs[n].apn /\ sending.version = jobs[n].version
    BY <1>0 DEF JobState
  <2>3. JobFromCache(sending)
    BY <1>0, <2>1, <2>2, JobKeepsState
  <2>4. JobFromCache(job)
    BY <2>3, IdleFromCache
  <2> QED
    BY <1>0, <2>1, <2>4, JobGoesOn
<1>4. ASSUME NEW n \in Notifiers, NEW l \in Listeners, Broadcast(n, l) PROVE FromCache'
  <2> DEFINE job == [jobs[n] EXCEPT !.left = @ \ {l}]
  <2>1. jobs' = [jobs EXCEPT ![n] = job] /\ UNCHANGED <<truth, phone>> /\ jobs[n].pc \in Sends
    BY <1>0, <1>4 DEF Broadcast, Sends
  <2>2. job.apn = jobs[n].apn /\ job.version = jobs[n].version
    BY <1>0 DEF JobState
  <2>3. JobFromCache(job)
    BY <1>0, <2>1, <2>2, JobKeepsState
  <2> QED
    BY <1>0, <2>1, <2>3, JobGoesOn
<1>5. ASSUME NEW n \in Notifiers, FinishBroadcast(n) PROVE FromCache'
  <2>1. jobs' = [jobs EXCEPT ![n] = Idle] /\ UNCHANGED truth
        /\ phone'.cache = phone.cache /\ phone'.up = phone.up
    BY <1>0, <1>5 DEF FinishBroadcast, PhoneType
  <2> QED
    BY <1>0, <2>1, IdleFromCache, JobGoesOn
<1>6. ASSUME NEW l \in Listeners, ReadCache(l) PROVE FromCache'
  <2> DEFINE cached == phone.cache[jobs[l].apn]
             reading == [jobs[l] EXCEPT !.pc = "sequence", !.version = cached]
             job == IF cached = Unknown THEN NextApn(jobs[l]) ELSE reading
  <2>1. jobs' = [jobs EXCEPT ![l] = job] /\ UNCHANGED <<truth, phone>> /\ jobs[l] # Idle
    BY <1>0, <1>6, IdleIs DEF ReadCache
  <2>2. phone.up /\ jobs[l] \in JobState
    BY <1>0, <2>1 DEF FromCache
  <2>3. JobFromCache(NextApn(jobs[l]))
    <3>1. NextApn(jobs[l]).pc \notin Sends \union {"sequence"}
      BY <2>2, NextApnType DEF Sends
    <3> QED
      BY <2>1, <2>2, <3>1 DEF JobFromCache
  <2>4. ASSUME cached # Unknown PROVE JobFromCache(reading)
    <3>1. reading.apn = jobs[l].apn /\ reading.version = cached /\ jobs[l].apn \in Apns
      BY <2>2 DEF JobState
    <3>2. cached = truth[jobs[l].apn] /\ truth[jobs[l].apn] \in Nat
      BY <1>0, <2>4, <3>1 DEF FromCache
    <3> QED
      BY <2>1, <2>2, <3>1, <3>2 DEF JobFromCache
  <2>5. JobFromCache(job)
    BY <2>3, <2>4
  <2> QED
    BY <1>0, <2>1, <2>5, JobGoesOn
<1>7. ASSUME NEW l \in Listeners, Push(l) PROVE FromCache'
  <2> DEFINE job == [jobs[l] EXCEPT !.pc = "increment"]
  <2>1. jobs' = [jobs EXCEPT ![l] = job] /\ UNCHANGED <<truth, phone>> /\ jobs[l].pc \in Sends
    BY <1>0, <1>7 DEF Push, Goto, Sends
  <2>2. job.apn = jobs[l].apn /\ job.version = jobs[l].version
    BY <1>0 DEF JobState
  <2>3. JobFromCache(job)
    BY <1>0, <2>1, <2>2, JobKeepsState
  <2> QED
    BY <1>0, <2>1, <2>3, JobGoesOn
<1>8. ASSUME NEW l \in Listeners, IncrementAfterPush(l) PROVE FromCache'
  <2> DEFINE job == NextApn(jobs[l])
  <2>1. jobs' = [jobs EXCEPT ![l] = job] /\ UNCHANGED truth /\ jobs[l] # Idle
        /\ phone'.cache = phone.cache /\ phone'.up = phone.up
    BY <1>0, <1>8, IdleIs DEF IncrementAfterPush, PhoneType
  <2>2. phone.up /\ job.pc \notin Sends \union {"sequence"}
    BY <1>0, <2>1, NextApnType DEF FromCache, Sends
  <2>3. JobFromCache(job)
    BY <2>1, <2>2 DEF JobFromCache
  <2> QED
    BY <1>0, <2>1, <2>3, JobGoesOn
<1>9. ASSUME NEW l \in Listeners, NEW i \in 1 .. Len(chan[l]), Deliver(l, i) PROVE FromCache'
  BY <1>9 DEF Deliver, FromCache
<1>10. ASSUME NEW l \in Listeners, HandlePhoneRestart(l) PROVE FromCache'
  BY <1>10, ConnectFromCache DEF HandlePhoneRestart
<1>11. ASSUME NEW l \in Listeners, Start(l) PROVE FromCache'
  BY <1>11, ConnectFromCache DEF Start
<1>12. ASSUME NEW l \in Listeners, Crash(l) PROVE FromCache'
  <2>1. \A t \in Threads \ {l} : jobs'[t] = [jobs[t] EXCEPT !.left = @ \ {l}]
    BY <1>0, <1>12 DEF Crash
  <2>2. jobs'[l] = IF jobs[l].pc = "increment" THEN [jobs[l] EXCEPT !.apn = NumApns] ELSE Idle
    BY <1>0, <1>12 DEF Crash
  <2>3. [Idle EXCEPT !.left = @ \ {l}] = Idle
    BY DEF Idle
  <2>4. \A t \in Threads : jobs[t] = Idle => jobs'[t] = Idle
    BY <2>1, <2>2, <2>3, IdleIs
  <2>5. UNCHANGED truth /\ phone'.up = phone.up /\ phone'.cache = phone.cache
    BY <1>0, <1>12 DEF Crash, PhoneType
  <2>6. ASSUME NEW t \in Threads \ {l}
        PROVE  jobs'[t].pc = jobs[t].pc /\ jobs'[t].apn = jobs[t].apn
               /\ jobs'[t].version = jobs[t].version
    BY ZenonT(40), <1>0, <2>1 DEF JobState
  <2>7. jobs'[l].pc \notin Sends \union {"sequence"}
    BY <1>0, <2>2, IdleIs DEF JobState, Sends
  <2> QED
    BY <1>0, <2>4, <2>5, <2>6, <2>7 DEF FromCache
<1>13. ASSUME NEW l \in Listeners, Restart(l) PROVE FromCache'
  BY <1>13, ConnectFromCache DEF Restart
<1>14. ASSUME NEW l \in Listeners, Stop(l) PROVE FromCache'
  <2>1. UNCHANGED <<truth, jobs>> /\ phone'.up = phone.up /\ phone'.cache = phone.cache
    BY <1>0, <1>14 DEF Stop, PhoneType
  <2> QED
    BY <2>1 DEF FromCache
<1>15. CASE PhoneCrash
  <2>1. \A t \in Threads : jobs'[t] = Idle
    BY <1>15 DEF PhoneCrash
  <2>2. \A a \in Apns : phone'.cache[a] = Unknown
    BY <1>15 DEF PhoneCrash, FreshPhone, NoStates
  <2> QED
    BY <2>1, <2>2, IdleIs DEF FromCache, Sends
<1>16. CASE PhoneStart
  <2>1. \A t \in Threads : jobs'[t] = Idle
    BY <1>16 DEF PhoneStart, FromCache
  <2>2. \A a \in Apns : phone'.cache[a] = Unknown
    BY <1>16 DEF PhoneStart, FreshPhone, NoStates
  <2> QED
    BY <2>1, <2>2, IdleIs DEF FromCache, Sends
<1>17. CASE UNCHANGED vars
  BY <1>17 DEF vars, FromCache
<1> QED
  BY <1>1, <1>2, <1>3, <1>4, <1>5, <1>6, <1>7, <1>8, <1>9, <1>10, <1>11, <1>12, <1>13,
     <1>14, <1>15, <1>16, <1>17 DEF Next, Progress, Receive
-----------------------------------------------------------------------------
(* The callbacks on their way.                                             *)

LEMMA MessageIs ==
  ASSUME NEW c \in Seq(Message), NEW i \in DOMAIN c
  PROVE  c[i] \in Message /\ c[i].apn \in Apns /\ c[i].version \in Nat /\ c[i].seq \in Ring
<1>1. c[i] \in Message
  OBVIOUS
<1> QED
  BY <1>1 DEF Message


(* What handleMessage makes of a service.                                  *)
Updated(s, m) == IF Accepted(s.last, m.seq)
                 THEN [s EXCEPT !.last = m.seq, !.view = [s.view EXCEPT ![m.apn] = m.version]]
                 ELSE s

LEMMA UpdatedIs ==
  ASSUME NEW s \in Service, NEW m \in Message
  PROVE  /\ Accepted(s.last, m.seq) =>
              /\ Updated(s, m).last = m.seq
              /\ Updated(s, m).view = [s.view EXCEPT ![m.apn] = m.version]
              /\ Updated(s, m).status = s.status /\ Updated(s, m).receiver = s.receiver
         /\ ~Accepted(s.last, m.seq) => Updated(s, m) = s
BY DEF Updated, Service

LEMMA DeliverIs ==
  ASSUME Types, NEW l \in Listeners, NEW i \in 1 .. Len(chan[l]), Deliver(l, i)
  PROVE  /\ tel' = [tel EXCEPT ![l] = Updated(tel[l], chan[l][i])]
         /\ chan' = [chan EXCEPT ![l] = Without(chan[l], i)]
         /\ UNCHANGED <<truth, phone, jobs, pending, faults>>
         /\ chan[l][i] \in Message /\ tel[l] \in Service
<1> DEFINE m == chan[l][i]
<1>1. chan[l] \in Seq(Message) /\ tel \in [Listeners -> Service]
  BY TypesAre
<1>2. m \in Message /\ tel[l] \in Service
  BY <1>1
<1>3. CASE Accepted(tel[l].last, m.seq)
  <2>1. tel' = [tel EXCEPT ![l].last = m.seq, ![l].view[m.apn] = m.version]
    BY <1>3 DEF Deliver
  <2>2. tel' = [tel EXCEPT ![l] = Updated(tel[l], m)]
    BY <1>1, <1>3, <2>1 DEF Updated, Service
  <2> QED
    BY <1>2, <2>2 DEF Deliver, Without
<1>4. CASE ~Accepted(tel[l].last, m.seq)
  <2>1. tel' = tel /\ Updated(tel[l], m) = tel[l]
    BY <1>4 DEF Deliver, Updated
  <2>2. tel' = [tel EXCEPT ![l] = Updated(tel[l], m)]
    BY <1>1, <2>1
  <2> QED
    BY <1>2, <2>2 DEF Deliver, Without
<1> QED
  BY <1>3, <1>4
-----------------------------------------------------------------------------
(* No listener knows of a state that is to come.                           *)

KeepsKnown(k) == Known(chan'[k], tel'[k], truth')

LEMMA KnownKept ==
  (\A k \in Listeners : KeepsKnown(k)) => AllKnown'
BY DEF KeepsKnown, AllKnown, Known

LEMMA KnownLater ==
  ASSUME Types, Types', AllKnown, NEW k \in Listeners, chan'[k] = chan[k],
         tel'[k].view = tel[k].view, \A a \in Apns : truth[a] <= truth'[a]
  PROVE  KeepsKnown(k)
<1>0. /\ chan[k] \in Seq(Message) /\ tel[k].view \in [Apns -> Nat]
      /\ truth \in [Apns -> Nat] /\ truth' \in [Apns -> Nat]
  BY DEF Types, TypeOK
<1>1. Known(chan[k], tel[k], truth)
  BY DEF AllKnown
<1>2. ASSUME NEW i \in DOMAIN chan[k] PROVE chan[k][i].version <= truth'[chan[k][i].apn]
  <2>1. chan[k][i].apn \in Apns /\ chan[k][i].version \in Nat
    BY <1>0, MessageIs
  <2> QED
    BY <1>0, <1>1, <2>1 DEF Known
<1>3. ASSUME NEW a \in Apns PROVE tel[k].view[a] <= truth'[a]
  BY <1>0, <1>1 DEF Known
<1> QED
  BY <1>2, <1>3 DEF Known, KeepsKnown

LEMMA KnownSent ==
  ASSUME Types, FromCache, AllKnown, NEW t \in Threads, jobs[t].pc \in Sends,
         NEW k \in Listeners, chan'[k] = Append(chan[k], Callback(t, k)), UNCHANGED <<tel, truth>>
  PROVE  KeepsKnown(k)
<1> DEFINE m == Callback(t, k)
           c == chan[k]
<1>1. m \in Message /\ m.apn = jobs[t].apn /\ m.version = jobs[t].version
  BY CallbackType
<1>2. m.version <= truth[m.apn]
  BY <1>1 DEF FromCache
<1>3. c \in Seq(Message) /\ Known(c, tel[k], truth)
  BY DEF Types, AllKnown
<1> HIDE DEF m, c
<1>4. /\ DOMAIN Append(c, m) = DOMAIN c \union {Len(c) + 1}
      /\ \A i \in DOMAIN c : Append(c, m)[i] = c[i]
      /\ Append(c, m)[Len(c) + 1] = m
  BY <1>1, <1>3
<1>5. Known(Append(c, m), tel[k], truth)
  BY <1>2, <1>3, <1>4 DEF Known
<1> QED
  BY <1>5 DEF KeepsKnown, c, m

LEMMA KnownArrived ==
  ASSUME Types, AllKnown, NEW k \in Listeners, NEW i \in 1 .. Len(chan[k]),
         chan'[k] = Without(chan[k], i), tel'[k] = Updated(tel[k], chan[k][i]), UNCHANGED truth
  PROVE  KeepsKnown(k)
<1> DEFINE c == chan[k]
           m == c[i]
<1>1. c \in Seq(Message) /\ tel[k] \in Service /\ i \in DOMAIN c /\ m \in Message
  BY DEF Types, TypeOK, Service
<1>2. Known(c, tel[k], truth)
  BY DEF AllKnown
<1> HIDE DEF c
<1>3. \A j \in DOMAIN Without(c, i) : Without(c, i)[j].version <= truth[Without(c, i)[j].apn]
  <2>1. \A j \in DOMAIN Without(c, i) : \E n \in DOMAIN c : Without(c, i)[j] = c[n]
    BY <1>1, WithoutAddsNone
  <2> QED
    BY <1>2, <2>1 DEF Known
<1>4. m.version <= truth[m.apn] /\ m.apn \in Apns
  BY <1>1, <1>2 DEF Known, Message
<1>5. ASSUME NEW a \in Apns PROVE Updated(tel[k], m).view[a] <= truth[a]
  <2>1. tel[k].view \in [Apns -> Nat]
    BY <1>1 DEF Service
  <2> QED
    BY <1>1, <1>2, <1>4, <2>1, UpdatedIs DEF Known
<1>6. Known(Without(c, i), Updated(tel[k], m), truth)
  BY <1>3, <1>5 DEF Known
<1> QED
  BY <1>6 DEF KeepsKnown, c

LEMMA KnownStep ==
  ASSUME Types, Types', FromCache, AllKnown, [Next]_vars
  PROVE  AllKnown'
<1>0. /\ truth \in [Apns -> Nat] /\ jobs \in [Threads -> JobState]
      /\ tel \in [Listeners -> Service] /\ chan \in [Listeners -> Seq(Message)]
      /\ Notifiers \subseteq Threads /\ Listeners \subseteq Threads
  BY TypesAre DEF Threads
<1>a. \A a \in Apns : truth[a] <= truth[a]
  BY <1>0
<1> SUFFICES \A k \in Listeners : KeepsKnown(k)
  BY KnownKept
<1> TAKE k \in Listeners
<1>1. ASSUME NEW n \in Notifiers, NEW a \in Apns, Notify(n, a) PROVE KeepsKnown(k)
  <2>1. UNCHANGED <<tel, chan>> /\ \A b \in Apns : truth[b] <= truth'[b]
    BY <1>0, <1>1 DEF Notify
  <2> QED
    BY <2>1, KnownLater
<1>2. ASSUME UNCHANGED <<truth, tel, chan>> PROVE KeepsKnown(k)
  BY <1>2, <1>a, KnownLater
<1>3. ASSUME NEW t \in Threads, Progress(t) PROVE KeepsKnown(k)
  <2>1. CASE ReadSequence(t)
    BY <1>2, <2>1 DEF ReadSequence
  <2>2. CASE t \in Notifiers /\ BeginBroadcast(t)
    BY <1>2, <2>2 DEF BeginBroadcast
  <2>3. ASSUME t \in Notifiers, NEW l \in Listeners, Broadcast(t, l) PROVE KeepsKnown(k)
    <3>1. UNCHANGED <<truth, tel>> /\ chan' = [chan EXCEPT ![l] = Append(@, Callback(t, l))]
          /\ jobs[t].pc \in Sends
      BY <2>3 DEF Broadcast, Sends
    <3>2. CASE k = l
      BY <1>0, <3>1, <3>2, KnownSent
    <3>3. CASE k # l
      BY <1>0, <1>a, <3>1, <3>3, KnownLater
    <3> QED
      BY <3>2, <3>3
  <2>4. CASE t \in Notifiers /\ FinishBroadcast(t)
    BY <1>2, <2>4 DEF FinishBroadcast
  <2>5. CASE t \in Listeners /\ ReadCache(t)
    BY <1>2, <2>5 DEF ReadCache
  <2>6. CASE t \in Listeners /\ Push(t)
    <3>1. UNCHANGED <<truth, tel>> /\ chan' = [chan EXCEPT ![t] = Append(@, Callback(t, t))]
          /\ jobs[t].pc \in Sends /\ t \in Listeners
      BY <2>6 DEF Push, Sends
    <3>2. CASE k = t
      BY <1>0, <3>1, <3>2, KnownSent
    <3>3. CASE k # t
      BY <1>0, <1>a, <3>1, <3>3, KnownLater
    <3> QED
      BY <3>2, <3>3
  <2>7. CASE t \in Listeners /\ IncrementAfterPush(t)
    BY <1>2, <2>7 DEF IncrementAfterPush
  <2> QED
    BY <1>3, <2>1, <2>2, <2>3, <2>4, <2>5, <2>6, <2>7 DEF Progress
<1>4. ASSUME NEW l \in Listeners, NEW i \in 1 .. Len(chan[l]), Deliver(l, i) PROVE KeepsKnown(k)
  <2>1. /\ tel' = [tel EXCEPT ![l] = Updated(tel[l], chan[l][i])]
        /\ chan' = [chan EXCEPT ![l] = Without(chan[l], i)]
        /\ UNCHANGED truth
    BY <1>4, DeliverIs
  <2>2. CASE k = l
    BY <1>0, <2>1, <2>2, KnownArrived
  <2>3. CASE k # l
    BY <1>0, <1>a, <2>1, <2>3, KnownLater
  <2> QED
    BY <2>2, <2>3
<1>5. ASSUME NEW l \in Listeners, HandlePhoneRestart(l) \/ Start(l) \/ Restart(l) \/ Stop(l)
      PROVE  KeepsKnown(k)
  <2>1. UNCHANGED <<truth, chan>>
    BY <1>5 DEF HandlePhoneRestart, Start, Restart, Stop
  <2>2. tel'[k].view = tel[k].view
    <3>1. CASE HandlePhoneRestart(l)
      BY <1>0, <3>1 DEF HandlePhoneRestart, Service
    <3>2. CASE Start(l)
      BY <1>0, <3>2 DEF Start, Service
    <3>3. CASE Restart(l)
      BY <1>0, <3>3 DEF Restart, Service
    <3>4. CASE Stop(l)
      BY <1>0, <3>4 DEF Stop, Service
    <3> QED
      BY <1>5, <3>1, <3>2, <3>3, <3>4
  <2> QED
    BY <1>a, <2>1, <2>2, KnownLater
<1>6. ASSUME NEW l \in Listeners, Crash(l) PROVE KeepsKnown(k)
  <2>1. /\ tel' = [tel EXCEPT ![l] = FreshService("crashed")] /\ chan' = [chan EXCEPT ![l] = <<>>]
        /\ UNCHANGED truth
    BY <1>6 DEF Crash
  <2>2. CASE k = l
    <3>1. chan'[k] = <<>> /\ \A a \in Apns : tel'[k].view[a] = 0
      BY <1>0, <2>1, <2>2 DEF FreshService, NoStates, Unknown
    <3>2. DOMAIN chan'[k] = {} /\ \A a \in Apns : tel'[k].view[a] <= truth'[a]
      BY <1>0, <2>1, <3>1
    <3> QED
      BY <3>2 DEF KeepsKnown, Known
  <2>3. CASE k # l
    BY <1>0, <1>a, <2>1, <2>3, KnownLater
  <2> QED
    BY <2>2, <2>3
<1>7. CASE PhoneCrash \/ PhoneStart \/ UNCHANGED vars
  BY <1>2, <1>7 DEF PhoneCrash, PhoneStart, vars
<1> QED
  BY <1>1, <1>3, <1>4, <1>5, <1>6, <1>7 DEF Next, Receive

LEMMA KnownInvStep ==
  ASSUME KnownInv, [Next]_vars
  PROVE  KnownInv'
<1>1. Types'
  BY TypesStep DEF KnownInv
<1>2. FromCache'
  BY <1>1, FromCacheStep DEF KnownInv
<1>3. AllKnown'
  BY <1>1, KnownStep DEF KnownInv
<1> QED
  BY <1>1, <1>2, <1>3 DEF KnownInv

LEMMA InitKnown == Init => KnownInv
<1> SUFFICES ASSUME Init PROVE KnownInv
  OBVIOUS
<1>1. Types
  BY InitTypes
<1>2. FromCache
  BY IdleIs DEF Init, FromCache, FreshPhone, NoStates, Sends
<1>3. ASSUME NEW l \in Listeners PROVE Known(chan[l], tel[l], truth)
  <2>1. chan[l] = <<>> /\ tel[l].view = NoStates /\ truth = NoStates
    BY DEF Init, FreshService
  <2>2. DOMAIN chan[l] = {}
    BY <2>1
  <2> QED
    BY <2>1, <2>2 DEF Known, NoStates, Unknown
<1> QED
  BY <1>1, <1>2, <1>3 DEF KnownInv, AllKnown

LEMMA AppendIs ==
  ASSUME NEW c \in Seq(Message), NEW m \in Message
  PROVE  /\ Append(c, m) \in Seq(Message)
         /\ Len(c) + 1 \notin DOMAIN c
         /\ DOMAIN Append(c, m) = DOMAIN c \union {Len(c) + 1}
         /\ \A i \in DOMAIN c : Append(c, m)[i] = c[i] /\ i < Len(c) + 1
         /\ Append(c, m)[Len(c) + 1] = m
         /\ \A i \in DOMAIN c : ~(Len(c) + 1 < i)
         /\ ~(Len(c) + 1 < Len(c) + 1)
OBVIOUS
-----------------------------------------------------------------------------
(* What is under way to a service.                                         *)

LEMMA CarriedIs ==
  ASSUME NEW job \in JobState
  PROVE  /\ Carried(job) \in Message
         /\ Carried(job).apn = job.apn /\ Carried(job).version = job.version
         /\ Carried(job).seq = job.seq
BY DEF Carried, JobState, Message, Ring

LEMMA ArrivingIs ==
  ASSUME NEW c, NEW held, NEW l, NEW m
  PROVE  m \in Arriving(c, held, l) <=>
           \/ \E i \in DOMAIN c : m = c[i]
           \/ \E t \in Threads : Holds(t, held[t], l) /\ m = Carried(held[t])
BY DEF Arriving

LEMMA UnderWayIs ==
  ASSUME Types, AllKnown, FromCache, NEW l \in Listeners, NEW m \in UnderWay(l)
  PROVE  m \in Message /\ m.version <= truth[m.apn]
<1>0. chan[l] \in Seq(Message) /\ jobs \in [Threads -> JobState] /\ Known(chan[l], tel[l], truth)
  BY TypesAre DEF AllKnown
<1>1. CASE \E i \in DOMAIN chan[l] : m = chan[l][i]
  BY <1>0, <1>1, MessageIs DEF Known
<1>2. CASE \E t \in Threads : Holds(t, jobs[t], l) /\ m = Carried(jobs[t])
  <2>1. PICK t \in Threads : Holds(t, jobs[t], l) /\ m = Carried(jobs[t])
    BY <1>2
  <2>2. jobs[t].pc \in Sends
    BY <2>1 DEF Holds, Sends
  <2> QED
    BY <1>0, <2>1, <2>2, CarriedIs DEF FromCache
<1> QED
  BY <1>1, <1>2, ArrivingIs DEF UnderWay

LEMMA LinedEmpty == ASSUME NEW s, NEW top PROVE Lined({}, s, top)
BY DEF Lined

LEMMA LinedFewer ==
  ASSUME NEW msgs, NEW fewer \in SUBSET msgs, NEW s, NEW r, NEW top, Lined(msgs, s, top),
         r.last = s.last, r.view = s.view
  PROVE  Lined(fewer, r, top)
BY DEF Lined

(* A service that has nothing younger than what is under way.              *)
LEMMA LinedAnew ==
  ASSUME NEW msgs, NEW fewer \in SUBSET msgs, NEW s, NEW r, NEW top, Lined(msgs, s, top),
         \A m \in fewer : r.view[m.apn] <= m.version
  PROVE  Lined(fewer, r, top)
BY DEF Lined

(* The current number is taken for the current state.                      *)
LEMMA LinedGrows ==
  ASSUME NEW msgs \in SUBSET Message, NEW s \in Service, NEW m \in Message,
         Lined(msgs, s, m.seq), s.view[m.apn] <= m.version,
         \A n \in msgs : n.apn = m.apn => n.version <= m.version
  PROVE  Lined(msgs \union {m}, s, m.seq)
<1> DEFINE more == msgs \union {m}
           old(n) == Behind(m.seq, n.seq)
<1>1. m.seq \in Ring /\ m.version \in Nat /\ old(m) = 0
  BY NoneBehind DEF Message
<1>2. ASSUME NEW n \in more PROVE old(n) \in Nat
  <2>1. n.seq \in Ring
    BY DEF Message
  <2>2. old(n) \in Ring
    BY <1>1, <2>1, BehindIs
  <2> QED
    BY <2>2 DEF Ring
<1>3. \A n \in more : old(n) < HalfRing
  BY <1>1, RingSize DEF Lined
<1>4. ASSUME NEW n \in more, NEW o \in more, n.apn = o.apn, old(n) < old(o)
      PROVE  o.version <= n.version
  <2>1. o \in msgs
    <3>1. o # m
      BY <1>1, <1>2, <1>4
    <3> QED
      BY <3>1
  <2> QED
    BY <1>4, <2>1 DEF Lined
<1>5. ASSUME NEW n \in more
      PROVE  \/ s.view[n.apn] <= n.version
             \/ /\ s.last # NoSequence
                /\ \A o \in more : old(n) <= old(o) => Behind(s.last, o.seq) < HalfRing
  <2>1. CASE n = m
    BY <2>1
  <2>2. CASE n # m
    <3>1. n \in msgs
      BY <2>2
    <3>2. ASSUME s.last # NoSequence, NEW o \in more, old(n) <= old(o),
                 \A p \in msgs : old(n) <= old(p) => Behind(s.last, p.seq) < HalfRing
          PROVE  Behind(s.last, o.seq) < HalfRing
      <4>1. CASE o \in msgs
        BY <3>2, <4>1
      <4>2. CASE o = m
        <5>1. old(n) = 0
          <6>1. old(n) \in Nat /\ old(o) = 0
            BY <1>1, <1>2, <4>2
          <6> HIDE DEF old
          <6> QED
            BY <3>2, <6>1
        <5>2. n.seq \in Ring
          BY <3>1 DEF Message
        <5>3. n.seq = o.seq
          BY <1>1, <4>2, <5>1, <5>2, SameNumber
        <5> QED
          BY <1>1, <3>1, <3>2, <4>2, <5>1, <5>3
      <4> QED
        BY <4>1, <4>2
    <3> QED
      BY <3>1, <3>2 DEF Lined
  <2> QED
    BY <2>1, <2>2
<1>6. Lined(more, s, m.seq)
  BY <1>3, <1>4, <1>5 DEF Lined
<1> QED
  BY <1>6

(* A number has been used.                                                 *)
LEMMA LinedTurns ==
  ASSUME NEW msgs \in SUBSET Message, NEW s \in Service, NEW top \in Ring, Lined(msgs, s, top),
         \A m \in msgs : Behind(Successor(top), m.seq) < HalfRing
  PROVE  Lined(msgs, s, Successor(top))
<1> DEFINE next == Successor(top)
           old(seq) == Behind(top, seq)
           older(seq) == Behind(next, seq)
<1>1. HalfRing <= SequenceMax - 1 /\ HalfRing \in Nat
  BY RingSize
<1>2. \A m \in msgs : m.seq \in Ring /\ old(m.seq) \in Int /\ old(m.seq) < HalfRing
  <2>1. \A m \in msgs : m.seq \in Ring
    BY DEF Message
  <2>2. \A seq \in Ring : old(seq) \in Ring
    BY BehindIs
  <2>3. Ring \subseteq Int
    BY DEF Ring
  <2> QED
    BY <2>1, <2>2, <2>3 DEF Lined
<1>3. \A seq \in Ring : old(seq) < HalfRing => older(seq) = old(seq) + 1
  BY <1>1, OneMore, BehindIs, RingSize DEF Ring
<1>4. \A m \in msgs : older(m.seq) = old(m.seq) + 1
  BY <1>2, <1>3
<1>5. \A m, n \in msgs : older(m.seq) <= older(n.seq) => old(m.seq) <= old(n.seq)
  BY <1>2, <1>4
<1>6. \A m, n \in msgs : older(m.seq) < older(n.seq) => old(m.seq) < old(n.seq)
  BY <1>2, <1>4
<1> HIDE DEF next, old, older
<1>7. Lined(msgs, s, next)
  <2>1. \A m \in msgs : older(m.seq) < HalfRing
    BY DEF older, next
  <2>2. \A m, n \in msgs : m.apn = n.apn /\ older(m.seq) < older(n.seq) => n.version <= m.version
    BY <1>6 DEF Lined, old
  <2>3. \A m \in msgs :
          \/ s.view[m.apn] <= m.version
          \/ /\ s.last # NoSequence
             /\ \A n \in msgs : older(m.seq) <= older(n.seq) => Behind(s.last, n.seq) < HalfRing
    BY <1>5 DEF Lined, old
  <2> QED
    BY <2>1, <2>2, <2>3 DEF Lined, older
<1> QED
  BY <1>7 DEF next

(* A new Phone begins with the first number.                               *)
LEMMA LinedAgain ==
  ASSUME NEW msgs \in SUBSET Message, NEW s, NEW top \in Ring, NEW other \in Ring,
         Lined(msgs, s, top), \A m \in msgs : Behind(other, m.seq) < HalfRing
  PROVE  Lined(msgs, s, other)
<1> DEFINE old(seq) == Behind(top, seq)
           older(seq) == Behind(other, seq)
<1>1. ASSUME NEW m \in msgs, NEW n \in msgs
      PROVE  /\ older(m.seq) <= older(n.seq) <=> old(m.seq) <= old(n.seq)
             /\ older(m.seq) < older(n.seq) <=> old(m.seq) < old(n.seq)
  <2>1. m.seq \in Ring /\ n.seq \in Ring
    BY DEF Message
  <2>2. old(m.seq) < HalfRing /\ old(n.seq) < HalfRing
    BY DEF Lined
  <2>3. /\ older(m.seq) <= older(n.seq) <=> old(m.seq) <= old(n.seq)
        /\ older(n.seq) <= older(m.seq) <=> old(n.seq) <= old(m.seq)
    BY <2>1, <2>2, SameOrder
  <2>4. \A seq \in Ring : old(seq) \in Ring /\ older(seq) \in Ring
    BY BehindIs
  <2> HIDE DEF old, older
  <2> QED
    BY <2>1, <2>3, <2>4 DEF Ring
<1> HIDE DEF older
<1>2. \A m, n \in msgs : m.apn = n.apn /\ older(m.seq) < older(n.seq) => n.version <= m.version
  BY <1>1 DEF Lined
<1>3. \A m \in msgs :
        \/ s.view[m.apn] <= m.version
        \/ /\ s.last # NoSequence
           /\ \A n \in msgs : older(m.seq) <= older(n.seq) => Behind(s.last, n.seq) < HalfRing
  BY <1>1 DEF Lined
<1> QED
  BY <1>2, <1>3 DEF Lined, older

(* Whatever arrives next, the others still come in any order.              *)
LEMMA LinedArrives ==
  ASSUME NEW msgs \in SUBSET Message, NEW s \in Service, NEW top \in Ring, Lined(msgs, s, top),
         NEW m \in msgs
  PROVE  Lined(msgs, Updated(s, m), top)
<1> DEFINE r == Updated(s, m)
           old(seq) == Behind(top, seq)
<1>1. /\ \A n \in msgs : n \in Message /\ n.seq \in Ring /\ n.apn \in Apns /\ n.version \in Nat
      /\ \A seq \in Ring : old(seq) \in Int /\ 0 <= old(seq)
      /\ s.view \in [Apns -> Nat] /\ s.last \in NoSequence .. (SequenceMax - 1)
  <2>1. \A seq \in Ring : old(seq) \in Ring
    BY BehindIs
  <2>2. \A number \in Ring : number \in Int /\ 0 <= number
    BY DEF Ring
  <2> HIDE DEF old
  <2>3. \A seq \in Ring : old(seq) \in Int /\ 0 <= old(seq)
    BY <2>1, <2>2
  <2> QED
    BY <2>3 DEF Service, Message
<1> HIDE DEF r
<1>2. ASSUME NEW n \in msgs
      PROVE  \/ r.view[n.apn] <= n.version
             \/ /\ r.last # NoSequence
                /\ \A o \in msgs : old(n.seq) <= old(o.seq) => Behind(r.last, o.seq) < HalfRing
  <2>1. CASE ~Accepted(s.last, m.seq)
    <3>1. r = s
      BY <1>1, <2>1, UpdatedIs DEF r
    <3> QED
      BY <3>1 DEF Lined
  <2>2. CASE Accepted(s.last, m.seq)
    <3>1. r.last = m.seq /\ r.view = [s.view EXCEPT ![m.apn] = m.version]
      BY <1>1, <2>2, UpdatedIs DEF r
    <3>2. m.seq \in Ring /\ m.seq # NoSequence
      BY <1>1, RingNumbers
    <3>3. CASE old(m.seq) <= old(n.seq)
      <4>1. ASSUME NEW o \in msgs, old(n.seq) <= old(o.seq) PROVE Behind(m.seq, o.seq) < HalfRing
        <5>1. o.seq \in Ring /\ old(o.seq) \in Int /\ old(m.seq) \in Int /\ old(n.seq) \in Int
              /\ 0 <= old(m.seq) /\ old(o.seq) < HalfRing /\ HalfRing \in Int
          BY <1>1, RingSize DEF Lined
        <5>2. old(m.seq) <= old(o.seq)
          BY <3>3, <4>1, <5>1
        <5>3. Behind(m.seq, o.seq) = old(o.seq) - old(m.seq)
          BY <3>2, <5>1, <5>2, Between
        <5> QED
          BY <5>1, <5>3
      <4> QED
        BY <3>1, <3>2, <4>1
    <3>4. CASE ~(old(m.seq) <= old(n.seq))
      <4>1. old(n.seq) < old(m.seq) /\ old(n.seq) <= old(m.seq)
        BY <1>1, <3>4
      <4>2. CASE n.apn = m.apn
        <5>1. m.version <= n.version
          BY <4>1, <4>2 DEF Lined
        <5> QED
          BY <1>1, <3>1, <4>2, <5>1
      <4>3. CASE n.apn # m.apn
        <5>1. r.view[n.apn] = s.view[n.apn]
          BY <1>1, <3>1, <4>3
        <5>2. ASSUME s.last # NoSequence, Behind(s.last, m.seq) < HalfRing PROVE FALSE
          <6>1. s.last \in Ring
            BY <1>1, <5>2, RingNumbers
          <6> QED
            BY <2>2, <3>2, <5>2, <6>1, Refused
        <5> QED
          BY <4>1, <5>1, <5>2 DEF Lined
      <4> QED
        BY <4>2, <4>3
    <3> QED
      BY <3>3, <3>4
  <2> QED
    BY <2>1, <2>2
<1> HIDE DEF old
<1>3. Lined(msgs, r, top)
  BY <1>2 DEF Lined, old
<1> QED
  BY <1>3 DEF r
-----------------------------------------------------------------------------
(* The order of what is under way.                                         *)

(* What has to be shown of each listener after a step.                     *)
Next_UnderWay(k) == Arriving(chan'[k], jobs', k)

KeepsOrder(k) == LinedUp(Next_UnderWay(k), tel'[k], phone'.up, phone'.sequence)

LEMMA OrderKept ==
  (\A k \in Listeners : KeepsOrder(k)) => Orderly'
BY DEF KeepsOrder, Next_UnderWay, Orderly, UnderWay, Arriving, Holds, Carried, LinedUp, Lined

LEMMA InTimeAfter ==
  ASSUME InTime', phone'.up, NEW k \in Listeners
  PROVE  \A m \in Next_UnderWay(k) : Behind(phone'.sequence, m.seq) < HalfRing
BY DEF InTime, Next_UnderWay, UnderWay, Arriving, Holds, Carried

LEMMA Next_UnderWayIs ==
  ASSUME NEW k, NEW m \in Next_UnderWay(k)
  PROVE  \/ \E i \in DOMAIN chan'[k] : m = chan'[k][i]
         \/ \E t \in Threads : Holds(t, jobs'[t], k) /\ m = Carried(jobs'[t])
BY ArrivingIs DEF Next_UnderWay

(* A job goes on, without a number that it did not have before.            *)
LEMMA NoneAdded ==
  ASSUME NEW k \in Listeners, chan'[k] = chan[k],
         \A t \in Threads : Holds(t, jobs'[t], k) =>
           Holds(t, jobs[t], k) /\ Carried(jobs'[t]) = Carried(jobs[t])
  PROVE  Next_UnderWay(k) \subseteq UnderWay(k)
<1> SUFFICES ASSUME NEW m \in Next_UnderWay(k) PROVE m \in UnderWay(k)
  OBVIOUS
<1> QED
  BY ArrivingIs DEF Next_UnderWay, UnderWay

LEMMA NoneAddedBy ==
  ASSUME Types, NEW t \in Threads, NEW job, jobs' = [jobs EXCEPT ![t] = job],
         NEW k \in Listeners, chan'[k] = chan[k],
         Holds(t, job, k) => Holds(t, jobs[t], k) /\ Carried(job) = Carried(jobs[t])
  PROVE  Next_UnderWay(k) \subseteq UnderWay(k)
BY JobMoves, NoneAdded

(* What a job had its number for has been sent with it.                    *)
LEMMA OneSent ==
  ASSUME Types, NEW t \in Threads, NEW job, jobs' = [jobs EXCEPT ![t] = job],
         NEW k \in Listeners, chan'[k] = Append(chan[k], Callback(t, k)), Holds(t, jobs[t], k),
         Holds(t, job, k) => Carried(job) = Carried(jobs[t])
  PROVE  Next_UnderWay(k) \subseteq UnderWay(k)
<1> SUFFICES ASSUME NEW m \in Next_UnderWay(k) PROVE m \in UnderWay(k)
  OBVIOUS
<1>1. Callback(t, k) \in Message /\ Callback(t, k) = Carried(jobs[t]) /\ chan[k] \in Seq(Message)
  BY CallbackType, TypesAre DEF Carried
<1>2. \A i \in DOMAIN chan'[k] : chan'[k][i] = Carried(jobs[t]) \/ \E j \in DOMAIN chan[k] : chan'[k][i] = chan[k][j]
  BY <1>1, AppendIs
<1>3. jobs'[t] = job /\ \A s \in Threads \ {t} : jobs'[s] = jobs[s]
  BY JobMoves
<1>4. CASE \E i \in DOMAIN chan'[k] : m = chan'[k][i]
  BY <1>2, <1>4, ArrivingIs DEF UnderWay
<1>5. CASE \E s \in Threads : Holds(s, jobs'[s], k) /\ m = Carried(jobs'[s])
  <2>1. PICK s \in Threads : Holds(s, jobs'[s], k) /\ m = Carried(jobs'[s])
    BY <1>5
  <2>2. Holds(s, jobs[s], k) /\ m = Carried(jobs[s])
    <3>1. CASE s = t
      BY <1>3, <2>1, <3>1
    <3>2. CASE s # t
      BY <1>3, <2>1, <3>2
    <3> QED
      BY <3>1, <3>2
  <2> QED
    BY <2>2, ArrivingIs DEF UnderWay
<1> QED
  BY <1>4, <1>5, Next_UnderWayIs

(* A step that a listener does not notice.                                 *)
LEMMA Unnoticed ==
  ASSUME Orderly, NEW k \in Listeners, Next_UnderWay(k) \subseteq UnderWay(k),
         tel'[k].last = tel[k].last, tel'[k].view = tel[k].view,
         phone'.up => phone.up /\ phone'.sequence = phone.sequence
  PROVE  KeepsOrder(k)
<1>1. PICK top \in Ring : (phone.up => top = phone.sequence) /\ Lined(UnderWay(k), tel[k], top)
  BY DEF Orderly, LinedUp
<1>2. Lined(Next_UnderWay(k), tel'[k], top)
  BY <1>1, LinedFewer
<1> QED
  BY <1>1, <1>2 DEF KeepsOrder, LinedUp

(* A service begins anew.                                                  *)
LEMMA BeginsAnew ==
  ASSUME Orderly, NEW k \in Listeners, Next_UnderWay(k) \subseteq UnderWay(k),
         \A m \in Next_UnderWay(k) : tel'[k].view[m.apn] <= m.version,
         phone'.up = phone.up, phone'.sequence = phone.sequence
  PROVE  KeepsOrder(k)
<1>1. PICK top \in Ring : (phone.up => top = phone.sequence) /\ Lined(UnderWay(k), tel[k], top)
  BY DEF Orderly, LinedUp
<1>2. Lined(Next_UnderWay(k), tel'[k], top)
  BY <1>1, LinedAnew
<1> QED
  BY <1>1, <1>2 DEF KeepsOrder, LinedUp

(* A number has been used, and none is too old.                            *)
LEMMA OneUsed ==
  ASSUME Types, FromCache, AllKnown, Orderly, InTime', NEW k \in Listeners, phone.up, phone'.up,
         phone'.sequence = Successor(phone.sequence), UNCHANGED tel,
         Next_UnderWay(k) \subseteq UnderWay(k)
  PROVE  KeepsOrder(k)
<1>1. tel[k] \in Service /\ phone.sequence \in Ring /\ UnderWay(k) \subseteq Message
  BY TypesAre, UnderWayIs DEF PhoneType
<1>2. Lined(UnderWay(k), tel[k], phone.sequence)
  BY DEF Orderly, LinedUp
<1>3. Lined(Next_UnderWay(k), tel[k], phone.sequence)
  BY <1>2, LinedFewer
<1>4. \A m \in Next_UnderWay(k) : Behind(Successor(phone.sequence), m.seq) < HalfRing
  BY InTimeAfter
<1>5. Lined(Next_UnderWay(k), tel[k], Successor(phone.sequence))
  BY <1>1, <1>3, <1>4, LinedTurns
<1>6. Successor(phone.sequence) \in Ring
  BY <1>1, SuccessorIs
<1> QED
  BY <1>5, <1>6 DEF KeepsOrder, LinedUp

(* The i-th callback arrives.                                              *)
LEMMA OneArrives ==
  ASSUME Types, FromCache, AllKnown, Orderly, NEW k \in Listeners, NEW i \in 1 .. Len(chan[k]),
         chan'[k] = Without(chan[k], i), tel'[k] = Updated(tel[k], chan[k][i]),
         UNCHANGED <<phone, jobs>>
  PROVE  KeepsOrder(k)
<1> DEFINE m == chan[k][i]
           msgs == UnderWay(k)
<1>1. tel[k] \in Service /\ chan[k] \in Seq(Message) /\ i \in DOMAIN chan[k]
      /\ msgs \subseteq Message
  <2>1. chan[k] \in Seq(Message)
    BY TypesAre
  <2>2. i \in DOMAIN chan[k]
    BY <2>1
  <2> QED
    BY <2>1, <2>2, TypesAre, UnderWayIs
<1>2. m \in msgs
  BY <1>1, ArrivingIs DEF UnderWay
<1>3. Next_UnderWay(k) \subseteq msgs
  <2>1. ASSUME NEW n \in Next_UnderWay(k) PROVE n \in msgs
    <3>1. \A j \in DOMAIN chan'[k] : \E p \in DOMAIN chan[k] : chan'[k][j] = chan[k][p]
      BY <1>1, WithoutAddsNone
    <3> QED
      BY <3>1, ArrivingIs DEF Next_UnderWay, UnderWay
  <2> QED
    BY <2>1
<1>4. PICK top \in Ring : (phone.up => top = phone.sequence) /\ Lined(msgs, tel[k], top)
  BY DEF Orderly, LinedUp
<1> HIDE DEF m, msgs
<1>5. Lined(msgs, Updated(tel[k], m), top)
  BY <1>1, <1>2, <1>4, LinedArrives
<1>6. Lined(Next_UnderWay(k), Updated(tel[k], m), top)
  BY <1>3, <1>5, LinedFewer
<1> QED
  BY <1>4, <1>6 DEF KeepsOrder, LinedUp, m

(* A caller gets its number, the current one, for the current state.       *)
LEMMA OneNumber ==
  ASSUME Types, FromCache, AllKnown, Orderly, NEW t \in Threads, ReadSequence(t),
         jobs[t].version = truth[jobs[t].apn], NEW k \in Listeners
  PROVE  KeepsOrder(k)
<1> DEFINE m == [apn |-> jobs[t].apn, version |-> jobs[t].version, seq |-> phone.sequence]
           msgs == UnderWay(k)
<1>1. tel[k] \in Service /\ phone \in PhoneType /\ jobs \in [Threads -> JobState]
      /\ truth \in [Apns -> Nat] /\ Known(chan[k], tel[k], truth)
  BY TypesAre DEF AllKnown
<1>2. msgs \subseteq Message /\ \A n \in msgs : n.version <= truth[n.apn]
  BY UnderWayIs
<1>3. m \in Message /\ m.seq = phone.sequence /\ m.version = truth[m.apn]
      /\ m.apn \in Apns /\ phone.sequence \in Ring
  BY <1>1 DEF JobState, Message, PhoneType
<1>4. phone.up
  BY IdleIs DEF ReadSequence, FromCache
<1>5. Next_UnderWay(k) \subseteq msgs \union {m}
  <2> DEFINE to == IF t \in Notifiers THEN "begin" ELSE "push"
             job == [jobs[t] EXCEPT !.seq = phone.sequence, !.pc = to]
  <2>1. jobs' = [jobs EXCEPT ![t] = job] /\ chan' = chan
    BY <1>1 DEF ReadSequence
  <2>2. Carried(job) = m
    BY <1>1 DEF Carried, JobState
  <2> HIDE DEF job
  <2>3. jobs'[t] = job /\ \A s \in Threads \ {t} : jobs'[s] = jobs[s]
    BY <2>1, JobMoves
  <2> HIDE DEF m
  <2>4. ASSUME NEW n \in Next_UnderWay(k) PROVE n \in msgs \union {m}
    <3>1. CASE \E i \in DOMAIN chan'[k] : n = chan'[k][i]
      BY <2>1, <3>1, ArrivingIs DEF UnderWay
    <3>2. CASE \E s \in Threads : Holds(s, jobs'[s], k) /\ n = Carried(jobs'[s])
      <4>1. PICK s \in Threads : Holds(s, jobs'[s], k) /\ n = Carried(jobs'[s])
        BY <3>2
      <4>2. CASE s = t
        BY <2>2, <2>3, <4>1, <4>2
      <4>3. CASE s # t
        BY <2>3, <4>1, <4>3, ArrivingIs DEF UnderWay
      <4> QED
        BY <4>2, <4>3
    <3> QED
      BY <3>1, <3>2, ArrivingIs DEF Next_UnderWay
  <2> QED
    BY <2>4
<1>6. Lined(msgs, tel[k], phone.sequence)
  BY <1>4 DEF Orderly, LinedUp
<1>7. tel[k].view[m.apn] <= m.version /\ \A n \in msgs : n.apn = m.apn => n.version <= m.version
  BY <1>1, <1>2, <1>3 DEF Known
<1> HIDE DEF m, msgs
<1>8. Lined(msgs \union {m}, tel[k], phone.sequence)
  BY <1>1, <1>2, <1>3, <1>6, <1>7, LinedGrows
<1>9. Lined(Next_UnderWay(k), tel[k], phone.sequence)
  BY <1>5, <1>8, LinedFewer
<1> QED
  BY <1>3, <1>9 DEF KeepsOrder, LinedUp, ReadSequence

(* Connecting gives the caller nothing to send yet.                        *)
LEMMA ConnectAddsNone ==
  ASSUME Types, NEW l \in Listeners, Connect(l), UNCHANGED chan, NEW k \in Listeners
  PROVE  /\ Next_UnderWay(k) \subseteq UnderWay(k)
         /\ phone'.up = phone.up /\ phone'.sequence = phone.sequence
<1>1. phone \in PhoneType /\ l \in Threads
  BY TypesAre DEF Threads
<1>2. CASE phone.up
  <2>1. jobs' = [jobs EXCEPT ![l] = [Idle EXCEPT !.pc = "cache"]]
        /\ phone' = [phone EXCEPT !.registered = @ \union {l}]
    BY <1>2 DEF Connect
  <2>2. ~Holds(l, [Idle EXCEPT !.pc = "cache"], k)
    BY DEF Holds, Idle
  <2>3. Next_UnderWay(k) \subseteq UnderWay(k)
    BY <1>1, <2>1, <2>2, NoneAddedBy
  <2> QED
    BY <1>1, <2>1, <2>3 DEF PhoneType
<1>3. CASE ~phone.up
  <2>1. UNCHANGED <<phone, jobs>>
    BY <1>3 DEF Connect
  <2>2. Next_UnderWay(k) \subseteq UnderWay(k)
    BY <2>1, NoneAdded
  <2> QED
    BY <2>1, <2>2
<1> QED
  BY <1>2, <1>3

LEMMA CrashAddsNone ==
  ASSUME Types, NEW l \in Listeners, Crash(l), NEW k \in Listeners
  PROVE  Next_UnderWay(k) \subseteq UnderWay(k)
<1>0. jobs \in [Threads -> JobState] /\ chan \in [Listeners -> Seq(Message)] /\ l \in Threads
      /\ l \notin Notifiers
  BY TypesAre, PhoneAssumption DEF Threads
<1>1. ASSUME NEW t \in Threads, Holds(t, jobs'[t], k)
      PROVE  Holds(t, jobs[t], k) /\ Carried(jobs'[t]) = Carried(jobs[t])
  <2>1. CASE t = l
    <3>1. jobs'[t].pc \in {"increment", "idle"}
      BY <1>0, <2>1, IdleIs DEF Crash, JobState
    <3> QED
      BY <1>1, <3>1 DEF Holds
  <2>2. CASE t # l
    <3>1. jobs'[t] = [jobs[t] EXCEPT !.left = @ \ {l}] /\ jobs[t] \in JobState
      BY <1>0, <2>2 DEF Crash
    <3>2. /\ jobs'[t].pc = jobs[t].pc /\ jobs'[t].apn = jobs[t].apn /\ jobs'[t].seq = jobs[t].seq
          /\ jobs'[t].version = jobs[t].version /\ jobs'[t].left = jobs[t].left \ {l}
      BY <3>1 DEF JobState
    <3> QED
      BY <1>1, <3>2 DEF Holds, Carried
  <2> QED
    BY <2>1, <2>2
<1>2. \A i \in DOMAIN chan'[k] : \E j \in DOMAIN chan[k] : chan'[k][i] = chan[k][j]
  <2>1. CASE k = l
    <3>1. chan'[k] = <<>>
      BY <1>0, <2>1 DEF Crash
    <3> QED
      BY <3>1
  <2>2. CASE k # l
    BY <1>0, <2>2 DEF Crash
  <2> QED
    BY <2>1, <2>2
<1>3. ASSUME NEW m \in Next_UnderWay(k) PROVE m \in UnderWay(k)
  BY <1>1, <1>2, ArrivingIs DEF Next_UnderWay, UnderWay
<1> QED
  BY <1>3

LEMMA OrderlyStep ==
  ASSUME Types, Types', FromCache, AllKnown, Orderly, InTime', ~GoesWrong, [Next]_vars
  PROVE  Orderly'
<1>0. /\ truth \in [Apns -> Nat] /\ phone \in PhoneType /\ jobs \in [Threads -> JobState]
      /\ tel \in [Listeners -> Service] /\ chan \in [Listeners -> Seq(Message)]
      /\ Notifiers \subseteq Threads /\ Listeners \subseteq Threads
      /\ \A l \in Listeners : l \notin Notifiers
  BY TypesAre, PhoneAssumption DEF Threads
<1> SUFFICES \A k \in Listeners : KeepsOrder(k)
  BY OrderKept
<1> TAKE k \in Listeners
<1>1. ASSUME NEW n \in Notifiers, NEW a \in Apns, Notify(n, a) PROVE KeepsOrder(k)
  <2> DEFINE job == [Idle EXCEPT !.pc = "sequence", !.apn = a, !.version = truth[a] + 1]
  <2>1. phone'.up = phone.up /\ phone'.sequence = phone.sequence /\ UNCHANGED <<tel, chan>>
        /\ jobs' = [jobs EXCEPT ![n] = job]
    BY <1>0, <1>1 DEF Notify, PhoneType
  <2>2. ~Holds(n, job, k)
    BY DEF Holds, Idle
  <2>3. Next_UnderWay(k) \subseteq UnderWay(k)
    BY <1>0, <2>1, <2>2, NoneAddedBy
  <2> QED
    BY <2>1, <2>3, Unnoticed
<1>2. ASSUME NEW t \in Threads, ReadSequence(t) PROVE KeepsOrder(k)
  <2>1. jobs[t].version = truth[jobs[t].apn]
    BY <1>2 DEF GoesWrong, StaleNumber
  <2> QED
    BY <1>2, <2>1, OneNumber
<1>3. ASSUME NEW n \in Notifiers, BeginBroadcast(n) PROVE KeepsOrder(k)
  <2> DEFINE sending == [jobs[n] EXCEPT !.pc = "send", !.left = phone.registered]
             job == IF Broadcasting THEN Idle ELSE sending
  <2>1. jobs' = [jobs EXCEPT ![n] = job] /\ UNCHANGED <<phone, tel, chan>> /\ Holds(n, jobs[n], k)
    BY <1>0, <1>3 DEF BeginBroadcast, Holds
  <2>2. Carried(sending) = Carried(jobs[n])
    BY <1>0 DEF Carried, JobState
  <2>3. ~Holds(n, Idle, k)
    BY IdleIs DEF Holds
  <2>4. Holds(n, job, k) => Carried(job) = Carried(jobs[n])
    BY <2>2, <2>3
  <2>5. Next_UnderWay(k) \subseteq UnderWay(k)
    BY <1>0, <2>1, <2>4, NoneAddedBy
  <2> QED
    BY <2>1, <2>5, Unnoticed
<1>4. ASSUME NEW n \in Notifiers, NEW l \in Listeners, Broadcast(n, l) PROVE KeepsOrder(k)
  <2> DEFINE job == [jobs[n] EXCEPT !.left = @ \ {l}]
  <2>1. UNCHANGED <<phone, tel>> /\ chan' = [chan EXCEPT ![l] = Append(@, Callback(n, l))]
        /\ jobs' = [jobs EXCEPT ![n] = job] /\ Holds(n, jobs[n], l)
    BY <1>0, <1>4 DEF Broadcast, Holds
  <2>2. Carried(job) = Carried(jobs[n]) /\ job.pc = jobs[n].pc /\ job.left = jobs[n].left \ {l}
    BY <1>0 DEF Carried, JobState
  <2>3. Holds(n, job, k) => Holds(n, jobs[n], k)
    BY <2>2 DEF Holds
  <2> HIDE DEF job
  <2>4. Next_UnderWay(k) \subseteq UnderWay(k)
    <3>1. CASE k = l
      BY <1>0, <2>1, <2>2, <3>1, OneSent
    <3>2. CASE k # l
      <4>1. chan'[k] = chan[k]
        BY <1>0, <2>1, <3>2
      <4> QED
        BY <1>0, <2>1, <2>2, <2>3, <4>1, NoneAddedBy
    <3> QED
      BY <3>1, <3>2
  <2> QED
    BY <2>1, <2>4, Unnoticed
<1>5. ASSUME NEW n \in Notifiers, FinishBroadcast(n) PROVE KeepsOrder(k)
  <2>1. phone.up
    BY <1>0, <1>5, IdleIs DEF FinishBroadcast, FromCache
  <2>2. phone'.up /\ phone'.sequence = Successor(phone.sequence) /\ UNCHANGED <<tel, chan>>
        /\ jobs' = [jobs EXCEPT ![n] = Idle]
    BY <1>0, <1>5, <2>1 DEF FinishBroadcast, PhoneType
  <2>3. ~Holds(n, Idle, k)
    BY IdleIs DEF Holds
  <2>4. Next_UnderWay(k) \subseteq UnderWay(k)
    BY <1>0, <2>2, <2>3, NoneAddedBy
  <2> QED
    BY <2>1, <2>2, <2>4, OneUsed
<1>6. ASSUME NEW l \in Listeners, ReadCache(l) PROVE KeepsOrder(k)
  <2> DEFINE cached == phone.cache[jobs[l].apn]
             reading == [jobs[l] EXCEPT !.pc = "sequence", !.version = cached]
             job == IF cached = Unknown THEN NextApn(jobs[l]) ELSE reading
  <2>1. jobs' = [jobs EXCEPT ![l] = job] /\ UNCHANGED <<phone, tel, chan>>
    BY <1>0, <1>6 DEF ReadCache
  <2>2. NextApn(jobs[l]).pc \in {"idle", "cache"} /\ reading.pc = "sequence"
    <3>1. jobs[l] \in JobState
      BY <1>0
    <3>2. reading.pc = "sequence"
      BY <3>1 DEF JobState
    <3> QED
      BY <3>1, <3>2, NextApnType
  <2> HIDE DEF reading
  <2>3. job.pc \in {"idle", "cache", "sequence"}
    BY <2>2
  <2> HIDE DEF job
  <2>4. ~Holds(l, job, k)
    BY <2>3 DEF Holds
  <2>5. Next_UnderWay(k) \subseteq UnderWay(k)
    BY <1>0, <2>1, <2>4, NoneAddedBy
  <2> QED
    BY <2>1, <2>5, Unnoticed
<1>7. ASSUME NEW l \in Listeners, Push(l) PROVE KeepsOrder(k)
  <2> DEFINE job == [jobs[l] EXCEPT !.pc = "increment"]
  <2>1. UNCHANGED <<phone, tel>> /\ chan' = [chan EXCEPT ![l] = Append(@, Callback(l, l))]
        /\ jobs' = [jobs EXCEPT ![l] = job] /\ Holds(l, jobs[l], l)
    BY <1>0, <1>7 DEF Push, Goto, Holds
  <2>2. ~Holds(l, job, k)
    BY <1>0 DEF Holds, JobState
  <2> HIDE DEF job
  <2>3. Next_UnderWay(k) \subseteq UnderWay(k)
    <3>1. CASE k = l
      BY <1>0, <2>1, <2>2, <3>1, OneSent
    <3>2. CASE k # l
      <4>1. chan'[k] = chan[k]
        BY <1>0, <2>1, <3>2
      <4> QED
        BY <1>0, <2>1, <2>2, <4>1, NoneAddedBy
    <3> QED
      BY <3>1, <3>2
  <2> QED
    BY <2>1, <2>3, Unnoticed
<1>8. ASSUME NEW l \in Listeners, IncrementAfterPush(l) PROVE KeepsOrder(k)
  <2> DEFINE job == NextApn(jobs[l])
  <2>1. phone.up
    BY <1>0, <1>8, IdleIs DEF IncrementAfterPush, FromCache
  <2>2. phone'.up /\ phone'.sequence = Successor(phone.sequence) /\ UNCHANGED <<tel, chan>>
        /\ jobs' = [jobs EXCEPT ![l] = job]
    BY <1>0, <1>8, <2>1 DEF IncrementAfterPush, PhoneType
  <2>3. ~Holds(l, job, k)
    BY <1>0, NextApnType DEF Holds
  <2> HIDE DEF job
  <2>4. Next_UnderWay(k) \subseteq UnderWay(k)
    BY <1>0, <2>2, <2>3, NoneAddedBy
  <2> QED
    BY <2>1, <2>2, <2>4, OneUsed
<1>9. ASSUME NEW l \in Listeners, NEW i \in 1 .. Len(chan[l]), Deliver(l, i) PROVE KeepsOrder(k)
  <2>1. /\ tel' = [tel EXCEPT ![l] = Updated(tel[l], chan[l][i])]
        /\ chan' = [chan EXCEPT ![l] = Without(chan[l], i)]
        /\ UNCHANGED <<phone, jobs>>
    BY <1>9, DeliverIs
  <2>2. CASE k = l
    BY <1>0, <2>1, <2>2, OneArrives
  <2>3. CASE k # l
    <3>1. chan'[k] = chan[k] /\ tel'[k] = tel[k]
      BY <1>0, <2>1, <2>3
    <3>2. Next_UnderWay(k) \subseteq UnderWay(k)
      BY <2>1, <3>1, NoneAdded
    <3> QED
      BY <2>1, <3>1, <3>2, Unnoticed
  <2> QED
    BY <2>2, <2>3
<1>10. ASSUME NEW l \in Listeners, HandlePhoneRestart(l) PROVE KeepsOrder(k)
  <2>1. tel' = [tel EXCEPT ![l].last = NoSequence] /\ UNCHANGED chan /\ Connect(l)
    BY <1>10 DEF HandlePhoneRestart
  <2>2. Next_UnderWay(k) \subseteq UnderWay(k)
        /\ phone'.up = phone.up /\ phone'.sequence = phone.sequence
    BY <2>1, ConnectAddsNone
  <2>3. CASE k = l
    <3>1. tel'[k].view = tel[k].view
      BY <1>0, <2>1, <2>3 DEF Service
    <3>2. \A m \in UnderWay(k) : ~(m.version < tel[k].view[m.apn])
      BY <1>10, <2>3 DEF GoesWrong, ForgetsTooSoon
    <3>3. ASSUME NEW m \in UnderWay(k) PROVE tel[k].view[m.apn] <= m.version
      <4>1. m.apn \in Apns /\ m.version \in Nat /\ tel[k].view \in [Apns -> Nat]
        BY <1>0, UnderWayIs DEF Message, Service
      <4> QED
        BY <3>2, <4>1
    <3> QED
      BY <2>2, <3>1, <3>3, BeginsAnew
  <2>4. CASE k # l
    BY <1>0, <2>1, <2>2, <2>4, Unnoticed
  <2> QED
    BY <2>3, <2>4
<1>11. ASSUME NEW l \in Listeners, Start(l) PROVE KeepsOrder(k)
  <2>1. tel' = [tel EXCEPT ![l].status = "on", ![l].receiver = TRUE] /\ UNCHANGED chan /\ Connect(l)
    BY <1>11 DEF Start
  <2>2. tel'[k].last = tel[k].last /\ tel'[k].view = tel[k].view
    BY <1>0, <2>1 DEF Service
  <2> QED
    BY <2>1, <2>2, ConnectAddsNone, Unnoticed
<1>12. ASSUME NEW l \in Listeners, Crash(l) PROVE KeepsOrder(k)
  <2>1. /\ tel' = [tel EXCEPT ![l] = FreshService("crashed")]
        /\ phone'.up = phone.up /\ phone'.sequence = phone.sequence
    BY <1>0, <1>12 DEF Crash, PhoneType
  <2>2. Next_UnderWay(k) \subseteq UnderWay(k)
    BY <1>12, CrashAddsNone
  <2>3. CASE k = l
    <3>1. \A a \in Apns : tel'[k].view[a] = 0
      BY <1>0, <2>1, <2>3 DEF FreshService, NoStates, Unknown
    <3>2. \A m \in Next_UnderWay(k) : m.apn \in Apns /\ m.version \in Nat
      BY <2>2, UnderWayIs DEF Message
    <3>3. \A m \in Next_UnderWay(k) : tel'[k].view[m.apn] <= m.version
      BY <3>1, <3>2
    <3> QED
      BY <2>1, <2>2, <3>3, BeginsAnew
  <2>4. CASE k # l
    BY <1>0, <2>1, <2>2, <2>4, Unnoticed
  <2> QED
    BY <2>3, <2>4
<1>13. ASSUME NEW l \in Listeners, Restart(l) PROVE KeepsOrder(k)
  <2>1. tel' = [tel EXCEPT ![l].status = "on"] /\ UNCHANGED chan /\ Connect(l)
    BY <1>13 DEF Restart
  <2>2. tel'[k].last = tel[k].last /\ tel'[k].view = tel[k].view
    BY <1>0, <2>1 DEF Service
  <2> QED
    BY <2>1, <2>2, ConnectAddsNone, Unnoticed
<1>14. ASSUME NEW l \in Listeners, Stop(l) PROVE KeepsOrder(k)
  <2>1. /\ tel' = [tel EXCEPT ![l].status = "off", ![l].receiver = FALSE]
        /\ UNCHANGED <<chan, jobs>>
        /\ phone'.up = phone.up /\ phone'.sequence = phone.sequence
    BY <1>0, <1>14 DEF Stop, PhoneType
  <2>2. tel'[k].last = tel[k].last /\ tel'[k].view = tel[k].view
    BY <1>0, <2>1 DEF Service
  <2>3. Next_UnderWay(k) \subseteq UnderWay(k)
    BY <2>1, NoneAdded
  <2> QED
    BY <2>1, <2>2, <2>3, Unnoticed
<1>15. CASE PhoneCrash
  <2>1. ~phone'.up /\ UNCHANGED <<tel, chan>> /\ \A t \in Threads : jobs'[t] = Idle
    BY <1>15 DEF PhoneCrash, FreshPhone
  <2>2. Next_UnderWay(k) \subseteq UnderWay(k)
    BY <2>1, IdleIs, NoneAdded DEF Holds
  <2> QED
    BY <2>1, <2>2, Unnoticed
<1>16. CASE PhoneStart
  <2>1. UNCHANGED chan /\ (\A t \in Threads : jobs'[t] = Idle)
        /\ phone'.up /\ phone'.sequence = 0 /\ 0 \in Ring /\ tel' = tel
    BY <1>16, RingSize DEF PhoneStart, FromCache, FreshPhone, Ring
  <2>2. Next_UnderWay(k) \subseteq UnderWay(k)
    BY <2>1, IdleIs, NoneAdded DEF Holds
  <2>3. PICK top \in Ring : Lined(UnderWay(k), tel[k], top)
    BY DEF Orderly, LinedUp
  <2>4. Next_UnderWay(k) \subseteq Message /\ Lined(Next_UnderWay(k), tel[k], top)
    BY <2>2, <2>3, UnderWayIs, LinedFewer
  <2>5. \A m \in Next_UnderWay(k) : Behind(0, m.seq) < HalfRing
    BY <2>1, InTimeAfter
  <2>6. Lined(Next_UnderWay(k), tel[k], 0)
    BY <2>1, <2>4, <2>5, LinedAgain
  <2> QED
    BY <2>1, <2>6 DEF KeepsOrder, LinedUp
<1>17. CASE UNCHANGED vars
  <2>1. Next_UnderWay(k) \subseteq UnderWay(k)
    BY <1>17, NoneAdded DEF vars
  <2> QED
    BY <1>17, <2>1, Unnoticed DEF vars
<1> QED
  BY <1>1, <1>2, <1>3, <1>4, <1>5, <1>6, <1>7, <1>8, <1>9, <1>10, <1>11, <1>12, <1>13,
     <1>14, <1>15, <1>16, <1>17 DEF Next, Progress, Receive
-----------------------------------------------------------------------------
(* The refinement.                                                         *)

Views == [l \in Listeners |-> tel[l].view]

(* What is accepted is not older than what the listener has,               *)
LEMMA NeverOlder ==
  ASSUME Types, FromCache, AllKnown, Orderly, NEW l \in Listeners, NEW i \in 1 .. Len(chan[l]),
         Accepted(tel[l].last, chan[l][i].seq)
  PROVE  LET m == chan[l][i] IN
         /\ m.apn \in Apns /\ m.version \in Nat
         /\ tel[l].view[m.apn] <= m.version /\ m.version <= truth[m.apn]
<1> DEFINE m == chan[l][i]
           s == tel[l]
<1>1. m \in UnderWay(l) /\ s \in Service
  <2>1. chan[l] \in Seq(Message)
    BY TypesAre
  <2>2. i \in DOMAIN chan[l]
    BY <2>1
  <2> QED
    BY <2>2, ArrivingIs, TypesAre DEF UnderWay
<1>2. m \in Message /\ m.version <= truth[m.apn]
  BY <1>1, UnderWayIs
<1>3. m.apn \in Apns /\ m.version \in Nat /\ m.seq \in Ring
  BY <1>2 DEF Message
<1>4. PICK top \in Ring : Lined(UnderWay(l), s, top)
  BY DEF Orderly, LinedUp
<1>5. Accepted(s.last, m.seq)
  OBVIOUS
<1> HIDE DEF m, s
<1>6. ASSUME s.last # NoSequence, Behind(s.last, m.seq) < HalfRing PROVE FALSE
  <2>1. s.last \in Ring
    BY <1>1, <1>6, RingNumbers DEF Service
  <2> QED
    BY <1>3, <1>5, <1>6, <2>1, Refused
<1>7. s.view[m.apn] <= m.version
  <2>1. Behind(top, m.seq) \in Int
    BY <1>3, BehindIs DEF Ring
  <2>2. Behind(top, m.seq) <= Behind(top, m.seq)
    BY <2>1
  <2> QED
    BY <1>1, <1>4, <1>6, <2>2 DEF Lined
<1> QED
  BY <1>2, <1>3, <1>7 DEF m, s

(* so every step is one of StateSync, or none.                             *)
LEMMA EveryStepMaps ==
  ASSUME SafeInv, [Next]_vars
  PROVE  [Sync!Next]_(Sync!vars)
<1>0. /\ truth \in [Apns -> Nat] /\ tel \in [Listeners -> Service]
      /\ \A l \in Listeners : tel[l].view \in [Apns -> Nat]
  BY TypesAre DEF SafeInv, KnownInv, Service
<1>s. ASSUME UNCHANGED truth, \A l \in Listeners : tel'[l].view = tel[l].view
      PROVE  UNCHANGED Sync!vars
  BY <1>s DEF Sync!vars
<1>1. ASSUME NEW n \in Notifiers, NEW a \in Apns, Notify(n, a) PROVE Sync!Next
  <2>1. Sync!Change(a)
    BY <1>1 DEF Notify, Sync!Change
  <2> QED
    BY <2>1 DEF Sync!Next
<1>2. ASSUME NEW t \in Threads, Progress(t) PROVE UNCHANGED Sync!vars
  <2>1. UNCHANGED <<truth, tel>>
    BY <1>2 DEF Progress, ReadSequence, BeginBroadcast, Broadcast, FinishBroadcast,
                ReadCache, Push, IncrementAfterPush
  <2> QED
    BY <1>s, <2>1
<1>3. ASSUME NEW l \in Listeners, NEW i \in 1 .. Len(chan[l]), Deliver(l, i)
      PROVE  [Sync!Next]_(Sync!vars)
  <2> DEFINE m == chan[l][i]
  <2>1. tel' = [tel EXCEPT ![l] = Updated(tel[l], m)] /\ UNCHANGED truth
        /\ m \in Message /\ tel[l] \in Service
    BY <1>3, DeliverIs DEF SafeInv, KnownInv
  <2>2. CASE ~Accepted(tel[l].last, m.seq)
    <3>1. \A k \in Listeners : tel'[k].view = tel[k].view
      <4>1. Updated(tel[l], m) = tel[l]
        BY <2>1, <2>2, UpdatedIs
      <4>2. \A k \in Listeners : tel'[k] = tel[k]
        BY <1>0, <2>1, <4>1
      <4> QED
        BY <4>2
    <3> QED
      BY <1>s, <2>1, <3>1
  <2>3. CASE Accepted(tel[l].last, m.seq)
    <3>1. m.apn \in Apns /\ m.version \in Nat /\ tel[l].view[m.apn] <= m.version
          /\ m.version <= truth[m.apn]
      BY <2>3, NeverOlder DEF SafeInv, KnownInv
    <3>2. \A k \in Listeners : tel'[k].view = IF k = l THEN [tel[l].view EXCEPT ![m.apn] = m.version]
                                              ELSE tel[k].view
      BY <1>0, <2>1, <2>3, UpdatedIs
    <3>3. Views' = [Views EXCEPT ![l][m.apn] = m.version]
      BY <3>2 DEF Views
    <3>4. CASE tel[l].view[m.apn] = m.version
      <4>1. \A k \in Listeners : tel'[k].view = tel[k].view
        BY ZenonT(40), <1>0, <3>1, <3>2, <3>4
      <4> QED
        BY <1>s, <2>1, <4>1
    <3>5. CASE tel[l].view[m.apn] # m.version
      <4>1. PICK a \in Apns : a = m.apn
        BY <3>1
      <4>2. Views[l][a] < truth[a] /\ m.version \in (Views[l][a] + 1) .. truth[a]
        BY <1>0, <3>1, <3>5, <4>1 DEF Views
      <4>3. Sync!Learn(l, a)
        <5>1. \E version \in (Views[l][a] + 1) .. truth[a] :
                Views' = [Views EXCEPT ![l][a] = version]
          BY <3>3, <4>1, <4>2
        <5> QED
          BY <2>1, <4>2, <5>1 DEF Sync!Learn, Views
      <4>4. Sync!Next
        BY <4>3 DEF Sync!Next
      <4> QED
        BY <4>4
    <3> QED
      BY <3>4, <3>5
  <2> QED
    BY <2>2, <2>3
<1>4. ASSUME NEW l \in Listeners, Crash(l) PROVE Sync!Next
  <2>1. UNCHANGED truth
        /\ \A k \in Listeners : tel'[k].view = IF k = l THEN [a \in Apns |-> 0] ELSE tel[k].view
    BY <1>0, <1>4 DEF Crash, FreshService, NoStates, Unknown
  <2>2. Views' = [Views EXCEPT ![l] = [a \in Apns |-> 0]]
    BY <2>1 DEF Views
  <2>3. Sync!Forget(l)
    BY <2>1, <2>2 DEF Sync!Forget, Views
  <2> QED
    BY <2>3 DEF Sync!Next
<1>5. ASSUME NEW l \in Listeners, HandlePhoneRestart(l) \/ Start(l) \/ Restart(l) \/ Stop(l)
      PROVE  UNCHANGED Sync!vars
  <2>1. UNCHANGED truth
    BY <1>5 DEF HandlePhoneRestart, Start, Restart, Stop
  <2>2. CASE HandlePhoneRestart(l)
    BY <1>0, <1>s, <2>1, <2>2 DEF HandlePhoneRestart, Service
  <2>3. CASE Start(l)
    BY <1>0, <1>s, <2>1, <2>3 DEF Start, Service
  <2>4. CASE Restart(l)
    BY <1>0, <1>s, <2>1, <2>4 DEF Restart, Service
  <2>5. CASE Stop(l)
    BY <1>0, <1>s, <2>1, <2>5 DEF Stop, Service
  <2> QED
    BY <1>5, <2>2, <2>3, <2>4, <2>5
<1>6. CASE PhoneCrash \/ PhoneStart \/ UNCHANGED vars
  <2>1. UNCHANGED <<truth, tel>>
    BY <1>6 DEF PhoneCrash, PhoneStart, vars
  <2> QED
    BY <1>s, <2>1
<1> QED
  BY <1>1, <1>2, <1>3, <1>4, <1>5, <1>6 DEF Next, Receive

LEMMA InitSafe == Init => SafeInv /\ Sync!Init
<1> SUFFICES ASSUME Init PROVE SafeInv /\ Sync!Init
  OBVIOUS
<1>1. KnownInv
  BY InitKnown
<1>2. ASSUME NEW l \in Listeners
      PROVE  LinedUp(UnderWay(l), tel[l], phone.up, phone.sequence)
  <2>1. chan[l] = <<>> /\ phone.sequence \in Ring /\ \A t \in Threads : jobs[t] = Idle
    BY <1>1, TypesAre DEF Init, KnownInv, PhoneType
  <2>2. UnderWay(l) = {}
    BY <2>1, IdleIs, ArrivingIs DEF UnderWay, Holds
  <2> QED
    BY <2>1, <2>2, LinedEmpty DEF LinedUp
<1>3. Sync!Init
  BY DEF Init, Sync!Init, NoStates, Unknown, FreshService
<1> QED
  BY <1>1, <1>2, <1>3 DEF SafeInv, Orderly

(* A listener never has a state that the APN did not have, whatever        *)
(* crashes, overlaps or comes out of order.                                *)
THEOREM NothingInvented == Spec => [](\A l \in Listeners, a \in Apns : tel[l].view[a] <= truth[a])
<1>1. KnownInv => \A l \in Listeners, a \in Apns : tel[l].view[a] <= truth[a]
  BY DEF KnownInv, AllKnown, Known
<1>2. KnownInv /\ [Next]_vars => KnownInv'
  <2>1. CASE KnownInv /\ [Next]_vars
    BY <2>1, KnownInvStep
  <2> QED
    BY <2>1
<1> QED
  BY <1>1, <1>2, InitKnown, PTL DEF Spec

(* handleMessage keeps a listener from going back to an older state of an  *)
(* APN: PhoneTelematics implements StateSync, with callers that overlap,   *)
(* callbacks in any order and crashes of both sides, until half of the     *)
(* ring is used up while a callback is under way (~InTime), or a caller    *)
(* gets its number for a state that has changed, or a listener resets its  *)
(* handler too soon (GoesWrong).  The code excludes none of these.         *)
THEOREM NeverGoesBack ==
  SafeSpec => ImplementsStateSync \/ <>~InTime \/ <><<GoesWrong>>_vars
<1>1. SafeInv /\ [Next]_vars /\ [~GoesWrong]_vars /\ InTime' => SafeInv'
  <2> SUFFICES ASSUME SafeInv, [Next]_vars, [~GoesWrong]_vars, InTime' PROVE SafeInv'
    OBVIOUS
  <2>1. KnownInv'
    BY KnownInvStep DEF SafeInv
  <2>2. Orderly'
    <3>1. CASE ~GoesWrong
      BY <2>1, <3>1, OrderlyStep DEF SafeInv, KnownInv
    <3>2. CASE UNCHANGED vars
      BY <3>2 DEF SafeInv, vars, Orderly, UnderWay, Arriving, Holds, Carried, LinedUp, Lined
    <3> QED
      BY <3>1, <3>2
  <2> QED
    BY <2>1, <2>2 DEF SafeInv
<1>2. SafeInv /\ [Next]_vars => [Sync!Next]_(Sync!vars)
  BY EveryStepMaps
<1> QED
  BY <1>1, <1>2, InitSafe, PTL DEF SafeSpec, ImplementsStateSync
-----------------------------------------------------------------------------
(* Callbacks in order.                                                     *)

LEMMA NumberBefore ==
  ASSUME NEW c \in Seq(Message), NEW last \in NoSequence .. (SequenceMax - 1),
         NEW i \in 1 .. (Len(c) + 1)
  PROVE  Before(c, last, i) \in NoSequence .. (SequenceMax - 1)
<1>1. CASE i = 1
  BY <1>1 DEF Before
<1>2. CASE i # 1
  <2>1. i - 1 \in DOMAIN c
    BY <1>2
  <2> QED
    BY <1>2, <2>1, MessageIs, RingNumbers DEF Before
<1> QED
  BY <1>1, <1>2

LEMMA ChainStarts ==
  ASSUME NEW last, NEW top, NEW view, NEW a, NEW value
  PROVE  /\ Chain(<<>>, last) /\ Newest(<<>>, last) = last
         /\ Reaches(<<>>, view, a, value) <=> view[a] = value
<1>1. DOMAIN <<>> = {} /\ Len(<<>>) = 0
  OBVIOUS
<1> QED
  BY <1>1 DEF Chain, Newest, Before, Reaches


LEMMA ChainGrows ==
  ASSUME NEW c \in Seq(Message), NEW last \in NoSequence .. (SequenceMax - 1),
         NEW m \in Message, Chain(c, last), Newer(c, last, m.seq),
         Newest(c, last) # NoSequence => Behind(m.seq, Newest(c, last)) < HalfRing
  PROVE  Chain(Append(c, m), last)
<1> DEFINE d == Append(c, m)
           newest == Newest(c, last)
<1>1. /\ Len(c) \in Nat /\ Len(d) = Len(c) + 1
      /\ \A i \in 1 .. Len(c) : d[i] = c[i]
      /\ d[Len(c) + 1] = m
  OBVIOUS
<1>2. Accepted(newest, m.seq)
  <2>1. newest \in NoSequence .. (SequenceMax - 1) /\ m.seq \in Ring
    <3>1. Len(c) + 1 \in 1 .. (Len(c) + 1)
      BY <1>1
    <3> QED
      BY <3>1, NumberBefore DEF Newest, Message
  <2> HIDE DEF newest
  <2>2. CASE newest = NoSequence
    BY <2>2 DEF Accepted
  <2>3. CASE newest # NoSequence
    <3>1. newest \in Ring
      BY <2>1, <2>3, RingNumbers
    <3>2. Behind(m.seq, newest) \in Int
      <4>1. Behind(m.seq, newest) \in Ring
        BY <2>1, <3>1, BehindIs
      <4>2. Ring \subseteq Int
        BY DEF Ring
      <4> QED
        BY <4>1, <4>2
    <3>3. Behind(m.seq, newest) \in 1 .. (HalfRing - 1)
      BY <2>3, <3>2, RingSize DEF Newer, newest
    <3> QED
      BY <2>1, <3>1, <3>3, AcceptedIs
  <2> QED
    BY <2>2, <2>3
<1> HIDE DEF d
<1>3. \A i \in 1 .. (Len(c) + 1) : Before(d, last, i) = Before(c, last, i)
  BY <1>1 DEF Before
<1>4. ASSUME NEW i \in 1 .. Len(d) PROVE Accepted(Before(d, last, i), d[i].seq)
  <2>1. CASE i = Len(c) + 1
    BY <1>1, <1>2, <1>3, <2>1 DEF Newest
  <2>2. CASE i # Len(c) + 1
    <3>1. i \in 1 .. Len(c)
      BY <1>1, <2>2
    <3>2. i \in 1 .. (Len(c) + 1)
      BY <1>1, <3>1
    <3>3. Accepted(Before(c, last, i), c[i].seq)
      BY <3>1 DEF Chain
    <3> QED
      BY <1>1, <1>3, <3>1, <3>2, <3>3
  <2> QED
    BY <2>1, <2>2
<1>5. Chain(d, last)
  BY <1>4 DEF Chain
<1> QED
  BY <1>5 DEF d

LEMMA ReachesGrows ==
  ASSUME NEW c \in Seq(Message), NEW m \in Message, NEW view, NEW a, NEW value
  PROVE  /\ m.apn = a /\ m.version = value => Reaches(Append(c, m), view, a, value)
         /\ m.apn # a /\ Reaches(c, view, a, value) => Reaches(Append(c, m), view, a, value)
<1> DEFINE d == Append(c, m)
<1>1. /\ Len(c) + 1 \notin DOMAIN c
      /\ DOMAIN d = DOMAIN c \union {Len(c) + 1}
      /\ \A i \in DOMAIN c : d[i] = c[i]
      /\ d[Len(c) + 1] = m
      /\ \A i \in DOMAIN d : ~(Len(c) + 1 < i)
  BY AppendIs
<1> HIDE DEF d
<1>2. ASSUME m.apn = a, m.version = value PROVE Reaches(d, view, a, value)
  BY <1>1, <1>2 DEF Reaches
<1>3. ASSUME m.apn # a, Reaches(c, view, a, value) PROVE Reaches(d, view, a, value)
  <2>1. CASE \A i \in DOMAIN c : c[i].apn # a
    BY <1>1, <1>3, <2>1 DEF Reaches
  <2>2. CASE \E i \in DOMAIN c : c[i].apn = a
    <3>1. PICK i \in DOMAIN c : /\ c[i].apn = a /\ c[i].version = value
                                /\ \A j \in DOMAIN c : i < j => c[j].apn # a
      BY <1>3, <2>2 DEF Reaches
    <3>2. i \in DOMAIN d /\ d[i].apn = a /\ d[i].version = value
          /\ \A j \in DOMAIN d : i < j => d[j].apn # a
      BY <1>1, <1>3, <3>1
    <3> QED
      BY <3>2 DEF Reaches
  <2> QED
    BY <2>1, <2>2
<1> QED
  BY <1>2, <1>3 DEF d

(* A number has been used.                                                 *)
LEMMA ChainTurns ==
  ASSUME NEW c \in Seq(Message), NEW last \in NoSequence .. (SequenceMax - 1), NEW top \in Ring,
         Newest(c, last) # NoSequence => Behind(top, Newest(c, last)) < HalfRing
  PROVE  Newer(c, last, Successor(top))
<1> DEFINE newest == Newest(c, last)
<1> SUFFICES ASSUME newest # NoSequence PROVE Behind(Successor(top), newest) > 0
  BY DEF Newer
<1>1. Len(c) \in Nat
  OBVIOUS
<1>2. newest \in Ring
  BY <1>1, NumberBefore, RingNumbers DEF Newest
<1> HIDE DEF newest
<1>3. Behind(top, newest) \in Nat
  <2>1. Behind(top, newest) \in Ring /\ Ring \subseteq Nat
    BY <1>2, BehindIs DEF Ring
  <2> QED
    BY <2>1
<1>4. Behind(top, newest) < SequenceMax - 1
  BY <1>3, RingSize DEF newest
<1>5. Behind(Successor(top), newest) = Behind(top, newest) + 1
  BY <1>2, <1>4, OneMore
<1> QED
  BY <1>3, <1>5

(* The first callback arrives.                                             *)
LEMMA ChainShrinks ==
  ASSUME NEW c \in Seq(Message), 1 \in 1 .. Len(c), NEW last,
         Chain(c, last), NEW view, NEW a
  PROVE  /\ Chain(Without(c, 1), c[1].seq)
         /\ Newest(Without(c, 1), c[1].seq) = Newest(c, last)
         /\ Accepted(last, c[1].seq)
         /\ \A value : Reaches(c, view, a, value) => 
              \/ Reaches(Without(c, 1), view, a, value) /\ c[1].apn # a
              \/ c[1].apn = a /\ \A w : w[a] = c[1].version => Reaches(Without(c, 1), w, a, value)
<1> DEFINE d == Without(c, 1)
<1>1. Len(c) \in Nat /\ DOMAIN d = 1 .. (Len(c) - 1) /\ DOMAIN c = 1 .. Len(c)
      /\ \A j \in 1 .. (Len(c) - 1) : d[j] = c[j + 1]
  <2>1. Len(c) \in Nat
    OBVIOUS
  <2>2. PICK i \in 1 .. Len(c) : i = 1
    OBVIOUS
  <2>3. /\ DOMAIN Without(c, i) = 1 .. (Len(c) - 1) /\ DOMAIN c = 1 .. Len(c)
        /\ \A j \in 1 .. (Len(c) - 1) : Without(c, i)[j] = IF j < i THEN c[j] ELSE c[j + 1]
    BY WithoutIs
  <2> QED
    BY <2>1, <2>2, <2>3
<1> HIDE DEF d
<1>2. /\ \A j \in DOMAIN d : j \in Nat /\ j + 1 \in DOMAIN c /\ d[j] = c[j + 1] /\ 1 < j + 1
      /\ \A i \in DOMAIN c : i # 1 => i \in Nat /\ i - 1 \in DOMAIN d /\ d[i - 1] = c[i]
      /\ 1 \in DOMAIN c
  BY <1>1
<1>l. Len(d) \in Nat /\ Len(d) + 1 = Len(c) /\ DOMAIN d = 1 .. Len(d)
  <2>1. PICK i \in 1 .. Len(c) : i = 1
    OBVIOUS
  <2>2. Len(Without(c, i)) = Len(c) - 1
    BY WithoutIs
  <2>3. Len(d) = Len(c) - 1
    BY <2>1, <2>2 DEF d
  <2> QED
    BY <1>1, <2>3
<1>b. \A i \in 1 .. (Len(d) + 1) : Before(d, c[1].seq, i) = c[i].seq
  <2> TAKE i \in 1 .. (Len(d) + 1)
  <2>1. CASE i = 1
    BY <2>1 DEF Before
  <2>2. CASE i # 1
    <3>1. i - 1 \in 1 .. Len(d)
      BY <1>l, <2>2
    <3>2. d[i - 1] = c[i]
      BY <1>1, <1>l, <3>1
    <3> QED
      BY <2>2, <3>2 DEF Before
  <2> QED
    BY <2>1, <2>2
<1>3. Chain(d, c[1].seq)
  <2>1. ASSUME NEW i \in 1 .. Len(d) PROVE Accepted(Before(d, c[1].seq, i), d[i].seq)
    <3>1. i + 1 \in 1 .. Len(c) /\ i + 1 # 1 /\ d[i] = c[i + 1]
      BY <1>1, <1>l
    <3>2. Before(d, c[1].seq, i) = c[i].seq
      BY <1>l, <1>b
    <3>3. Accepted(Before(c, last, i + 1), c[i + 1].seq)
      BY <3>1 DEF Chain
    <3>4. Before(c, last, i + 1) = c[i].seq
      BY <3>1 DEF Before
    <3> QED
      BY <3>1, <3>2, <3>3, <3>4
  <2> QED
    BY <2>1 DEF Chain
<1>4. Newest(d, c[1].seq) = Newest(c, last) /\ Accepted(last, c[1].seq)
  <2>1. Newest(d, c[1].seq) = c[Len(d) + 1].seq
    BY <1>l, <1>b DEF Newest
  <2>2. Newest(c, last) = c[Len(c)].seq
    BY <1>1, <1>l DEF Newest, Before
  <2>3. Accepted(last, c[1].seq)
    BY DEF Chain, Before
  <2> QED
    BY <1>l, <2>1, <2>2, <2>3
<1>5. ASSUME NEW value, Reaches(c, view, a, value)
      PROVE  \/ Reaches(d, view, a, value) /\ c[1].apn # a
             \/ c[1].apn = a /\ \A w : w[a] = c[1].version => Reaches(d, w, a, value)
  <2>1. CASE \A i \in DOMAIN c : c[i].apn # a
    BY <1>2, <1>5, <2>1 DEF Reaches
  <2>2. CASE \E i \in DOMAIN c : c[i].apn = a
    <3>1. PICK i \in DOMAIN c : /\ c[i].apn = a /\ c[i].version = value
                                /\ \A j \in DOMAIN c : i < j => c[j].apn # a
      BY <1>5, <2>2 DEF Reaches
    <3>2. CASE i = 1
      <4>1. \A j \in DOMAIN d : d[j].apn # a
        BY <1>2, <3>1, <3>2
      <4> QED
        BY <3>1, <3>2, <4>1 DEF Reaches
    <3>3. CASE i # 1
      <4>1. i - 1 \in DOMAIN d /\ d[i - 1] = c[i] /\ i \in Nat
        BY <1>2, <3>3
      <4>2. ASSUME NEW j \in DOMAIN d, i - 1 < j PROVE d[j].apn # a
        <5>1. i < j + 1
          BY <1>2, <4>1, <4>2
        <5> QED
          BY <1>2, <3>1, <5>1
      <4>3. \A w : Reaches(d, w, a, value)
        BY <3>1, <4>1, <4>2 DEF Reaches
      <4> QED
        BY <4>3
    <3> QED
      BY <3>2, <3>3
  <2> QED
    BY <2>1, <2>2
<1> QED
  BY <1>3, <1>4, <1>5 DEF d
-----------------------------------------------------------------------------
(* Who is registered.                                                      *)

(* What has to be shown of each listener after a step.                     *)
KeepsMember(k) ==
  /\ k \in phone'.registered => tel'[k].status = "on" /\ phone'.up
  /\ jobs'[k].pc \in {"cache", "sequence", "push"} => k \in phone'.registered
  /\ jobs'[k].pc = "increment" /\ jobs'[k].apn # NumApns => k \in phone'.registered
  /\ \A n \in Notifiers : k \in jobs'[n].left => tel'[k].status # "crashed"
  /\ tel'[k].receiver \/ pending'[k] > 0 => tel'[k].status = "on"
  /\ tel'[k].status = "crashed" => chan'[k] = <<>> /\ tel'[k].last = NoSequence

LEMMA MembersKept ==
  (\A k \in Listeners : KeepsMember(k)) => Membership'
BY DEF KeepsMember, Membership, Served

LEMMA IsMember ==
  ASSUME Membership, NEW k \in Listeners
  PROVE  /\ k \in phone.registered => tel[k].status = "on" /\ phone.up
         /\ jobs[k].pc \in {"cache", "sequence", "push"} => k \in phone.registered
         /\ jobs[k].pc = "increment" /\ jobs[k].apn # NumApns => k \in phone.registered
         /\ \A n \in Notifiers : k \in jobs[n].left => tel[k].status # "crashed"
         /\ tel[k].receiver \/ pending[k] > 0 => tel[k].status = "on"
         /\ tel[k].status = "crashed" => chan[k] = <<>> /\ tel[k].last = NoSequence
BY DEF Membership, Served

(* A service that is on connects.                                          *)
LEMMA ConnectMember ==
  ASSUME Types, Membership, NEW l \in Listeners, Connect(l), tel'[l].status = "on",
         NEW k \in Listeners, chan'[k] = chan[k],
         k # l => tel'[k] = tel[k] /\ pending'[k] = pending[k]
  PROVE  KeepsMember(k)
<1>0. /\ jobs \in [Threads -> JobState] /\ phone \in PhoneType
      /\ Notifiers \subseteq Threads /\ Listeners \subseteq Threads /\ l \notin Notifiers
  BY TypesAre, PhoneAssumption DEF Threads
<1>1. /\ k \in phone.registered => tel[k].status = "on" /\ phone.up
      /\ jobs[k].pc \in {"cache", "sequence", "push"} => k \in phone.registered
      /\ jobs[k].pc = "increment" /\ jobs[k].apn # NumApns => k \in phone.registered
      /\ \A n \in Notifiers : k \in jobs[n].left => tel[k].status # "crashed"
      /\ tel[k].receiver \/ pending[k] > 0 => tel[k].status = "on"
      /\ tel[k].status = "crashed" => chan[k] = <<>> /\ tel[k].last = NoSequence
  BY IsMember
<1>2. /\ phone.registered \subseteq phone'.registered /\ phone'.up = phone.up
      /\ \A n \in Notifiers : jobs'[n] = jobs[n]
      /\ k # l => (k \in phone'.registered <=> k \in phone.registered) /\ jobs'[k] = jobs[k]
      /\ l \in phone'.registered => phone.up \/ l \in phone.registered
      /\ phone.up => l \in phone'.registered
      /\ ~phone.up => jobs'[l] = jobs[l] /\ phone' = phone
  BY <1>0 DEF Connect, PhoneType
<1>3. CASE k = l
  <2>1. l \in phone'.registered => phone'.up
    BY <1>1, <1>2, <1>3
  <2>2. "on" # "crashed"
    OBVIOUS
  <2>3. jobs'[l].pc \in {"cache", "sequence", "push"} => l \in phone'.registered
    BY <1>1, <1>2, <1>3
  <2>4. jobs'[l].pc = "increment" /\ jobs'[l].apn # NumApns => l \in phone'.registered
    BY <1>1, <1>2, <1>3
  <2> QED
    BY <1>3, <2>1, <2>2, <2>3, <2>4 DEF KeepsMember
<1>4. CASE k # l
  BY <1>1, <1>2, <1>4 DEF KeepsMember
<1> QED
  BY <1>3, <1>4

(* The job of t goes on, and nobody is registered or starts.               *)
LEMMA JobMember ==
  ASSUME Types, Membership, NEW t \in Threads, NEW job, jobs' = [jobs EXCEPT ![t] = job],
         job.left \subseteq jobs[t].left \union phone.registered,
         t \in Listeners => /\ job.pc \in {"cache", "sequence", "push"} => t \in phone.registered
                            /\ job.pc = "increment" /\ job.apn # NumApns => t \in phone.registered,
         UNCHANGED <<tel, pending>>, phone'.registered = phone.registered, phone'.up = phone.up,
         NEW k \in Listeners, tel[k].status # "crashed" \/ chan'[k] = chan[k]
  PROVE  KeepsMember(k)
<1>0. jobs \in [Threads -> JobState] /\ Notifiers \subseteq Threads /\ Listeners \subseteq Threads
  BY TypesAre DEF Threads
<1>1. /\ k \in phone.registered => tel[k].status = "on" /\ phone.up
      /\ jobs[k].pc \in {"cache", "sequence", "push"} => k \in phone.registered
      /\ jobs[k].pc = "increment" /\ jobs[k].apn # NumApns => k \in phone.registered
      /\ \A n \in Notifiers : k \in jobs[n].left => tel[k].status # "crashed"
      /\ tel[k].receiver \/ pending[k] > 0 => tel[k].status = "on"
      /\ tel[k].status = "crashed" => chan[k] = <<>> /\ tel[k].last = NoSequence
  BY IsMember
<1>2. \A s \in Threads : jobs'[s] = IF s = t THEN job ELSE jobs[s]
  BY <1>0
<1>3. \A n \in Notifiers : k \in jobs'[n].left => tel[k].status # "crashed"
  <2> TAKE n \in Notifiers
  <2> SUFFICES ASSUME k \in jobs'[n].left PROVE tel[k].status # "crashed"
    OBVIOUS
  <2>1. k \in jobs[n].left \/ k \in phone.registered
    BY <1>0, <1>2
  <2> QED
    BY <1>1, <2>1
<1>4. /\ jobs'[k].pc \in {"cache", "sequence", "push"} => k \in phone.registered
      /\ jobs'[k].pc = "increment" /\ jobs'[k].apn # NumApns => k \in phone.registered
  BY <1>0, <1>1, <1>2
<1> QED
  BY <1>1, <1>3, <1>4 DEF KeepsMember

LEMMA MembershipStep ==
  ASSUME Types, Types', FromCache, Membership, [Next]_vars
  PROVE  Membership'
<1>0. /\ truth \in [Apns -> Nat] /\ phone \in PhoneType /\ jobs \in [Threads -> JobState]
      /\ tel \in [Listeners -> Service] /\ chan \in [Listeners -> Seq(Message)]
      /\ pending \in [Listeners -> Nat] /\ pending' \in [Listeners -> Nat]
      /\ Notifiers \subseteq Threads /\ Listeners \subseteq Threads
      /\ \A l \in Listeners : l \notin Notifiers
  BY TypesAre, PhoneAssumption DEF Threads, Types, TypeOK
<1> SUFFICES \A k \in Listeners : KeepsMember(k)
  BY MembersKept
<1> TAKE k \in Listeners
<1>m. /\ k \in phone.registered => tel[k].status = "on" /\ phone.up
      /\ jobs[k].pc \in {"cache", "sequence", "push"} => k \in phone.registered
      /\ jobs[k].pc = "increment" /\ jobs[k].apn # NumApns => k \in phone.registered
      /\ \A n \in Notifiers : k \in jobs[n].left => tel[k].status # "crashed"
      /\ tel[k].receiver \/ pending[k] > 0 => tel[k].status = "on"
      /\ tel[k].status = "crashed" => chan[k] = <<>> /\ tel[k].last = NoSequence
  BY IsMember
<1>1. ASSUME NEW n \in Notifiers, NEW a \in Apns, Notify(n, a) PROVE KeepsMember(k)
  <2> DEFINE job == [Idle EXCEPT !.pc = "sequence", !.apn = a, !.version = truth[a] + 1]
  <2>1. jobs' = [jobs EXCEPT ![n] = job] /\ UNCHANGED <<tel, chan, pending>>
        /\ phone'.registered = phone.registered /\ phone'.up = phone.up
    BY <1>0, <1>1 DEF Notify, PhoneType
  <2>2. job.left = {}
    BY DEF Idle
  <2> HIDE DEF job
  <2>3. job.left \subseteq jobs[n].left \union phone.registered
    BY <2>2
  <2> QED
    BY <1>0, <2>1, <2>3, JobMember
<1>2. ASSUME NEW t \in Threads, ReadSequence(t) PROVE KeepsMember(k)
  <2> DEFINE to == IF t \in Notifiers THEN "begin" ELSE "push"
             job == [jobs[t] EXCEPT !.seq = phone.sequence, !.pc = to]
  <2>1. jobs' = [jobs EXCEPT ![t] = job] /\ UNCHANGED <<tel, chan, pending, phone>>
        /\ jobs[t].pc = "sequence"
    BY <1>2 DEF ReadSequence
  <2>2. job.left = jobs[t].left /\ job.pc = to
    BY <1>0 DEF JobState
  <2>3. t \in Listeners => t \in phone.registered
    BY <2>1 DEF Membership, Served
  <2> HIDE DEF job
  <2>4. job.left \subseteq jobs[t].left \union phone.registered
    BY <2>2
  <2> QED
    BY <2>1, <2>3, <2>4, JobMember
<1>3. ASSUME NEW n \in Notifiers, BeginBroadcast(n) PROVE KeepsMember(k)
  <2> DEFINE job == IF Broadcasting THEN Idle
                    ELSE [jobs[n] EXCEPT !.pc = "send", !.left = phone.registered]
  <2>1. jobs' = [jobs EXCEPT ![n] = job] /\ UNCHANGED <<tel, chan, pending, phone>>
    BY <1>3 DEF BeginBroadcast
  <2>2. job.left \subseteq jobs[n].left \union phone.registered
    BY <1>0, IdleIs DEF JobState
  <2> HIDE DEF job
  <2> QED
    BY <1>0, <2>1, <2>2, JobMember
<1>4. ASSUME NEW n \in Notifiers, NEW l \in Listeners, Broadcast(n, l) PROVE KeepsMember(k)
  <2> DEFINE job == [jobs[n] EXCEPT !.left = @ \ {l}]
  <2>1. jobs' = [jobs EXCEPT ![n] = job] /\ UNCHANGED <<tel, pending, phone>>
        /\ chan' = [chan EXCEPT ![l] = Append(@, Callback(n, l))] /\ l \in jobs[n].left
    BY <1>0, <1>4 DEF Broadcast
  <2>2. job.left \subseteq jobs[n].left \union phone.registered
    BY <1>0 DEF JobState
  <2>3. tel[k].status # "crashed" \/ chan'[k] = chan[k]
    BY <1>0, <1>m, <2>1
  <2> HIDE DEF job
  <2> QED
    BY <1>0, <2>1, <2>2, <2>3, JobMember
<1>5. ASSUME NEW n \in Notifiers, FinishBroadcast(n) PROVE KeepsMember(k)
  <2>1. jobs' = [jobs EXCEPT ![n] = Idle] /\ UNCHANGED <<tel, chan, pending>>
        /\ phone'.registered = phone.registered /\ phone'.up = phone.up
    BY <1>0, <1>5 DEF FinishBroadcast, PhoneType
  <2>2. Idle.left \subseteq jobs[n].left \union phone.registered
    BY IdleIs
  <2> QED
    BY <1>0, <2>1, <2>2, JobMember
<1>6. ASSUME NEW l \in Listeners, ReadCache(l) PROVE KeepsMember(k)
  <2> DEFINE cached == phone.cache[jobs[l].apn]
             job == IF cached = Unknown THEN NextApn(jobs[l])
                    ELSE [jobs[l] EXCEPT !.pc = "sequence", !.version = cached]
  <2>1. jobs' = [jobs EXCEPT ![l] = job] /\ UNCHANGED <<tel, chan, pending, phone>>
        /\ jobs[l].pc = "cache"
    BY <1>6 DEF ReadCache
  <2>2. job.left \subseteq jobs[l].left \union phone.registered
    <3>1. jobs[l] \in JobState
      BY <1>0
    <3>2. NextApn(jobs[l]).left = {}
      BY <3>1, NextApnType, IdleIs
    <3>3. [jobs[l] EXCEPT !.pc = "sequence", !.version = cached].left = jobs[l].left
      BY <3>1 DEF JobState
    <3> QED
      BY <3>2, <3>3
  <2>3. l \in phone.registered
    BY <2>1 DEF Membership, Served
  <2> HIDE DEF job
  <2> QED
    BY <1>0, <2>1, <2>2, <2>3, JobMember
<1>7. ASSUME NEW l \in Listeners, Push(l) PROVE KeepsMember(k)
  <2> DEFINE job == [jobs[l] EXCEPT !.pc = "increment"]
  <2>1. jobs' = [jobs EXCEPT ![l] = job] /\ UNCHANGED <<tel, pending, phone>>
        /\ jobs[l].pc = "push" /\ chan' = [chan EXCEPT ![l] = Append(@, Callback(l, l))]
    BY <1>7 DEF Push, Goto
  <2>2. job.left \subseteq jobs[l].left \union phone.registered
    BY <1>0 DEF JobState
  <2>3. l \in phone.registered
    BY <2>1 DEF Membership, Served
  <2>4. tel[k].status # "crashed" \/ chan'[k] = chan[k]
    <3>1. CASE k = l
      BY <1>m, <2>3, <3>1
    <3>2. CASE k # l
      BY <1>0, <2>1, <3>2
    <3> QED
      BY <3>1, <3>2
  <2> HIDE DEF job
  <2> QED
    BY <1>0, <2>1, <2>2, <2>3, <2>4, JobMember
<1>8. ASSUME NEW l \in Listeners, IncrementAfterPush(l) PROVE KeepsMember(k)
  <2> DEFINE job == NextApn(jobs[l])
  <2>1. jobs' = [jobs EXCEPT ![l] = job] /\ UNCHANGED <<tel, chan, pending>>
        /\ jobs[l].pc = "increment" /\ phone'.registered = phone.registered /\ phone'.up = phone.up
    BY <1>0, <1>8 DEF IncrementAfterPush, PhoneType
  <2>2. jobs[l].apn = NumApns => job.pc = "idle" /\ job.left = {}
    BY <1>0, NextApnType, IdleIs
  <2>3. jobs[l].apn # NumApns => job.pc = "cache" /\ job.left = {} /\ l \in phone.registered
    BY <1>0, <2>1, NextApnType DEF Membership, Served
  <2> HIDE DEF job
  <2>4. job.left \subseteq jobs[l].left \union phone.registered
    BY <2>2, <2>3
  <2>5. /\ job.pc \in {"cache", "sequence", "push"} => l \in phone.registered
        /\ job.pc = "increment" /\ job.apn # NumApns => l \in phone.registered
    BY <2>2, <2>3
  <2> QED
    BY <1>0, <2>1, <2>4, <2>5, JobMember
<1>9. ASSUME NEW l \in Listeners, NEW i \in 1 .. Len(chan[l]), Deliver(l, i) PROVE KeepsMember(k)
  <2>1. /\ tel' = [tel EXCEPT ![l] = Updated(tel[l], chan[l][i])]
        /\ chan' = [chan EXCEPT ![l] = Without(chan[l], i)]
        /\ UNCHANGED <<phone, jobs, pending>> /\ chan[l][i] \in Message /\ tel[l] \in Service
        /\ tel[l].status # "crashed"
    BY <1>9, DeliverIs DEF Deliver
  <2>2. CASE k = l
    <3>1. tel'[k].status = tel[k].status /\ tel'[k].receiver = tel[k].receiver
      BY <1>0, <2>1, <2>2, UpdatedIs
    <3> QED
      BY <1>m, <2>1, <2>2, <3>1 DEF KeepsMember
  <2>3. CASE k # l
    <3>1. tel'[k] = tel[k] /\ chan'[k] = chan[k]
      BY <1>0, <2>1, <2>3
    <3> QED
      BY <1>m, <2>1, <3>1 DEF KeepsMember
  <2> QED
    BY <2>2, <2>3
<1>10. ASSUME NEW l \in Listeners, HandlePhoneRestart(l) PROVE KeepsMember(k)
  <2>1. /\ tel' = [tel EXCEPT ![l].last = NoSequence] /\ pending' = [pending EXCEPT ![l] = @ - 1]
        /\ UNCHANGED chan /\ Connect(l) /\ pending[l] > 0
    BY <1>10 DEF HandlePhoneRestart
  <2>2. tel'[l].status = "on"
    BY <1>0, <2>1 DEF Membership, Service
  <2>3. k # l => tel'[k] = tel[k] /\ pending'[k] = pending[k]
    BY <1>0, <2>1
  <2> QED
    BY <2>1, <2>2, <2>3, ConnectMember
<1>11. ASSUME NEW l \in Listeners, Start(l) PROVE KeepsMember(k)
  <2>1. tel' = [tel EXCEPT ![l].status = "on", ![l].receiver = TRUE]
        /\ UNCHANGED <<chan, pending>> /\ Connect(l)
    BY <1>11 DEF Start
  <2>2. tel'[l].status = "on" /\ (k # l => tel'[k] = tel[k])
    BY <1>0, <2>1 DEF Service
  <2> QED
    BY <2>1, <2>2, ConnectMember
<1>12. ASSUME NEW l \in Listeners, Crash(l) PROVE KeepsMember(k)
  <2>1. phone'.registered = phone.registered \ {l} /\ phone'.up = phone.up
        /\ tel' = [tel EXCEPT ![l] = FreshService("crashed")]
        /\ chan' = [chan EXCEPT ![l] = <<>>] /\ pending' = [pending EXCEPT ![l] = 0]
    BY <1>0, <1>12 DEF Crash, PhoneType
  <2>2. \A t \in Threads \ {l} : jobs'[t] = [jobs[t] EXCEPT !.left = @ \ {l}]
    BY <1>0, <1>12 DEF Crash
  <2>3. \A t \in Threads \ {l} : jobs'[t].pc = jobs[t].pc /\ jobs'[t].apn = jobs[t].apn
                                 /\ jobs'[t].left = jobs[t].left \ {l}
    BY ZenonT(40), <1>0, <2>2 DEF JobState
  <2>4. CASE k = l
    <3>1. /\ tel'[k].status = "crashed" /\ chan'[k] = <<>> /\ tel'[k].last = NoSequence
          /\ ~tel'[k].receiver /\ pending'[k] = 0
      BY <1>0, <2>1, <2>4 DEF FreshService
    <3>2. jobs'[l] = IF jobs[l].pc = "increment" THEN [jobs[l] EXCEPT !.apn = NumApns] ELSE Idle
      BY <1>0, <1>12 DEF Crash
    <3>3. jobs'[k].pc \notin {"cache", "sequence", "push"}
          /\ (jobs'[k].pc = "increment" => jobs'[k].apn = NumApns)
      BY <1>0, <2>4, <3>2, IdleIs DEF JobState
    <3>4. \A n \in Notifiers : k \notin jobs'[n].left
      BY <1>0, <2>3, <2>4
    <3> QED
      BY <2>1, <2>4, <3>1, <3>3, <3>4 DEF KeepsMember
  <2>5. CASE k # l
    <3>1. tel'[k] = tel[k] /\ chan'[k] = chan[k] /\ pending'[k] = pending[k]
          /\ jobs'[k].pc = jobs[k].pc /\ jobs'[k].apn = jobs[k].apn
          /\ (k \in phone'.registered <=> k \in phone.registered)
      BY <1>0, <2>1, <2>3, <2>5
    <3>2. \A n \in Notifiers : k \in jobs'[n].left => k \in jobs[n].left
      BY <1>0, <2>3
    <3> QED
      BY <1>m, <2>1, <3>1, <3>2 DEF KeepsMember
  <2> QED
    BY <2>4, <2>5
<1>13. ASSUME NEW l \in Listeners, Restart(l) PROVE KeepsMember(k)
  <2>1. tel' = [tel EXCEPT ![l].status = "on"] /\ UNCHANGED <<chan, pending>> /\ Connect(l)
    BY <1>13 DEF Restart
  <2>2. tel'[l].status = "on" /\ (k # l => tel'[k] = tel[k])
    BY <1>0, <2>1 DEF Service
  <2> QED
    BY <2>1, <2>2, ConnectMember
<1>14. ASSUME NEW l \in Listeners, Stop(l) PROVE KeepsMember(k)
  <2>1. /\ phone'.registered = phone.registered \ {l} /\ phone'.up = phone.up
        /\ tel' = [tel EXCEPT ![l].status = "off", ![l].receiver = FALSE]
        /\ pending' = [pending EXCEPT ![l] = 0] /\ UNCHANGED <<jobs, chan>>
        /\ tel[l].status = "on" /\ jobs[l] = Idle
    BY <1>0, <1>14 DEF Stop, PhoneType
  <2>2. CASE k = l
    <3>1. tel'[k].status = "off" /\ ~tel'[k].receiver /\ ~(pending'[k] > 0)
      BY <1>0, <2>1, <2>2 DEF Service
    <3>2. jobs'[k].pc = "idle" /\ k \notin phone'.registered
      BY <2>1, <2>2, IdleIs
    <3> QED
      BY <3>1, <3>2 DEF KeepsMember
  <2>3. CASE k # l
    <3>1. tel'[k] = tel[k] /\ pending'[k] = pending[k]
          /\ (k \in phone'.registered <=> k \in phone.registered)
      BY <1>0, <2>1, <2>3
    <3> QED
      BY <1>m, <2>1, <3>1 DEF KeepsMember
  <2> QED
    BY <2>2, <2>3
<1>15. CASE PhoneCrash
  <2>1. /\ phone'.registered = {} /\ UNCHANGED <<tel, chan, pending>>
        /\ \A t \in Threads : jobs'[t] = Idle
    BY <1>15 DEF PhoneCrash, FreshPhone
  <2>2. jobs'[k] = Idle /\ \A n \in Notifiers : jobs'[n] = Idle
    BY <1>0, <2>1
  <2> QED
    BY <1>m, <2>1, <2>2, IdleIs DEF KeepsMember
<1>16. CASE PhoneStart
  <2>1. /\ phone'.registered = {} /\ UNCHANGED <<tel, chan, jobs>> /\ ~phone.up
        /\ pending'[k] = IF tel[k].receiver THEN pending[k] + 1 ELSE pending[k]
    BY <1>16 DEF PhoneStart, FreshPhone
  <2>2. \A t \in Threads : jobs[t] = Idle
    BY <2>1 DEF FromCache
  <2>3. jobs'[k] = Idle /\ \A n \in Notifiers : jobs'[n] = Idle
    BY <1>0, <2>1, <2>2
  <2>4. tel'[k].receiver \/ pending'[k] > 0 => tel'[k].status = "on"
    BY <1>m, <2>1
  <2> QED
    BY <1>m, <2>1, <2>3, <2>4, IdleIs DEF KeepsMember
<1>17. CASE UNCHANGED vars
  BY <1>17, <1>m DEF vars, KeepsMember
<1> QED
  BY <1>1, <1>2, <1>3, <1>4, <1>5, <1>6, <1>7, <1>8, <1>9, <1>10, <1>11, <1>12, <1>13,
     <1>14, <1>15, <1>16, <1>17 DEF Next, Progress, Receive
-----------------------------------------------------------------------------
(* Who has a number.                                                       *)

(* A step that gives nobody a number, and after which whoever waits still  *)
(* does.                                                                   *)
LEMMA NumbersKept ==
  ASSUME OneNumbered, CurrentNumber, UNCHANGED truth, phone'.sequence = phone.sequence,
         \A t \in Threads : jobs'[t].pc \in Numbered => jobs[t].pc \in Numbered,
         \A t \in Threads : jobs'[t].pc \in Sends =>
           /\ jobs[t].pc \in Sends /\ jobs'[t].seq = jobs[t].seq
           /\ jobs'[t].apn = jobs[t].apn /\ jobs'[t].version = jobs[t].version,
         \A n \in Notifiers : jobs[n].pc = "sequence" =>
           /\ jobs'[n].pc = "sequence"
           /\ jobs'[n].apn = jobs[n].apn /\ jobs'[n].version = jobs[n].version
  PROVE  OneNumbered' /\ CurrentNumber'
<1>1. OneNumbered'
  BY DEF OneNumbered
<1>2. ASSUME NEW n \in Notifiers, NEW a, NEW value, Waits(jobs[n], a, value)
      PROVE  Waits(jobs'[n], a, value)
  BY <1>2 DEF Waits
<1>3. ASSUME NEW t \in Threads, jobs'[t].pc \in Sends
      PROVE  /\ jobs'[t].seq = phone'.sequence
             /\ \/ jobs'[t].version = truth'[jobs'[t].apn]
                \/ \E n \in Notifiers : Waits(jobs'[n], jobs'[t].apn, truth'[jobs'[t].apn])
  BY <1>2, <1>3 DEF CurrentNumber
<1> QED
  BY <1>1, <1>3 DEF CurrentNumber

LEMMA NumbersKeptBy ==
  ASSUME Types, OneNumbered, CurrentNumber, UNCHANGED truth, phone'.sequence = phone.sequence,
         NEW t \in Threads, NEW job, jobs' = [jobs EXCEPT ![t] = job],
         job.pc \in Numbered => jobs[t].pc \in Numbered,
         job.pc \in Sends =>
           /\ jobs[t].pc \in Sends /\ job.seq = jobs[t].seq
           /\ job.apn = jobs[t].apn /\ job.version = jobs[t].version,
         t \in Notifiers => jobs[t].pc # "sequence"
  PROVE  OneNumbered' /\ CurrentNumber'
<1>1. jobs'[t] = job /\ \A s \in Threads \ {t} : jobs'[s] = jobs[s]
  BY JobMoves
<1>2. \A s \in Threads : jobs'[s].pc \in Numbered => jobs[s].pc \in Numbered
  BY <1>1
<1>3. \A s \in Threads : jobs'[s].pc \in Sends =>
        /\ jobs[s].pc \in Sends /\ jobs'[s].seq = jobs[s].seq
        /\ jobs'[s].apn = jobs[s].apn /\ jobs'[s].version = jobs[s].version
  BY <1>1
<1>4. \A n \in Notifiers : jobs[n].pc = "sequence" => jobs'[n] = jobs[n]
  BY <1>1 DEF Threads
<1> QED
  BY <1>2, <1>3, <1>4, NumbersKept

(* Nobody has a number.                                                    *)
LEMMA NoneNumbered ==
  ASSUME \A t \in Threads : jobs'[t].pc \notin Numbered
  PROVE  OneNumbered' /\ CurrentNumber'
BY DEF OneNumbered, CurrentNumber, Numbered

(* The job t, which had the number, has used it.                           *)
LEMMA NumberUsed ==
  ASSUME Types, OneNumbered, NEW t \in Threads, jobs[t].pc \in Numbered, NEW job,
         jobs' = [jobs EXCEPT ![t] = job], job.pc \notin Numbered
  PROVE  OneNumbered' /\ CurrentNumber'
<1>1. jobs'[t] = job /\ \A s \in Threads \ {t} : jobs'[s] = jobs[s]
  BY JobMoves
<1>2. \A s \in Threads : jobs'[s].pc \notin Numbered
  BY <1>1 DEF OneNumbered
<1> QED
  BY <1>2, NoneNumbered

LEMMA ConnectNumbers ==
  ASSUME Types, OneNumbered, CurrentNumber, NEW l \in Listeners, Connect(l), UNCHANGED truth
  PROVE  OneNumbered' /\ CurrentNumber'
<1>0. l \in Threads /\ phone \in PhoneType /\ l \notin Notifiers
  BY TypesAre, PhoneAssumption DEF Threads
<1>1. CASE phone.up
  <2> DEFINE job == [Idle EXCEPT !.pc = "cache"]
  <2>1. jobs' = [jobs EXCEPT ![l] = job] /\ phone'.sequence = phone.sequence
    BY <1>0, <1>1 DEF Connect, PhoneType
  <2>2. job.pc = "cache"
    BY DEF Idle
  <2> HIDE DEF job
  <2>3. job.pc \notin Numbered /\ job.pc \notin Sends
    BY <2>2 DEF Numbered, Sends
  <2> QED
    BY <1>0, <2>1, <2>3, NumbersKeptBy
<1>2. CASE ~phone.up
  <2>1. UNCHANGED <<phone, jobs>>
    BY <1>2 DEF Connect
  <2> QED
    BY <2>1, NumbersKept
<1> QED
  BY <1>1, <1>2

LEMMA NumberingStep ==
  ASSUME Types, FromCache, OneNumbered, CurrentNumber, ~StaleNumber, ~SharedNumber, [Next]_vars
  PROVE  OneNumbered' /\ CurrentNumber'
<1>0. /\ truth \in [Apns -> Nat] /\ phone \in PhoneType /\ jobs \in [Threads -> JobState]
      /\ Notifiers \subseteq Threads /\ Listeners \subseteq Threads
      /\ \A l \in Listeners : l \notin Notifiers
  BY TypesAre, PhoneAssumption DEF Threads
<1>i. Idle.pc \notin Numbered /\ Idle.pc \notin Sends
  BY IdleIs DEF Numbered, Sends
<1>1. ASSUME NEW n \in Notifiers, NEW a \in Apns, Notify(n, a)
      PROVE  OneNumbered' /\ CurrentNumber'
  <2> DEFINE job == [Idle EXCEPT !.pc = "sequence", !.apn = a, !.version = truth[a] + 1]
  <2>1. jobs' = [jobs EXCEPT ![n] = job] /\ phone'.sequence = phone.sequence
        /\ truth' = [truth EXCEPT ![a] = @ + 1] /\ jobs[n] = Idle
    BY <1>0, <1>1 DEF Notify, PhoneType, MayCall
  <2>2. job.pc = "sequence" /\ job.apn = a /\ job.version = truth[a] + 1
    BY DEF Idle
  <2> HIDE DEF job
  <2>3. jobs'[n] = job /\ \A s \in Threads \ {n} : jobs'[s] = jobs[s]
    BY <1>0, <2>1, JobMoves
  <2>4. job.pc \notin Numbered /\ job.pc \notin Sends
    BY <2>2 DEF Numbered, Sends
  <2>5. OneNumbered'
    BY <2>3, <2>4 DEF OneNumbered
  <2>6. truth'[a] = truth[a] + 1 /\ \A b \in Apns : b # a => truth'[b] = truth[b]
    BY <1>0, <2>1
  <2>7. ASSUME NEW t \in Threads, jobs'[t].pc \in Sends
        PROVE  /\ jobs'[t].seq = phone'.sequence
               /\ \/ jobs'[t].version = truth'[jobs'[t].apn]
                  \/ \E o \in Notifiers : Waits(jobs'[o], jobs'[t].apn, truth'[jobs'[t].apn])
    <3>1. t # n /\ jobs'[t] = jobs[t] /\ jobs[t].apn \in Apns
      BY <1>0, <2>3, <2>4, <2>7 DEF JobState
    <3>2. CASE jobs[t].apn = a
      <4>1. Waits(jobs'[n], jobs'[t].apn, truth'[jobs'[t].apn])
        BY <2>2, <2>3, <2>6, <3>1, <3>2 DEF Waits
      <4> QED
        BY <2>1, <2>7, <3>1, <4>1 DEF CurrentNumber
    <3>3. CASE jobs[t].apn # a
      <4>1. truth'[jobs[t].apn] = truth[jobs[t].apn]
        BY <2>6, <3>1, <3>3
      <4>2. \A o \in Notifiers : \A b, value : Waits(jobs[o], b, value) => Waits(jobs'[o], b, value)
        <5>1. \A b, value : ~Waits(Idle, b, value)
          BY IdleIs DEF Waits
        <5> QED
          BY <1>0, <2>1, <2>3, <5>1
      <4> QED
        BY <2>1, <2>7, <3>1, <4>1, <4>2 DEF CurrentNumber
    <3> QED
      BY <3>2, <3>3
  <2> QED
    BY <2>5, <2>7 DEF CurrentNumber
<1>2. ASSUME NEW t \in Threads, ReadSequence(t) PROVE OneNumbered' /\ CurrentNumber'
  <2> DEFINE to == IF t \in Notifiers THEN "begin" ELSE "push"
             job == [jobs[t] EXCEPT !.seq = phone.sequence, !.pc = to]
  <2>1. jobs' = [jobs EXCEPT ![t] = job] /\ UNCHANGED <<truth, phone>>
    BY <1>2 DEF ReadSequence
  <2>2. job.seq = phone.sequence /\ job.apn = jobs[t].apn /\ job.version = jobs[t].version
    BY <1>0 DEF JobState
  <2> HIDE DEF job
  <2>3. jobs'[t] = job /\ \A s \in Threads \ {t} : jobs'[s] = jobs[s]
    BY <2>1, JobMoves
  <2>4. \A s \in Threads : s # t => jobs[s].pc \notin Numbered
    BY <1>2 DEF SharedNumber
  <2>5. jobs[t].version = truth[jobs[t].apn]
    BY <1>2 DEF StaleNumber
  <2>6. \A s \in Threads : jobs'[s].pc \in Numbered => s = t
    BY <2>3, <2>4
  <2>7. \A s \in Threads : jobs'[s].pc \in Sends => s = t
    BY <2>6 DEF Numbered
  <2>8. OneNumbered'
    BY <2>6 DEF OneNumbered
  <2> QED
    BY <2>1, <2>2, <2>3, <2>5, <2>7, <2>8 DEF CurrentNumber
<1>3. ASSUME NEW n \in Notifiers, BeginBroadcast(n) PROVE OneNumbered' /\ CurrentNumber'
  <2> DEFINE sending == [jobs[n] EXCEPT !.pc = "send", !.left = phone.registered]
             job == IF Broadcasting THEN Idle ELSE sending
  <2>1. jobs' = [jobs EXCEPT ![n] = job] /\ UNCHANGED <<truth, phone>> /\ jobs[n].pc = "begin"
    BY <1>3 DEF BeginBroadcast
  <2>2. sending.seq = jobs[n].seq /\ sending.apn = jobs[n].apn /\ sending.version = jobs[n].version
    BY <1>0 DEF JobState
  <2>3. jobs[n].pc \in Sends /\ jobs[n].pc \in Numbered
    BY <2>1 DEF Sends, Numbered
  <2> HIDE DEF sending
  <2>4. job.pc \in Sends =>
          job.seq = jobs[n].seq /\ job.apn = jobs[n].apn /\ job.version = jobs[n].version
    BY <1>i, <2>2
  <2> HIDE DEF job
  <2> QED
    BY <1>0, <2>1, <2>3, <2>4, NumbersKeptBy
<1>4. ASSUME NEW n \in Notifiers, NEW l \in Listeners, Broadcast(n, l)
      PROVE  OneNumbered' /\ CurrentNumber'
  <2> DEFINE job == [jobs[n] EXCEPT !.left = @ \ {l}]
  <2>1. jobs' = [jobs EXCEPT ![n] = job] /\ UNCHANGED <<truth, phone>> /\ jobs[n].pc = "send"
    BY <1>4 DEF Broadcast
  <2>2. job.seq = jobs[n].seq /\ job.apn = jobs[n].apn /\ job.version = jobs[n].version
    BY <1>0 DEF JobState
  <2>3. jobs[n].pc \in Sends /\ jobs[n].pc \in Numbered
    BY <2>1 DEF Sends, Numbered
  <2> HIDE DEF job
  <2> QED
    BY <1>0, <2>1, <2>2, <2>3, NumbersKeptBy
<1>5. ASSUME NEW n \in Notifiers, FinishBroadcast(n) PROVE OneNumbered' /\ CurrentNumber'
  <2>1. jobs' = [jobs EXCEPT ![n] = Idle] /\ jobs[n].pc \in Numbered
    BY <1>5 DEF FinishBroadcast, Numbered, Sends
  <2> QED
    BY <1>0, <1>i, <2>1, NumberUsed
<1>6. ASSUME NEW l \in Listeners, ReadCache(l) PROVE OneNumbered' /\ CurrentNumber'
  <2> DEFINE cached == phone.cache[jobs[l].apn]
             reading == [jobs[l] EXCEPT !.pc = "sequence", !.version = cached]
             job == IF cached = Unknown THEN NextApn(jobs[l]) ELSE reading
  <2>1. jobs' = [jobs EXCEPT ![l] = job] /\ UNCHANGED <<truth, phone>>
    BY <1>6 DEF ReadCache
  <2>2. NextApn(jobs[l]).pc \in {"idle", "cache"} /\ reading.pc = "sequence"
    <3>1. jobs[l] \in JobState
      BY <1>0
    <3>2. reading.pc = "sequence"
      BY <3>1 DEF JobState
    <3> QED
      BY <3>1, <3>2, NextApnType
  <2> HIDE DEF reading
  <2>3. job.pc \notin Numbered /\ job.pc \notin Sends
    BY <2>2 DEF Numbered, Sends
  <2> HIDE DEF job
  <2> QED
    BY <1>0, <2>1, <2>3, NumbersKeptBy
<1>7. ASSUME NEW l \in Listeners, Push(l) PROVE OneNumbered' /\ CurrentNumber'
  <2> DEFINE job == [jobs[l] EXCEPT !.pc = "increment"]
  <2>1. jobs' = [jobs EXCEPT ![l] = job] /\ UNCHANGED <<truth, phone>> /\ jobs[l].pc \in Numbered
    BY <1>7 DEF Push, Goto, Numbered, Sends
  <2>2. job.pc \notin Sends
    BY <1>0 DEF JobState, Sends
  <2> HIDE DEF job
  <2> QED
    BY <1>0, <2>1, <2>2, NumbersKeptBy
<1>8. ASSUME NEW l \in Listeners, IncrementAfterPush(l) PROVE OneNumbered' /\ CurrentNumber'
  <2> DEFINE job == NextApn(jobs[l])
  <2>1. jobs' = [jobs EXCEPT ![l] = job] /\ jobs[l].pc \in Numbered
    BY <1>8 DEF IncrementAfterPush, Numbered
  <2>2. job.pc \notin Numbered
    BY <1>0, NextApnType DEF Numbered, Sends
  <2> HIDE DEF job
  <2> QED
    BY <1>0, <2>1, <2>2, NumberUsed
<1>9. ASSUME NEW l \in Listeners, NEW i \in 1 .. Len(chan[l]), Deliver(l, i)
      PROVE  OneNumbered' /\ CurrentNumber'
  BY <1>9, NumbersKept DEF Deliver
<1>10. ASSUME NEW l \in Listeners, HandlePhoneRestart(l) PROVE OneNumbered' /\ CurrentNumber'
  BY <1>10, ConnectNumbers DEF HandlePhoneRestart
<1>11. ASSUME NEW l \in Listeners, Start(l) PROVE OneNumbered' /\ CurrentNumber'
  BY <1>11, ConnectNumbers DEF Start
<1>12. ASSUME NEW l \in Listeners, Crash(l) PROVE OneNumbered' /\ CurrentNumber'
  <2>1. UNCHANGED truth /\ phone'.sequence = phone.sequence
    BY <1>0, <1>12 DEF Crash, PhoneType
  <2>2. \A t \in Threads \ {l} : jobs'[t] = [jobs[t] EXCEPT !.left = @ \ {l}]
    BY <1>0, <1>12 DEF Crash
  <2>3. \A t \in Threads \ {l} :
          /\ jobs'[t].pc = jobs[t].pc /\ jobs'[t].seq = jobs[t].seq
          /\ jobs'[t].apn = jobs[t].apn /\ jobs'[t].version = jobs[t].version
    BY ZenonT(40), <1>0, <2>2 DEF JobState
  <2>4. jobs'[l] = IF jobs[l].pc = "increment" THEN [jobs[l] EXCEPT !.apn = NumApns] ELSE Idle
    BY <1>0, <1>12 DEF Crash
  <2>5. /\ jobs'[l].pc \notin Sends
        /\ jobs'[l].pc \in Numbered => jobs[l].pc \in Numbered
    BY <1>0, <1>i, <2>4 DEF JobState, Sends, Numbered
  <2>6. \A t \in Threads : jobs'[t].pc \in Numbered => jobs[t].pc \in Numbered
    BY <2>3, <2>5
  <2>7. \A t \in Threads : jobs'[t].pc \in Sends =>
          /\ jobs[t].pc \in Sends /\ jobs'[t].seq = jobs[t].seq
          /\ jobs'[t].apn = jobs[t].apn /\ jobs'[t].version = jobs[t].version
    BY <2>3, <2>5
  <2>8. \A n \in Notifiers : jobs[n].pc = "sequence" =>
          /\ jobs'[n].pc = "sequence"
          /\ jobs'[n].apn = jobs[n].apn /\ jobs'[n].version = jobs[n].version
    BY <1>0, <2>3
  <2> QED
    BY <2>1, <2>6, <2>7, <2>8, NumbersKept
<1>13. ASSUME NEW l \in Listeners, Restart(l) PROVE OneNumbered' /\ CurrentNumber'
  BY <1>13, ConnectNumbers DEF Restart
<1>14. ASSUME NEW l \in Listeners, Stop(l) PROVE OneNumbered' /\ CurrentNumber'
  <2>1. UNCHANGED <<truth, jobs>> /\ phone'.sequence = phone.sequence
    BY <1>0, <1>14 DEF Stop, PhoneType
  <2> QED
    BY <2>1, NumbersKept
<1>15. CASE PhoneCrash
  BY <1>i, <1>15, NoneNumbered DEF PhoneCrash
<1>16. CASE PhoneStart
  BY <1>i, <1>16, NoneNumbered DEF PhoneStart, FromCache
<1>17. CASE UNCHANGED vars
  BY <1>17, NumbersKept DEF vars
<1> QED
  BY <1>1, <1>2, <1>3, <1>4, <1>5, <1>6, <1>7, <1>8, <1>9, <1>10, <1>11, <1>12, <1>13,
     <1>14, <1>15, <1>16, <1>17 DEF Next, Progress, Receive
-----------------------------------------------------------------------------
(* Nothing a served listener needs is missed.                              *)

SentAfter(k)           == \E t \in Threads : SentBy(t, jobs'[t], k)
OwedAfter(k, a, value) == \E t \in Threads : OwedBy(t, jobs'[t], k, a, value)

(* What has to be shown of each listener after a step.                     *)
KeepsServed(k) == k \in phone'.registered =>
  /\ Chain(chan'[k], tel'[k].last)
  /\ SentAfter(k) \/ Newer(chan'[k], tel'[k].last, phone'.sequence)
  /\ \A a \in Apns : phone'.cache[a] # Unknown =>
       \/ Reaches(chan'[k], tel'[k].view, a, phone'.cache[a])
       \/ OwedAfter(k, a, phone'.cache[a])

LEMMA ServedKept ==
  (\A k \in Listeners : KeepsServed(k)) => Complete'
BY DEF KeepsServed, SentAfter, OwedAfter, Complete, Served, Sent, Owed, Chain, Newer, Newest, Before, Reaches

LEMMA IsServed ==
  ASSUME Complete, NEW k \in Listeners, k \in phone.registered
  PROVE  /\ Chain(chan[k], tel[k].last)
         /\ Sent(k) \/ Newer(chan[k], tel[k].last, phone.sequence)
         /\ \A a \in Apns : phone.cache[a] # Unknown =>
              \/ Reaches(chan[k], tel[k].view, a, phone.cache[a])
              \/ Owed(k, a, phone.cache[a])
BY DEF Complete, Served

(* Idle jobs neither have sent a number nor are going to.                  *)
LEMMA IdleSends ==
  ASSUME NEW t, NEW k
  PROVE  ~SentBy(t, Idle, k) /\ \A a, value : ~OwedBy(t, Idle, k, a, value)
BY IdleIs DEF SentBy, OwedBy

(* What the others have sent and owe stays so if only the job t moves.     *)
LEMMA OneMoves ==
  ASSUME Types, NEW t \in Threads, NEW job, jobs' = [jobs EXCEPT ![t] = job], NEW k
  PROVE  /\ (SentBy(t, jobs[t], k) => SentBy(t, job, k)) => (Sent(k) => SentAfter(k))
         /\ \A a, value : (OwedBy(t, jobs[t], k, a, value) => OwedBy(t, job, k, a, value))
                            => (Owed(k, a, value) => OwedAfter(k, a, value))
<1>1. jobs'[t] = job /\ \A s \in Threads \ {t} : jobs'[s] = jobs[s]
  BY JobMoves
<1>2. ASSUME SentBy(t, jobs[t], k) => SentBy(t, job, k), Sent(k) PROVE SentAfter(k)
  <2>1. PICK s \in Threads : SentBy(s, jobs[s], k)
    BY <1>2 DEF Sent
  <2>2. SentBy(s, jobs'[s], k)
    <3>1. CASE s = t
      BY <1>1, <1>2, <2>1, <3>1
    <3>2. CASE s # t
      BY <1>1, <2>1, <3>2
    <3> QED
      BY <3>1, <3>2
  <2> QED
    BY <2>2 DEF SentAfter
<1>3. ASSUME NEW a, NEW value, OwedBy(t, jobs[t], k, a, value) => OwedBy(t, job, k, a, value),
             Owed(k, a, value)
      PROVE  OwedAfter(k, a, value)
  <2>1. PICK s \in Threads : OwedBy(s, jobs[s], k, a, value)
    BY <1>3 DEF Owed
  <2>2. OwedBy(s, jobs'[s], k, a, value)
    <3>1. CASE s = t
      BY <1>1, <1>3, <2>1, <3>1
    <3>2. CASE s # t
      BY <1>1, <2>1, <3>2
    <3> QED
      BY <3>1, <3>2
  <2> QED
    BY <2>2 DEF OwedAfter
<1> QED
  BY <1>2, <1>3

(* A step that only the jobs notice.                                       *)
LEMMA StaysServed ==
  ASSUME Complete, NEW k \in Listeners, k \in phone'.registered => k \in phone.registered,
         chan'[k] = chan[k], tel'[k].last = tel[k].last, tel'[k].view = tel[k].view,
         phone'.sequence = phone.sequence, phone'.cache = phone.cache,
         Sent(k) => SentAfter(k),
         \A a \in Apns : phone.cache[a] # Unknown /\ Owed(k, a, phone.cache[a]) =>
           OwedAfter(k, a, phone.cache[a])
  PROVE  KeepsServed(k)
<1> SUFFICES ASSUME k \in phone.registered PROVE KeepsServed(k)
  BY DEF KeepsServed
<1>1. /\ Chain(chan[k], tel[k].last)
      /\ Sent(k) \/ Newer(chan[k], tel[k].last, phone.sequence)
      /\ \A a \in Apns : phone.cache[a] # Unknown =>
           \/ Reaches(chan[k], tel[k].view, a, phone.cache[a])
           \/ Owed(k, a, phone.cache[a])
  BY IsServed
<1> QED
  BY <1>1 DEF KeepsServed

LEMMA StaysServedBy ==
  ASSUME Types, Complete, NEW t \in Threads, NEW job, jobs' = [jobs EXCEPT ![t] = job],
         NEW k \in Listeners, k \in phone'.registered => k \in phone.registered,
         chan'[k] = chan[k], tel'[k].last = tel[k].last, tel'[k].view = tel[k].view,
         phone'.sequence = phone.sequence, phone'.cache = phone.cache,
         SentBy(t, jobs[t], k) => SentBy(t, job, k),
         \A a \in Apns : phone.cache[a] # Unknown /\ OwedBy(t, jobs[t], k, a, phone.cache[a]) =>
           OwedBy(t, job, k, a, phone.cache[a])
  PROVE  KeepsServed(k)
<1>1. Sent(k) => SentAfter(k)
  BY OneMoves
<1>2. \A a \in Apns : phone.cache[a] # Unknown /\ Owed(k, a, phone.cache[a]) =>
        OwedAfter(k, a, phone.cache[a])
  BY OneMoves
<1> QED
  BY <1>1, <1>2, StaysServed

(* The job t, which has the number, sends its state to k.                  *)
LEMMA SendsServed ==
  ASSUME Types, FromCache, OneNumbered, CurrentNumber, Complete, Recent,
         NEW t \in Threads, jobs[t].pc \in Sends, NEW job, jobs' = [jobs EXCEPT ![t] = job],
         NEW k \in Listeners, chan'[k] = Append(chan[k], Callback(t, k)), UNCHANGED <<tel, phone>>,
         ~SentBy(t, jobs[t], k), SentBy(t, job, k),
         \A a \in Apns : \A value : a # jobs[t].apn /\ OwedBy(t, jobs[t], k, a, value) =>
           OwedBy(t, job, k, a, value)
  PROVE  KeepsServed(k)
<1> SUFFICES ASSUME k \in phone.registered PROVE KeepsServed(k)
  BY DEF KeepsServed
<1> DEFINE m == Callback(t, k)
           c == chan[k]
<1>0. jobs'[t] = job /\ \A s \in Threads \ {t} : jobs'[s] = jobs[s]
  BY JobMoves
<1>1. m \in Message /\ m.apn = jobs[t].apn /\ m.version = jobs[t].version /\ m.seq = jobs[t].seq
  BY CallbackType
<1>2. m.seq = phone.sequence /\ m.apn \in Apns
  BY <1>1 DEF CurrentNumber, Message
<1>3. c \in Seq(Message) /\ chan'[k] = Append(c, m)
      /\ tel[k].last \in NoSequence .. (SequenceMax - 1)
  BY TypesAre DEF Service
<1>4. ~Sent(k)
  <2>1. ASSUME NEW s \in Threads, SentBy(s, jobs[s], k) PROVE FALSE
    <3>1. jobs[s].pc \in Numbered /\ jobs[t].pc \in Numbered
      BY <2>1 DEF SentBy, Numbered, Sends
    <3>2. s = t
      BY <3>1 DEF OneNumbered
    <3> QED
      BY <2>1, <3>2
  <2> QED
    BY <2>1 DEF Sent
<1>5. SentAfter(k)
  BY <1>0 DEF SentAfter
<1>6. /\ Chain(c, tel[k].last) /\ Newer(c, tel[k].last, m.seq)
      /\ \A a \in Apns : phone.cache[a] # Unknown =>
           Reaches(c, tel[k].view, a, phone.cache[a]) \/ Owed(k, a, phone.cache[a])
  BY <1>2, <1>4, IsServed
<1>r. Newest(c, tel[k].last) # NoSequence => Behind(m.seq, Newest(c, tel[k].last)) < HalfRing
  BY <1>2 DEF Recent, Served
<1>w. \/ m.version = truth[m.apn]
      \/ \E n \in Notifiers : Waits(jobs[n], m.apn, truth[m.apn])
  BY <1>1 DEF CurrentNumber
<1> HIDE DEF c, m
<1>7. Chain(Append(c, m), tel[k].last)
  BY <1>1, <1>3, <1>6, <1>r, ChainGrows
<1>8. ASSUME NEW a \in Apns, phone.cache[a] # Unknown
      PROVE  \/ Reaches(Append(c, m), tel[k].view, a, phone.cache[a])
             \/ OwedAfter(k, a, phone.cache[a])
  <2>1. CASE a = m.apn
    <3>1. phone.cache[a] = truth[a]
      BY <1>8 DEF FromCache
    <3>2. CASE m.version = truth[a]
      BY <1>1, <1>3, <2>1, <3>1, <3>2, ReachesGrows
    <3>3. CASE \E n \in Notifiers : Waits(jobs[n], a, truth[a])
      <4>1. PICK n \in Notifiers : Waits(jobs[n], a, truth[a])
        BY <3>3
      <4>2. n \in Threads /\ n # t
        BY <4>1 DEF Threads, Waits, Sends
      <4>3. OwedBy(n, jobs'[n], k, a, truth[a])
        BY <1>0, <4>1, <4>2 DEF Waits, OwedBy
      <4> QED
        BY <3>1, <4>2, <4>3 DEF OwedAfter
    <3> QED
      BY <1>w, <2>1, <3>2, <3>3
  <2>2. CASE a # m.apn
    <3>1. CASE Owed(k, a, phone.cache[a])
      <4>1. OwedBy(t, jobs[t], k, a, phone.cache[a]) => OwedBy(t, job, k, a, phone.cache[a])
        BY <1>1, <2>2
      <4> QED
        BY <3>1, <4>1, OneMoves
    <3>2. CASE ~Owed(k, a, phone.cache[a])
      BY <1>1, <1>3, <1>6, <1>8, <2>2, <3>2, ReachesGrows
    <3> QED
      BY <3>1, <3>2
  <2> QED
    BY <2>1, <2>2
<1> QED
  BY <1>3, <1>5, <1>7, <1>8 DEF KeepsServed

(* The job t has used its number.                                          *)
LEMMA TurnServed ==
  ASSUME Types, Complete, Recent, NEW t \in Threads, NEW job, jobs' = [jobs EXCEPT ![t] = job],
         NEW k \in Listeners,
         phone'.registered = phone.registered, phone'.cache = phone.cache,
         phone'.sequence = Successor(phone.sequence), UNCHANGED <<tel, chan>>,
         \A a \in Apns : \A value : OwedBy(t, jobs[t], k, a, value) => OwedBy(t, job, k, a, value)
  PROVE  KeepsServed(k)
<1> SUFFICES ASSUME k \in phone.registered PROVE KeepsServed(k)
  BY DEF KeepsServed
<1>1. /\ chan[k] \in Seq(Message) /\ tel[k].last \in NoSequence .. (SequenceMax - 1)
      /\ phone.sequence \in Ring
  BY TypesAre DEF Service, PhoneType
<1>2. /\ Chain(chan[k], tel[k].last)
      /\ \A a \in Apns : phone.cache[a] # Unknown =>
           \/ Reaches(chan[k], tel[k].view, a, phone.cache[a])
           \/ Owed(k, a, phone.cache[a])
  BY IsServed
<1>3. Newest(chan[k], tel[k].last) # NoSequence =>
        Behind(phone.sequence, Newest(chan[k], tel[k].last)) < HalfRing
  BY DEF Recent, Served
<1>4. Newer(chan[k], tel[k].last, Successor(phone.sequence))
  BY <1>1, <1>3, ChainTurns
<1>5. \A a \in Apns : \A value : Owed(k, a, value) => OwedAfter(k, a, value)
  BY OneMoves
<1> QED
  BY <1>2, <1>4, <1>5 DEF KeepsServed

(* The first callback arrives, and is taken.                               *)
LEMMA ArrivesServed ==
  ASSUME Types, Complete, NEW k \in Listeners, 1 \in 1 .. Len(chan[k]),
         chan'[k] = Without(chan[k], 1), tel'[k] = Updated(tel[k], chan[k][1]),
         UNCHANGED <<phone, jobs>>
  PROVE  KeepsServed(k)
<1> SUFFICES ASSUME k \in phone.registered PROVE KeepsServed(k)
  BY DEF KeepsServed
<1> DEFINE c == chan[k]
           m == c[1]
           s == tel[k]
           r == tel'[k]
<1>1. /\ c \in Seq(Message) /\ s \in Service /\ phone.sequence \in Ring /\ 1 \in DOMAIN c
      /\ m \in Message /\ m.apn \in Apns /\ m.seq \in Ring
      /\ s.view \in [Apns -> Nat] /\ s.last \in NoSequence .. (SequenceMax - 1)
  <2>1. c \in Seq(Message) /\ s \in Service /\ phone.sequence \in Ring
    BY TypesAre DEF PhoneType
  <2>2. 1 \in DOMAIN c
    BY <2>1
  <2> QED
    BY <2>1, <2>2, MessageIs DEF Service
<1>2. /\ Chain(c, s.last)
      /\ Sent(k) \/ Newer(c, s.last, phone.sequence)
      /\ \A a \in Apns : phone.cache[a] # Unknown =>
           Reaches(c, s.view, a, phone.cache[a]) \/ Owed(k, a, phone.cache[a])
  BY IsServed
<1>4. 1 \in 1 .. Len(c) /\ r = Updated(s, m) /\ chan'[k] = Without(c, 1)
  OBVIOUS
<1> HIDE DEF c, s, r
<1>5. Accepted(s.last, m.seq)
  BY <1>1, <1>2, <1>4, ChainShrinks
<1>6. r.last = m.seq /\ r.view = [s.view EXCEPT ![m.apn] = m.version]
  BY <1>1, <1>4, <1>5, UpdatedIs
<1>7. Chain(Without(c, 1), r.last) /\ Newest(Without(c, 1), r.last) = Newest(c, s.last)
  BY ZenonT(40), <1>1, <1>2, <1>4, <1>6, ChainShrinks
<1>8. Sent(k) = SentAfter(k) /\ \A a, value : Owed(k, a, value) = OwedAfter(k, a, value)
  BY DEF Sent, SentAfter, Owed, OwedAfter
<1>9. ASSUME NEW a \in Apns, phone.cache[a] # Unknown
      PROVE  \/ Reaches(Without(c, 1), r.view, a, phone.cache[a])
             \/ OwedAfter(k, a, phone.cache[a])
  <2> SUFFICES ASSUME Reaches(c, s.view, a, phone.cache[a])
               PROVE  Reaches(Without(c, 1), r.view, a, phone.cache[a])
    BY <1>2, <1>8, <1>9
  <2>1. CASE m.apn = a
    <3>1. r.view[a] = m.version
      BY <1>1, <1>6, <2>1
    <3> QED
      BY <1>1, <1>2, <1>4, <2>1, <3>1, ChainShrinks
  <2>2. CASE m.apn # a
    <3>1. Reaches(Without(c, 1), s.view, a, phone.cache[a])
      BY <1>1, <1>2, <1>4, <2>2, ChainShrinks
    <3>2. r.view[a] = s.view[a]
      BY <1>1, <1>6, <2>2
    <3> QED
      BY <3>1, <3>2 DEF Reaches
  <2> QED
    BY <2>1, <2>2
<1> QED
  BY <1>2, <1>4, <1>7, <1>8, <1>9 DEF KeepsServed, Newer, c, s, r

LEMMA OthersBehind ==
  ASSUME NEW top \in Ring, NEW seq \in Ring, seq # top
  PROVE  Behind(top, seq) > 0
<1>1. Behind(top, seq) = IF seq <= top THEN top - seq ELSE top - seq + SequenceMax
  BY BehindIs
<1> QED
  BY <1>1, RingSize DEF Ring

(* A service connects that has no callback under way, and has not had the  *)
(* next number.                                                            *)
LEMMA ConnectServed ==
  ASSUME Types, Types', Membership, Complete, NEW l \in Listeners, jobs[l] = Idle, Connect(l),
         UNCHANGED chan, chan[l] = <<>>, tel'[l].last # phone.sequence,
         NEW k \in Listeners,
         k # l => tel'[k].last = tel[k].last /\ tel'[k].view = tel[k].view
  PROVE  KeepsServed(k)
<1>0. /\ phone \in PhoneType /\ l \in Threads /\ phone.sequence \in Ring
      /\ tel'[l].last \in NoSequence .. (SequenceMax - 1)
  BY TypesAre DEF Threads, Types, TypeOK, PhoneType
<1>1. CASE ~phone.up
  <2>1. k \notin phone.registered /\ phone' = phone
    BY <1>1 DEF Connect, Membership, Served
  <2> QED
    BY <2>1 DEF KeepsServed
<1>2. CASE phone.up
  <2> DEFINE job == [Idle EXCEPT !.pc = "cache"]
  <2>1. /\ phone'.sequence = phone.sequence /\ phone'.cache = phone.cache
        /\ phone'.registered = phone.registered \union {l}
        /\ jobs' = [jobs EXCEPT ![l] = job]
    BY <1>0, <1>2 DEF Connect, PhoneType
  <2>2. job.pc = "cache" /\ job.apn = 1
    BY DEF Idle
  <2> HIDE DEF job
  <2>3. CASE k # l
    <3>1. SentBy(l, jobs[l], k) => SentBy(l, job, k)
      BY IdleSends
    <3>2. \A a \in Apns : phone.cache[a] # Unknown /\ OwedBy(l, jobs[l], k, a, phone.cache[a]) =>
            OwedBy(l, job, k, a, phone.cache[a])
      BY IdleSends
    <3>3. k \in phone'.registered => k \in phone.registered
      BY <2>1, <2>3
    <3> QED
      BY <1>0, <2>1, <2>3, <3>1, <3>2, <3>3, StaysServedBy
  <2>4. CASE k = l
    <3>1. jobs'[l] = job
      BY <1>0, <2>1, JobMoves
    <3>2. \A a \in Apns : OwedBy(l, jobs'[l], l, a, phone.cache[a])
      BY <2>2, <3>1 DEF OwedBy, Apns
    <3>3. \A a \in Apns : OwedAfter(l, a, phone.cache[a])
      BY <1>0, <3>2 DEF OwedAfter
    <3>4. Chain(<<>>, tel'[l].last) /\ Newest(<<>>, tel'[l].last) = tel'[l].last
      BY ChainStarts
    <3>5. ASSUME tel'[l].last # NoSequence PROVE Behind(phone.sequence, tel'[l].last) > 0
      <4>1. tel'[l].last \in Ring
        BY <1>0, <3>5, RingNumbers
      <4> QED
        BY <1>0, <4>1, OthersBehind
    <3>6. Newer(<<>>, tel'[l].last, phone.sequence)
      BY <3>4, <3>5 DEF Newer
    <3> QED
      BY <2>1, <2>4, <3>3, <3>4, <3>6 DEF KeepsServed
  <2> QED
    BY <2>3, <2>4
<1> QED
  BY <1>1, <1>2

LEMMA CompleteStep ==
  ASSUME Types, Types', FromCache, OneNumbered, CurrentNumber, Membership, Complete, Recent,
         ~Overtakes, ~ConnectsTooSoon, [Next]_vars
  PROVE  Complete'
<1>0. /\ truth \in [Apns -> Nat] /\ phone \in PhoneType /\ jobs \in [Threads -> JobState]
      /\ tel \in [Listeners -> Service] /\ chan \in [Listeners -> Seq(Message)]
      /\ Notifiers \subseteq Threads /\ Listeners \subseteq Threads
      /\ \A l \in Listeners : l \notin Notifiers
  BY TypesAre, PhoneAssumption DEF Threads
<1> SUFFICES \A k \in Listeners : KeepsServed(k)
  BY ServedKept
<1> TAKE k \in Listeners
<1>1. ASSUME NEW n \in Notifiers, NEW a \in Apns, Notify(n, a) PROVE KeepsServed(k)
  <2> DEFINE job == [Idle EXCEPT !.pc = "sequence", !.apn = a, !.version = truth[a] + 1]
  <2>1. /\ jobs' = [jobs EXCEPT ![n] = job] /\ UNCHANGED <<tel, chan>> /\ jobs[n] = Idle
        /\ phone'.registered = phone.registered /\ phone'.sequence = phone.sequence
        /\ phone'.cache = [phone.cache EXCEPT ![a] = truth[a] + 1]
    BY <1>0, <1>1 DEF Notify, PhoneType, MayCall
  <2>2. job.pc = "sequence" /\ job.apn = a /\ job.version = truth[a] + 1
    BY DEF Idle
  <2> HIDE DEF job
  <2>3. phone'.cache[a] = truth[a] + 1 /\ \A b \in Apns : b # a => phone'.cache[b] = phone.cache[b]
    BY <1>0, <2>1 DEF PhoneType
  <2>4. OwedAfter(k, a, phone'.cache[a])
    <3>1. jobs'[n] = job
      BY <1>0, <2>1, JobMoves
    <3> QED
      BY <1>0, <2>2, <2>3, <3>1 DEF OwedAfter, OwedBy
  <2>5. /\ Sent(k) => SentAfter(k)
        /\ \A b, value : Owed(k, b, value) => OwedAfter(k, b, value)
    BY <1>0, <2>1, IdleSends, OneMoves
  <2>6. ASSUME k \in phone.registered PROVE KeepsServed(k)
    <3>1. /\ Chain(chan[k], tel[k].last)
          /\ Sent(k) \/ Newer(chan[k], tel[k].last, phone.sequence)
          /\ \A b \in Apns : phone.cache[b] # Unknown =>
               \/ Reaches(chan[k], tel[k].view, b, phone.cache[b])
               \/ Owed(k, b, phone.cache[b])
      BY <2>6, IsServed
    <3> QED
      BY <2>1, <2>3, <2>4, <2>5, <3>1 DEF KeepsServed
  <2> QED
    BY <2>1, <2>6 DEF KeepsServed
<1>2. ASSUME NEW t \in Threads, ReadSequence(t) PROVE KeepsServed(k)
  <2> DEFINE to == IF t \in Notifiers THEN "begin" ELSE "push"
             job == [jobs[t] EXCEPT !.seq = phone.sequence, !.pc = to]
  <2>1. /\ jobs' = [jobs EXCEPT ![t] = job] /\ UNCHANGED <<tel, chan, phone>>
        /\ jobs[t].pc = "sequence"
    BY <1>2 DEF ReadSequence
  <2>2. job.apn = jobs[t].apn /\ job.pc = to /\ job.version = jobs[t].version
    BY <1>0 DEF JobState
  <2> HIDE DEF job
  <2>3. ~SentBy(t, jobs[t], k)
    BY <2>1 DEF SentBy
  <2>4. \A a \in Apns : OwedBy(t, jobs[t], k, a, phone.cache[a]) => OwedBy(t, job, k, a, phone.cache[a])
    BY <1>0, <2>1, <2>2 DEF OwedBy
  <2> QED
    BY <2>1, <2>3, <2>4, StaysServedBy
<1>3. ASSUME NEW n \in Notifiers, BeginBroadcast(n) PROVE KeepsServed(k)
  <2> DEFINE job == [jobs[n] EXCEPT !.pc = "send", !.left = phone.registered]
  <2>1. UNCHANGED <<tel, chan, phone>> /\ jobs[n].pc = "begin"
    BY <1>3 DEF BeginBroadcast
  <2>2. ~Broadcasting
    <3>1. ASSUME NEW o \in Notifiers, jobs[o].pc = "send" PROVE FALSE
      <4>1. jobs[o].pc \in Numbered /\ jobs[n].pc \in Numbered
        BY <2>1, <3>1 DEF Numbered, Sends
      <4>2. o = n
        BY <1>0, <4>1 DEF OneNumbered
      <4> QED
        BY <2>1, <3>1, <4>2
    <3> QED
      BY <3>1 DEF Broadcasting
  <2>3. jobs' = [jobs EXCEPT ![n] = job]
    BY <1>3, <2>2 DEF BeginBroadcast
  <2>4. job.apn = jobs[n].apn /\ job.pc = "send" /\ job.left = phone.registered
        /\ job.version = jobs[n].version
    BY <1>0 DEF JobState
  <2> HIDE DEF job
  <2>5. ~SentBy(n, jobs[n], k)
    BY <1>0, <2>1 DEF SentBy
  <2>6. CASE k \in phone.registered
    <3>1. \A a \in Apns : OwedBy(n, jobs[n], k, a, phone.cache[a]) => OwedBy(n, job, k, a, phone.cache[a])
      BY <1>0, <2>1, <2>4, <2>6 DEF OwedBy
    <3> QED
      BY <1>0, <2>1, <2>3, <2>5, <3>1, StaysServedBy
  <2> QED
    BY <2>1, <2>6 DEF KeepsServed
<1>4. ASSUME NEW n \in Notifiers, NEW l \in Listeners, Broadcast(n, l) PROVE KeepsServed(k)
  <2> DEFINE job == [jobs[n] EXCEPT !.left = @ \ {l}]
  <2>1. /\ jobs' = [jobs EXCEPT ![n] = job] /\ UNCHANGED <<tel, phone>>
        /\ chan' = [chan EXCEPT ![l] = Append(@, Callback(n, l))] /\ l \in jobs[n].left
        /\ jobs[n].pc = "send"
    BY <1>4 DEF Broadcast
  <2>2. job.apn = jobs[n].apn /\ job.pc = "send" /\ job.left = jobs[n].left \ {l}
        /\ job.version = jobs[n].version
    BY <1>0, <2>1 DEF JobState
  <2> HIDE DEF job
  <2>3. CASE k = l
    <3>1. ~SentBy(n, jobs[n], k) /\ SentBy(n, job, k) /\ jobs[n].pc \in Sends
      BY <1>0, <2>1, <2>2, <2>3 DEF SentBy, Sends
    <3>2. \A a \in Apns : \A value : a # jobs[n].apn => ~OwedBy(n, jobs[n], k, a, value)
      BY <1>0 DEF OwedBy
    <3>3. chan'[k] = Append(chan[k], Callback(n, k))
      BY <1>0, <2>1, <2>3
    <3> QED
      BY <1>0, <2>1, <3>1, <3>2, <3>3, SendsServed
  <2>4. CASE k # l
    <3>1. SentBy(n, jobs[n], k) => SentBy(n, job, k)
      BY <1>0, <2>1, <2>2 DEF SentBy
    <3>2. \A a \in Apns : OwedBy(n, jobs[n], k, a, phone.cache[a]) => OwedBy(n, job, k, a, phone.cache[a])
      BY <1>0, <2>1, <2>2, <2>4 DEF OwedBy
    <3>3. chan'[k] = chan[k]
      BY <1>0, <2>1, <2>4
    <3> QED
      BY <1>0, <2>1, <3>1, <3>2, <3>3, StaysServedBy
  <2> QED
    BY <2>3, <2>4
<1>5. ASSUME NEW n \in Notifiers, FinishBroadcast(n) PROVE KeepsServed(k)
  <2>1. /\ jobs' = [jobs EXCEPT ![n] = Idle] /\ UNCHANGED <<tel, chan>>
        /\ phone'.registered = phone.registered /\ phone'.cache = phone.cache
        /\ phone'.sequence = Successor(phone.sequence)
        /\ jobs[n].pc = "send" /\ jobs[n].left = {}
    BY <1>0, <1>5 DEF FinishBroadcast, PhoneType
  <2>2. \A a \in Apns : \A value : ~OwedBy(n, jobs[n], k, a, value)
    BY <1>0, <2>1 DEF OwedBy
  <2> QED
    BY <1>0, <2>1, <2>2, TurnServed
<1>6. ASSUME NEW l \in Listeners, ReadCache(l) PROVE KeepsServed(k)
  <2> DEFINE cached == phone.cache[jobs[l].apn]
             reading == [jobs[l] EXCEPT !.pc = "sequence", !.version = cached]
             job == IF cached = Unknown THEN NextApn(jobs[l]) ELSE reading
  <2>1. /\ jobs' = [jobs EXCEPT ![l] = job] /\ UNCHANGED <<tel, chan, phone>>
        /\ jobs[l].pc = "cache"
    BY <1>6 DEF ReadCache
  <2>2. ~SentBy(l, jobs[l], k)
    BY <1>0, <2>1 DEF SentBy
  <2>3. ASSUME NEW a \in Apns, phone.cache[a] # Unknown, OwedBy(l, jobs[l], k, a, phone.cache[a])
        PROVE  OwedBy(l, job, k, a, phone.cache[a])
    <3>1. l = k /\ jobs[l].apn <= a /\ jobs[l] \in JobState /\ jobs[l].apn \in Nat /\ a \in Nat
          /\ a <= NumApns
      BY <1>0, <2>1, <2>3, ApnsAre DEF OwedBy, JobState, Apns
    <3>2. CASE cached = Unknown
      <4>1. jobs[l].apn < a /\ jobs[l].apn # NumApns /\ jobs[l].apn + 1 <= a
        BY <2>3, <3>1, <3>2, PhoneAssumption
      <4>2. job.pc = "cache" /\ job.apn = jobs[l].apn + 1
        BY <3>1, <3>2, <4>1, NextApnType
      <4> QED
        BY <3>1, <4>1, <4>2 DEF OwedBy
    <3>3. CASE cached # Unknown
      <4>1. job.pc = "sequence" /\ job.apn = jobs[l].apn /\ job.version = cached
        BY <3>1, <3>3 DEF JobState
      <4> HIDE DEF job
      <4>2. CASE jobs[l].apn = a
        BY <3>1, <4>1, <4>2 DEF OwedBy
      <4>3. CASE jobs[l].apn # a
        BY <3>1, <4>1, <4>3 DEF OwedBy
      <4> QED
        BY <4>2, <4>3
    <3> QED
      BY <3>2, <3>3
  <2> HIDE DEF job
  <2> QED
    BY <1>0, <2>1, <2>2, <2>3, StaysServedBy
<1>7. ASSUME NEW l \in Listeners, Push(l) PROVE KeepsServed(k)
  <2> DEFINE job == [jobs[l] EXCEPT !.pc = "increment"]
  <2>1. /\ jobs' = [jobs EXCEPT ![l] = job] /\ UNCHANGED <<tel, phone>>
        /\ chan' = [chan EXCEPT ![l] = Append(@, Callback(l, l))] /\ jobs[l].pc = "push"
    BY <1>7 DEF Push, Goto
  <2>2. job.apn = jobs[l].apn /\ job.pc = "increment" /\ jobs[l].apn \in Nat
    BY <1>0, <2>1, ApnsAre DEF JobState
  <2> HIDE DEF job
  <2>3. ~SentBy(l, jobs[l], k) /\ SentBy(l, job, k) /\ jobs[l].pc \in Sends
    BY <1>0, <2>1, <2>2 DEF SentBy, Sends
  <2>4. CASE k = l
    <3>1. \A a \in Apns : \A value : a # jobs[l].apn /\ OwedBy(l, jobs[l], k, a, value) =>
            OwedBy(l, job, k, a, value)
      BY <1>0, <2>1, <2>2, <2>4 DEF OwedBy
    <3>2. chan'[k] = Append(chan[k], Callback(l, k))
      BY <1>0, <2>1, <2>4
    <3> QED
      BY <1>0, <2>1, <2>3, <3>1, <3>2, SendsServed
  <2>5. CASE k # l
    <3>1. \A a \in Apns : ~OwedBy(l, jobs[l], k, a, phone.cache[a])
      BY <1>0, <2>5 DEF OwedBy
    <3>2. chan'[k] = chan[k]
      BY <1>0, <2>1, <2>5
    <3> QED
      BY <1>0, <2>1, <2>3, <3>1, <3>2, StaysServedBy
  <2> QED
    BY <2>4, <2>5
<1>8. ASSUME NEW l \in Listeners, IncrementAfterPush(l) PROVE KeepsServed(k)
  <2> DEFINE job == NextApn(jobs[l])
  <2>1. /\ jobs' = [jobs EXCEPT ![l] = job] /\ UNCHANGED <<tel, chan>>
        /\ phone'.registered = phone.registered /\ phone'.cache = phone.cache
        /\ phone'.sequence = Successor(phone.sequence)
        /\ jobs[l].pc = "increment"
    BY <1>0, <1>8 DEF IncrementAfterPush, PhoneType
  <2>2. ASSUME NEW a \in Apns, NEW value, OwedBy(l, jobs[l], k, a, value)
        PROVE  OwedBy(l, job, k, a, value)
    <3>1. l = k /\ jobs[l].apn < a /\ jobs[l] \in JobState /\ jobs[l].apn \in Nat /\ a \in Nat
          /\ a <= NumApns
      BY <1>0, <2>1, <2>2, ApnsAre DEF OwedBy, JobState, Apns
    <3>2. jobs[l].apn # NumApns /\ jobs[l].apn + 1 <= a
      BY <3>1, PhoneAssumption
    <3>3. job.pc = "cache" /\ job.apn = jobs[l].apn + 1
      BY <3>1, <3>2, NextApnType
    <3> QED
      BY <3>1, <3>2, <3>3 DEF OwedBy
  <2> HIDE DEF job
  <2> QED
    BY <1>0, <2>1, <2>2, TurnServed
<1>s. ASSUME UNCHANGED jobs
      PROVE  Sent(k) = SentAfter(k) /\ \A a, value : Owed(k, a, value) = OwedAfter(k, a, value)
  BY <1>s DEF Sent, SentAfter, Owed, OwedAfter
<1>9. ASSUME NEW l \in Listeners, NEW i \in 1 .. Len(chan[l]), Deliver(l, i) PROVE KeepsServed(k)
  <2>1. /\ tel' = [tel EXCEPT ![l] = Updated(tel[l], chan[l][i])]
        /\ chan' = [chan EXCEPT ![l] = Without(chan[l], i)]
        /\ UNCHANGED <<phone, jobs>>
    BY <1>9, DeliverIs
  <2>2. i = 1
    <3>1. i \notin 2 .. Len(chan[l])
      BY <1>9 DEF Overtakes
    <3>2. Len(chan[l]) \in Nat
      BY <1>0
    <3> QED
      BY <3>1, <3>2
  <2>3. CASE k = l
    BY <1>0, <2>1, <2>2, <2>3, ArrivesServed
  <2>4. CASE k # l
    <3>1. chan'[k] = chan[k] /\ tel'[k] = tel[k]
      BY <1>0, <2>1, <2>4
    <3> QED
      BY <1>s, <2>1, <3>1, StaysServed
  <2> QED
    BY <2>3, <2>4
<1>10. ASSUME NEW l \in Listeners, HandlePhoneRestart(l) PROVE KeepsServed(k)
  <2>1. /\ tel' = [tel EXCEPT ![l].last = NoSequence] /\ UNCHANGED chan /\ jobs[l] = Idle
        /\ Connect(l)
    BY <1>10 DEF HandlePhoneRestart, MayCall
  <2>2. chan[l] = <<>> /\ tel'[l].last # phone.sequence
    BY <1>10 DEF ConnectsTooSoon
  <2>3. k # l => tel'[k] = tel[k]
    BY <1>0, <2>1
  <2> QED
    BY <2>1, <2>2, <2>3, ConnectServed
<1>11. ASSUME NEW l \in Listeners, Start(l) PROVE KeepsServed(k)
  <2>1. /\ tel' = [tel EXCEPT ![l].status = "on", ![l].receiver = TRUE] /\ UNCHANGED chan
        /\ jobs[l] = Idle /\ Connect(l)
    BY <1>11 DEF Start, MayCall
  <2>2. chan[l] = <<>> /\ tel'[l].last # phone.sequence
    BY <1>11 DEF ConnectsTooSoon
  <2>3. k # l => tel'[k] = tel[k]
    BY <1>0, <2>1
  <2> QED
    BY <2>1, <2>2, <2>3, ConnectServed
<1>12. ASSUME NEW l \in Listeners, Crash(l) PROVE KeepsServed(k)
  <2>1. /\ phone'.registered = phone.registered \ {l} /\ phone'.sequence = phone.sequence
        /\ phone'.cache = phone.cache /\ tel' = [tel EXCEPT ![l] = FreshService("crashed")]
        /\ chan' = [chan EXCEPT ![l] = <<>>]
    BY <1>0, <1>12 DEF Crash, PhoneType
  <2>2. \A t \in Threads \ {l} : /\ jobs'[t].pc = jobs[t].pc /\ jobs'[t].apn = jobs[t].apn
                                 /\ jobs'[t].version = jobs[t].version
                                 /\ jobs'[t].left = jobs[t].left \ {l}
    <3>1. \A t \in Threads \ {l} : jobs'[t] = [jobs[t] EXCEPT !.left = @ \ {l}]
      BY <1>0, <1>12 DEF Crash
    <3> QED
      BY ZenonT(40), <1>0, <3>1 DEF JobState
  <2>3. jobs[l].pc = "increment" => jobs'[l].pc = "increment"
    BY <1>0, <1>12 DEF Crash, JobState
  <2>4. CASE k = l
    BY <2>1, <2>4 DEF KeepsServed
  <2>5. CASE k # l
    <3>1. \A t \in Threads : SentBy(t, jobs[t], k) => SentBy(t, jobs'[t], k)
      BY <1>0, <2>2, <2>3, <2>5 DEF SentBy
    <3>2. ASSUME NEW t \in Threads, NEW a, NEW value, OwedBy(t, jobs[t], k, a, value)
          PROVE  OwedBy(t, jobs'[t], k, a, value)
      <4>1. t # l
        BY <1>0, <2>5, <3>2 DEF OwedBy
      <4> QED
        BY <2>2, <2>5, <3>2, <4>1 DEF OwedBy
    <3>3. /\ Sent(k) => SentAfter(k)
          /\ \A a, value : Owed(k, a, value) => OwedAfter(k, a, value)
      BY <3>1, <3>2 DEF Sent, SentAfter, Owed, OwedAfter
    <3>4. chan'[k] = chan[k] /\ tel'[k] = tel[k]
      BY <1>0, <2>1, <2>5
    <3> QED
      BY <2>1, <3>3, <3>4, StaysServed
  <2> QED
    BY <2>4, <2>5
<1>13. ASSUME NEW l \in Listeners, Restart(l) PROVE KeepsServed(k)
  <2>1. /\ tel' = [tel EXCEPT ![l].status = "on"] /\ tel[l].status = "crashed"
        /\ UNCHANGED chan /\ jobs[l] = Idle /\ Connect(l)
    BY <1>13 DEF Restart, MayCall
  <2>2. tel'[l].last = tel[l].last /\ (k # l => tel'[k] = tel[k])
    BY <1>0, <2>1 DEF Service
  <2>3. chan[l] = <<>> /\ tel[l].last = NoSequence
    BY <2>1 DEF Membership
  <2>4. NoSequence # phone.sequence
    BY <1>0, RingNumbers DEF PhoneType
  <2> QED
    BY <2>1, <2>2, <2>3, <2>4, ConnectServed
<1>14. ASSUME NEW l \in Listeners, Stop(l) PROVE KeepsServed(k)
  <2>1. /\ phone'.registered = phone.registered \ {l} /\ phone'.sequence = phone.sequence
        /\ phone'.cache = phone.cache /\ UNCHANGED <<jobs, chan>>
        /\ tel' = [tel EXCEPT ![l].status = "off", ![l].receiver = FALSE]
    BY <1>0, <1>14 DEF Stop, PhoneType
  <2>2. CASE k = l
    BY <2>1, <2>2 DEF KeepsServed
  <2>3. CASE k # l
    <3>1. tel'[k] = tel[k]
      BY <1>0, <2>1, <2>3
    <3> QED
      BY <1>s, <2>1, <3>1, StaysServed
  <2> QED
    BY <2>2, <2>3
<1>15. CASE PhoneCrash
  BY <1>15 DEF PhoneCrash, FreshPhone, KeepsServed
<1>16. CASE PhoneStart
  BY <1>16 DEF PhoneStart, FreshPhone, KeepsServed
<1>17. CASE UNCHANGED vars
  BY <1>17, <1>s, StaysServed DEF vars
<1> QED
  BY <1>1, <1>2, <1>3, <1>4, <1>5, <1>6, <1>7, <1>8, <1>9, <1>10, <1>11, <1>12, <1>13,
     <1>14, <1>15, <1>16, <1>17 DEF Next, Progress, Receive

LEMMA InitServed == Init => ServedInv
<1> SUFFICES ASSUME Init PROVE ServedInv
  OBVIOUS
<1>1. Types /\ FromCache
  BY InitKnown DEF KnownInv
<1>2. \A l \in Listeners : ~Served(l)
  BY DEF Init, FreshPhone, Served
<1>3. \A t \in Threads : jobs[t] = Idle
  BY DEF Init
<1>4. ASSUME NEW l \in Listeners
      PROVE  /\ jobs[l].pc = "idle" /\ ~tel[l].receiver /\ ~(pending[l] > 0)
             /\ tel[l].status = "off" /\ \A n \in Notifiers : jobs[n].left = {}
  BY <1>3, IdleIs DEF Init, FreshService, Threads
<1>5. Membership
  BY <1>2, <1>4 DEF Membership
<1>6. Complete
  BY <1>2 DEF Complete
<1>7. OneNumbered /\ CurrentNumber
  BY <1>3, IdleIs DEF OneNumbered, CurrentNumber, Numbered, Sends
<1> QED
  BY <1>1, <1>5, <1>6, <1>7 DEF ServedInv

(* The Phone serves every registered listener: once all callbacks have     *)
(* arrived it has every state that is cached, through crashes of both      *)
(* sides and re-registrations, until half of the ring is used up by        *)
(* callbacks to other services (~Recent), or two callers share a number,   *)
(* one gets its number for a state that has changed, a callback            *)
(* overtakes another, or a service connects too soon (MissesOne). The      *)
(* code excludes none of these.                                            *)
THEOREM NothingIsMissed ==
  SafeSpec => []CaughtUp \/ <>~Recent \/ <><<MissesOne>>_vars
<1>1. ServedInv /\ Recent /\ [Next]_vars /\ [~MissesOne]_vars => ServedInv'
  <2> SUFFICES ASSUME ServedInv, Recent, [Next]_vars, [~MissesOne]_vars PROVE ServedInv'
    OBVIOUS
  <2>1. CASE ~MissesOne
    <3>1. Types'
      BY TypesStep DEF ServedInv
    <3>2. FromCache'
      BY <3>1, FromCacheStep DEF ServedInv
    <3>3. Membership'
      BY <3>1, MembershipStep DEF ServedInv
    <3>4. OneNumbered' /\ CurrentNumber'
      BY <2>1, NumberingStep DEF ServedInv, MissesOne
    <3>5. Complete'
      BY <2>1, <3>1, CompleteStep DEF ServedInv, MissesOne
    <3> QED
      BY <3>1, <3>2, <3>3, <3>4, <3>5 DEF ServedInv
  <2>2. CASE UNCHANGED vars
    BY <2>2 DEF ServedInv, vars, Types, TypeOK, FromCache, OneNumbered, CurrentNumber, Membership,
                Served, Complete, Sent, Owed
  <2> QED
    BY <2>1, <2>2
<1>2. ServedInv => CaughtUp
  <2> SUFFICES ASSUME ServedInv, NEW l \in Listeners, Settled(l), NEW a \in Apns,
                      phone.cache[a] # Unknown
               PROVE  tel[l].view[a] = phone.cache[a]
    BY DEF CaughtUp, ServedInv, Types
  <2>1. /\ l \in phone.registered /\ chan[l] = <<>> /\ \A t \in Threads : jobs[t] = Idle
    BY DEF Settled
  <2>2. ~Owed(l, a, phone.cache[a])
    BY <2>1, IdleSends DEF Owed
  <2>3. Reaches(<<>>, tel[l].view, a, phone.cache[a])
    BY <2>1, <2>2, IsServed DEF ServedInv
  <2> QED
    BY <2>3, ChainStarts
<1> QED
  BY <1>1, <1>2, InitServed, PTL DEF SafeSpec
-----------------------------------------------------------------------------
(* The restart of the Phone.                                               *)

(* A service is connected, or tries to again when the Phone starts.        *)
LEMMA ConnectRemembers ==
  ASSUME Types, Remembered, NEW l \in Listeners, Connect(l),
         \A k \in Listeners \ {l} : tel'[k] = tel[k] /\ pending'[k] = pending[k]
  PROVE  Remembered'
<1>0. phone \in PhoneType
  BY TypesAre
<1>1. CASE phone.up
  BY <1>0, <1>1 DEF Connect, PhoneType, Remembered
<1>2. CASE ~phone.up
  BY <1>2 DEF Connect, Remembered
<1> QED
  BY <1>1, <1>2

LEMMA RememberedStep ==
  ASSUME Types, Remembered, [Next]_vars
  PROVE  Remembered'
<1>0. /\ tel \in [Listeners -> Service] /\ pending \in [Listeners -> Nat]
      /\ phone \in PhoneType
  BY TypesAre DEF Types, TypeOK
<1>1. ASSUME phone'.up = phone.up, phone'.registered = phone.registered, UNCHANGED pending,
             \A l \in Listeners : tel'[l].receiver = tel[l].receiver
      PROVE  Remembered'
  BY <1>1 DEF Remembered
<1>2. ASSUME NEW n \in Notifiers, NEW a \in Apns, Notify(n, a) PROVE Remembered'
  BY <1>0, <1>1, <1>2 DEF Notify, PhoneType
<1>3. ASSUME NEW t \in Threads, Progress(t) PROVE Remembered'
  <2>1. UNCHANGED <<tel, pending>>
    BY <1>3 DEF Progress, ReadSequence, BeginBroadcast, Broadcast, FinishBroadcast,
                ReadCache, Push, IncrementAfterPush
  <2>2. phone'.up = phone.up /\ phone'.registered = phone.registered
    BY <1>0, <1>3 DEF Progress, ReadSequence, BeginBroadcast, Broadcast, FinishBroadcast,
                      ReadCache, Push, IncrementAfterPush, PhoneType
  <2> QED
    BY <1>1, <2>1, <2>2
<1>4. ASSUME NEW l \in Listeners, NEW i \in 1 .. Len(chan[l]), Deliver(l, i) PROVE Remembered'
  <2>1. tel' = [tel EXCEPT ![l] = Updated(tel[l], chan[l][i])]
        /\ chan[l][i] \in Message /\ tel[l] \in Service /\ UNCHANGED <<phone, pending>>
    BY <1>4, DeliverIs
  <2>2. Updated(tel[l], chan[l][i]).receiver = tel[l].receiver
    BY <2>1, UpdatedIs
  <2> QED
    BY <1>0, <1>1, <2>1, <2>2
<1>5. ASSUME NEW l \in Listeners, HandlePhoneRestart(l) PROVE Remembered'
  BY <1>0, <1>5, ConnectRemembers DEF HandlePhoneRestart
<1>6. ASSUME NEW l \in Listeners, Start(l) \/ Restart(l) PROVE Remembered'
  BY <1>0, <1>6, ConnectRemembers DEF Start, Restart
<1>7. ASSUME NEW l \in Listeners, Crash(l) PROVE Remembered'
  <2>1. /\ tel' = [tel EXCEPT ![l] = FreshService("crashed")] /\ pending' = [pending EXCEPT ![l] = 0]
        /\ phone'.up = phone.up /\ phone'.registered = phone.registered \ {l}
    BY <1>0, <1>7 DEF Crash, PhoneType
  <2>2. ~tel'[l].receiver
    BY <1>0, <2>1 DEF FreshService
  <2> QED
    BY <1>0, <2>1, <2>2 DEF Remembered
<1>8. ASSUME NEW l \in Listeners, Stop(l) PROVE Remembered'
  <2>1. /\ tel' = [tel EXCEPT ![l].status = "off", ![l].receiver = FALSE]
        /\ pending' = [pending EXCEPT ![l] = 0]
        /\ phone'.up = phone.up /\ phone'.registered = phone.registered \ {l}
    BY <1>0, <1>8 DEF Stop, PhoneType
  <2>2. ~tel'[l].receiver
    BY <1>0, <2>1 DEF Service
  <2> QED
    BY <1>0, <2>1, <2>2 DEF Remembered
<1>9. CASE PhoneCrash
  BY <1>9 DEF PhoneCrash, FreshPhone, Remembered
<1>10. CASE PhoneStart
  <2>1. \A l \in Listeners : tel[l].receiver => pending'[l] > 0
    BY <1>0, <1>10 DEF PhoneStart
  <2> QED
    BY <1>10, <2>1 DEF PhoneStart, Remembered
<1>11. CASE UNCHANGED vars
  BY <1>11 DEF vars, Remembered
<1> QED
  BY <1>2, <1>3, <1>4, <1>5, <1>6, <1>7, <1>8, <1>9, <1>10, <1>11 DEF Next, Receive

(* A listener whose receiver is registered is never forgotten: while the   *)
(* Phone is up it is registered with it, or the broadcast of the restart   *)
(* (onPhoneProcessStart) is on its way to it, through all crashes of the   *)
(* Phone and of the listener and whatever overlaps.                        *)
THEOREM NeverForgotten == Spec => []Remembered
<1>1. Init => Types /\ Remembered
  BY InitTypes DEF Init, FreshService, Remembered
<1>2. Types /\ Remembered /\ [Next]_vars => Types' /\ Remembered'
  BY TypesStep, RememberedStep
<1> QED
  BY <1>1, <1>2, PTL DEF Spec
============================================================================
