-------------------------- MODULE PhoneTelematics --------------------------
(***************************************************************************)
(* The Phone process numbers the network states that it sends to the       *)
(* registered Telematics listeners (PhoneSequenceManager), a listener      *)
(* drops what its last sequence number says is old                         *)
(* (TelematicsSequenceHandler), and both recover from crashes by           *)
(* registering again (TelematicsService).                                  *)
(*                                                                         *)
(* A pair of phoneId and apnNumber is one APN; the state of an APN is the  *)
(* number of its changes so far.  Every synchronized method and every      *)
(* callback is a step of its own, so that the threads of the Phone         *)
(* interleave where the code lets them.                                    *)
(***************************************************************************)
EXTENDS Integers, Sequences

CONSTANTS
  Listeners,        \* Telematics services
  Notifiers,        \* threads that call notifyNetworkStateChanged
  NumApns,
  SequenceMax, HalfRing,
  Serialised,       \* the callers of the Phone wait for one another
  Fifo,             \* callbacks arrive in the order they were made
  Drained,          \* the restart broadcast arrives after earlier callbacks
  MaxChanges,       \* bound on the changes of each APN
  MaxPhoneCrashes, MaxCrashes, MaxStops \* bounds on the faults

Apns == 1 .. NumApns
Threads == Notifiers \union Listeners   \* a listener's thread: its registration

ASSUME PhoneAssumption ==
  /\ Notifiers \intersect Listeners = {}
  /\ NumApns \in Nat \ {0}
  /\ HalfRing \in Nat \ {0}
  /\ SequenceMax = 2 * HalfRing
  /\ {Serialised, Fifo, Drained} \subseteq BOOLEAN
  /\ {MaxChanges, MaxPhoneCrashes, MaxCrashes, MaxStops} \subseteq Nat

VARIABLES
  truth,    \* history: the changes of each APN
  phone,    \* PhoneSequenceManager: up, sequence, cache, registered
  jobs,     \* its threads
  tel,      \* each TelematicsService
  chan,     \* callbacks on their way to each listener
  pending,  \* restart broadcasts on their way to each listener
  faults    \* the crashes and stops so far

vars == <<truth, phone, jobs, tel, chan, pending, faults>>

Unknown == 0        \* no state of the APN
NoSequence == -1    \* TelematicsSequenceHandler.lastSequence after a reset

NoStates == [a \in Apns |-> Unknown]

Idle == [pc |-> "idle", apn |-> 1, version |-> Unknown, seq |-> 0, left |-> {}]

FreshPhone == [up |-> TRUE, sequence |-> 0, cache |-> NoStates, registered |-> {}]

FreshService(status) ==
  [status |-> status, receiver |-> FALSE, last |-> NoSequence, view |-> NoStates]

Init ==
  /\ truth = NoStates
  /\ phone = FreshPhone
  /\ jobs = [t \in Threads |-> Idle]
  /\ tel = [l \in Listeners |-> FreshService("off")]
  /\ chan = [l \in Listeners |-> <<>>]
  /\ pending = [l \in Listeners |-> 0]
  /\ faults = [phone |-> 0, crash |-> 0, stop |-> 0]
-----------------------------------------------------------------------------
(* The Phone.                                                              *)

MayCall(t) ==
  /\ jobs[t] = Idle
  /\ Serialised => \A other \in Threads : jobs[other] = Idle

Goto(t, pc) == jobs' = [jobs EXCEPT ![t].pc = pc]

(* RemoteCallbackList refuses a second broadcast until the first is over.  *)
Broadcasting == \E n \in Notifiers : jobs[n].pc = "send"

Callback(t, l) == [apn |-> jobs[t].apn, version |-> jobs[t].version, seq |-> jobs[t].seq]

Successor(sequence) == (sequence + 1) % SequenceMax

(* notifyNetworkStateChanged: the state of an APN has changed.             *)
Notify(n, a) ==
  /\ phone.up
  /\ MayCall(n)
  /\ truth[a] < MaxChanges
  /\ truth' = [truth EXCEPT ![a] = @ + 1]
  /\ phone' = [phone EXCEPT !.cache[a] = truth[a] + 1]
  /\ jobs' = [jobs EXCEPT ![n] = [Idle EXCEPT !.pc = "sequence", !.apn = a,
                                              !.version = truth[a] + 1]]
  /\ UNCHANGED <<tel, chan, pending, faults>>

(* getCurrentSequence, by both kinds of thread.                            *)
ReadSequence(t) ==
  /\ jobs[t].pc = "sequence"
  /\ jobs' = [jobs EXCEPT ![t].seq = phone.sequence,
                          ![t].pc = IF t \in Notifiers THEN "begin" ELSE "push"]
  /\ UNCHANGED <<truth, phone, tel, chan, pending, faults>>

(* beginBroadcast, or its exception, which nothing catches.                *)
BeginBroadcast(n) ==
  /\ jobs[n].pc = "begin"
  /\ jobs' = [jobs EXCEPT ![n] =
       IF Broadcasting THEN Idle
       ELSE [jobs[n] EXCEPT !.pc = "send", !.left = phone.registered]]
  /\ UNCHANGED <<truth, phone, tel, chan, pending, faults>>

Broadcast(n, l) ==
  /\ jobs[n].pc = "send"
  /\ l \in jobs[n].left
  /\ chan' = [chan EXCEPT ![l] = Append(@, Callback(n, l))]
  /\ jobs' = [jobs EXCEPT ![n].left = @ \ {l}]
  /\ UNCHANGED <<truth, phone, tel, pending, faults>>

(* finishBroadcast and incrementSequence.                                  *)
FinishBroadcast(n) ==
  /\ jobs[n].pc = "send"
  /\ jobs[n].left = {}
  /\ phone' = [phone EXCEPT !.sequence = Successor(@)]
  /\ jobs' = [jobs EXCEPT ![n] = Idle]
  /\ UNCHANGED <<truth, tel, chan, pending, faults>>

(* The loop of pushAllCurrentStates goes on to the next APN.               *)
NextApn(job) == IF job.apn = NumApns THEN Idle
                ELSE [Idle EXCEPT !.pc = "cache", !.apn = job.apn + 1]

ReadCache(l) ==
  /\ jobs[l].pc = "cache"
  /\ LET cached == phone.cache[jobs[l].apn] IN
     jobs' = [jobs EXCEPT ![l] =
       IF cached = Unknown THEN NextApn(@)
       ELSE [@ EXCEPT !.pc = "sequence", !.version = cached]]
  /\ UNCHANGED <<truth, phone, tel, chan, pending, faults>>

Push(l) ==
  /\ jobs[l].pc = "push"
  /\ chan' = [chan EXCEPT ![l] = Append(@, Callback(l, l))]
  /\ Goto(l, "increment")
  /\ UNCHANGED <<truth, phone, tel, pending, faults>>

IncrementAfterPush(l) ==
  /\ jobs[l].pc = "increment"
  /\ phone' = [phone EXCEPT !.sequence = Successor(@)]
  /\ jobs' = [jobs EXCEPT ![l] = NextApn(@)]
  /\ UNCHANGED <<truth, tel, chan, pending, faults>>

PhoneCrash ==
  /\ phone.up
  /\ faults.phone < MaxPhoneCrashes
  /\ phone' = [FreshPhone EXCEPT !.up = FALSE]
  /\ jobs' = [t \in Threads |-> Idle]
  /\ faults' = [faults EXCEPT !.phone = @ + 1]
  /\ UNCHANGED <<truth, tel, chan, pending>>

(* onPhoneProcessStart: the broadcast goes to the receivers of this moment.*)
PhoneStart ==
  /\ ~phone.up
  /\ phone' = FreshPhone
  /\ pending' = [l \in Listeners |->
                   IF tel[l].receiver THEN pending[l] + 1 ELSE pending[l]]
  /\ UNCHANGED <<truth, jobs, tel, chan, faults>>
-----------------------------------------------------------------------------
(* Telematics.                                                             *)

(* connectToPhoneService and registerCallback: the caller waits until all  *)
(* cached states have been pushed; without a Phone it gives up.            *)
Connect(l) ==
  IF phone.up
  THEN /\ phone' = [phone EXCEPT !.registered = @ \union {l}]
       /\ jobs' = [jobs EXCEPT ![l] = [Idle EXCEPT !.pc = "cache"]]
  ELSE UNCHANGED <<phone, jobs>>

Start(l) ==
  /\ tel[l].status = "off"
  /\ MayCall(l)
  /\ tel' = [tel EXCEPT ![l].status = "on", ![l].receiver = TRUE]
  /\ Connect(l)
  /\ UNCHANGED <<truth, chan, pending, faults>>

(* The process is gone, and what was on its way to it.                     *)
Crash(l) ==
  /\ tel[l].status = "on"
  /\ faults.crash < MaxCrashes
  /\ tel' = [tel EXCEPT ![l] = FreshService("crashed")]
  /\ phone' = [phone EXCEPT !.registered = @ \ {l}]
  /\ jobs' = [t \in Threads |->
       IF t # l THEN [jobs[t] EXCEPT !.left = @ \ {l}]
       ELSE IF jobs[l].pc = "increment" THEN [jobs[l] EXCEPT !.apn = NumApns]
       ELSE Idle]
  /\ chan' = [chan EXCEPT ![l] = <<>>]
  /\ pending' = [pending EXCEPT ![l] = 0]
  /\ faults' = [faults EXCEPT !.crash = @ + 1]
  /\ UNCHANGED truth

(* onTelematicsRestart.                                                    *)
Restart(l) ==
  /\ tel[l].status = "crashed"
  /\ MayCall(l)
  /\ tel' = [tel EXCEPT ![l].status = "on"]
  /\ Connect(l)
  /\ UNCHANGED <<truth, chan, pending, faults>>

Stop(l) ==
  /\ tel[l].status = "on"
  /\ jobs[l] = Idle
  /\ faults.stop < MaxStops
  /\ tel' = [tel EXCEPT ![l].status = "off", ![l].receiver = FALSE]
  /\ phone' = [phone EXCEPT !.registered = @ \ {l}]
  /\ pending' = [pending EXCEPT ![l] = 0]
  /\ faults' = [faults EXCEPT !.stop = @ + 1]
  /\ UNCHANGED <<truth, jobs, chan>>

(* Mutant: the restart of the Phone does not reset the handler.            *)
HandlePhoneRestart_NoReset(l) ==
  /\ pending[l] > 0
  /\ MayCall(l)
  /\ Drained => chan[l] = <<>>
  /\ pending' = [pending EXCEPT ![l] = @ - 1]
  /\ Connect(l)
  /\ UNCHANGED <<truth, tel, chan, faults>>

(* handlePhoneRestart: reset, unregister and connect again.                *)
HandlePhoneRestart(l) ==
  /\ pending[l] > 0
  /\ MayCall(l)
  /\ Drained => chan[l] = <<>>
  /\ pending' = [pending EXCEPT ![l] = @ - 1]
  /\ tel' = [tel EXCEPT ![l].last = NoSequence]
  /\ Connect(l)
  /\ UNCHANGED <<truth, chan, faults>>

(* Mutant: whatever is not a duplicate is taken for newer.                 *)
Accepted_NoHalfRing(last, seq) == last = NoSequence \/ seq # last

(* TelematicsSequenceHandler.handleMessage.                                *)
Accepted(last, seq) ==
  \/ last = NoSequence
  \/ (seq - last + SequenceMax) % SequenceMax \in 1 .. (HalfRing - 1)

(* onNetworkStateChanged for the i-th of the callbacks on their way.       *)
Deliver(l, i) ==
  /\ tel[l].status # "crashed"
  /\ Fifo => i = 1
  /\ LET m == chan[l][i] IN
     tel' = IF Accepted(tel[l].last, m.seq)
            THEN [tel EXCEPT ![l].last = m.seq, ![l].view[m.apn] = m.version]
            ELSE tel
  /\ chan' = [chan EXCEPT ![l] = SubSeq(@, 1, i - 1) \o SubSeq(@, i + 1, Len(@))]
  /\ UNCHANGED <<truth, phone, jobs, pending, faults>>
-----------------------------------------------------------------------------
(* What goes on by itself once it has been started.                        *)
Progress(t) ==
  \/ ReadSequence(t)
  \/ t \in Notifiers /\ BeginBroadcast(t)
  \/ t \in Notifiers /\ \E l \in Listeners : Broadcast(t, l)
  \/ t \in Notifiers /\ FinishBroadcast(t)
  \/ t \in Listeners /\ ReadCache(t)
  \/ t \in Listeners /\ Push(t)
  \/ t \in Listeners /\ IncrementAfterPush(t)

Receive(l) ==
  \/ \E i \in 1 .. Len(chan[l]) : Deliver(l, i)
  \/ HandlePhoneRestart(l)

Next ==
  \/ \E n \in Notifiers, a \in Apns : Notify(n, a)
  \/ \E t \in Threads : Progress(t)
  \/ \E l \in Listeners : Receive(l)
  \/ \E l \in Listeners : Start(l) \/ Crash(l) \/ Restart(l) \/ Stop(l)
  \/ PhoneCrash
  \/ PhoneStart

(* Threads run, binder and the broadcast deliver ("the restart broadcast   *)
(* must be delivered reliably"), a process that died is started again.     *)
Fairness ==
  /\ \A t \in Threads : WF_vars(Progress(t))
  /\ \A l \in Listeners : /\ WF_vars(Receive(l))
                          /\ SF_vars(HandlePhoneRestart(l))
                          /\ SF_vars(Start(l))
                          /\ SF_vars(Restart(l))
  /\ WF_vars(PhoneStart)

Spec == Init /\ [][Next]_vars /\ Fairness
-----------------------------------------------------------------------------
(***************************************************************************)
(* Properties.                                                             *)
(***************************************************************************)

JobState ==
  [pc : {"idle", "sequence", "begin", "send", "cache", "push", "increment"},
   apn : Apns, version : Nat, seq : 0 .. (SequenceMax - 1), left : SUBSET Listeners]

(* Sequence numbers stay on the ring, everything keeps its type.           *)
TypeOK ==
  /\ truth \in [Apns -> Nat]
  /\ phone \in [up : BOOLEAN, sequence : 0 .. (SequenceMax - 1),
                cache : [Apns -> Nat], registered : SUBSET Listeners]
  /\ jobs \in [Threads -> JobState]
  /\ tel \in [Listeners -> [status : {"off", "on", "crashed"}, receiver : BOOLEAN,
                            last : NoSequence .. (SequenceMax - 1),
                            view : [Apns -> Nat]]]
  /\ pending \in [Listeners -> Nat]
  /\ faults \in [phone : Nat, crash : Nat, stop : Nat]

(* The sequence numbers do what they are for: whatever the order in which  *)
(* callbacks arrive, a listener never goes back to an older state of an    *)
(* APN, and it never processes a state that the APN did not have.          *)
Sync == INSTANCE StateSync WITH
  current <- truth,
  view    <- [l \in Listeners |-> tel[l].view]

ImplementsStateSync == Sync!Init /\ [][Sync!Next]_(Sync!vars)

(* Nothing is under way to or from the listener.                           *)
Settled(l) ==
  /\ phone.up
  /\ l \in phone.registered
  /\ chan[l] = <<>>
  /\ pending[l] = 0
  /\ \A t \in Threads : jobs[t] = Idle

(* The members keep their ranges, the sequence numbers those of the ring.  *)
(* Once all callbacks have arrived, a registered listener has the state of *)
(* every APN that the Phone has cached, through all crashes of both sides: *)
(* nothing it needed was dropped as old or as a duplicate.                 *)
CaughtUp ==
  /\ TypeOK
  /\ \A l \in Listeners : Settled(l) =>
       \A a \in Apns : phone.cache[a] # Unknown => tel[l].view[a] = phone.cache[a]

Recovered(l) ==
  tel[l].status = "on" =>
    /\ l \in phone.registered
    /\ \A a \in Apns :
         phone.cache[a] # Unknown => tel[l].view[a] = phone.cache[a]

(* "quick recovery of the correct state after a crash": in the end every   *)
(* running listener that hears of the restart of the Phone is registered   *)
(* and has all the cached states, through all crashes of both sides.       *)
RecoversWithReceiver ==
  <>[](\A l \in Listeners : tel[l].receiver => Recovered(l))
=============================================================================
