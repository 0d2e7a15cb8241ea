---------------------------- MODULE SyncScheduler ----------------------------
(* The scheduler as the AS6802 synchronisation state machines use it.  They   *)
(* call a TTEScheduler that is not part of the repository: registerEvent(),   *)
(* unregisterEvent(), clockCorrection(), getTicks() and getTotalTicks().      *)
(* These operators model those calls with the meaning that Timer and Period,  *)
(* the scheduler of the repository, give to the calls of the same name, except*)
(* that a positive correction sets the clock back, as all callers expect.     *)
(*                                                                            *)
(* A device is a record.  The fields the scheduler works on are               *)
(*   clk    getTicks(), the tick within the integration cycle                 *)
(*   pend   the registered events, each with the ticks left until it is due   *)
(*   fault  an event was registered while it was registered: the devices ask  *)
(*          isScheduled() for it, so that the scheduler schedules the message *)
(*          itself, and the simulation ends with an error                     *)
(* Events with an action time (the domain of Slot) stay at their slot of the  *)
(* cycle when the clock is corrected, timer events keep their distance.       *)
EXTENDS Integers, FiniteSets

CONSTANTS
  Cycle,     \* ticks of the integration cycle (int_cycle_duration)
  Slot,      \* [event name -> action time]
  Priority   \* [event name -> scheduling priority], the smallest runs first

Larger(a, b) == IF a >= b THEN a ELSE b

Named(d, names) == {e \in d.pend : e.ev \in names}

(* Ticks from clk to the slot of ev; when it is now, next asks for the slot   *)
(* of the next cycle.                                                         *)
Distance(clk, ev, next) ==
  LET ahead == (Slot[ev] - clk) % Cycle IN IF next /\ ahead = 0 THEN Cycle ELSE ahead

(* registerEvent() of an event with an action time, and of a timer event.     *)
RegisterAction(d, ev, next) ==
  [d EXCEPT !.pend = @ \union {[ev |-> ev, left |-> Distance(d.clk, ev, next)]},
            !.fault = @ \/ Named(d, {ev}) # {}]

Register(d, ev)     == RegisterAction(d, ev, FALSE)
RegisterNext(d, ev) == RegisterAction(d, ev, TRUE)

RegisterAll(d, evs) ==
  [d EXCEPT !.pend = @ \union {[ev |-> e, left |-> Distance(d.clk, e, FALSE)] : e \in evs},
            !.fault = @ \/ Named(d, evs) # {}]

RegisterTimer(d, event) == [d EXCEPT !.pend = @ \union {event}]

(* The one timer event of a device, as opposed to a new event for a frame.     *)
StartTimer(d, left) ==
  [RegisterTimer(d, [ev |-> "ASYNCHRON", left |-> left]) EXCEPT !.fault = @ \/ Named(d, {"ASYNCHRON"}) # {}]

(* unregisterEvent() of each of the named events; no effect on one that is    *)
(* not registered.                                                            *)
Unregister(d, names) == [d EXCEPT !.pend = {e \in @ : e.ev \notin names}]

(* clockCorrection(c): the clock goes back by c.  An event whose slot is      *)
(* passed over is due at once.                                                *)
Correct(d, c) ==
  [d EXCEPT !.clk = (@ - c) % Cycle,
            !.pend = {IF e.ev \in DOMAIN Slot
                        THEN [e EXCEPT !.left = Larger(0, @ + c)]
                        ELSE e : e \in @}]

(* The event loop: the due events of the smallest priority, and a tick of     *)
(* time when nothing is due.                                                  *)
Due(d) == {e \in d.pend : /\ e.left = 0
                          /\ \A o \in d.pend : o.left = 0 => Priority[e.ev] <= Priority[o.ev]}

Taken(d, e) == [d EXCEPT !.pend = @ \ {e}]

Ticked(d) ==
  [d EXCEPT !.clk = (@ + 1) % Cycle,
            !.pend = {[e EXCEPT !.left = @ - 1] : e \in @}]

NothingDue(d) == \A e \in d.pend : e.left > 0
=============================================================================
