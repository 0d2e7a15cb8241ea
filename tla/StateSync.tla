----------------------------- MODULE StateSync -----------------------------
(***************************************************************************)
(* What the sequence numbers between Phone and Telematics are for: every   *)
(* listener follows the state of every APN, may skip changes, forgets all  *)
(* of them when it crashes, and never goes back to an older state.         *)
(***************************************************************************)
EXTENDS Naturals

CONSTANTS Listeners, Apns

VARIABLES
  current,  \* the number of changes of each APN so far: its current state
  view      \* the change that each listener has processed last, per APN

vars == <<current, view>>

Init ==
  /\ current = [a \in Apns |-> 0]
  /\ view = [l \in Listeners |-> [a \in Apns |-> 0]]

Change(a) ==
  /\ current' = [current EXCEPT ![a] = @ + 1]
  /\ UNCHANGED view

Learn(l, a) ==
  /\ view[l][a] < current[a]
  /\ \E version \in (view[l][a] + 1) .. current[a] :
       view' = [view EXCEPT ![l][a] = version]
  /\ UNCHANGED current

Forget(l) ==
  /\ view' = [view EXCEPT ![l] = [a \in Apns |-> 0]]
  /\ UNCHANGED current

Next ==
  \/ \E a \in Apns : Change(a)
  \/ \E l \in Listeners, a \in Apns : Learn(l, a)
  \/ \E l \in Listeners : Forget(l)

Spec == Init /\ [][Next]_vars
=============================================================================
