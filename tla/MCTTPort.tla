------------------------------ MODULE MCTTPort ------------------------------
(* Two buffers, one with half the cycle of the other, so that their order  *)
(* in the shaper's map changes; frames of one and of two ticks.  A has a   *)
(* receive window that ends with its permanence point, as in the examples, *)
(* B takes frames at any time, as from an application.                     *)
EXTENDS TTPort, TLC

CONSTANTS A, B, Pcf, Rc, Be

McCycle == [b \in Buffers |-> IF b = A THEN 6 ELSE 12]
McStart == [b \in Buffers |-> IF b = A THEN 1 ELSE 4]
McReceiveStart == [b \in Buffers |-> IF b = A THEN 3 ELSE -1]
McReceiveEnd == [b \in Buffers |-> IF b = A THEN 4 ELSE -1]
McPit == McReceiveEnd
McCapacity == [b \in Buffers |-> 2]
McTTTicks == [b \in Buffers |-> 1]
McClass == Pcf :> 1 @@ Rc :> 2 @@ Be :> 3
McTicks == Pcf :> 1 @@ Rc :> 2 @@ Be :> 1
Always == -1
BothWays == {-1, 1}

(* The schedule is one the theorems of TTPort_proofs are about.            *)
ASSUME McWellScheduled == WellScheduled
=============================================================================
