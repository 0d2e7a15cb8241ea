------------------------------ MODULE MCTimer ------------------------------
(* Constants for Timer: two periods of different length and offset, a TT   *)
(* buffer, the clock correction and one timer client.                      *)
EXTENDS Timer

CONSTANTS p1, p2, tt, tc

TwoPeriods == [c \in ActionClients |-> IF c \in {p2, tt} THEN p2 ELSE p1]

(* The send window opens next to the action time of the correction.        *)
Windows == [c \in ActionClients |-> CASE c = tt   -> 3
                                      [] c = Sync -> 2
                                      [] OTHER    -> 0]

LongAndShort == [p \in Periods |-> IF p = p1 THEN 9 ELSE 4]

OffsetTwo == [p \in Periods |-> IF p = p2 THEN 2 ELSE 0]
=============================================================================
