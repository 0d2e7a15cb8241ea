---------------------------- MODULE MCRcTraffic ----------------------------
(* Constants for the runs of RcTraffic: two virtual links, one of them to  *)
(* both ports, the other with a double buffer.                             *)
EXTENDS RcTraffic

CONSTANTS v1, v2, p1, p2   \* model values

TwoDests == [v \in VLs |-> IF v = v1 THEN {p1, p2} ELSE {p1}]
Bags == [v \in VLs |-> IF v = v1 THEN 4 ELSE 3]
Jitters == [v \in VLs |-> IF v = v1 THEN 2 ELSE 1]
FirstThenSecond == [v \in VLs |-> IF v = v1 THEN 0 ELSE 1]
TwoFrames == [v \in VLs |-> 2]
FrameTicks == [v \in VLs |-> IF v = v1 THEN 1 ELSE 2]
FrameBytes == [v \in VLs |-> IF v = v1 THEN 1 ELSE 2]
BackAndForth == {-1, 1}
NoCorrection == {}
=============================================================================
