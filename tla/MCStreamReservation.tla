------------------------ MODULE MCStreamReservation ------------------------
(* StreamReservation for TLC: the sources' host, a switch and two hosts with   *)
(* sinks.  No link has room for both streams.                                  *)
EXTENDS StreamReservation

McNodes == {"source", "switch", "x", "y"}
McUp == [switch |-> "source", x |-> "switch", y |-> "switch"]
McStreams == {1, 2}
McBandwidth == <<1, 1>>
McReservable == [switch |-> 2, x |-> 1, y |-> 1]
McSinks == {"a", "b", "c"}
McNodeOf == [a |-> "x", b |-> "y", c |-> "y"]
McStreamOf == [a |-> 1, b |-> 1, c |-> 2]
McUpdate == [a |-> 2, b |-> 0, c |-> 0]
McRetry == [a |-> 1, b |-> 0, c |-> 1]
=============================================================================
