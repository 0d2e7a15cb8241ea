------------------------ MODULE MCHiCompressionMaster ------------------------
(* HiCompressionMaster for TLC: frames of two synchronisation masters.         *)
EXTENDS HiCompressionMaster

McMemberships == {{0}, {1}}
McDelays == {1}
McRecorded == {1}
=============================================================================
