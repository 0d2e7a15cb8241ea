------------------------ MODULE MCSiCompressionMaster ------------------------
(* SiCompressionMaster for TLC: frames of two synchronisation masters.         *)
EXTENDS SiCompressionMaster

McMemberships == {{0}, {1}}
McDelays == {1}
McRecorded == {1}
=============================================================================
