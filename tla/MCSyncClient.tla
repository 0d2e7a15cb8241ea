---------------------------- MODULE MCSyncClient ----------------------------
(* SyncClient with two ports and two masters for TLC.                         *)
EXTENDS SyncClient

McMemberships == {{1}, {1, 2}}
McDelays == {1}
McRecorded == {-1, 1}
=============================================================================
