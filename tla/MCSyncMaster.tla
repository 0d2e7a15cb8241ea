---------------------------- MODULE MCSyncMaster ----------------------------
(* SyncMaster for TLC: one master (bit 0) on one port.                        *)
EXTENDS SyncMaster

McMasters == {0}
McMemberships == {{0}, {0, 1}}
McDelays == {1}
McRecorded == {1}
=============================================================================
