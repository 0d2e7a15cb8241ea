---------------------------- MODULE MCSyncCluster ----------------------------
(* SyncCluster for TLC: two synchronisation masters.                          *)
EXTENDS SyncCluster

McMasters == {0, 1}
McLags == {{}, {0}, {1, 2}}
=============================================================================
