SPECIFICATION Spec
CONSTANTS
  Cycle = 9
  Precision = 1
  AcceptanceWindow = 2
  ReceivePit = 3
  MaxIcys = 3
  Ports = {1, 2}
  Memberships <- McMemberships
  MaxMembership = 2
  AcceptanceRange = 0
  PermanenceDelays <- McDelays
  ListenTimeout = 3
  RestartSync = 3
  RestartAsync = 3
  IntegrateToSync = 2
  SyncThresholdSync = 2
  SyncThresholdAsync = 2
  StableThresholdSync = 2
  StableThresholdAsync = 2
  NumStable = 1
  NumUnstable = 1
  ToStableEnabled = TRUE
  Recorded <- McRecorded
  MaxPending = 2
  GoneHorizon = 4
CHECK_DEADLOCK FALSE
INVARIANT Consistent
PROPERTIES
  StepsWithinPrecision
  CliqueNoticed
