SPECIFICATION Spec
CONSTANTS
  Masters <- McMasters
  Cycle = 8
  Precision = 1
  AcceptanceWindow = 2
  ReceivePit = 2
  MaxIcys = 2
  MaxMembership = 2
  AcceptanceRange = 1
  ListenTimeout = 2
  ColdstartTimeout = 3
  RestartTimeout = 2
  RestartSync = 2
  RestartAsync = 2
  CsOffset = 2
  CaOffset = 3
  CaRoundTrip = 3
  CaWindow = 2
  IntegrateToWait = 1
  IntegrateToSync = 2
  UnsyncToTentative = 2
  UnsyncToSync = 2
  TentativeThresholdSync = 1
  TentativeThresholdAsync = 2
  TentativeToSync = 2
  SyncThresholdSync = 2
  SyncThresholdAsync = 2
  StableThresholdSync = 2
  StableThresholdAsync = 2
  NumStable = 1
  NumUnstable = 2
  ToStableEnabled = TRUE
  StableCaEnabled = TRUE
  StandardIntegrity = TRUE
  HighIntegrity = FALSE
  StartIcy = 0
  Recorded <- McRecorded
  GoneHorizon = 0
  Ports = {1}
  Memberships <- McMemberships
  PermanenceDelays <- McDelays
  MaxPending = 1
CHECK_DEADLOCK FALSE
INVARIANT Consistent
PROPERTIES
  StepsWithinWindow
  CliqueNoticed
