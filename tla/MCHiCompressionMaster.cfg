SPECIFICATION Spec
CONSTANTS
  Cycle = 7
  Precision = 1
  AcceptanceWindow = 2
  ScheduledPit = 3
  MaxIcys = 2
  ObservationWindow = 1
  MaxWindows = 2
  Overhead = 0
  Faulty = 1
  DispatchDelay = 3
  ListenTimeout = 2
  RestartTimeout = 2
  IntegrateToSync = 2
  UnsyncToSync = 2
  UnsyncToTentative = 1
  TentativeThresholdSync = 1
  TentativeThresholdAsync = 2
  TentativeToSync = 2
  SyncThresholdSync = 1
  SyncThresholdAsync = 2
  StableThresholdSync = 1
  StableThresholdAsync = 1
  NumStable = 1
  NumUnstable = 1
  ToStableEnabled = TRUE
  Recorded <- McRecorded
  Memberships <- McMemberships
  PermanenceDelays <- McDelays
  MaxFrames = 2
INVARIANT Consistent
PROPERTIES
  StepsWithinWindow
  CliqueNoticed
