SPECIFICATION Spec
CONSTANTS
  Masters <- McMasters
  Cycle = 12
  Precision = 1
  AcceptanceWindow = 2
  MaxIcys = 5
  ReceivePit = 6
  ScheduledPit = 2
  DispatchDelay = 3
  TransmissionDelay = 1
  ObservationWindow = 1
  MaxWindows = 1
  ListenTimeout = 10
  ColdstartTimeout = 10
  RestartTimeout = 10
  CsOffset = 3
  CaOffset = 8
  CaRoundTrip = 7
  CaWindow = 2
  CaEnabledTimeout = 10
  Wait4InTimeout = 10
  NumStable = 1
  NumUnstable = 1
  DriftGap = 24
  Lags <- McLags
INVARIANT Agreement
PROPERTY ColdStarts
