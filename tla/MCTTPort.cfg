SPECIFICATION FairSpec
CONSTANTS
  A = A
  B = B
  Pcf = Pcf
  Rc = Rc
  Be = Be
  Buffers = {A, B}
  Cycle <- McCycle
  CommonCycle = 12
  SendWindowStart <- McStart
  ReceiveStart <- McReceiveStart
  ReceiveEnd <- McReceiveEnd
  Pit <- McPit
  DoubleBuffer = {B}
  Capacity <- McCapacity
  TTTicks <- McTTTicks
  Frames = {Pcf, Rc, Be}
  Class <- McClass
  Ticks <- McTicks
  SafetyMargin = 1
  AllowedEventDelay <- Always
  Corrections <- BothWays
  CorrectionGap = 4
  SyncInWindow = FALSE
  Switched = {}
  MaxQueue = 2
INVARIANTS
  InOrder
  SentInWindow
  SentInItsCycle
  IdleOnlyWhenBlocked
PROPERTY
  QueuesDrain
