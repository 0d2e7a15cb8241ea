CONSTANTS
  p1 = p1
  p2 = p2
  tt = tt
  tc = tc
  Periods = {p1, p2}
  TTClients = {tt}
  TimerClients = {tc}
  Osc = osc
  Sync = sync
  PeriodOf <- TwoPeriods
  ActionTime <- Windows
  CycleTicks <- LongAndShort
  OffsetTicks <- OffsetTwo
  Delays = {0, 1, 4}
  PreciseTick = 12
  MaxDrift = 1
  DriftStep = 1
  Precision = 1
  AllowedEventDelay = 2
  MaxTime = 270
SPECIFICATION Spec
INVARIANTS
  TypeOK
  NoOverflow
  HandlersSeeFreshClock
  WakesForNext
  CyclicEventsKept
  ClockFollowsGlobalTime
PROPERTIES
  TimerOnTime
  ActionOnSlot
CHECK_DEADLOCK FALSE
