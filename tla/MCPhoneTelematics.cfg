SPECIFICATION Spec
CONSTANTS
  t1 = t1
  n1 = n1
  Listeners = {t1}
  Notifiers = {n1}
  NumApns = 2
  SequenceMax = 6
  HalfRing = 3
  MaxChanges = 3
  Serialised = TRUE
  Fifo = TRUE
  Drained = TRUE
  MaxPhoneCrashes = 1
  MaxCrashes = 2
  MaxStops = 0
CHECK_DEADLOCK FALSE
INVARIANTS
  CaughtUp
PROPERTY
  RecoversWithReceiver
