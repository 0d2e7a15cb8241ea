SPECIFICATION Spec
CONSTANTS
  t1 = t1
  n1 = n1
  Listeners = {t1}
  Notifiers = {n1}
  NumApns = 2
  SequenceMax = 10
  HalfRing = 5
  MaxChanges = 2
  Serialised = TRUE
  Fifo = FALSE
  Drained = TRUE
  MaxPhoneCrashes = 0
  MaxCrashes = 1
  MaxStops = 1
CHECK_DEADLOCK FALSE
PROPERTY
  ImplementsStateSync
