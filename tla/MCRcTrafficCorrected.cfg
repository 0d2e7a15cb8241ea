CONSTANTS
  v1 = v1
  v2 = v2
  p1 = p1
  p2 = p2
  VLs = {v1}
  Ports = {p1, p2}
  NumPriorities = 2
  LowerTicks = 2
  SizeMod = 16
  Corrections <- BackAndForth
  MaxShift = 2
  MaxLower = 1
  Dest <- TwoDests
  Bag <- Bags
  Jitter <- Jitters
  Priority <- FirstThenSecond
  Capacity <- TwoFrames
  Ticks <- FrameTicks
  Bytes <- FrameBytes
  DoubleBuffer = {}
  DropNew = {v1}
  Switched = {v1}
SPECIFICATION Spec
INVARIANTS
  TypeOK
PROPERTY
  PacedPorts
