CONSTANTS
  v1 = v1
  v2 = v2
  p1 = p1
  p2 = p2
  VLs = {v1, v2}
  Ports = {p1, p2}
  NumPriorities = 2
  LowerTicks = 2
  SizeMod = 16
  Corrections <- NoCorrection
  MaxShift = 0
  MaxLower = 1
  Dest <- TwoDests
  Bag <- Bags
  Jitter <- Jitters
  Priority <- FirstThenSecond
  Capacity <- TwoFrames
  Ticks <- FrameTicks
  Bytes <- FrameBytes
  DoubleBuffer = {v2}
  DropNew = {}
  Switched = {}
SPECIFICATION FairSpec
INVARIANTS
  OneFramePerGap
  LowerYields
  QueueSizeCached
PROPERTIES
  LowerStartsAlone
  EveryFrameLeaves
