SPECIFICATION Spec
CONSTANTS
  Nodes <- McNodes
  Root = "source"
  Up <- McUp
  Streams <- McStreams
  Bandwidth <- McBandwidth
  Reservable <- McReservable
  Sinks <- McSinks
  NodeOf <- McNodeOf
  StreamOf <- McStreamOf
  UpdateInterval <- McUpdate
  RetryInterval <- McRetry
  AgingTime = 5
  MaxDelay = 1
INVARIANT Sound
PROPERTY StaysServed
