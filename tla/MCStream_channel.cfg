SPECIFICATION FairSpec
CONSTANTS
  Closers = {q1, q2}
  Acks <- AckKinds
  Pushes <- ChannelPushes
  MaxPush = 4
PROPERTIES ImplementsLog OpenReturns NextUnblocks
INVARIANTS ReasonIsTrue CloseMeansReleased
CHECK_DEADLOCK FALSE
