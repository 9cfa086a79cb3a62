SPECIFICATION Spec
CONSTANTS
  Closers = {q1}
  Acks <- GoodAck
  Pushes <- FencePushes
  MaxPush = 3
INVARIANT OtherErrorsAreDisconnections
CHECK_DEADLOCK FALSE
