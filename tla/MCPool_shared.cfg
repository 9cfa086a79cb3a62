\* Two callers on a pool that keeps one connection: every interleaving of calls,
\* cancellations, timeouts, hang-ups and Close.
SPECIFICATION Spec
CONSTANTS
  Callers = {p1, p2}
  Conns = {c1, c2, c3}
  None = None
  CfgMaxIdle = 1
  CfgMaxActive = 0
  CfgTimeout = 1
  Password = FALSE
  Requests <- DoRequests
  Replies <- FlatReplies
SYMMETRY Symmetry
INVARIANTS TypeOK Exclusive OpenIsOwned NoLateClose PooledIsQuiet
