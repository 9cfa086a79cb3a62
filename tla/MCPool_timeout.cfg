\* An unset timeout becomes a default one: every call ends, and a closed pool drains.
SPECIFICATION FairSpec
CONSTANTS
  Callers = {p1, p2}
  Conns = {c1, c2}
  None = None
  CfgMaxIdle = 1
  CfgMaxActive = 1
  CfgTimeout = 0
  Password = FALSE
  Requests <- PlainRequests
  Replies <- OneReply
PROPERTIES CallReturns ClosedDrains
