\* A server that answers with an array holding an error.
SPECIFICATION Spec
CONSTANTS
  Callers = {p1}
  Conns = {c1}
  None = None
  CfgMaxIdle = 1
  CfgMaxActive = 0
  CfgTimeout = 0
  Password = FALSE
  Requests <- PlainRequests
  Replies <- NestedReplies
INVARIANT NestedErrorIsFatal
