\* Commands and batches through one in-flight slot, on connections that say AUTH
\* first, with deadlines only where a context has one: what callers are promised,
\* that a cancelled call ends included.  One slot has one connection in use at a
\* time; a second identity would only let a dial overtake a close of the first.
SPECIFICATION FairSpec
CONSTANTS
  Callers = {p1, p2}
  Conns = {c1}
  None = None
  CfgMaxIdle = 0
  CfgMaxActive = 1
  CfgTimeout <- OptOut
  Password = TRUE
  Requests <- BatchRequests
  Replies <- TwoReplies
INVARIANTS OwnReplies SlotsExact DeadlineIsOwn ClosedIsFinal
PROPERTIES ImplementsService CancelReturns
