\* No call of Cursor or Limit, so that where a range starts is the client's doing alone.
SPECIFICATION Spec
CONSTANTS
  Builders = {b1, b2}
  States = {s1, s2}
  Cap = 1
  Cursors = {}
  Limits = {}
  Unset = Unset
  MaxSize = 2
  MaxDepth = 2
  Reentrant = TRUE
INVARIANT SecondIterStartsOver
