SPECIFICATION FairSpec
CONSTANTS
  Builders = {b1, b2}
  States = {s1, s2}
  Cap = 1
  Cursors = {0, 2}
  Limits = {2}
  Unset = Unset
  MaxSize = 3
  MaxDepth = 2
  Reentrant = FALSE
INVARIANTS YieldsInOrder CursorIsCallers
PROPERTIES YieldsWhole RangeEnds
