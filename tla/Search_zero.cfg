SPECIFICATION Spec
CONSTANTS
  Builders = {b1}
  States = {s1, s2}
  Cap = 1
  Cursors = {}
  Limits = {0}
  Unset = Unset
  MaxSize = 2
  MaxDepth = 1
  Reentrant = FALSE
PROPERTY ZeroIsNoLimit
