SPECIFICATION Spec
CONSTANTS
  Handles = {h1, h2}
  Arrays = {a1, a2, a3, a4, a5}
  Unset = Unset
  Used <- Words
  Targets <- SomeTargets
  MaxEndpoints = 2
  MaxCalls = 4
INVARIANTS OwnFilters OnceInOrder FenceOrQuery AreaWhole PipelineExact EndpointsArrive
SYMMETRY Symmetry
CHECK_DEADLOCK FALSE
