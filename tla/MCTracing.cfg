SPECIFICATION Spec
CHECK_DEADLOCK FALSE
CONSTANTS
  g1 = g1
  g2 = g2
  Goroutines = {g1, g2}
  Servers = {g1}
  Hooks = {"echo", "job", "cli"}
  Rate = "part"
  MaxSpans = 2
  MaxDepth = 2
  MaxToggles = 1
INVARIANTS
  TreesWhole OwnStatus OneTrace
