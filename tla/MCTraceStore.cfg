CONSTANTS
  Trace = {t1, t2, t3}
  SpanId = {a, b}
  Client = {c1, c2}
  MaxTraces = 2
  MaxBatch = 2
  MaxPosts = 3
  MaxGraphs = 1
SPECIFICATION Spec
SYMMETRY StoreSymmetry
INVARIANTS StoreConsistent NoSpanTwice KeepsTheLatest ViewCoversStore
CHECK_DEADLOCK FALSE
