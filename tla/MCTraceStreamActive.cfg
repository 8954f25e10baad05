CONSTANTS
  Trace = {t1, t2}
  SpanId = {a, b}
  NoTrace = NoTrace
  MaxTraces = 1
  MaxPosts = 3
  MaxPicks = 1
SPECIFICATION Spec
INVARIANT ShowsActiveTrace
CHECK_DEADLOCK FALSE
