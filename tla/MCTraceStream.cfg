CONSTANTS
  Trace = {t1, t2}
  SpanId = {a, b}
  NoTrace = NoTrace
  MaxTraces = 1
  MaxPosts = 3
  MaxPicks = 1
SPECIFICATION Spec
CHECK_DEADLOCK FALSE
INVARIANTS ShownBelongs TimelineComplete LiveMissesNothing HistoryIsFresh
PROPERTY PathBecomesVisible
