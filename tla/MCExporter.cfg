CONSTANTS
  Cap = 2
  BatchSize = 2
  Attempts = 2
  MaxSpans = 3
  MaxFailures = 3
SPECIFICATION FairSpec
INVARIANTS NothingVanishes WakeupNotLost FlushedOnStop CopiesPaidByFailures
PROPERTIES ImplementsDelivery EventuallyDelivered StopsEventually
CHECK_DEADLOCK FALSE
