CONSTANTS
  Cap = 2
  BatchSize = 2
  Attempts = 2
  MaxSpans = 4
  MaxFailures = 2
SPECIFICATION Spec
PROPERTY DropsOldest
CHECK_DEADLOCK FALSE
