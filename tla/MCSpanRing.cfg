CONSTANTS
  Cap = 4
  Event = {s1, s2, s3}
  None = None
SPECIFICATION Spec
INVARIANTS IndexesAgree
PROPERTY ImplementsQueue
