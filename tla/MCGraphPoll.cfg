CONSTANTS
  Poll = {p1, p2}
  MaxUploads = 2
  MaxFailures = 1
  MaxRestarts = 1
SPECIFICATION Spec
INVARIANTS PairOfOnePoll
PROPERTIES GraphStays GraphCatchesUp
