SPECIFICATION Spec
CHECK_DEADLOCK FALSE
CONSTANTS
  Projects <- MCProjects
  MaxScans = 2
INVARIANTS
  RoutesFound RoutesExact CommandsFound GraphFaithful SameGraphAgain SpansMapHome
