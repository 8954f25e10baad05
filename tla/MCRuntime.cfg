CONSTANTS
  Spans = {s1, s2, s3}
  Settings = {"off", "good", "bad"}
  MaxConfigures = 3
SPECIFICATION FairSpec
INVARIANTS OneLoop OffMeansQuiet OnMeansLive
PROPERTIES LostOnlyToShutdown ConfigureReturns
CHECK_DEADLOCK FALSE
