SPECIFICATION FairSpec
CONSTANTS
  r1 = r1
  r2 = r2
  Request = {r1, r2}
  Asks <- Mixed
  Shared = Shared
  None = None
  MaxChunks = 2
VIEW Live
CHECK_DEADLOCK FALSE
INVARIANTS TypeOK MetricsAreTrue StreamIsWhole CleanStop
PROPERTIES ImplementsExchange EverythingEnds
