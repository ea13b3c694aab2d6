SPECIFICATION FairSpec
CONSTANTS
  Replica = {p1}
  Session = {s1}
  Message = {m1, m2}
  Deletion = {}
  Creation = {}
  None = None
  RequestTimeout = 1
  LockMargin = 2
  Slack = 1
  SessionTtl = 3
  MaxCrashes = 1
INVARIANT UsageCoversHistory
PROPERTIES EveryMessageAnswered LocksAreFreed
