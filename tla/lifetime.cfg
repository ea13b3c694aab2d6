SPECIFICATION Spec
CONSTANTS
  Replica = {p1}
  Session = {s1, s2}
  Message = {m1, m2}
  Deletion = {d1}
  Creation = {c1}
  None = None
  RequestTimeout = 1
  LockMargin = 2
  Slack = 1
  SessionTtl = 3
  MaxCrashes = 0
SYMMETRY Interchangeable
VIEW Live
INVARIANTS EveryKeyExpires HistoriesAreOwn NoClosedAgentCached UsageCoversHistory
PROPERTIES NoLostUpdate
