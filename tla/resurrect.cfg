SPECIFICATION Spec
CONSTANTS
  Replica = {p1}
  Session = {s1}
  Message = {m1}
  Deletion = {d1}
  Creation = {}
  None = None
  RequestTimeout = 1
  LockMargin = 2
  Slack = 1
  SessionTtl = 3
  MaxCrashes = 0
INVARIANT DeletedStaysDeleted
