SPECIFICATION Spec
CONSTANTS
  Replica = {p1}
  Session = {s1}
  Message = {m1}
  Deletion = {}
  Creation = {}
  None = None
  RequestTimeout = 2
  LockMargin = 2
  Slack = 1
  SessionTtl = 1
  MaxCrashes = 0
PROPERTY NoExpiryDuringRun
