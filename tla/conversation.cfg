SPECIFICATION Spec
CONSTANTS
  Replica = {p1, p2}
  Session = {s1}
  Message = {m1, m2, m3}
  Deletion = {}
  Creation = {}
  None = None
  RequestTimeout = 1
  LockMargin = 2
  Slack = 1
  SessionTtl = 3
  MaxCrashes = 0
SYMMETRY Interchangeable
INVARIANTS TypeOK HolderKeepsLock AckedIsStored RejectedNotStored
PROPERTIES ImplementsConversation OnlyOwnerReleases NoExpiryDuringRun
VIEW Live
