SPECIFICATION Spec
CONSTANTS
  Request = {r1, r2}
  None = None
  Rpm = 0
  MaxStreams = 1
  Minute = 2
  StreamTtl = 3
  MaxClock = 4
  MaxFaults = 0
INVARIANT StreamCap
