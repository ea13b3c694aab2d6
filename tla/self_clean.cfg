SPECIFICATION FairSpec
CONSTANTS
  Request = {r1}
  None = None
  Rpm = 0
  MaxStreams = 1
  Minute = 2
  StreamTtl = 3
  MaxClock = 4
  MaxFaults = 1
PROPERTY CounterSelfCleans
