SPECIFICATION Spec
CONSTANTS
  Request = {r1, r2, r3}
  None = None
  Rpm = 2
  MaxStreams = 1
  Minute = 2
  StreamTtl = 3
  MaxClock = 4
  MaxFaults = 1
SYMMETRY Interchangeable
VIEW Live
INVARIANTS TypeOK NoPhantomSlot CapBeforeResponse MinuteCap
