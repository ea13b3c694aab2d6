SPECIFICATION FairSpec
CONSTANTS
  NAgents = 2
  None = None
  Broken = Broken
  MaxEdits = 1
CHECK_DEADLOCK FALSE
PROPERTY ChangesApply
