SPECIFICATION FairSpec
CONSTANTS
  NAgents = 3
  None = None
  Broken = Broken
  MaxEdits = 3
CHECK_DEADLOCK FALSE
INVARIANTS TypeOK QuietMeansCurrent
PROPERTIES RegistryIsOneScan ReportedChangesApply
