SPECIFICATION FairSpec
CONSTANTS
  Clients = {c1, c2}
  None = None
  Backlog = 1
  CommandKinds <- WellFormed
  StationMayGoSilent = FALSE
PROPERTIES
  ExitEndsProcess
CHECK_DEADLOCK FALSE
