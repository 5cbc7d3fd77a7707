SPECIFICATION FairSpec
CONSTANTS
  Clients = {c1, c2}
  None = None
  Backlog = 1
  CommandKinds <- WellFormed
  StationMayGoSilent = FALSE
PROPERTIES
  CustomCommandsAnswered
  ExitEndsOrBlocks
CHECK_DEADLOCK FALSE
