SPECIFICATION FairSpec
CONSTANTS
  HandModes = {0}
  Faults = {}
  Commands = {"set"}
  MotorMoves = FALSE
  AutoMoves = FALSE
  Loses = FALSE
  Late = FALSE
  Refuses = TRUE
  Orderly = TRUE
  Period = 1
  MaxLine = 1
  Unknown = Unknown
PROPERTIES
  CommandIsAnswered
  CycleIsMade
CHECK_DEADLOCK FALSE
