SPECIFICATION Spec
CONSTANTS
  HandModes = {0}
  Faults = {}
  Commands = {"set"}
  MotorMoves = FALSE
  AutoMoves = FALSE
  Loses = FALSE
  Late = TRUE
  Refuses = TRUE
  Orderly = TRUE
  Period = 1
  MaxLine = 1
  Unknown = Unknown
INVARIANTS
  OkMeansAccepted
CHECK_DEADLOCK FALSE
