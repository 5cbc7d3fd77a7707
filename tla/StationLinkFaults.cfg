SPECIFICATION Spec
CONSTANTS
  HandModes = {0}
  Faults = {2}
  Commands = {}
  MotorMoves = TRUE
  AutoMoves = FALSE
  Loses = TRUE
  Late = FALSE
  Refuses = TRUE
  Orderly = TRUE
  Period = 1
  MaxLine = 1
  Unknown = Unknown
INVARIANTS
  ClearedMeansClear
  MotorIsReported
CHECK_DEADLOCK FALSE
