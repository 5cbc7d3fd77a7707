SPECIFICATION Spec
CONSTANTS
  HandModes = {0, 2}
  Faults = {}
  Commands = {"on", "set"}
  MotorMoves = FALSE
  AutoMoves = TRUE
  Loses = TRUE
  Late = FALSE
  Refuses = TRUE
  Orderly = TRUE
  Period = 1
  MaxLine = 1
  Unknown = Unknown
INVARIANTS
  TypeOK
  ModeIsKnown
  DataIsTagged
  OkMeansAccepted
CHECK_DEADLOCK FALSE
