SPECIFICATION Spec
CONSTANTS
  Clients = {c1, c2, c3}
  None = None
  Backlog = 2
  CommandKinds <- AllKinds
  StationMayGoSilent = TRUE
SYMMETRY Symmetry
INVARIANTS
  ReplyGoesToRequester
  OneCommandAtATime
  AtMostOneReply
  OkMeansExecutedOnce
  NoLostStart
  WaitIsJustified
PROPERTIES
  MeasuringDropsNothing
  ServesOneByOne
CHECK_DEADLOCK FALSE
