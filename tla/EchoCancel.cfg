SPECIFICATION FairSpec
CONSTANTS
  Request <- MCRequest
  Answer <- MCAnswer
  Address = 9
  StrayBytes = {0, 9}
  MaxFaults = 2
INVARIANTS EchoOnlyAtAddress CleanExchange OwnEchoIsNoPacket
PROPERTY Recovers
