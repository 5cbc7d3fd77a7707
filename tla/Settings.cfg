SPECIFICATION FairSpec
CONSTANTS
  Table <- MCTable
  InPacket = {"current", "password"}
  OneByte = {"current"}
  Password = "password"
  PasswordValue = 1
  AtFirst <- MCAtFirst
  MaxValue = 2
  ByteValues = 2
  MaxMoves = 2
  MaxCrashes = 2
  MaxClock = 1
INVARIANTS EventsAreChained HandMeansHand NothingIsRepeated
PROPERTY DatabaseIsRight
CHECK_DEADLOCK FALSE
