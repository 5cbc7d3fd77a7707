SPECIFICATION MCSpec
CONSTANTS
  Number <- MCNumber
  ZeroFirst <- MCZeroFirst
  Parts <- MCParts
  Devices <- MCDevices
  Rates <- MCRates
  Lines <- MCLines
  Commands <- MCCommands
  Filters <- MCFilters
  Contents <- MCContents
  Checksum <- Crc16
  Outgoing <- MCOutgoing
  Noises <- MCNoises
  Arrivals <- MCArrivals
  SyncTimes <- MCSyncTimes
INVARIANTS ForwardedIsSame LineNeverAbortsDaemon GatewayReadsWhatWasSent FrameIsReadBack RecordedOnce DamageIsDetected DeviationReportedOnce
CHECK_DEADLOCK FALSE
