SPECIFICATION FairSpec
CONSTANTS
  a = a
  b = b
  c = c
  None = None
  Runs = {a, b, c}
  DeviceOf <- MCDeviceOf
  Canonical = {a, b}
  MaxTries = 2
PROPERTIES OneDaemonPerDevice StartupSettles LocksAreReleased
CHECK_DEADLOCK FALSE
