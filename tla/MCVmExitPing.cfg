SPECIFICATION ExitFairSpec
CONSTANTS
  Exiting <- PingExits
PROPERTIES
  PingReturns
