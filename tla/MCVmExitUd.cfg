SPECIFICATION ExitSpec
CONSTANTS
  Exiting <- AllExits
INVARIANTS
  VmxInsnFaultsUd
