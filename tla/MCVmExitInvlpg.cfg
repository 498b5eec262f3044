SPECIFICATION ExitSpec
CONSTANTS
  Exiting <- AllExits
INVARIANTS
  InvlpgFlushesOperand
