SPECIFICATION EptSpec
CONSTANTS
  FixedRegisters <- OneFixed
  PerRegister = 2
  LargePage = 4
  Entries = 2
  FixedTypes <- TwoTypes
  PairChoices <- TwoPairs
  Frames <- TwoFrames
  PhysPages = 32
INVARIANTS
  EptTypeOK
  IdentityMap
  UncachableWins
