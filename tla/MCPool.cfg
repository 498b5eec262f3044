SPECIFICATION PoolSpec
CONSTANTS
  MaxCpus <- MCMaxCpus
  Largest = 4
INVARIANTS
  PoolTypeOK
  NoLeak
  FreedOnce
  EachCoreItsVcpu
