SPECIFICATION VcpuSpec
CONSTANTS
  Cores = {c1}
  HostCr0s <- MCHostCr0s
  HostCr4s <- MCHostCr4s
  Cr0Fixed0 <- MCCr0Fixed0
  Cr0Fixed1 <- MCCr0Fixed1
  Cr4Fixed0 <- MCCr4Fixed0
  Cr4Fixed1 <- MCCr4Fixed1
PROPERTIES
  Cr0CheckIsExact
