CONSTANTS
  NsPerSec = 3
  DisableSandboxingValues <- MCSandboxed
  Timeout <- MCTimeout
  StartClocks <- MCStartClocks
  MaxClock <- MCMaxClock
  ExitCodes = {0, 7}
  SyscallNrs = {165}
  RssKiB = {1}
  MemoryLimitInBytes = 2048
  VmMemorySizeInBytes = 1024

SPECIFICATION FairSpec

PROPERTY NoPrematureKill

CHECK_DEADLOCK FALSE
