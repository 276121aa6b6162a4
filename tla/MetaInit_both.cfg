CONSTANTS
  NsPerSec = 3
  DisableSandboxingValues <- MCBothModes
  Timeout <- MCTimeout
  StartClocks <- MCStartClocks
  MaxClock <- MCMaxClock
  ExitCodes = {0, 7}
  SyscallNrs = {165}
  RssKiB = {1}
  MemoryLimitInBytes = 2048
  VmMemorySizeInBytes = 1024

SPECIFICATION FairSpec

INVARIANT TypeOK
INVARIANT SeccompKillReported
INVARIANT StatusVerdictSound

PROPERTY SandboxedTermination
PROPERTY OutcomeRefined

CHECK_DEADLOCK FALSE
