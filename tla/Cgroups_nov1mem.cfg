CONSTANTS
  i1 = i1
  i2 = i2
  Invocations <- MCInvocations
  DisableSandboxingValues = {FALSE}
  Crashes = FALSE

SYMMETRY MCSymmetry

SPECIFICATION Spec

INVARIANT MemoryCgroupExists
CHECK_DEADLOCK FALSE
