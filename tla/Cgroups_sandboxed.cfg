CONSTANTS
  i1 = i1
  i2 = i2
  Invocations <- MCInvocations
  DisableSandboxingValues = {FALSE}
  Crashes = TRUE

SYMMETRY MCSymmetry

SPECIFICATION Spec

INVARIANT TypeOK
INVARIANT TargetConfined
PROPERTY MemoryMaxMissingCause
CHECK_DEADLOCK FALSE
