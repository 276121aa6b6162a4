CONSTANTS
  i1 = i1
  i2 = i2
  Invocations <- MCInvocations
  DisableSandboxingValues = {TRUE}
  Crashes = FALSE

SYMMETRY MCSymmetry

SPECIFICATION Spec

INVARIANT TargetConfined
CHECK_DEADLOCK FALSE
