CONSTANTS
  Modes <- MCSudoUnsandboxed
  Attacker = FALSE

SPECIFICATION Spec

INVARIANT TargetNeverRoot

CHECK_DEADLOCK FALSE
