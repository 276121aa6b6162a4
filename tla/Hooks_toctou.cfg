CONSTANTS
  Modes <- MCSudoSandboxed
  Attacker = TRUE

SPECIFICATION Spec

INVARIANT UserPathsChecked

CHECK_DEADLOCK FALSE
