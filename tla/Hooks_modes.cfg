CONSTANTS
  Modes <- MCAllModes
  Attacker = TRUE

SPECIFICATION Spec

INVARIANT TypeOK
INVARIANT TargetFds
INVARIANT StdioDetachedBeforeExec
INVARIANT RootOpensChecked
PROPERTY MainOpensAsUser

CHECK_DEADLOCK FALSE
