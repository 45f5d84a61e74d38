\* What the exit code of every runner says, in both modes.
SPECIFICATION Spec
CONSTANTS
  Kinds <- MCKinds
  Fatals <- MCFatals
  CutFatals <- MCCutFatals
  Rules <- MCRules
INVARIANTS
  StrictIsStricter
  BaselinesDoNotRot
  PassesAreEarned
CHECK_DEADLOCK FALSE
