\* What fails a run by default, against README.md, run-docker.sh and
\* bgpdump_check.sh.
SPECIFICATION Spec
CONSTANTS
  Kinds <- MCKinds
  Fatals <- MCFatals
  CutFatals <- MCCutFatals
  Rules <- MCRules
INVARIANT
  OnlyCrashesFailByDefault
CHECK_DEADLOCK FALSE
