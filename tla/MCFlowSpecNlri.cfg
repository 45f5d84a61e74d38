\* The rules of MCFlowSpecNlri, encoded, split and read back.
SPECIFICATION Spec
CONSTANTS
  Rules <- MCRules
  Samples <- MCSamples
INVARIANTS
  SplitUndoesFraming
  OnlyRawViolates
  ComponentsAreRecovered
  ListsMeanTheirItems
CHECK_DEADLOCK FALSE
