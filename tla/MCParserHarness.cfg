\* Three runs of two versions over one directory.
SPECIFICATION FairSpec
CONSTANTS
  Versions <- MCVersions
  AllKinds <- MCAllKinds
  RouteFiles <- MCRouteFiles
  Selections <- MCSelections
  Known <- MCKnown
  MaxRuns = 3
INVARIANTS
  MainSlicesMatch
  RunnersSeeThisRun
  ExitCodeTellsAll
PROPERTIES
  RunsEnd
CHECK_DEADLOCK FALSE
