SPECIFICATION Spec
CONSTANTS
  U32 = 100000
  MaxRoutes = 2
  RouteLists <- MCRouteLists
  Formats <- MCFormats
  Bases <- MCBases
  Builds <- MCBuilds
INVARIANT KindsIdentifyRecords
CHECK_DEADLOCK FALSE
