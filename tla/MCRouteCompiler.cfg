SPECIFICATION Spec
CONSTANTS
  U32 = 100000
  MaxRoutes = 2
  RouteLists <- MCRouteLists
  Formats <- MCFormats
  Bases <- MCBases
  Builds <- MCBuilds
INVARIANTS
  TypeOK
  ManifestMatchesFile
  NoLossyCast
  NoUnwrapPanic
  BlameIsDetermined
  OneRecordPerRoute
CHECK_DEADLOCK FALSE
