\* All 128 configurations of the generator: every combination of the switches,
\* both profiles, no tail or one of the three.  And two pushes and a tail, from
\* a base timestamp with room and one that overflows on the third record.
SPECIFICATION FairSpec
CONSTANTS
  U32 = 1000000
  U16Max = 100
  Keepalives = 3
  BodyLen <- MCBodyLen
  MaxPushes = 2
  Bases = {0, 999998}
  Generated <- MCGenerated
  Configs <- MCConfigs
  Program <- MCProgram
INVARIANTS
  TypeOK
  ManifestMatchesFile
  CountsMatchEntries
  TimestampsFollowIndex
  WalkInStep
  WalkFindsEveryRecord
  PeerIndicesMeanTheirClass
PROPERTIES
  StreamPromise
  WalkEnds
CHECK_DEADLOCK FALSE
