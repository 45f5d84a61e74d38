\* The configurations of MCGeneratedCorpus.cfg, against what the usage text
\* says of --no-valid and --no-skip.
SPECIFICATION Spec
CONSTANTS
  U32 = 1000000
  U16Max = 100
  Keepalives = 3
  BodyLen <- MCBodyLen
  MaxPushes = 0
  Bases = {0, 999998}
  Generated <- MCGenerated
  Configs <- MCConfigs
  Program <- MCProgram
INVARIANTS
  FlagsMeanWhatTheySay
CHECK_DEADLOCK FALSE
