\* The configurations of MCGeneratedCorpus.cfg, against what the comment on
\* corpus_peers says.
SPECIFICATION Spec
CONSTANTS
  U32 = 1000000
  U16Max = 100
  Keepalives = 3
  BodyLen <- MCBodyLen
  MaxPushes = 0
  Bases = {0, 999998}
  Generated <- MCGenerated
  Configs <- MCConfigs
  Program <- MCProgram
INVARIANTS
  EveryValidRibResolves
CHECK_DEADLOCK FALSE
