\* Slices and recovery corpora of the corpora of MCCorpusSlicer.
SPECIFICATION Spec
CONSTANTS
  Octets <- MCOctets
  Kinds <- MCKinds
  MrtTypes <- MCMrtTypes
  Corpora <- MCCorpora
  Jobs <- MCJobs
INVARIANTS
  SliceIsACorpus
  MismatchShowsInSizes
  RecoveryIsDamagedThenSentinel
CHECK_DEADLOCK FALSE
