\* Two runs of the command lines of MCCliRun, every failure and every kill.
SPECIFICATION FairSpec
CONSTANTS
  CommandLines <- MCCommandLines
  Files <- MCFiles
  ManifestBeside <- MCManifestBeside
  FatalMrt <- MCFatalMrt
  FatalManifest <- MCFatalManifest
  Unbuildable <- MCUnbuildable
  MaxRuns = 2
INVARIANTS
  TypeOK
  PublishedUntilRewritten
  FileBeforeManifest
  NoCorpusNoFile
  FatalFilesExtendMain
PROPERTIES
  RunsEnd
CHECK_DEADLOCK FALSE
