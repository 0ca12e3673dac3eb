CONSTANTS
  Order <- MCOrder
  Lower <- MCLower
  BlockSize = 2
  Lanes = 1
  LaneMax = 1
  Broken <- MCBroken
  Keys <- MCKeys
  KeyBuffer = 2
  MergeBuffer = 2
  Links <- MCLinks
  Escapes <- MCEscapes
  Paths <- MCPaths
  Parents <- MCParents
  Folded <- MCFolded
  Targets <- MCTargets
  Kilobyte = 2
  Illegal = {"A", "d/a"}
  Tags <- MCTags
  Repositories <- MCRepositories
  Files = {"f", "g"}
  Lists <- MCLists
  Contents <- MCContents
  MaxErrors = 1
  MaxRuns = 3
SPECIFICATION Spec
CHECK_DEADLOCK FALSE
INVARIANTS PromisesKept ReportIsTrue SettlesAtOnce
