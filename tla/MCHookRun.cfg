SPECIFICATION MCSpec
CONSTANTS
  Projects <- MCProjects
  Hooks <- MCHooks
  ProjectOf <- MCProjectOf
  Priority <- MCPriority
  Depth <- MCDepth
  Nested <- MCNested
  Kind <- MCKind
  HookFailFast = {"lint"}
  ProjectFailFast = {"lib"}
  Writes <- MCConfined
  HookConcurrency = 2
  Content <- MCContent
  Indexed = 0
  Unknown = Unknown
INVARIANTS
  SuccessMeansUnchanged
  BlamedForOwnEdits
  FailFastHonoured
PROPERTIES
  Termination
  ImplementsOrderedRun
