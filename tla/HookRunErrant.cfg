SPECIFICATION Spec
CONSTANTS
  Projects <- ChainProjects
  Hooks <- ChainHooks
  ProjectOf <- ChainProjectOf
  Priority <- ChainPriority
  Depth <- ChainDepth
  Nested <- ChainNested
  Kind <- ChainKind
  HookFailFast = {"webcmd"}
  ProjectFailFast = {"ui"}
  Writes <- ChainErrant
  HookConcurrency = 1
  Content <- MCContent
  Indexed = 0
  Unknown = Unknown
INVARIANTS
  BlamedForOwnEdits
