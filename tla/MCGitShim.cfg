SPECIFICATION SomeSpec
SYMMETRY Symmetry
CONSTANTS
  p1 = p1
  p2 = p2
  plain = plain
  manager = manager
  odd = odd
  Foreign = {plain, manager, odd}
  Migrating = {manager}
  Unreadable = {odd}
  Inert = {odd}
  Commands = {p1, p2}
  Pushes <- MCPushes
  MaxCommands = 3
  MaxOutside = 1
  MaxCalls = 1
INVARIANT PromiseKept
INVARIANT NoEndlessShims
INVARIANT AcceptedMeansPassed
INVARIANT PushCovered
CHECK_DEADLOCK FALSE
