SPECIFICATION SomeSpec
SYMMETRY Symmetry
CONSTRAINT Bound
CONSTANTS
  p1 = p1
  p2 = p2
  top = top
  a = a
  ab = ab
  ftop = ftop
  fa = fa
  fab = fab
  Commands = {p1, p2}
  Dirs = {top, a, ab}
  Above <- MCAbove
  Files = {ftop, fa, fab}
  DirOf <- MCDirOf
  Tags <- MCTags
  NameTags <- MCNameTags
  Message = message
  Configs <- MCConfigs
  Rewrites <- Simple
  Requests <- MCRequests
  MaxStarts = 2
  MaxEdits = 1
INVARIANT CacheIsTransparent
INVARIANT SelectionIsExact
INVARIANT FilesByOwnership
CHECK_DEADLOCK FALSE
