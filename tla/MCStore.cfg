SPECIFICATION SomeFairSpec
CONSTANTS
  run = run
  other = other
  gc = gc
  c1 = c1
  c2 = c2
  r1 = r1
  r2 = r2
  e1 = e1
  e2 = e2
  v1 = v1
  Commands = {run, other}
  Collectors = {gc}
  Configs = {c1, c2}
  Repos = {r1}
  Envs = {e1, e2}
  Tools = {v1}
  Kind <- RunAndPrepare
  ConfigOf <- OwnConfigs
  Unchecked = {}
  MaxEdits = 1
INVARIANT TrackingKept
INVARIANT UsedIsPresent
PROPERTY ProcessesEnd
