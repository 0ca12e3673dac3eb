SPECIFICATION FairSpec
CONSTANTS
  Hunks = {h1, h2}
  Intents = {f1}
INVARIANTS
  Recoverable
  RestoredAtExit
  RevertNeverSucceeds
PROPERTIES
  ProcessEnds
