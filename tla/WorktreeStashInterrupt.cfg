SPECIFICATION Spec
CONSTANTS
  Hunks = {h1, h2}
  Intents = {f1}
INVARIANTS
  InterruptRestores
