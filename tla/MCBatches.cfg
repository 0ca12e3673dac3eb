SPECIFICATION BatchesSpec
CONSTANTS
  Inputs <- MCInputs
  ArgMax = 12
  Word = 32
  Bits = {1, 2}
INVARIANTS
  BatchedAsOne
  FitsTheLimit
