CONSTANTS
  N = 7
  ByteBase = 2
  Inputs <- MCInputs
  Sizes = {0, 2, 3}
SPECIFICATION Spec
INVARIANTS TypeOK Accounting
PROPERTY RefinesBoundedFifo
