SPECIFICATION Spec
CONSTANTS
  Keys = {k1, k2}
  Plain = Plain
  MaxWrites = 2
  MaxOps = 3
  MaxFaults = 2
INVARIANTS ConversionKeepsRows SessionOpensFile
CHECK_DEADLOCK FALSE
