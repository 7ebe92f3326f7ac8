CONSTANTS
  Handle = {h1, h2, h3}
  Buffer = {b1, b2, b3}
  Element = {x}
  MinNonZeroCap = 1
  MaxLen = 2
SYMMETRY Symmetric
SPECIFICATION Spec
INVARIANTS RefcountIsExact AllocatedIfUsed
PROPERTIES ImplementsValues
