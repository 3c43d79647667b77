CONSTANTS
  a = a
  b = b
  Zero = zero
  N = 4
  MaxLen = 5
  Val = {a, b, zero}
  Chunk <- MCChunk
  Count <- MCCount
  Shift <- MCShift
SPECIFICATION Spec
INVARIANTS TypeOK WrapConsistent
PROPERTY ImplementsTape
