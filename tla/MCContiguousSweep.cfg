CONSTANTS
  Length = 2
  Align = 2
  Packet = 2
  GrainSize = 6
  SizeMod = 1000
  MaxSize = 15
  Addresses = {0, 1}
  Workers = {w1, w2}
SPECIFICATION Spec
INVARIANTS TypeOK OnceEach AccessesLegal
SYMMETRY Symmetry
