CONSTANTS
  Int64Max = 1000
  Owners = {x, y}
  Views = {v}
  Storages = {100, 200}
  Buffer = 300
  BufferSize = 3
  Shapes <- MoveShapes
  Explicit = {}
  Indices = {1}
  Steps = {1}
  MaxRank = 1
  MaxStride = 2
  MaxCopies = 1
  DeriveEmpty = FALSE
  ReuseMoved = TRUE
SPECIFICATION Spec
INVARIANT InBounds
