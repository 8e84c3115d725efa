CONSTANTS
  Int64Max = 1000
  Owners = {x}
  Views = {v}
  Storages = {100, 200}
  Buffer = 300
  BufferSize = 3
  Shapes <- CopyShapes
  Explicit = {}
  Indices <- CopyIndices
  Steps = {1}
  MaxRank = 2
  MaxStride = 2
  MaxCopies = 1
  DeriveEmpty = FALSE
  ReuseMoved = FALSE
SPECIFICATION Spec
PROPERTY ImplementsArrays
