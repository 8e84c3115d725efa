CONSTANTS
  Int64Max = 1000
  Owners = {x}
  Views = {v}
  Storages = {100}
  Buffer = 300
  BufferSize = 3
  Shapes <- ChainShapes
  Explicit <- ChainExplicit
  Indices <- ChainIndices
  Steps <- ChainSteps
  MaxRank = 3
  MaxStride = 3
  MaxCopies = 0
  DeriveEmpty = FALSE
  ReuseMoved = FALSE
SPECIFICATION Spec
INVARIANTS TypeOK InBounds CachesTruthful DerivedStayWritable ViewExact
