CONSTANTS
  Blocks = {p, q}
  Streams = {s, t}
  Null = null
  Blocking = {s, t}
  Homes = {s, null}
  None = none
  MaxTensors = 2
  MaxOperands = 1
  MaxQueue = 2
SPECIFICATION Spec
INVARIANTS TypeOK SafeReuse
PROPERTIES DefaultStreamJoins Recycled
