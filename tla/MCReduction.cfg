CONSTANTS
  Calls <- MCCalls
  Buffers = {x, y, z}
  None = none
  kMaxSlots = 4
  MaxBuffers = 8
SPECIFICATION Spec
INVARIANTS TypeOK ReducesOnce NoScratchRace PartialsBounded CountsExact FusedExact
PROPERTY Terminates
