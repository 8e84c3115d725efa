CONSTANTS
  Devices = {d0, d1}
  Scoped = {d0}
  Streams = {a, b}
  Null = null
  MaxGuards = 3
SPECIFICATION Spec
INVARIANTS TypeOK GuardsPinned NoIdleEntry
PROPERTY ImplementsStack
