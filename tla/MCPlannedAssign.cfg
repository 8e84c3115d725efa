CONSTANTS
  Int64Max = 100
  Assignments <- MCAssignments
  Memory <- MCMemory
  Workers = {w1, w2}
  Length = 2
  GrainSize = 4
  MaxOperands = 4
SPECIFICATION Spec
INVARIANTS TypeOK ElementwiseResult PlannerCheckRedundant
PROPERTY ImplementsElementwise
SYMMETRY Symmetry
