CONSTANTS
  Int64Max = 16
  Cases <- MCCases
SPECIFICATION CheckSpec
INVARIANTS NoneIsDisjoint FullIsInPlace PartialIsShared InjectivityProof
CHECK_DEADLOCK FALSE
