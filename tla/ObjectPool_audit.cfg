CONSTANTS
  NumPools = 1
  PerSegment = 1
  MaxSegments = 3
  DeltaLimit = 1
  NumOwners = 2
  MaxMishaps = 1
  Nil = Nil
  Bad = Bad
SPECIFICATION Spec
CHECK_DEADLOCK FALSE
INVARIANTS PoolTypeOK FreeIsUnused CountIsTrue OrphansReturn
PROPERTIES LiveSurvives FreeqIsRepaired
