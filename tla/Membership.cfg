SPECIFICATION Spec
CONSTANTS
  Worker = {w1, w2}
  Person = {p1}
  None = None
  StudentLimit = 1
  MaxClaim = 2
  MaxCreated = 2
  MaxFault = 1
INVARIANTS RolesAreVouched SeatsNearLimit CacheIsFresh
PROPERTIES DecisionIsFinal
