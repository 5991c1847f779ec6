SPECIFICATION FairSpec
CONSTANTS
  Worker = {w1, w2}
  None = None
  MaxSends = 1
  MaxAttempts = 1
  MaxCode = 2
  MaxGuess = 3
  MaxFault = 1
INVARIANTS CodeHolds SendsWithinCap
PROPERTIES CapEnds
