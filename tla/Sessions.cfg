SPECIFICATION Spec
CONSTANTS
  Worker = {w1, w2}
  Tab = {t1, t2}
  None = None
  Refused = Refused
  Cleared = Cleared
  MaxFailed = 2
  MaxIssue = 3
  MaxGuess = 2
  MaxSlip = 1
INVARIANTS RotatedOnce KeptWhileAlone OldSessionsEnd SignInIsGuarded
SYMMETRY Symmetry
