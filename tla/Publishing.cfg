SPECIFICATION Spec
CONSTANTS
  Worker = {w1, w2}
  Task = {t1, t2}
  File = {short, long}
  None = None
  MaxRequest = 3
  MaxUpload = 2
  MaxClip = 2
  MaxFault = 1
SYMMETRY Alike
INVARIANTS  NothingIsParked LiveCourseIsReady VersionsHold
