SPECIFICATION Spec
CONSTANTS
  Worker = {w1, w2}
  Item = {video, reading}
  video = video
  whole = whole
  None = None
  Duration = 3
  Threshold = 2
  Slack = 1
  Speed = {0, 1, 2}
  Full = 1
  MaxTime = 4
  MaxRequest = 3
  MaxFault = 1
INVARIANTS WatchedIsPlausible ProgressHolds
SYMMETRY Symmetry
