SPECIFICATION Spec
CONSTANTS
  c1 = c1
  c2 = c2
  d1 = d1
  k1 = k1
  k2 = k2
  s1 = s1
  Conns = {c1}
  Keys = {k1}
  Sessions = {}
  Reverses = {d1}
  DataGroups <- OneGroup
  SendBuffer = 1
  ControlMayFail = TRUE
  MaxFrames = 3
  MaxMessages = 3
  MaxTraffic = 3
  MaxCrashes = 1
INVARIANTS
  TypeOK
  FramesContiguous
  
  StrayWasOvertaken
PROPERTIES
  ConnectionEnds
  BackendFollowsClient
CHECK_DEADLOCK FALSE
