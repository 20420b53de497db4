SPECIFICATION Spec
CONSTANTS
  c1 = c1
  c2 = c2
  d1 = d1
  k1 = k1
  k2 = k2
  s1 = s1
  Conns = {c1, c2}
  Keys = {k1, k2}
  Sessions = {s1}
  Reverses = {d1}
  DataGroups <- OneGroup
  SendBuffer = 1
  ControlMayFail = FALSE
  MaxFrames = 1
  MaxMessages = 1
  MaxTraffic = 2
  MaxCrashes = 0
INVARIANTS
  FramesContiguous
  MessagesInOrder
  BackendsAreKnown
PROPERTY
  CloseIsCaused
CONSTRAINT Sparse
SYMMETRY Symmetric
CHECK_DEADLOCK FALSE
