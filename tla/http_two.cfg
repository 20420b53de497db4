SPECIFICATION Spec
CONSTANTS
  r1 = r1
  r2 = r2
  d1 = d1
  d2 = d2
  s1 = s1
  Requests = {r1, r2}
  Reverses = {d1}
  Services = {}
  QueueGroups <- OneGroup
  RespChanBuffer = 2
  PublishOnly = {}
  LossyInbox = FALSE
  MaxChunks = 2
  MaxCrashes = 0
INVARIANTS
  TypeOK
  InOrder
  SkippedWereLost
  CompletedHasEnd
  WholeBody
  HonestStatus
  NoErrorPageInAnswer
PROPERTIES
  DropOnlyWhenFull
  ClosedThenUnknown
SYMMETRY Symmetric
CHECK_DEADLOCK FALSE
