SPECIFICATION Spec
CONSTANTS
  r1 = r1
  r2 = r2
  d1 = d1
  d2 = d2
  s1 = s1
  Requests = {r1, r2}
  Reverses = {d1}
  Services = {s1}
  QueueGroups <- OneGroup
  RespChanBuffer = 1
  PublishOnly = {r2}
  LossyInbox = TRUE
  MaxChunks = 1
  MaxCrashes = 1
INVARIANTS
  OneVoice
PROPERTIES
  ImplementsReplyStream
  EveryExchangeEnds
CHECK_DEADLOCK FALSE
