SPECIFICATION Spec
CONSTANTS
  s1 = s1
  s2 = s2
  home = home
  chat = chat
  Services = {s1}
  Routes = {home, chat}
  Offers <- ChatOnly
  TTL = 1
  MaxLost = 0
  MaxRestarts = 0
  MaxBacklog = 2
INVARIANTS
  KnownWebSocketIsValid
CHECK_DEADLOCK FALSE
