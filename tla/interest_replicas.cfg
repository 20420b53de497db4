SPECIFICATION Spec
CONSTANTS
  s1 = s1
  s2 = s2
  home = home
  chat = chat
  Services = {s1, s2}
  Routes = {home, chat}
  Offers <- Replicas
  TTL = 1
  MaxLost = 1
  MaxRestarts = 1
  MaxBacklog = 1
INVARIANT
  TypeOK
PROPERTIES
  EvictionSparesLive
  SilentAfterShutdown
  LiveInterestReturns
  ForgottenAfterShutdown
CHECK_DEADLOCK FALSE
