SPECIFICATION Spec
CONSTANTS
  shop = shop
  docs = docs
  site = site
  api = api
  manual = manual
  Ingresses = {shop, docs}
  Contents <- TwoIngresses
  NoService = NoService
  Beginnings <- TokenBeginnings
  Traffic <- Mixed
  MaxChanges = 2
  MaxFailures = 1
INVARIANTS
  TypeOK
  SubscriptionsFollowKnown
  SettledServesDesired
  
  FallbackHasCause
PROPERTIES
  FollowsIngresses
  HostIsServed
CHECK_DEADLOCK FALSE
