SPECIFICATION Spec
CONSTANTS
  shop = shop
  docs = docs
  site = site
  api = api
  manual = manual
  Ingresses = {shop, docs}
  Contents <- TwoIngresses
  NoService = NoService
  Beginnings <- TokenBeginnings
  Traffic <- Mixed
  MaxChanges = 2
  MaxFailures = 0
INVARIANT SpecificToHost
CHECK_DEADLOCK FALSE
