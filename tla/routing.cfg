SPECIFICATION Spec
CONSTANTS
  c1 = c1
  c2 = c2
  d1 = d1
  d2 = d2
  s1 = s1
  g1 = g1
  Clients = {c1}
  Offers <- SomeOffers
  HostFilters <- Filters
  Instances = {d1, d2}
  Hostnames <- SomeHostnames
  QueueGroups <- AloneOrGrouped
  Services = {s1}
  EndpointOf <- SomeEndpoint
  MaxFrames = 2
  MaxRefused = 1
INVARIANTS
  TypeOK
  ServedOncePerGroup
  LookupPathSurvives
  EntryHasConnection
PROPERTY
  LostHasCause
CHECK_DEADLOCK FALSE
