CONSTANTS
  route = route
  supplier = supplier
  Nothing = Nothing
  Requests = {r1, r2}
  Keys = {route, supplier}
  EndpointOf <- Endpoints
  Verdicts <- AllVerdicts
  TTL = 2
  Timeout = 1
  LastArrival = 2
  MaxOutage = 1
  MaxFaults = 1
SPECIFICATION FairSpec
INVARIANTS TypeOK BoundedStaleness ServedIsStored
PROPERTY EveryRequestEnds
CHECK_DEADLOCK FALSE
