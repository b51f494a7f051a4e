CONSTANTS
  route = route
  supplier = supplier
  Nothing = Nothing
  Requests = {r1, r2}
  Keys = {route, supplier}
  EndpointOf <- Endpoints
  Verdicts <- Healthy
  TTL = 2
  Timeout = 1
  LastArrival = 2
  MaxOutage = 1
  MaxFaults = 0
SPECIFICATION Spec
INVARIANT ForecastStatus
CHECK_DEADLOCK FALSE
