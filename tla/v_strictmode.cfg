CONSTANTS
  h1 = h1
  k1 = k1
  k2 = k2
  r1 = r1
  Hubs = {h1}
  Routes = {r1}
  Sockets = {k1, k2}
  NoHub = NoHub
  NoSocket = NoSocket
  MaxSends = 0
  MaxUpdates = 0
  MaxFaults = 0
  MaxMounts = 2
SPECIFICATION FairSpec
CHECK_DEADLOCK FALSE
PROPERTY MountedOpens
