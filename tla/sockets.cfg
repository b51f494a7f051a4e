CONSTANTS
  h1 = h1
  k1 = k1
  k2 = k2
  r1 = r1
  Hubs = {h1}
  Routes = {r1}
  Sockets = {k1, k2}
  NoHub = NoHub
  NoSocket = NoSocket
  MaxSends = 2
  MaxUpdates = 2
  MaxFaults = 1
  MaxMounts = 1
SPECIFICATION FairSpec
CHECK_DEADLOCK FALSE
INVARIANTS TypeOK OneConnection CommandsInOrder HeartbeatWhileOpen
PROPERTIES AppliedInOrder SubscriberReleased UpdatesReach MountedOpens
