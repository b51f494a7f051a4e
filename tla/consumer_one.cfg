CONSTANTS
  s1 = s1
  s2 = s2
  r1 = r1
  b1 = b1
  b2 = b2
  position1 = position1
  fuel1 = fuel1
  fuel2 = fuel2
  Instances = {b1}
  Routes = {r1}
  Ships = {s1}
  RouteOf <- SoloRouteOf
  Partitions <- SoloPartitions
  TopicOf <- SoloTopicOf
  PartitionOf <- SoloPartitionOf
  Malformed = Malformed
  Noisy = {}
  Nobody = Nobody
  Window = 2
  FlushLatency = 1
  MaxTime = 5
  MaxOffset = 2
  MaxFaults = 1
SPECIFICATION FairSpec
INVARIANTS TypeOK Accounted PublishInOrder
PROPERTIES ImplementsLedger FoldedSettles
