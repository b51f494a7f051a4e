CONSTANTS
  s1 = s1
  s2 = s2
  r1 = r1
  b1 = b1
  b2 = b2
  position1 = position1
  fuel1 = fuel1
  fuel2 = fuel2
  Instances = {b1, b2}
  Routes = {r1}
  Ships = {s1, s2}
  RouteOf <- PairRouteOf
  Partitions <- PairPartitions
  TopicOf <- PairTopicOf
  PartitionOf <- PairPartitionOf
  Malformed = Malformed
  Noisy = {position1}
  Nobody = Nobody
  Window = 1
  FlushLatency = 1
  MaxTime = 2
  MaxOffset = 1
  MaxFaults = 1
SPECIFICATION Spec
INVARIANTS OneFate SameKeyOtherInstance RowSurvives
SYMMETRY PairSymmetry
