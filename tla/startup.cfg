SPECIFICATION MCSpec
CONSTANTS
  m1 = m1
  m2 = m2
  s1 = s1
  s2 = s2
  Runners = {m1, m2}
  Seeders = {s1, s2}
  Files = 2
  Batches = 2
  MaxFaults = 2
  Clients = {backend, simulator}
  Backend = backend
  Simulator = simulator
  Topics = 2
  Build = new
  Older = old
  MaxAttempts <- OneMoreForTheSimulator
  LoadAttempts = 2
INVARIANTS TypeOK MigratedOnce SeededOnce RegisteredOnce
PROPERTY QuickstartScores
CHECK_DEADLOCK FALSE
