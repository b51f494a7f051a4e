SPECIFICATION FairSpec
CONSTANTS
  Hubs = {h1, h2}
  Routes = {r1}
  Suppliers = {s1}
  Horizons = {30}
  None = None
  Seeded = 1
  MaxVersion = 1
PROPERTY GraphDrawn
CHECK_DEADLOCK FALSE
