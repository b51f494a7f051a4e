SPECIFICATION Spec
CONSTANTS
  Hubs = {h1, h2}
  Routes = {r1, r2}
  Suppliers = {s1, s2}
  Horizons = {30, 60}
  None = None
  Seeded = 2
  MaxVersion = 3
INVARIANTS TypeOK ShownIsAsked
CHECK_DEADLOCK FALSE
