CONSTANTS
  a = a
  b = b
  c = c
  d = d
  ab1 = ab1
  ab2 = ab2
  bc1 = bc1
  bc2 = bc2
  ac = ac
  ad = ad
  dc = dc
  Hubs = {a, b, c, d}
  Routes = {ab1, ab2, bc1, bc2, ac, ad, dc}
  From <- HopFrom
  To <- HopTo
  Distance <- Length
  PerKm <- ModeTable
  Fleets <- SomeFleets
  Adjustments <- Storm
  Actives <- SomeRoutes
  Requests <- SomeCalls
  K = 2
  MaxOffspring = 2
SPECIFICATION Spec
INVARIANTS TypeOK FrontsAreLayers AnswerSound NothingBetterLeftOut OptimumOffered
CHECK_DEADLOCK FALSE
