CONSTANTS
  p1 = p1
  p2 = p2
  p3 = p3
  s1 = s1
  s2 = s2
  DaysPerWeek = 2
  Stores = {"north", "south"}
  Categories = {"drinks", "dairy", "food"}
  Products = {p1, p2, p3}
  SeasonalLag = 3
  Window = 2
  Lags = {1, 2}
  Scale = 2
  Batches <- BatchesDef
  Units = {0, 3}
  Horizons = {0, 1, 2}
  MinTrains = {1, 3}
  MaxHorizon = 2
  MaxMinTrain = 3
  Validation = 1
  Test = 1
  InitialDatabases <- InitialDatabasesDef
  MaxIngests = 2
  MaxEvaluations = 1
  Sessions = {s1, s2}
  MaxRuns = 3
  Output <- OutputDef
  Panels <- PanelsDef
  Errors = {0, 2, 3}
  Horizon = 1
  MaxVersion = 3
SPECIFICATION Spec
INVARIANT
  RegistrationProceeds
CHECK_DEADLOCK FALSE
