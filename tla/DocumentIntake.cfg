SPECIFICATION IntakeSpec
CONSTANTS
  w1 = w1
  w2 = w2
  u1 = u1
  u2 = u2
  Jobs = {1}
  Workers = {w1, w2}
  Serves <- ServesAll
  MaxAttempts = 2
  MaxFaults = 1
  WellFormedEans = {1, 2, 3, 4}
  AllowedVat = {0, 8, 16}
  Supplier = 1
  Uploads = {u1, u2}
  Sheets <- Contents
  JobOf <- OneJob
  Catalogs <- TwoCatalogs
  MaxEdits = 1
  Outages = TRUE
INVARIANTS
  ProcessedOnce
  JobTellsDocument
  FindingsExact
PROPERTIES
  ImplementsQueue
  CostJudgedByTermsInForce
SYMMETRY Alike
CHECK_DEADLOCK FALSE
