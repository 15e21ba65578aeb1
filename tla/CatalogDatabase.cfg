CONSTANTS
  Migrators = {"p", "q"}
  Targets <- EveryRevision
  Watched = {"review_cases", "review_decisions", "review_audit_events"}
  l1 = l1
  l2 = l2
  Loaders = {l1, l2}
  FirstLoader = l1
  None = None
  Blank = Blank
  Garbled = Garbled
  NoFile = NoFile
  Misshapen = {"sku 1", "12"}
  Overlong = {"a very long name"}
  Largest = 50
  Generated <- BothDatasets
  Directories <- FirstDirectories
  MaxLoads = 3
  MaxWrites = 1
SPECIFICATION DatabaseSpec
INVARIANTS
  HeadServesModels
PROPERTIES
  UpgradesOnlyAdd
  LoadTellsTables
  OnlyKnownRefusals
CHECK_DEADLOCK FALSE
