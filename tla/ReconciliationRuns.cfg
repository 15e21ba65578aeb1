CONSTANTS
  RateScale = 100
  s1 = s1
  s2 = s2
  Sessions = {s1, s2}
  OrderRows <- MCOrderRows
  ReceiptRows <- MCReceiptRows
  InvoiceRows <- MCInvoiceRows
  Indexes <- MCIndexes
  FirstBooks <- MCFirstBooks
  Tolerances <- MCTolerances
  Requests <- MCRequests
  MaxEdits = 1
  MaxRequests = 3
SYMMETRY Symmetry
SPECIFICATION Spec
INVARIANTS
  VersionsTell
PROPERTIES
  AnswerIsCurrent
  ImpactAddsUp
  CleanRunsAgree
  RaisingSilences
CHECK_DEADLOCK FALSE
