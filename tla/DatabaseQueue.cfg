CONSTANTS
  Jobs = {1, 2}
  Workers = {w1, w2}
  MaxAttempts = 2
  MaxFaults = 2
  Serves <- ServesAll
SPECIFICATION FairSpec
INVARIANTS
  LeaseBudget
  AttemptsPaidFor
  ResultMatchesState
PROPERTIES
  ImplementsLifecycle
  StoredJobsSettle
