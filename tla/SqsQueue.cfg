CONSTANTS
  Jobs = {1}
  w1 = w1
  w2 = w2
  w3 = w3
  Workers = {w1, w2}
  MaxAttempts = 2
  MaxFaults = 1
  MaxMessages = 4
  MaxReceives = 2
  Serves <- ServesAll
SPECIFICATION FairSpec
INVARIANTS
  WaitingJobHasMessage
  MessagesPaidFor
PROPERTIES
  ImplementsLifecycle
  StoredJobsSettleOrStrand
