CONSTANTS
  Jobs = {1}
  w1 = w1
  w2 = w2
  w3 = w3
  Workers = {w1}
  MaxAttempts = 2
  MaxFaults = 0
  MaxMessages = 3
  MaxReceives = 2
  Serves <- ServesAll
SPECIFICATION Spec
INVARIANTS
  StoredJobAnnounced
