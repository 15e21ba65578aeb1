CONSTANTS
  Cases = {c1}
  Actors <- AnaBothWays
  Decisions = {"approved", "rejected"}
  Sessions = {s1, s2}
  MaxRequests = 5
SPECIFICATION Spec
INVARIANTS
  FeedbackAgrees
  AuditTellsStatus
  ReviewerActedLast
PROPERTIES
  ImplementsLifecycle
CHECK_DEADLOCK FALSE
