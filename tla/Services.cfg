CONSTANTS
  Sheets <- ThreeSheets
  Exceptions <- FourExceptions
  Answers <- AllAnswers
  Failures <- EveryFailure
  TokenOf <- Spellings
  MaxAttempts = 3
  MinConfidence = 85
  MaxImpact = 0
  Operators = {"o1", "o2"}
  PageSize = 2
  MaxPackages = 3
  MaxCalls = 6
  WorkflowCases = {"c1", "c2"}
  WorkflowCallers = {"w1", "w2"}
  Timeout = 1
  MaxTokens = 2
  MaxNow = 1
  Keys = {"k1", "k2"}
  Bearers = {"old", "new", "stale"}
  Content <- TokenContent
  Threads = {"t1", "t2"}
  Refresh = 2
  MaxTime = 3
  Processes = {"p1"}
  Callers = {"ana"}
  Requests = {"r1", "r2", "r3"}
  HomeOf <- ServedBy
  Limit = 2
  Window = 1
  Second = 1
  MaxLimiters = 2
  MaxArrivals = 6
  MaxTicks = 2
SPECIFICATION ServiceSpec
INVARIANTS
  RouteIsEarned
  CallsPaidFor
  ChampionTold
  OutcomesInOrder
  RefusalsExplained
  AdmissionsPaidFor
CHECK_DEADLOCK FALSE
