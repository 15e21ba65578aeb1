CONSTANTS
  Cases = {c1}
  Actors <- AnaBothWays
  Decisions = {"approved"}
  Sessions = {s1, s2}
  MaxRequests = 4
SPECIFICATION Spec
PROPERTIES
  TerminalStays
CHECK_DEADLOCK FALSE
