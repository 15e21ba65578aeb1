CONSTANTS
  Jobs = {1}
  Workers = {w1, w2}
  MaxAttempts = 2
  MaxFaults = 1
  Serves <- ServesAll
SPECIFICATION Spec
PROPERTIES
  TerminalIsFinal
