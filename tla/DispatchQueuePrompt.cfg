SPECIFICATION TimedSpec
CONSTANTS
  Workers = {w1}
  Callers = {c1}
  Jobs = {j1, j2, j3}
  None = None
  Delays = {1, 2}
  MaxTime = 4
PROPERTIES DispatchIsPrompt
CHECK_DEADLOCK FALSE
