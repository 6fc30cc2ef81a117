SPECIFICATION Spec
CONSTANTS
  a1 = a1
  a2 = a2
  w1 = w1
  w2 = w2
  none = none
  Activities = {a1, a2}
  Workers = {w1, w2}
  NoWorker = none
  LEASE = 2
  INITIAL_RETRY = 1
  MAX_RETRY = 2
  MAX_TOTAL = 2
  PromptSend = TRUE
  PromptApply = TRUE
  MaxRestarts = 0
SYMMETRY Symmetry
CHECK_DEADLOCK FALSE
PROPERTY OnceAndInTime
