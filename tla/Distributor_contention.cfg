SPECIFICATION Spec
CONSTANTS
  a1 = a1
  a2 = a2
  w1 = w1
  w2 = w2
  none = none
  Activities = {a1, a2}
  Workers = {w1, w2}
  NoWorker = none
  LEASE = 1
  INITIAL_RETRY = 1
  MAX_RETRY = 1
  MAX_TOTAL = 1
  PromptSend = FALSE
  PromptApply = TRUE
  MaxRestarts = 1
SYMMETRY Symmetry
CHECK_DEADLOCK FALSE
INVARIANTS AttemptSentOnce AttemptsContiguous FirstInFirstOut
