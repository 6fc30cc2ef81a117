SPECIFICATION FairSpec
CONSTANTS
  o1 = o1
  m1 = m1
  t1 = t1
  t2 = t2
  none = none
  Objects = {o1}
  Keys <- MCKeys
  Tasks = {t1, t2}
  NoTask = none
  IDLE_LIMIT = 2
  Media = {m1}
  Attached <- MCAttached
  Variants = {"preview", "icon"}
  Overlap = FALSE
  MediaInTime = TRUE
  MaxActivity = 3
  MaxBreaks = 1
  MaxRestarts = 1
CHECK_DEADLOCK FALSE
INVARIANTS  ForwardedFaithfully
PROPERTIES EveryActivityIsForwarded
