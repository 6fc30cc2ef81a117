SPECIFICATION Spec
CONSTANTS
  p1 = p1
  p2 = p2
  none = none
  Publishers = {p1, p2}
  MessageIds = {}
  NoMessageId = none
  MaxId = 4
  MaxBegun = 4
  MIN_WINDOW = 2
  MaxRestarts = 0
SYMMETRY Symmetry
CHECK_DEADLOCK FALSE
INVARIANTS EveryIdAccountedFor GapsAreSettled AlarmIsTrue CaughtUpAtHead
PROPERTIES PassedWindowIsClean
