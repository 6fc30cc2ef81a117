SPECIFICATION FairSpec
CONSTANTS
  p1 = p1
  p2 = p2
  m1 = m1
  none = none
  Publishers = {p1, p2}
  MessageIds = {m1}
  NoMessageId = none
  MaxId = 2
  MaxBegun = 2
  MIN_WINDOW = 1
  MaxRestarts = 1
CHECK_DEADLOCK FALSE
INVARIANT OneRowPerMessageId
PROPERTIES ImplementsFeed EveryRowIsHandled
