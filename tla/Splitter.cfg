SPECIFICATION Spec
CONSTANTS
  u1 = u1
  u2 = u2
  r1 = r1
  r2 = r2
  o1 = o1
  o2 = o2
  forever = forever
  Users = {u1}
  Remotes = {r1}
  Objects = {o1, o2}
  Boostable = {o2}
  Own = {o1}
  Author = u1
  Interrupts = FALSE
  Verbs = {"Create", "Update", "Delete", "Announce", "UndoAnnounce", "Directed"}
  Forever = forever
  Tidy = TRUE
  MaxFollower = 2
  MaxActivity = 3
  MaxRestarts = 1
SYMMETRY Symmetry
CHECK_DEADLOCK FALSE
INVARIANTS  FollowersOfTheTimeGetIt NoStrangers
