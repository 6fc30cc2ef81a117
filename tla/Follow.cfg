SPECIFICATION FairSpec
CONSTANTS
  u = u
  v = v
  r = r
  Locals <- LocalUsers
  Remotes <- RemoteActors
  Edges <- AllEdges
  KnownVerbs <- Verbs
  Noise = {"Move"}
  MaxEvents = 4
  MaxRestarts = 1
CHECK_DEADLOCK FALSE
INVARIANTS RecordedInOrder TablesAreTrue
PROPERTIES FollowsAreSettled
