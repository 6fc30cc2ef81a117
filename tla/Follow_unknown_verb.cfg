SPECIFICATION Spec
CONSTANTS
  u = u
  v = v
  r = r
  Locals <- LocalUsers
  Remotes <- RemoteActors
  Edges <- AllEdges
  KnownVerbs <- Verbs
  Noise = {"Move"}
  MaxEvents = 2
  MaxRestarts = 0
CHECK_DEADLOCK FALSE
INVARIANT OtherActivitiesAreIgnored
