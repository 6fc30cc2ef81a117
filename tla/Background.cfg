SPECIFICATION Spec
CONSTANTS
  Things = {"a"}
  MaxOriginals = 3
  MaxHealStarts = 1
  Referrers = {"r", "s"}
  MaxReferences = 2
  MaxVersion = 1
  MaxAttempts = 1
  TombstoneThreshold = 1
  MaxStops = 1
  Tickers = {"p", "q"}
  MaxUserEvents = 6
  MaxUserStarts = 1
  Items = {"f", "s"}
  KindOf <- MCKindOf
  MaxItemEvents = 2
  MaxPersonEvents = 2
  MaxAccountStarts = 1
  MaxAsked = 2
  MaxClock = 2
  Lifetime = 0
  MaxTries = 1
  MaxResolverStarts = 1
  Collections = {"n", "m"}
  MaxRefreshes = 2
  MaxTime = 1
  QueueSize = 1
  RefreshAfter = 1
  ReadLease = 0
  MaxFailures = 1
  MaxReaderStarts = 1
  MaxNews = 5
  MaxHour = 2
  GiveUpAfter = 2
  MaxServerStarts = 1
  Profiles = {"a", "b"}
  MaxFindings = 3
  MaxEdits = 3
  MaxMeStarts = 1
  Accts <- MCAccts
  Urls <- MCUrls
  Domain <- MCDomain
  Smallest <- MCSmallest
  MaxHops = 1
  ActorUrls = {"url"}
  StrangerAccts = {"acct"}
  Sources = {"incoming_activities", "raw_activities"}
  MaxActivities = 2
  MaxExtractorStarts = 1
  Mentioned = {"a", "b"}
  MaxRaw = 2
  MaxFound = 1
  MaxPolishStarts = 1
  Crews <- MCCrews
  Values = {0, 1}
  EditedFields = {"cv", "header"}
  Redrawn = {"avatar"}
  MaxPageEdits <- MCPageEdits
  MaxImports <- MCImports
INVARIANTS
  QuietMeansResolved
  AnnouncementsAreCurrent
  CountsAreTrueUnlessRaced
  ResolvedFromBothSides
  NeverReadTwiceAtOnce
  
  ProjectionsAgree
PROPERTIES
  
  NothingAskedIsForgotten
CHECK_DEADLOCK FALSE
