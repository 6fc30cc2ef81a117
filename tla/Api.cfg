SPECIFICATION Spec
CONSTANTS
  c1 = c1  a1 = a1  a2 = a2  a3 = a3  a4 = a4  a5 = a5  l1 = l1  l2 = l2  l3 = l3
  me = me  u2 = u2  x = x  y = y
  Contents = {c1}
  Announces = {a1, a2, a3, a4, a5}
  Likes = {l1, l2, l3}
  Author <- MCAuthor
  EmojiOf <- MCEmojiOf
  Nr <- MCNr
  Direct = {c1}
  Recipients <- MCRecipients
  Me = me
  Users = {me, u2}
  Casts <- MCCasts
  MaxEvents = 4
  MaxRestarts = 1
  Messages = {1, 2, 3, 4}
  Sender <- MCSender
  MentionChoices <- MCMentions
  MaxArrivals = 4
  MaxStarts = 1
  Notes = {1, 2, 3, 4}
  Authors = {"a", "b"}
  MaxDepth = 3
  Ids = {1, 2, 3, 4}
  Limit = 2
  MaxChanges = 2
  People = {"fan@x", "x", "other@y"}
  HostOf <- MCHostOf
  Servers = {"x"}
  Fans = {"fan@x"}
  Answered = "other@y"
  MaxActivities = 3
  MaxMoves = 2
  MaxOutStarts = 1
  MaxKeys = 2
  MaxSigStarts = 1
  MaxCodes = 1
  MaxTokens = 2
  MaxOauthStarts = 1
  Files = {"f", "g"}
  Uploaders = {"u", "v"}
  MaxMediaStarts = 1
INVARIANTS
  InteractionsAreTrue
  CompressionKeepsContent
  RecipientsCanRead
  ConversationsStayWhole
  ThreadsKeepTheirShape
  WalkMissesNothing
  ServedToTheEntitled
  

  
CHECK_DEADLOCK FALSE
