SPECIFICATION SocialSpec
CONSTANTS
  job = job
  loop = loop
  news = news
  blog = blog
  a = a
  b = b
  silent = silent
  Worker = {job, loop}
  HostOf <- MCHostOf
  FeedList <- MCFeedList
  Item = {a, b}
  FeedOf <- MCFeedOf
  ItemsPerFeed = 1
  Text <- MCText
  Answers <- MCAnswers
  NoAnswer = silent
  Handler = {h1, h2, h3}
  MaxRequests = 1
  FailOpen = FALSE
  MaxFailures = 1
  Situation <- MCSituation
  MaxTradeWei = 40
  RiskTolerance = 5
  MinEdge = 500
  MinConfidence = 900
INVARIANTS IngestedOnce LimitHolds TradesFollowSignals
PROPERTIES ListedIsStored
