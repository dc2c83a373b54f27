SPECIFICATION Spec
CONSTANTS
  Limits <- SomeLimits
  Separators = 2
  Slack = 1
  MaxText = 4
  MaxParts = 2
  MaxSlices = 3
  short = short
  long = long
  huge = huge
  Texts = {short, long, huge}
  NoVector = NoVector
  TokensOf <- Weights
  InputLimit = 4
  BatchItems = 2
  BatchTokens = 3
  CacheSize = 2
  MaxList = 4
  MaxLists = 2
  MaxAttempts = 2
  MaxRounds = 2
  ToolsOffered = TRUE
  MaxCalls = 2
  p1 = p1
  p2 = p2
  p3 = p3
  botA = botA
  botB = botB
  Processes = {p1, p2, p3}
  Bots = {botA, botB}
  BotOf <- BotOfProcess
  PortOf <- SamePort
  BaseDelay = 2
  MaxDelay = 5
  MaxStarts = 1
  MaxCounted = 2
  FullDelay <- Doubled
  c1 = c1
  c2 = c2
  nobody = nobody
  Callers = {c1, c2}
  Nobody = nobody
  ReadCount = 2
  MaxReplies = 3
  u1 = u1
  u2 = u2
  u3 = u3
  u4 = u4
  d1 = d1
  d2 = d2
  Chunks = {u1, u2, u3, u4, d1, d2}
  Turns = {u1, u2, u3, u4}
  When <- Times
  Relevance <- SomeRelevance
  Alike <- SomeAlike
  Words <- SomeWords
  TopKs = {1, 2}
  Multiplier = 2
  MaxFetch = 3
  Lambda = 7
  RecentLimit = 2
  WindowFactor = 1
  WindowFloor = 3
INVARIANTS
  PipelinesInv
  ChunkSizes
  ChunksCover
  VectorsMatch
  TranscriptAnswered
  RerunsNeedRetry
  EffortBounded
  OneSubscriber
  MissedExplained
  AnswerDistinct
  RecentExact
  AnswerFull
PROPERTIES
  SplitEnds
  StopHeeded
CHECK_DEADLOCK FALSE
