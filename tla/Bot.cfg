SPECIFICATION Spec
CONSTANTS
  self = self
  ann = ann
  bob = bob
  dm = dm
  group = group
  post = post
  nopost = nopost
  NoPost = nopost
  NumItems = 5
  Comments = {2, 5}
  Place <- PlaceMixed
  DMs = {}
  Author <- AuthorMixed
  Self = self
  Muted = {}
  Mentions = {1, 2, 4}
  Replies = {2, 3, 5}
  Blank = {}
  Undated = {}
  Malformed = {}
  AnswerDMs = TRUE
  AnswerReplies = TRUE
  HistoryWindow = 3
  ReplyWindow = 2
  PageSize = 2
  DedupeWindow = 4
  Cooldown = 1
  Hour = 1
  MaxReplies = 1
  MaxAttempts = 2
  MaxTime = 4
  FaultKinds = {"crash", "repeat", "delete", "read", "lost", "down"}
  MaxFaults = 2
INVARIANTS
  DecidedOnce
  WindowSuffices
  AnsweredTwiceExplained
  BacklogIgnored
  RateLimited
  BotInv
CHECK_DEADLOCK FALSE
