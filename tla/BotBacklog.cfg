SPECIFICATION Spec
CONSTANTS
  self = self
  ann = ann
  bob = bob
  dm = dm
  group = group
  post = post
  nopost = nopost
  NoPost = nopost
  NumItems = 2
  Comments = {}
  Place <- PlaceMentions
  DMs = {dm}
  Author <- AuthorMentions
  Self = self
  Muted = {}
  Mentions = {1, 2}
  Replies = {}
  Blank = {}
  Undated = {}
  Malformed = {}
  AnswerDMs = TRUE
  AnswerReplies = TRUE
  HistoryWindow = 3
  ReplyWindow = 2
  PageSize = 2
  DedupeWindow = 5
  Cooldown = 1
  Hour = 2
  MaxReplies = 1
  MaxAttempts = 2
  MaxTime = 3
  FaultKinds = {"delete"}
  MaxFaults = 1
INVARIANTS
  NoBacklogAnswered
CHECK_DEADLOCK FALSE
