SPECIFICATION FairSpec
CONSTANTS
  self = self
  ann = ann
  bob = bob
  dm = dm
  group = group
  post = post
  nopost = nopost
  NoPost = nopost
  NumItems = 8
  Comments = {5, 6, 7}
  Place <- PlaceHeard
  DMs = {dm}
  Author <- AuthorHeard
  Self = self
  Muted = {}
  Mentions = {1, 5, 6}
  Replies = {2, 3, 7, 8}
  Blank = {4}
  Undated = {}
  Malformed = {}
  AnswerDMs = TRUE
  AnswerReplies = TRUE
  HistoryWindow = 2
  ReplyWindow = 2
  PageSize = 2
  DedupeWindow = 8
  Cooldown = 1
  Hour = 2
  MaxReplies = 1
  MaxAttempts = 2
  MaxTime = 2
  FaultKinds = {"crash", "drop", "repeat", "delete", "read", "index", "compose", "lost", "down", "reject"}
  MaxFaults = 1
PROPERTIES
  FramesHeard
CHECK_DEADLOCK FALSE
