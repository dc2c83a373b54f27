SPECIFICATION Spec
CONSTANTS
  w1 = w1
  w2 = w2
  evA = evA
  evB = evB
  evC = evC
  garbled = garbled
  invalid = invalid
  Garbled = garbled
  Invalid = invalid
  Workers = {w1, w2}
  NumEntries = 2
  Events = {evA}
  Body <- BodyRetried
  Unkeyed = {}
  Rank <- RankSame
  BatchSize = 2
  MaxDeliveries = 2
  FaultKinds = {"crash", "stop", "slow", "guard", "release", "expire", "ack", "dlq", "counts", "read"}
  MaxFaults = 3
SYMMETRY Symmetric
INVARIANTS
  ClaimAccounted
  OneOwner
  AtMostOnce
  LossExplained
  CutoffNotEarly
  SafetyInv
PROPERTIES
  FleetMoves
