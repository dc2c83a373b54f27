SPECIFICATION Spec
CONSTANTS
  w1 = w1
  w2 = w2
  evA = evA
  evB = evB
  evC = evC
  garbled = garbled
  invalid = invalid
  Garbled = garbled
  Invalid = invalid
  Workers = {w1, w2}
  NumEntries = 2
  Events = {evA, evB}
  Body <- BodyDistinct
  Unkeyed = {}
  Rank <- RankSame
  BatchSize = 1
  MaxDeliveries = 2
  FaultKinds = {"crash"}
  MaxFaults = 1
INVARIANTS
  NoEventLost
