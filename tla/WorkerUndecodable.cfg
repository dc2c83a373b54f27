SPECIFICATION Spec
CONSTANTS
  w1 = w1
  w2 = w2
  evA = evA
  evB = evB
  evC = evC
  garbled = garbled
  invalid = invalid
  Garbled = garbled
  Invalid = invalid
  Workers = {w1, w2}
  NumEntries = 3
  Events = {evA}
  Body <- BodyMixed
  Unkeyed = {}
  Rank <- RankSame
  BatchSize = 2
  MaxDeliveries = 2
  FaultKinds = {}
  MaxFaults = 0
INVARIANTS
  ParkedOnce
