SPECIFICATION FairSpec
CONSTANTS
  w1 = w1
  w2 = w2
  evA = evA
  evB = evB
  evC = evC
  garbled = garbled
  invalid = invalid
  Garbled = garbled
  Invalid = invalid
  Workers = {w1, w2}
  NumEntries = 3
  Events = {evA}
  Body <- BodyMixed
  Unkeyed = {}
  Rank <- RankSame
  BatchSize = 1
  MaxDeliveries = 2
  FaultKinds = {"stop", "guard", "expire", "ack", "read"}
  MaxFaults = 1
INVARIANTS
  CeilingRespected
  NoEventLost
PROPERTIES
  RefinesReliableBus
  EntrySettled
