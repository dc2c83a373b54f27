SPECIFICATION FairSpec
CONSTANTS
  w1 = w1
  w2 = w2
  evA = evA
  evB = evB
  evC = evC
  garbled = garbled
  invalid = invalid
  Garbled = garbled
  Invalid = invalid
  Workers = {w1}
  NumEntries = 2
  Events = {evA, evB}
  Body <- BodyDistinct
  Unkeyed = {}
  Rank <- RankReversed
  BatchSize = 2
  MaxDeliveries = 2
  FaultKinds = {}
  MaxFaults = 0
PROPERTIES
  EntrySettled
