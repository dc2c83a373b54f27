SPECIFICATION Spec
CONSTANTS
  w1 = w1
  w2 = w2
  evA = evA
  evB = evB
  evC = evC
  garbled = garbled
  invalid = invalid
  Garbled = garbled
  Invalid = invalid
  Workers = {w1}
  NumEntries = 3
  Events = {evA, evB, evC}
  Body <- BodyThree
  Unkeyed = {}
  Rank <- RankSame
  BatchSize = 2
  MaxDeliveries = 1
  FaultKinds = {}
  MaxFaults = 0
INVARIANTS
  CeilingRespected
