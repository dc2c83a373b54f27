SPECIFICATION Spec
CONSTANTS
  w1 = w1
  w2 = w2
  t1 = t1
  t2 = t2
  doc = doc
  msg = msg
  chat = chat
  other = other
  textA = textA
  textB = textB
  noText = noText
  hello = hello
  Workers = {w1, w2}
  Requests <- AllCalls
  MaxEvents = 3
  MaxDeliveries = 2
  FaultKinds = {"crash", "raise", "again"}
  MaxFaults = 2
SYMMETRY Symmetric
CONSTRAINT Small
INVARIANTS
  IndexInv
  OneRevision
  ComebackExplained
  IndexCurrent
  EmptyExplained
  AnswerIsolated
PROPERTIES
  ReadersNeverGoBack
CHECK_DEADLOCK FALSE
