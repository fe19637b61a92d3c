SPECIFICATION Spec
CONSTANTS
  NumBrokers = 3
  Live = {1, 2}
  MockOnline = {}
  Orders = {o1, o2}
  MaxRetries = 2
INVARIANTS
  TypeOK
  TriedOnce
PROPERTIES
  PassedOverAreMarked
