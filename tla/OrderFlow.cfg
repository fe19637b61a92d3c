SPECIFICATION Spec
CONSTANTS
  Orders = {o1, o2}
  Quantity = 2
  Odd = {o2}
  MaxTold = 3
  NumBrokers = 2
  Paper = {2}
  MaxScore = 1
  DefaultScore = 1
  MaxSubmits = 3
INVARIANTS
  TypeOK
PROPERTIES
  ImplementsOrderLife
  RejectedOnlyUnconnected
