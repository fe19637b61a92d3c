SPECIFICATION FairSpec
CONSTANTS
  Clients = {w1, w2}
  Requests = {get}
  Updater = updater
  MaxVersion = 1
INVARIANTS
  TypeOK
  Coherent
  ListenersRegistered
PROPERTIES
  ClientsConverge
  ClosedForgotten
