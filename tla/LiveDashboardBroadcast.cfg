SPECIFICATION Spec
CONSTANTS
  Clients = {w1, w2}
  Requests = {get}
  Updater = updater
  MaxVersion = 1
PROPERTIES
  BroadcastReachesAll
