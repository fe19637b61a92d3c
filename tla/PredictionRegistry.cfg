SPECIFICATION PredictionsSpec
CONSTANTS
  Threads = {a, b}
  MaxPredictions = 2
  MaxTime = 2
  Horizon = 1
  Hour = 1
  MinPredictions = 2
INVARIANTS
  PredictionsTypeOK
  SavedUnlessSwept
PROPERTIES
  OutcomesKept
