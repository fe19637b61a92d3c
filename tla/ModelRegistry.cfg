SPECIFICATION Spec
CONSTANTS
  Names = {n1}
  EarlyStages = {"STAGING"}
  MaxVersion = 3
  MaxModels = 3
INVARIANTS
  OneProduction
  ArtifactsMatch
PROPERTIES
  NoOverwrite
