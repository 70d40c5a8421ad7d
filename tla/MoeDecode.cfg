CONSTANTS
  NumLayers = 3
  num_hidden_layers = 3
  top_k = 2
  DeferredExperts = 1
  DeferredMaxQlen = 2
  Qlens = {1, 2, 3}
  SyncSteps = {TRUE, FALSE}
  MaxSteps = 3
SPECIFICATION Spec
INVARIANTS TypeOK BackendExclusive ResultsRight
PROPERTIES StepsComplete DestructorsReturn
CHECK_DEADLOCK FALSE
