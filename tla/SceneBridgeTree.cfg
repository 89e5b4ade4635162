SPECIFICATION MCSpec
CONSTANTS
  e1 = e1
  e2 = e2
  e3 = e3
  e4 = e4
  Ids = {e1, e2, e3, e4}
  Root = Root
  NoId = NoId
  NoUri = NoUri
  NoScene = NoScene
  NoText = NoText
  Uris = {"main.vecn", "other.vecn"}
  Values = {0}
  Misnamed = {}
  Default = 0
  Contents <- TwoInAChain
  PatchTarget <- MCPatchTarget
  HistoryLimit = 1
  MaxEdits = 4
INVARIANTS TypeOK ScenesAreForests
CHECK_DEADLOCK FALSE
