SPECIFICATION MCSpec
CONSTANTS
  e1 = e1
  e2 = e2
  e3 = e3
  e4 = e4
  Ids = {e1}
  Root = Root
  NoId = NoId
  NoUri = NoUri
  NoScene = NoScene
  NoText = NoText
  Uris = {"main.vecn"}
  Values = {0, 1}
  Misnamed = {}
  Default = 0
  Contents <- OneEntity
  PatchTarget <- MCPatchTarget
  HistoryLimit = 3
  MaxEdits = 5
INVARIANT PatchedTextTracksScene
CHECK_DEADLOCK FALSE
