SPECIFICATION MCFairSpec
CONSTANTS
  main = main
  other = other
  Files = {main, other}
  NoFile = NoFile
  NoText = NoText
  Kinds = {"ok", "broken", "old", "empty"}
  OtherKinds = {"ok", "broken", "old"}
  Texts <- MCTexts
  Home <- MCHome
  Normal <- MCNormal
  Valid <- MCValid
  Populated <- MCPopulated
  Attempts = 1
  MaxSteps = 3
INVARIANTS TypeOK InSync FilesKeepTheirScenes
PROPERTIES Settles WorkRunsOut
CHECK_DEADLOCK FALSE
