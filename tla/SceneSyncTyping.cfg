SPECIFICATION MCSpec
CONSTANTS
  main = main
  other = other
  Files = {main, other}
  NoFile = NoFile
  NoText = NoText
  Kinds = {"ok", "broken", "old", "empty"}
  OtherKinds = {"ok", "broken"}
  Texts <- MCTexts
  Home <- MCHome
  Normal <- MCNormal
  Valid <- MCValid
  Populated <- MCPopulated
  Attempts = 1
  MaxSteps = 3
PROPERTY TypingReachesBridge
CHECK_DEADLOCK FALSE
