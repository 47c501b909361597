SPECIFICATION Spec
CONSTANTS
  MaxTokens = 5
  Token <- SomeTokens
  Cli <- SomeTexts
  Files <- EveryFile
  Typed <- SomeLines
INVARIANT PrefixesByWords
PROPERTY FileHandedOver
CHECK_DEADLOCK FALSE
