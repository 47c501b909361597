CONSTANTS
  Data <- MCData
  Prefix <- MCPrefix
  IntRange = 16
  Queries <- MCFilteredSum
  Modes = {TRUE, FALSE}
  TrimModes = {TRUE, FALSE}
SPECIFICATION CompilerSpec
INVARIANT ResultCorrect
CHECK_DEADLOCK FALSE
