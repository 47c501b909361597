CONSTANTS
  Data <- MCData
  Prefix <- MCPrefix
  IntRange = 16
  Queries <- MCStatements
  Modes = {TRUE, FALSE}
  TrimModes = {TRUE, FALSE}
SPECIFICATION CompilerSpec
INVARIANTS PlanMeansQuery RowsTracked ResultCorrect AggregatesComputed ItemsCorrect
PROPERTY PushesExactly
CHECK_DEADLOCK FALSE
