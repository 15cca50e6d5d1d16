SPECIFICATION CompilerSpec
CONSTANTS
  Number <- MCNumber
  Slot <- MCSlot
  StringSlot <- MCStringSlot
  NoVar = NoVar
  ParseTree <- MCParseTree
  StatementTree <- MCStatementTree
  Depth <- MCDepth
  Sources <- MultiStatementSources
INVARIANT LandsOnFirstStatement
CHECK_DEADLOCK FALSE
