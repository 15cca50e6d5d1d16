SPECIFICATION CompilerSpec
CONSTANTS
  Number <- MCNumber
  Slot <- MCSlot
  StringSlot <- MCStringSlot
  NoVar = NoVar
  ParseTree <- MCParseTree
  StatementTree <- MCStatementTree
  Depth <- MCDepth
  Sources <- AllSources
INVARIANTS ReferencesResolved PatchesOwed FailsOnUndefinedLine 
PROPERTIES EmittedCodeStays
CHECK_DEADLOCK FALSE
