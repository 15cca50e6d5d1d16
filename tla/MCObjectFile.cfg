SPECIFICATION FileSpec
CONSTANTS
  MaxNumericVars = 2
  MaxStringVars = 1
  MaxArrays = 1
  Number = {1, 2}
  Sources <- MCSources
INVARIANTS OperandsResolve LoadedIsSaved StringArraysMarked
CHECK_DEADLOCK FALSE
