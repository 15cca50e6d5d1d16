SPECIFICATION IOSpec
CONSTANTS
  Number <- MCNumber
  FloatResult = {0, 1}
  Slot <- MCSlot
  StringSlot <- MCStringSlot
  NoVar = NoVar
  Programs <- IOPrograms
  FormatG <- MCFormatG
  Format12G <- MCFormatG
  Atof <- MCAtof
  IsNumeric <- MCIsNumeric
  Consoles <- MCConsoles
  FileNames <- MCFileNames
  InitialFiles <- MCInitialFiles
  MaxCalls = 1
  MaxLoops = 1
INVARIANTS IOTypeOK HandlesBalanced IOStackSound IOHeapBalanced PrintedAsWritten InputDelivers ReadsLastWrite
CHECK_DEADLOCK FALSE
