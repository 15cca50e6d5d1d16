SPECIFICATION FairSpec
CONSTANTS
  Number <- MCNumber
  FloatResult = {0, 1}
  Slot <- MCSlot
  StringSlot <- MCStringSlot
  NoVar = NoVar
  Programs <- BasicPrograms
  FormatG <- MCFormatG
  Atof <- MCAtof
  MaxCalls = 2
  MaxLoops = 4
INVARIANTS LoopsCount
PROPERTIES Terminates 
CHECK_DEADLOCK FALSE
