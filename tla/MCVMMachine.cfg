SPECIFICATION ArraySpec
CONSTANTS
  Number <- MCNumber
  FloatResult = {0, 1}
  Slot <- MCSlot
  StringSlot <- MCStringSlot
  NoVar = NoVar
  Programs <- MachinePrograms
  FormatG <- MCFormatG
  Atof <- MCAtof
  MaxCalls = 2
  MaxLoops = 2
INVARIANTS TypeOK StackSound NoDoubleFree ArraysShaped NoCellFreedTwice
PROPERTIES WritesOneElement ReadsElement
CHECK_DEADLOCK FALSE
