SPECIFICATION Spec
CONSTANTS
  Number <- MCNumber
  FloatResult = {0, 1}
  Slot <- MCSlot
  StringSlot <- MCStringSlot
  NoVar = NoVar
  Programs <- TangledAndFailing
  FormatG <- MCFormatG
  Atof <- MCAtof
  MaxCalls = 2
  MaxLoops = 2
INVARIANTS StackSound ControlSound NoTypeError HeapBalanced
PROPERTIES TrapCatches CaughtErrorKeepsState
CHECK_DEADLOCK FALSE
