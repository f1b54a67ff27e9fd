SPECIFICATION ContextSpec
CONSTANTS
  ItemLimit = 2
  MaxMessages = 6
  MaxClears = 0
INVARIANTS InstructionTold
CHECK_DEADLOCK FALSE
