SPECIFICATION Spec
CONSTANTS
  Programs <- MCPrograms
  Slots0 <- MCSlots0
  MaxRegs = 20
  MaxCalls = 10
INVARIANTS SameMeaning TrapsBalanced
PROPERTY Ends
CHECK_DEADLOCK FALSE
