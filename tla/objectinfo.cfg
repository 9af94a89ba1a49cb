SPECIFICATION Spec
CONSTANTS
  Obj = {1, 2}
  KeyOrder <- MCKeyOrder
  Info = {a, b}
  MaxHeld = 3
  MaxChanges = 1
SYMMETRY InfoSymmetry
INVARIANTS HeldSound ReadsBack
PROPERTIES StackKept WalkMeetsAll
CHECK_DEADLOCK FALSE
