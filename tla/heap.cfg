SPECIFICATION Spec
CONSTANTS
  Obj = {1, 2, 3, 4}
  Slots = 1
  Fields = 1
  MaxHolds = 2
  MaxWrites = 2
  Allow = {}
INVARIANTS CountsExact NothingLost HookOnce
PROPERTIES CollectsGarbage
CHECK_DEADLOCK FALSE
