SPECIFICATION Spec
CONSTANTS
  a = a
  b = b
  c = c
  d = d
  Null = Null
  v = v
  w = w
  Value = {v, w}
  Key <- MCKey
  Hash <- MCHash
  Initial = {0, 6}
INVARIANT WellFormed
PROPERTIES EachSlotOnce ImplementsDict
