SPECIFICATION Spec
CONSTANTS
  g1 = g1
  Gen = {g1}
  NoGen = NoGen
  Extra = {0, 1}
  MaxFrames = 4
  MaxTraps = 2
  MaxTop = 4
  MAX_NATIVE_CALLS = 4
  Allow = {}
INVARIANTS StacksAgree TrapsFitFrames TrapsCounted FrameAtHome
