SPECIFICATION FairSpec
CONSTANTS
  h1 = h1
  h2 = h2
  h3 = h3
  Null = Null
  Handler = {h1, h2, h3}
INVARIANT CallsInOrder
PROPERTY PassKept
CHECK_DEADLOCK FALSE
