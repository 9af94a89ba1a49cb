SPECIFICATION LibrarySpec
CONSTANTS
  Class <- MCClass
  Script = {"Task"}
  Chain <- MCChain
  Allocators <- MCAllocators
  Bound <- MCBound
  MaxNative = 2
  MaxInst = 2
  MaxWrap = 2
  MaxCalls = 4
  Elem = {1, 2}
  Size = {0, 2, 5, 20}
  MaxSort = 5
  ArrayCalls = 2
  Base = 2
  MaxBytes = 10
  BlobCalls = 3
  MaxSymbols = 5
  Alphabet = {"a", "b"}
  MaxLetters = 3
INVARIANTS NativesOwned RunsOnOwn HandlesCounted RegexpsRight
PROPERTIES ImplementsList SortEnds ImplementsStream
CHECK_DEADLOCK FALSE
