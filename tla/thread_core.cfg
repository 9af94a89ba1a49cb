SPECIFICATION Spec
CONSTANTS
  t1 = t1
  t2 = t2
  o1 = o1
  x1 = x1
  Null = Null
  Thread = {t1, t2}
  Object = {o1}
  Trigger = {x1}
  MaxTimeout = 1
  Diff = {1}
  Priority = {10}
  DefaultPriority = 10
  StepModes = {TRUE, FALSE}
  Load = {"func"}
  WaitArgs <- MCWaitArgs
  NotifyTargets = {o1}
  ForeignWait = FALSE
  Nested = {FALSE}
  ExecSelf = FALSE
SYMMETRY Symmetry
INVARIANTS TypeOK WaitRegistered NoStaleWaiter SystemChildLive LiveInList StackMatchesVM RawPointersHeld
PROPERTIES SystemReturnsCode
CHECK_DEADLOCK FALSE
