SPECIFICATION Spec
CONSTANTS
  t1 = t1
  t2 = t2
  o1 = o1
  Null = Null
  Thread = {t1, t2}
  Object = {o1}
  Trigger = {}
  MaxTimeout = 0
  Diff = {1}
  Priority = {10}
  DefaultPriority = 10
  StepModes = {}
  Load = {"func", "none"}
  WaitArgs <- MCWaitArgs
  NotifyTargets = {t1, t2, o1}
  ForeignWait = TRUE
  Nested = {TRUE, FALSE}
  ExecSelf = FALSE
SYMMETRY Symmetry
PROPERTIES NotifyServes ImplementsLife
CHECK_DEADLOCK FALSE
