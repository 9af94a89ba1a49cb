SPECIFICATION LiveSpec
CONSTANTS
  t1 = t1
  t2 = t2
  Null = Null
  Thread = {t1, t2}
  Object = {}
  Trigger = {}
  MaxTimeout = 2
  Diff = {0, 1}
  Priority = {10}
  DefaultPriority = 10
  StepModes = {}
  Load = {"file"}
  WaitArgs <- MCWaitArgs
  NotifyTargets = {}
  ForeignWait = FALSE
  Nested = {FALSE}
  ExecSelf = FALSE
PROPERTIES NotEarly TimeEnds
CHECK_DEADLOCK FALSE
